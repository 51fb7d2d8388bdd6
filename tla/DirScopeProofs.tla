--------------------------- MODULE DirScopeProofs ---------------------------
(***************************************************************************)
(* DirScope for every directory: any locals, resources and module calls    *)
(* that refer to each other in any way, and any order of evaluation.       *)
(***************************************************************************)
EXTENDS DirScope, FiniteSetTheorems, TLAPS

-----------------------------------------------------------------------------
(* The inductive invariant.                                                *)

\* Which call the walk over the modules is in the middle of.
Via == [register |-> "each", settle |-> "entry", price |-> "price"]

\* The call in the walk is at the bottom, forced references are above it.
Nested == /\ stack # <<>> => pc \in DOMAIN Via /\ stack[1].via = Via[pc]
          /\ \A n \in DOMAIN stack : n > 1 => stack[n].via = "entry"
          /\ \A n \in DOMAIN stack : n < Len(stack) => stack[n].cur # None

NoEach == \A m \in Mod : expr.each[m].op = "absent"

FrameOK(f) ==
    /\ f.cur # None => f.cur \in f.todo
    /\ f.via = "each" => /\ f.todo \subseteq {"each"} /\ f.k = 1
                         /\ pc = "register" /\ i <= Len(Order) /\ f.mod = Order[i]
                         /\ NoEach => f.todo = {}
    /\ f.via = "entry" => /\ f.todo \subseteq Input /\ f.k <= insts[f.mod]
                          /\ \A j \in Nums : j <= f.k => <<f.mod, j>> \in built
                          /\ f.mod \in fetch => \A j \in Nums : <<f.mod, j>> \in built => j <= f.k
    /\ f.via = "price" => f.todo = {} /\ pc = "price" /\ f.k <= insts[f.mod]
    /\ (f.cur # None /\ f.asked) =>
          \A x \in fetch : ExprOf(f.mod, f.cur).refs = {x} => entry[x] \in {"running", "done"}
Frames == \A n \in DOMAIN stack : FrameOK(stack[n])

\* A module is running while one call of its outputs is in flight.
IsCall(n, m) == n \in DOMAIN stack /\ stack[n].via = "entry" /\ stack[n].mod = m
Running == \A m \in Mod : /\ entry[m] = "running" <=> \E n \in DOMAIN stack : IsCall(n, m)
                          /\ \A n, k \in DOMAIN stack : IsCall(n, m) /\ IsCall(k, m) => n = k

\* How far the walk over the modules is.
Registered ==
    /\ \A m \in Mod : insts[m] = 0 <=> entry[m] = "unregistered"
    /\ pc \in {"new", "build"} => \A m \in Mod : entry[m] = "unregistered"
    /\ pc = "register" => \A n \in DOMAIN Order : entry[Order[n]] = "unregistered" <=> n >= i
    /\ pc \in {"settle", "final", "price"} => \A m \in Mod : entry[m] # "unregistered"
Forced ==
    /\ pc = "settle" => \A n \in DOMAIN Order :
          (n < i /\ Order[n] \in fetch) => entry[Order[n]] \in {"running", "done"}
    /\ pc \in {"final", "price"} => \A m \in fetch : entry[m] = "done"
    /\ \A m \in Mod, k \in Nums : <<m, k>> \in built => entry[m] # "unregistered"
    /\ \A m \in fetch, k \in Nums : entry[m] = "idle" => <<m, k>> \notin built
    /\ \A m \in fetch, k \in Nums : entry[m] = "done" /\ k <= insts[m] => <<m, k>> \in built
    /\ \A m \in fetch : entry[m] = "done" => out[m] # {}

\* What a sweep has found out when it has changed nothing yet.
Swept ==
    /\ todo \subseteq Pending
    /\ Sweeping /\ ~changed => \A l \in Pending \ todo : InScope(expr.local[l], l) = {}
    /\ pc = "price" => \A l \in Pending : InScope(expr.local[l], l) = {}
    /\ (pc \in DOMAIN Via \/ (pc \in {"build", "final"} /\ ~changed)) => rsrc = Resources(locals)

\* A value that has been read is the value there is, or a fallback.
Lasting ==
    /\ \A r \in Rsrc : rsrc[r] # {} =>
          \/ rsrc[r] = Resources(locals)[r]
          \/ ~TryFree(expr.rsrc[r]) /\ rsrc[r] = Fallback(r)
    /\ \A l \in Local : Stands(expr.local[l], l, locals[l])
    /\ \A m \in Mod, k \in Nums, a \in Input :
          Stands(expr.in[m][a], <<m, a>>, given[m][k][a])

\* A rank falls along the calls, and a direct reference has been seen unless
\* it is still to be evaluated.
Falling == \A rank \in Ranks :
    (\A m, x \in Mod : Uses(m, x) => rank[x] < rank[m]) =>
        \A j, n \in DOMAIN stack : j < n => rank[stack[n].mod] < rank[stack[j].mod]
Ahead(m, k, a) == \E n \in DOMAIN stack : IsCall(n, m) /\ stack[n].k = k /\ a \in stack[n].todo
Seen == (Acyclic /\ NoEach) =>
    \A m \in Mod, k \in Nums, a \in Input :
        (Direct(m, a) /\ <<m, k>> \in built /\ ~Ahead(m, k, a)) => given[m][k][a] # {}

IInv == /\ TypeOK /\ Nested /\ Frames /\ Running /\ Registered /\ Forced
        /\ Swept /\ Lasting /\ Falling /\ Seen

-----------------------------------------------------------------------------
(* Sequences as stacks.                                                    *)

\* Replacing the last element of a sequence.
LEMMA ReplaceLast ==
    ASSUME NEW S, NEW s \in Seq(S), s # <<>>, NEW f \in S,
           NEW t, t = [s EXCEPT ![Len(s)] = f]
    PROVE  /\ t \in Seq(S) /\ Len(t) = Len(s) /\ DOMAIN t = DOMAIN s /\ t # <<>>
           /\ Len(s) \in DOMAIN s /\ t[Len(s)] = f
           /\ \A n \in DOMAIN s : n # Len(s) => t[n] = s[n]
  OBVIOUS

\* Dropping the last element of a sequence.
LEMMA DropLast ==
    ASSUME NEW S, NEW s \in Seq(S), s # <<>>,
           NEW t, t = SubSeq(s, 1, Len(s) - 1)
    PROVE  /\ t \in Seq(S) /\ Len(t) = Len(s) - 1
           /\ \A n \in DOMAIN t : n \in DOMAIN s /\ n < Len(s) /\ t[n] = s[n]
           /\ \A n \in DOMAIN s : n # Len(s) => n \in DOMAIN t
  <1>1. /\ Len(s) \in Nat /\ Len(s) > 0 /\ DOMAIN s = 1..Len(s)
    OBVIOUS
  <1>3. \A n \in 1..(Len(s) - 1) : s[n] \in S  OBVIOUS
  <1>4. t = [n \in 1..(Len(s) - 1) |-> s[n]]  BY <1>1
  <1>5. t \in Seq(S)  BY <1>1
  <1>6. Len(t) = Len(s) - 1 /\ DOMAIN t = 1..(Len(s) - 1)  BY <1>1, <1>4, <1>5
  <1>2. \A n \in DOMAIN t : t[n] = s[n]  OBVIOUS
  <1> QED  BY <1>1, <1>2, <1>5, <1>6

\* Adding an element to a sequence.
LEMMA AddLast ==
    ASSUME NEW S, NEW s \in Seq(S), NEW f \in S, NEW t, t = Append(s, f)
    PROVE  /\ t \in Seq(S) /\ Len(t) = Len(s) + 1 /\ t # <<>>
           /\ Len(t) \in DOMAIN t /\ t[Len(t)] = f
           /\ \A n \in DOMAIN s : n \in DOMAIN t /\ n < Len(t) /\ t[n] = s[n]
           /\ \A n \in DOMAIN t : n # Len(t) => n \in DOMAIN s
  OBVIOUS

-----------------------------------------------------------------------------
(* Types.                                                                  *)

Refer == Local \cup Rsrc \cup Mod
Owner == Refer \cup (Mod \X Names)

LEMMA DirType ==
    ASSUME TypeOK
    PROVE  /\ fetch \subseteq Mod
           /\ \A l \in Local : expr.local[l] \in Expr
           /\ \A r \in Rsrc : expr.rsrc[r] \in Expr
           /\ \A m \in Mod, a \in Names : ExprOf(m, a) \in Expr
           /\ \A m \in Mod, a \in Input : ExprOf(m, a) = expr.in[m][a] /\ expr.in[m][a] \in Expr
           /\ \A m \in Mod : ExprOf(m, "each") = expr.each[m]
  <1>1. expr \in [local : [Local -> Expr], rsrc : [Rsrc -> Expr],
                  in : [Mod -> [Input -> Expr]], each : [Mod -> Expr]]
        /\ fetch \in SUBSET Mod
    BY DEF TypeOK, dir, Dir
  <1> HIDE DEF Expr
  <1> QED  BY <1>1, ScopeAssumption DEF ExprOf, Names

LEMMA ExprType ==
    ASSUME NEW e \in Expr
    PROVE  /\ e.refs \subseteq Refer /\ e.op \in Op
           /\ e.op = "absent" => e.refs = {}
           /\ e.op = "direct" => \E x \in e.refs : e.refs = {x}
  BY DEF Expr, Refer

LEMMA OutputsType ==
    ASSUME TypeOK, NEW m \in Mod, NEW k \in Nums
    PROVE  Outputs(m, k) \in Val
  <1>1. \A a \in Input : given[m][k][a] \in Val  BY DEF TypeOK, Names
  <1>2. <<"own", m>> \in Leaf /\ \A a \in Input : <<"default", <<m, a>>>> \in Leaf
    BY DEF Leaf
  <1>3. \A a \in Input : (IF given[m][k][a] = {} THEN {<<"default", <<m, a>>>>}
                          ELSE given[m][k][a]) \in SUBSET Leaf
    BY <1>1, <1>2 DEF Val
  <1> DEFINE U == {IF given[m][k][a] = {} THEN {<<"default", <<m, a>>>>}
                   ELSE given[m][k][a] : a \in Input}
  <1>4. U \subseteq SUBSET Leaf  BY <1>3
  <1> HIDE DEF U
  <1>5. UNION U \subseteq Leaf  BY <1>4
  <1>6. Outputs(m, k) = IF m \notin fetch THEN {} ELSE {<<"own", m>>} \cup UNION U
    BY DEF Outputs, U
  <1> QED  BY <1>2, <1>5, <1>6 DEF Val

LEMMA ScopeType ==
    ASSUME TypeOK, NEW x \in Refer
    PROVE  Scope(x) \in Val
  <1>1. {} \in Val  BY DEF Val
  <1> QED  BY <1>1 DEF TypeOK, Scope, Refer

LEMMA EvalType ==
    ASSUME NEW e \in Expr, NEW o \in Owner, NEW v, \A x \in e.refs : v[x] \in Val
    PROVE  Eval(e, o, v) \in Val
  <1> DEFINE U == {v[x] : x \in e.refs}
  <1>1. U \subseteq SUBSET Leaf  BY DEF Val
  <1>2. <<"lit", o>> \in Leaf /\ <<"fallback", o>> \in Leaf
    BY DEF Leaf, Owner, Refer, Names
  <1> HIDE DEF U
  <1>3. UNION U \subseteq Leaf  BY <1>1
  <1>4. Eval(e, o, v) \in {{}, {<<"lit", o>>}, UNION U, {<<"fallback", o>>}}
    BY DEF Eval, U
  <1> QED  BY <1>2, <1>3, <1>4 DEF Val

LEMMA InScopeType ==
    ASSUME TypeOK, NEW e \in Expr, NEW o \in Owner
    PROVE  InScope(e, o) \in Val
  <1>1. \A x \in e.refs : Scope(x) \in Val  BY ExprType, ScopeType
  <1> DEFINE v == [x \in e.refs |-> Scope(x)]
  <1>2. \A x \in e.refs : v[x] \in Val  BY <1>1
  <1> HIDE DEF v
  <1>3. Eval(e, o, v) \in Val  BY <1>2, EvalType
  <1> QED  BY <1>3 DEF InScope, v

LEMMA ResourcesType ==
    ASSUME TypeOK
    PROVE  Resources(locals) \in [Rsrc -> Val]
  <1>1. ASSUME NEW r \in Rsrc, NEW v,
               v = [x \in expr.rsrc[r].refs |-> IF x \in Local THEN locals[x] ELSE {}]
        PROVE  Eval(expr.rsrc[r], r, v) \in Val
    <2>1. {} \in Val  BY DEF Val
    <2>2. \A x \in expr.rsrc[r].refs : v[x] \in Val  BY <1>1, <2>1 DEF TypeOK
    <2>3. expr.rsrc[r] \in Expr /\ r \in Owner  BY DirType DEF Owner, Refer
    <2> QED  BY <2>2, <2>3, EvalType
  <1> QED  BY <1>1 DEF Resources

LEMMA ForceType ==
    ASSUME NEW m \in Mod, NEW k \in Nums, NEW v \in {"each", "entry", "price"}
    PROVE  /\ ForceInstance(m, k, v) \in Frame
           /\ ForceInstance(m, k, v).mod = m /\ ForceInstance(m, k, v).k = k
           /\ ForceInstance(m, k, v).via = v /\ ForceInstance(m, k, v).cur = None
           /\ ForceInstance(m, k, v).asked = FALSE
           /\ ForceInstance(m, k, v).todo = IF <<m, k>> \in built \/ m \notin fetch THEN {}
                                            ELSE Present(m, Input)
  <1> DEFINE S == IF <<m, k>> \in built \/ m \notin fetch THEN {} ELSE Present(m, Input)
             f == ForceInstance(m, k, v)
  <1>1. S \subseteq Names  BY DEF Names, Present
  <1>2. f = [mod |-> m, k |-> k, via |-> v, cur |-> None, asked |-> FALSE, todo |-> S]
    BY DEF ForceInstance
  <1> HIDE DEF S
  <1>3. f \in Frame  BY <1>1, <1>2 DEF Frame
  <1>4. f.mod = m /\ f.k = k /\ f.via = v /\ f.cur = None /\ f.asked = FALSE /\ f.todo = S
    BY <1>2
  <1> QED  BY <1>3, <1>4 DEF S

LEMMA TopType ==
    ASSUME TypeOK, stack # <<>>
    PROVE  /\ stack \in Seq(Frame) /\ Len(stack) \in DOMAIN stack /\ Len(stack) \in Nat
           /\ Len(stack) > 0
           /\ Top \in Frame /\ Top = stack[Len(stack)]
           /\ Top.mod \in Mod /\ Top.k \in Nums /\ Top.via \in {"each", "entry", "price"}
           /\ Top.cur \in Names \cup {None} /\ Top.asked \in BOOLEAN /\ Top.todo \subseteq Names
  <1>1. /\ stack \in Seq(Frame) /\ Len(stack) \in DOMAIN stack /\ Len(stack) \in Nat
        /\ Len(stack) > 0
    BY DEF TypeOK
  <1>2. Top \in Frame  BY <1>1 DEF Top
  <1> QED  BY <1>1, <1>2 DEF Frame, Top

LEMMA FrameType ==
    ASSUME TypeOK, NEW n \in DOMAIN stack
    PROVE  /\ stack[n] \in Frame /\ stack[n].mod \in Mod /\ stack[n].k \in Nums
           /\ stack[n].todo \subseteq Names
  <1>1. stack[n] \in Frame  BY DEF TypeOK
  <1> QED  BY <1>1 DEF Frame

LEMMA OrderType ==
    /\ Len(Order) \in Nat /\ DOMAIN Order = 1..Len(Order)
    /\ \A n \in DOMAIN Order : Order[n] \in Mod
  BY ScopeAssumption

-----------------------------------------------------------------------------
(* What the steps do to the stack.                                         *)

LEMMA ReplaceEffect ==
    ASSUME TypeOK, stack # <<>>, NEW f \in Frame, stack' = Replace(f)
    PROVE  /\ stack' \in Seq(Frame) /\ Len(stack') = Len(stack) /\ stack' # <<>>
           /\ DOMAIN stack' = DOMAIN stack /\ stack'[Len(stack)] = f
           /\ \A n \in DOMAIN stack : n # Len(stack) => stack'[n] = stack[n]
  <1>1. stack' = [stack EXCEPT ![Len(stack)] = f]  BY DEF Replace
  <1>2. stack \in Seq(Frame)  BY DEF TypeOK
  <1> QED  BY <1>1, <1>2, ReplaceLast

LEMMA PopEffect ==
    ASSUME TypeOK, stack # <<>>, stack' = Pop
    PROVE  /\ stack' \in Seq(Frame) /\ Len(stack') = Len(stack) - 1
           /\ \A n \in DOMAIN stack' : n \in DOMAIN stack /\ n < Len(stack) /\ stack'[n] = stack[n]
           /\ \A n \in DOMAIN stack : n # Len(stack) => n \in DOMAIN stack'
  <1>1. stack' = SubSeq(stack, 1, Len(stack) - 1)  BY DEF Pop
  <1>2. stack \in Seq(Frame)  BY DEF TypeOK
  <1> QED  BY <1>1, <1>2, DropLast

\* The frames Choose and Answer leave on top, and the one Ask leaves below.
Chosen(a) == [Top EXCEPT !.cur = a, !.asked = FALSE]
Answered  == [Top EXCEPT !.todo = @ \ {Top.cur}, !.cur = None]
Waiting   == [Top EXCEPT !.asked = TRUE]

LEMMA LeftType ==
    ASSUME TypeOK, stack # <<>>
    PROVE  /\ \A a \in Names : /\ Chosen(a) \in Frame /\ Chosen(a).mod = Top.mod
                               /\ Chosen(a).k = Top.k /\ Chosen(a).via = Top.via
                               /\ Chosen(a).todo = Top.todo /\ Chosen(a).cur = a
                               /\ Chosen(a).asked = FALSE
           /\ Answered \in Frame /\ Answered.mod = Top.mod /\ Answered.k = Top.k
           /\ Answered.via = Top.via /\ Answered.todo = Top.todo \ {Top.cur}
           /\ Answered.cur = None
           /\ Waiting \in Frame /\ Waiting.mod = Top.mod /\ Waiting.k = Top.k
           /\ Waiting.via = Top.via /\ Waiting.todo = Top.todo /\ Waiting.cur = Top.cur
           /\ Waiting.asked = TRUE
  <1>1. Top \in Frame  BY TopType
  <1>2. \A a \in Names : /\ Chosen(a) \in Frame /\ Chosen(a).mod = Top.mod
                         /\ Chosen(a).k = Top.k /\ Chosen(a).via = Top.via
                         /\ Chosen(a).todo = Top.todo /\ Chosen(a).cur = a
                         /\ Chosen(a).asked = FALSE
    BY <1>1 DEF Frame, Chosen
  <1>3. /\ Answered \in Frame /\ Answered.mod = Top.mod /\ Answered.k = Top.k
        /\ Answered.via = Top.via /\ Answered.todo = Top.todo \ {Top.cur}
        /\ Answered.cur = None
    BY <1>1 DEF Frame, Answered
  <1>4. /\ Waiting \in Frame /\ Waiting.mod = Top.mod /\ Waiting.k = Top.k
        /\ Waiting.via = Top.via /\ Waiting.todo = Top.todo /\ Waiting.cur = Top.cur
        /\ Waiting.asked = TRUE
    BY <1>1 DEF Frame, Waiting
  <1> QED  BY <1>2, <1>3, <1>4

LEMMA EnterEffect ==
    ASSUME TypeOK, NEW m \in Mod, NEW s \in Seq(Frame), Enter(m, s),
           NEW f, f = ForceInstance(m, 1, "entry")
    PROVE  /\ stack' \in Seq(Frame) /\ Len(stack') = Len(s) + 1 /\ stack' # <<>>
           /\ Len(stack') \in DOMAIN stack' /\ stack'[Len(stack')] = f
           /\ \A n \in DOMAIN s : n \in DOMAIN stack' /\ n < Len(stack') /\ stack'[n] = s[n]
           /\ \A n \in DOMAIN stack' : n # Len(stack') => n \in DOMAIN s
           /\ f \in Frame
           /\ entry' = [entry EXCEPT ![m] = "running"] /\ built' = built \cup {<<m, 1>>}
  <1>1. 1 \in Nums /\ "entry" \in {"each", "entry", "price"}  BY DEF Nums
  <1>2. f \in Frame  BY <1>1, ForceType
  <1>3. stack' = Append(s, f)  BY DEF Enter
  <1>4. /\ stack' \in Seq(Frame) /\ Len(stack') = Len(s) + 1 /\ stack' # <<>>
        /\ Len(stack') \in DOMAIN stack' /\ stack'[Len(stack')] = f
        /\ \A n \in DOMAIN s : n \in DOMAIN stack' /\ n < Len(stack') /\ stack'[n] = s[n]
        /\ \A n \in DOMAIN stack' : n # Len(stack') => n \in DOMAIN s
    BY <1>2, <1>3, AddLast
  <1> QED  BY <1>2, <1>4 DEF Enter

\* A forced reference: the caller waits below the call.
LEMMA AskEffect ==
    ASSUME TypeOK, NEW x \in Mod, Ask(x), NEW f, f = ForceInstance(x, 1, "entry")
    PROVE  /\ stack' \in Seq(Frame) /\ Len(stack') = Len(stack) + 1 /\ stack' # <<>>
           /\ Len(stack) \in DOMAIN stack /\ Len(stack) \in DOMAIN stack'
           /\ stack'[Len(stack)] = Waiting
           /\ Len(stack') \in DOMAIN stack' /\ stack'[Len(stack')] = f /\ f \in Frame
           /\ \A n \in DOMAIN stack : n \in DOMAIN stack' /\ n < Len(stack')
           /\ \A n \in DOMAIN stack : n # Len(stack) => stack'[n] = stack[n]
           /\ \A n \in DOMAIN stack' : n # Len(stack') => n \in DOMAIN stack
           /\ entry' = [entry EXCEPT ![x] = "running"] /\ built' = built \cup {<<x, 1>>}
  <1> DEFINE s == [stack EXCEPT ![Len(stack)] = Waiting]
  <1>1. stack # <<>> /\ Enter(x, s)  BY DEF Ask, Asks, Replace, Waiting
  <1>2. stack \in Seq(Frame) /\ Waiting \in Frame  BY <1>1, TopType, LeftType
  <1>3. /\ s \in Seq(Frame) /\ Len(s) = Len(stack) /\ DOMAIN s = DOMAIN stack
        /\ Len(stack) \in DOMAIN stack /\ s[Len(stack)] = Waiting
        /\ \A n \in DOMAIN stack : n # Len(stack) => s[n] = stack[n]
    BY <1>1, <1>2, ReplaceLast
  <1> HIDE DEF s
  <1>4. /\ stack' \in Seq(Frame) /\ Len(stack') = Len(s) + 1 /\ stack' # <<>>
        /\ Len(stack') \in DOMAIN stack' /\ stack'[Len(stack')] = f
        /\ \A n \in DOMAIN s : n \in DOMAIN stack' /\ n < Len(stack') /\ stack'[n] = s[n]
        /\ \A n \in DOMAIN stack' : n # Len(stack') => n \in DOMAIN s
        /\ f \in Frame
        /\ entry' = [entry EXCEPT ![x] = "running"] /\ built' = built \cup {<<x, 1>>}
    BY <1>1, <1>3, EnterEffect
  <1> QED  BY <1>3, <1>4

\* A call entered from the walk is alone on the stack.
LEMMA SettleEffect ==
    ASSUME TypeOK, Settle, entry[Order[i]] = "idle",
           NEW f, f = ForceInstance(Order[i], 1, "entry")
    PROVE  /\ stack' = <<f>> /\ f \in Frame /\ Order[i] \in Mod /\ i \in DOMAIN Order
           /\ entry' = [entry EXCEPT ![Order[i]] = "running"]
           /\ built' = built \cup {<<Order[i], 1>>}
  <1>1. i \in DOMAIN Order /\ Order[i] \in Mod
    BY ScopeAssumption DEF Settle, TypeOK
  <1>2. 1 \in Nums /\ "entry" \in {"each", "entry", "price"}  BY DEF Nums
  <1>3. Order[i] \in Mod  BY <1>1
  <1>7. f \in Frame  BY <1>2, <1>3, ForceType
  <1>4. stack' = Append(<<>>, f)  BY DEF Settle, Enter
  <1>5. stack' = <<f>>  BY <1>4
  <1> QED  BY <1>1, <1>5, <1>7 DEF Settle, Enter

LEMMA EachType ==
    \A m \in Mod : /\ ForceInstance(m, 1, "each") \in Frame
                   /\ ForceInstance(m, 1, "each").mod = m
                   /\ ForceInstance(m, 1, "each").k = 1
                   /\ ForceInstance(m, 1, "each").via = "each"
                   /\ ForceInstance(m, 1, "each").cur = None
  <1>1. 1 \in Nums /\ "each" \in {"each", "entry", "price"}  BY DEF Nums
  <1>2. \A m \in Mod : ForceInstance(m, 1, "each") \in Frame  BY <1>1, ForceType
  <1> QED  BY <1>2 DEF ForceInstance

EachFrame == [ForceInstance(Order[i], 1, "each") EXCEPT !.todo = Present(Order[i], {"each"})]

LEMMA RegisterEffect ==
    ASSUME TypeOK, Register, NEW f, f = EachFrame
    PROVE  /\ stack' = <<f>> /\ f \in Frame /\ Order[i] \in Mod /\ i \in DOMAIN Order
           /\ f.mod = Order[i] /\ f.k = 1 /\ f.via = "each" /\ f.cur = None
           /\ f.todo = Present(Order[i], {"each"})
  <1>1. i \in DOMAIN Order /\ Order[i] \in Mod
    BY ScopeAssumption DEF Register, TypeOK
  <1>2. 1 \in Nums /\ "each" \in {"each", "entry", "price"}  BY DEF Nums
  <1> DEFINE g == ForceInstance(Order[i], 1, "each")
             S == Present(Order[i], {"each"})
  <1>3. g \in Frame /\ g.mod = Order[i] /\ g.k = 1 /\ g.via = "each" /\ g.cur = None
    BY <1>1, EachType
  <1>4. S \subseteq Names  BY DEF Present, Names
  <1>5. stack' = <<f>> /\ f = [g EXCEPT !.todo = S]  BY DEF Register, EachFrame
  <1> HIDE DEF g, S
  <1>6. f \in Frame /\ f.mod = g.mod /\ f.k = g.k /\ f.via = g.via /\ f.cur = g.cur /\ f.todo = S
    BY <1>3, <1>4, <1>5 DEF Frame
  <1> QED  BY <1>1, <1>3, <1>5, <1>6 DEF S

LEMMA PriceEffect ==
    ASSUME TypeOK, Price, NEW f, f = ForceInstance(Order[i], 1, "price")
    PROVE  /\ stack' = <<f>> /\ f \in Frame /\ Order[i] \in Mod /\ i \in DOMAIN Order
  <1>1. i \in DOMAIN Order /\ Order[i] \in Mod
    BY ScopeAssumption DEF Price, TypeOK
  <1>2. 1 \in Nums /\ "price" \in {"each", "entry", "price"}  BY DEF Nums
  <1> QED  BY <1>1, <1>2, ForceType DEF Price

LEMMA NextInstanceEffect ==
    ASSUME TypeOK, NextInstance, NEW f, f = ForceInstance(Top.mod, Top.k + 1, Top.via)
    PROVE  /\ stack # <<>> /\ Top.via \in {"entry", "price"} /\ Top.k = 1 /\ 2 \in Nums
           /\ insts[Top.mod] = 2 /\ Top.cur = None /\ Top.todo = {}
           /\ f = ForceInstance(Top.mod, 2, Top.via) /\ f \in Frame
           /\ stack' \in Seq(Frame) /\ Len(stack') = Len(stack) /\ stack' # <<>>
           /\ DOMAIN stack' = DOMAIN stack /\ stack'[Len(stack)] = f
           /\ \A n \in DOMAIN stack : n # Len(stack) => stack'[n] = stack[n]
           /\ built' = built \cup {<<Top.mod, 2>>}
  <1>1. /\ stack # <<>> /\ Top.via \in {"entry", "price"} /\ Top.k < insts[Top.mod]
        /\ Top.cur = None /\ Top.todo = {}
    BY DEF NextInstance, Returning
  <1>2. Top.mod \in Mod /\ Top.k \in Nums  BY <1>1, TopType
  <1>3. insts[Top.mod] \in {0} \cup Nums  BY <1>2 DEF TypeOK
  <1>4. Top.k = 1 /\ insts[Top.mod] = 2 /\ 2 \in Nums /\ Top.k + 1 = 2
    BY <1>1, <1>2, <1>3 DEF Nums
  <1>5. f = ForceInstance(Top.mod, 2, Top.via)  BY <1>4
  <1>6. f \in Frame
    <2>1. Top.mod \in Mod  BY <1>2
    <2>2. Top.via \in {"each", "entry", "price"}  BY <1>1
    <2>3. 2 \in Nums  BY <1>4
    <2>4. ForceInstance(Top.mod, 2, Top.via) \in Frame  BY <2>1, <2>2, <2>3, ForceType
    <2> QED  BY <2>4, <1>5
  <1>7. stack' = Replace(f) /\ built' = built \cup {<<Top.mod, 2>>}
    BY <1>4 DEF NextInstance
  <1>8. /\ stack' \in Seq(Frame) /\ Len(stack') = Len(stack) /\ stack' # <<>>
        /\ DOMAIN stack' = DOMAIN stack /\ stack'[Len(stack)] = f
        /\ \A n \in DOMAIN stack : n # Len(stack) => stack'[n] = stack[n]
    BY <1>1, <1>6, <1>7, ReplaceEffect
  <1> QED  BY <1>1, <1>4, <1>5, <1>6, <1>7, <1>8

\* The evaluation of one expression.
LEMMA AnswerEffect ==
    ASSUME TypeOK, Answer
    PROVE  /\ stack # <<>> /\ Top.cur \in Names
           /\ stack' \in Seq(Frame) /\ Len(stack') = Len(stack) /\ stack' # <<>>
           /\ DOMAIN stack' = DOMAIN stack /\ stack'[Len(stack)] = Answered
           /\ \A n \in DOMAIN stack : n # Len(stack) => stack'[n] = stack[n]
           /\ InScope(ExprOf(Top.mod, Top.cur), <<Top.mod, Top.cur>>) \in Val
           /\ given' \in [Mod -> [Nums -> [Names -> Val]]]
           /\ given'[Top.mod][Top.k][Top.cur]
                 = InScope(ExprOf(Top.mod, Top.cur), <<Top.mod, Top.cur>>)
           /\ \A m \in Mod, k \in Nums, a \in Names :
                 <<m, k, a>> # <<Top.mod, Top.k, Top.cur>> => given'[m][k][a] = given[m][k][a]
  <1>1. stack # <<>> /\ Top.cur # None  BY DEF Answer
  <1>2. Top.mod \in Mod /\ Top.k \in Nums /\ Top.cur \in Names  BY <1>1, TopType
  <1>3. stack' = Replace(Answered)  BY DEF Answer, Answered
  <1>4. Answered \in Frame  BY <1>1, LeftType
  <1>5. /\ stack' \in Seq(Frame) /\ Len(stack') = Len(stack) /\ stack' # <<>>
        /\ DOMAIN stack' = DOMAIN stack /\ stack'[Len(stack)] = Answered
        /\ \A n \in DOMAIN stack : n # Len(stack) => stack'[n] = stack[n]
    BY <1>1, <1>3, <1>4, ReplaceEffect
  <1> DEFINE v == InScope(ExprOf(Top.mod, Top.cur), <<Top.mod, Top.cur>>)
  <1>6. ExprOf(Top.mod, Top.cur) \in Expr  BY <1>2, DirType
  <1>7. <<Top.mod, Top.cur>> \in Owner  BY <1>2 DEF Owner
  <1>8. v \in Val  BY <1>6, <1>7, InScopeType
  <1>9. given' = [given EXCEPT ![Top.mod][Top.k][Top.cur] = v]  BY DEF Answer
  <1> HIDE DEF v
  <1>10. given \in [Mod -> [Nums -> [Names -> Val]]]  BY DEF TypeOK
  <1>11. given' \in [Mod -> [Nums -> [Names -> Val]]]
    BY <1>2, <1>8, <1>9, <1>10
  <1>12. given'[Top.mod][Top.k][Top.cur] = v
    BY <1>2, <1>9, <1>10
  <1>13. \A m \in Mod, k \in Nums, a \in Names :
            <<m, k, a>> # <<Top.mod, Top.k, Top.cur>> => given'[m][k][a] = given[m][k][a]
    BY <1>2, <1>9, <1>10
  <1> QED  BY <1>1, <1>2, <1>5, <1>8, <1>11, <1>12, <1>13 DEF v

-----------------------------------------------------------------------------
(* Where a step can be.                                                    *)

LEMMA Walks == DOMAIN Via = {"register", "settle", "price"} /\ Via["register"] = "each"
               /\ Via["settle"] = "entry" /\ Via["price"] = "price"
  BY DEF Via

LEMMA Position ==
    ASSUME TypeOK, Nested, Frames, stack # <<>>
    PROVE  /\ FrameOK(Top) /\ pc \in {"register", "settle", "price"} /\ ~Sweeping
           /\ Top.via = "each" => pc = "register" /\ Len(stack) = 1
           /\ Top.via = "price" => pc = "price" /\ Len(stack) = 1
           /\ pc = "price" => Top.via = "price" /\ Top.cur = None /\ Top.todo = {}
           /\ Top.via # "entry" => \A n \in DOMAIN stack : stack[n].via # "entry"
           /\ pc \in DOMAIN Via
  <1>1. /\ stack \in Seq(Frame) /\ Len(stack) \in DOMAIN stack /\ Len(stack) \in Nat
        /\ Len(stack) > 0 /\ Top = stack[Len(stack)]
    BY TopType
  <1>2. /\ pc \in {"register", "settle", "price"} /\ stack[1].via = Via[pc]
        /\ \A n \in DOMAIN stack : n > 1 => stack[n].via = "entry"
        /\ \A n \in DOMAIN stack : n < Len(stack) => stack[n].cur # None
    BY Walks DEF Nested
  <1>3. DOMAIN stack = 1..Len(stack) /\ 1 \in DOMAIN stack  BY <1>1
  <1>4. \A n \in DOMAIN stack : FrameOK(stack[n])  BY DEF Frames
  <1>5. FrameOK(Top) /\ FrameOK(stack[1])  BY <1>1, <1>3, <1>4
  <1>6. Top.via # "entry" => Len(stack) = 1  BY <1>1, <1>2, <1>3
  <1>7. Top.via = "each" => pc = "register"  BY <1>5 DEF FrameOK
  <1>8. Top.via = "price" => pc = "price"  BY <1>5 DEF FrameOK
  <1>9. ASSUME pc = "price" PROVE Top.via = "price" /\ Top.cur = None /\ Top.todo = {}
    <2>1. stack[1].via = "price"  BY <1>2, <1>9, Walks
    <2>2. stack[1].todo = {}  BY <2>1, <1>5 DEF FrameOK
    <2>3. stack[1].cur = None  BY <2>2, <1>5 DEF FrameOK
    <2>4. ~(1 < Len(stack))  BY <2>3, <1>2, <1>3
    <2>5. Len(stack) = 1  BY <2>4, <1>1, <1>3
    <2> QED  BY <2>1, <2>2, <2>3, <2>5, <1>1
  <1>10. Top.via # "entry" => \A n \in DOMAIN stack : stack[n].via # "entry"
    BY <1>1, <1>3, <1>6
  <1>11. ~Sweeping  BY <1>2 DEF Sweeping
  <1> QED  BY <1>2, <1>5, <1>6, <1>7, <1>8, <1>9, <1>10, <1>11, Walks

\* The call that EachKnown ends is the next one in the order.
LEMMA EachPosition ==
    ASSUME TypeOK, Nested, Frames, Registered, EachKnown
    PROVE  /\ stack # <<>> /\ pc = "register" /\ i \in DOMAIN Order /\ i <= Len(Order)
           /\ Top.mod = Order[i] /\ Top.mod \in Mod /\ Top.k = 1
           /\ entry[Top.mod] = "unregistered"
           /\ \A n \in DOMAIN stack : stack[n].via # "entry"
           /\ \E k \in Nums : insts' = [insts EXCEPT ![Top.mod] = k]
           /\ entry' = [entry EXCEPT ![Top.mod] = "idle"] /\ i' = i + 1 /\ stack' = <<>>
  <1>1. stack # <<>> /\ Top.via = "each"  BY DEF EachKnown, Returning
  <1>2. /\ FrameOK(Top) /\ pc = "register" /\ Top.mod \in Mod
        /\ \A n \in DOMAIN stack : stack[n].via # "entry"
    BY <1>1, Position, TopType
  <1>3. i <= Len(Order) /\ Top.mod = Order[i] /\ Top.k = 1
    BY <1>1, <1>2 DEF FrameOK
  <1>4. i \in DOMAIN Order  BY <1>3, OrderType DEF TypeOK
  <1>5. entry[Order[i]] = "unregistered"
    BY <1>2, <1>4, OrderType DEF Registered
  <1>6. \E k \in Nums : insts' = [insts EXCEPT ![Top.mod] = k]
    <2>1. 1 \in Nums /\ 2 \in Nums  BY DEF Nums
    <2>2. CASE given[Top.mod][1]["each"] = {}
      BY <2>1, <2>2 DEF EachKnown
    <2>3. CASE given[Top.mod][1]["each"] # {}
      BY <2>1, <2>3 DEF EachKnown
    <2> QED  BY <2>2, <2>3
  <1> QED  BY <1>1, <1>2, <1>3, <1>4, <1>5, <1>6 DEF EachKnown

\* The call that EntryDone ends is running.
LEMMA EntryPosition ==
    ASSUME TypeOK, Nested, Frames, Running, stack # <<>>, Top.via = "entry"
    PROVE  /\ FrameOK(Top) /\ Top.mod \in Mod /\ Top.k \in Nums /\ IsCall(Len(stack), Top.mod)
           /\ entry[Top.mod] = "running" /\ pc \in {"register", "settle"}
           /\ \A n \in DOMAIN stack : n # Len(stack) => ~IsCall(n, Top.mod)
  <1>1. FrameOK(Top) /\ Top.mod \in Mod /\ Top.k \in Nums /\ pc \in {"register", "settle"}
    BY Position, TopType
  <1>2. IsCall(Len(stack), Top.mod) /\ Len(stack) \in DOMAIN stack
    BY TopType DEF IsCall
  <1>3. entry[Top.mod] = "running"  BY <1>1, <1>2 DEF Running
  <1>4. \A n \in DOMAIN stack : n # Len(stack) => ~IsCall(n, Top.mod)
    BY <1>1, <1>2 DEF Running
  <1> QED  BY <1>1, <1>2, <1>3, <1>4

\* The loops go on with a sweep, or with the next walk.
LEMMA SweepEffect ==
    ASSUME TypeOK, NEW q \in {"new", "build", "register", "settle", "final", "price"},
           Sweep(q)
    PROVE  /\ pc' = q /\ i' = 1 /\ changed' = FALSE /\ todo' \subseteq Pending
           /\ q \in {"new", "build", "final"} => todo' = Pending
           /\ expr' = expr /\ fetch' = fetch /\ locals' = locals /\ entry' = entry
           /\ out' = out /\ insts' = insts /\ built' = built /\ given' = given
           /\ stack' = stack /\ dir' = dir
           /\ i' \in 1..(Len(Order) + 1)
  <1>1. Pending \in SUBSET Local  BY DEF Pending
  <1>2. 1 \in 1..(Len(Order) + 1)  BY OrderType
  <1> HIDE DEF Pending
  <1>3. dir' = dir /\ expr' = expr /\ fetch' = fetch  BY DEF Sweep, dir
  <1>4. todo' = Pending \/ todo' = {}  BY DEF Sweep
  <1>5. q \in {"new", "build", "final"} => todo' = Pending  BY DEF Sweep
  <1> QED  BY <1>1, <1>2, <1>3, <1>4, <1>5 DEF Sweep

LEMMA LoopEffect ==
    ASSUME TypeOK, SweepAgain \/ SweepDone \/ LoopDone
    PROVE  \E q \in {"new", "build", "register", "settle", "final", "price"} :
              /\ Sweep(q)
              /\ SweepAgain => /\ q = pc /\ todo = {} /\ changed /\ q \in {"new", "build", "final"}
                               /\ rsrc' = IF pc = "new" THEN rsrc ELSE Resources(locals)
              /\ SweepDone => /\ todo = {} /\ ~changed /\ Sweeping
                              /\ rsrc' = IF pc = "new" THEN Resources(locals) ELSE rsrc
                              /\ \/ pc = "new" /\ q = "build"
                                 \/ pc = "build" /\ q = "register"
                                 \/ pc = "final" /\ q = "price"
              /\ LoopDone => /\ stack = <<>> /\ i > Len(Order) /\ rsrc' = rsrc
                             /\ \/ pc = "register" /\ q = "settle"
                                \/ pc = "settle" /\ q = "final"
  <1>1. CASE SweepAgain
    <2>1. ~SweepDone  BY <1>1 DEF SweepAgain, SweepDone
    <2>2. ~LoopDone  BY <1>1 DEF SweepAgain, LoopDone, Sweeping
    <2>3. pc \in {"new", "build", "final"} /\ Sweep(pc) /\ todo = {} /\ changed
          /\ rsrc' = IF pc = "new" THEN rsrc ELSE Resources(locals)
      BY <1>1 DEF SweepAgain, Sweeping
    <2> QED  BY <2>1, <2>2, <2>3
  <1>2. CASE SweepDone
    <2>1. ~SweepAgain  BY <1>2 DEF SweepAgain, SweepDone
    <2>2. ~LoopDone  BY <1>2 DEF SweepDone, LoopDone, Sweeping
    <2>3. /\ todo = {} /\ ~changed /\ Sweeping /\ pc \in {"new", "build", "final"}
          /\ rsrc' = IF pc = "new" THEN Resources(locals) ELSE rsrc
      BY <1>2 DEF SweepDone, Sweeping
    <2>4. CASE pc = "new"
      <3>1. Sweep("build")  BY <1>2, <2>4 DEF SweepDone
      <3> QED  BY <2>1, <2>2, <2>3, <2>4, <3>1
    <2>5. CASE pc = "build"
      <3>1. Sweep("register")  BY <1>2, <2>5 DEF SweepDone
      <3> QED  BY <2>1, <2>2, <2>3, <2>5, <3>1
    <2>6. CASE pc = "final"
      <3>1. Sweep("price")  BY <1>2, <2>6 DEF SweepDone
      <3> QED  BY <2>1, <2>2, <2>3, <2>6, <3>1
    <2> QED  BY <2>3, <2>4, <2>5, <2>6
  <1>3. CASE LoopDone
    <2>1. ~SweepAgain  BY <1>3 DEF SweepAgain, LoopDone, Sweeping
    <2>2. ~SweepDone  BY <1>3 DEF SweepDone, LoopDone, Sweeping
    <2>3. stack = <<>> /\ i > Len(Order) /\ rsrc' = rsrc /\ pc \in {"register", "settle"}
      BY <1>3 DEF LoopDone
    <2>4. CASE pc = "register"
      <3>1. Sweep("settle")  BY <1>3, <2>4 DEF LoopDone
      <3> QED  BY <2>1, <2>2, <2>3, <2>4, <3>1
    <2>5. CASE pc = "settle"
      <3>1. Sweep("final")  BY <1>3, <2>5 DEF LoopDone
      <3> QED  BY <2>1, <2>2, <2>3, <2>5, <3>1
    <2> QED  BY <2>3, <2>4, <2>5
  <1> QED  BY <1>1, <1>2, <1>3

-----------------------------------------------------------------------------
(* Types are kept.                                                         *)

LEMMA LoopTypes ==
    ASSUME TypeOK, SweepAgain \/ SweepDone \/ LoopDone
    PROVE  TypeOK'
  <1>1. PICK q \in {"new", "build", "register", "settle", "final", "price"} :
           Sweep(q) /\ rsrc' \in {rsrc, Resources(locals)}
    BY LoopEffect
  <1>2. Sweep(q)  BY <1>1
  <1>3. /\ pc' = q /\ i' \in 1..(Len(Order) + 1) /\ changed' = FALSE
        /\ locals' = locals /\ entry' = entry /\ out' = out /\ insts' = insts
        /\ built' = built /\ given' = given /\ stack' = stack /\ dir' = dir
    BY <1>2, SweepEffect
  <1>4. rsrc' \in [Rsrc -> Val]  BY <1>1, ResourcesType DEF TypeOK
  <1>5. todo' \in SUBSET Local  BY <1>2 DEF Sweep, Pending
  <1> QED  BY <1>3, <1>4, <1>5 DEF TypeOK

LEMMA TypeStep ==
    ASSUME IInv, [Next]_vars
    PROVE  TypeOK'
  <1>0. TypeOK /\ Nested /\ Frames /\ Registered /\ Running  BY DEF IInv
  <1> USE DEF TypeOK
  <1> HIDE DEF Frame, Val, Dir, Nums, Names, Leaf
  <1>1. CASE \E l \in Local : Retry(l)
    <2> PICK l \in Local : Retry(l)  BY <1>1
    <2>1. InScope(expr.local[l], l) \in Val
      BY <1>0, DirType, InScopeType DEF Owner, Refer
    <2>2. locals' \in [Local -> Val]  BY <1>0, <2>1 DEF Retry
    <2> QED  BY <1>0, <2>2 DEF Retry, dir
  <1>2. CASE SweepAgain \/ SweepDone \/ LoopDone
    BY <1>0, <1>2, LoopTypes
  <1>4. CASE Register
    <2> DEFINE f == EachFrame
    <2>2. stack' = <<f>> /\ f \in Frame  BY <1>0, <1>4, RegisterEffect
    <2> HIDE DEF f
    <2>1. stack' \in Seq(Frame)  BY <2>2
    <2> QED  BY <1>0, <1>4, <2>1 DEF Register, dir
  <1>5. CASE Settle
    <2>1. i + 1 \in 1..(Len(Order) + 1)  BY <1>0, <1>5, OrderType DEF Settle
    <2>2. CASE entry[Order[i]] = "idle"
      <3> DEFINE f == ForceInstance(Order[i], 1, "entry")
      <3>1. /\ stack' = <<f>> /\ f \in Frame /\ Order[i] \in Mod
            /\ entry' = [entry EXCEPT ![Order[i]] = "running"]
            /\ built' = built \cup {<<Order[i], 1>>}
        BY <1>0, <1>5, <2>2, SettleEffect
      <3> HIDE DEF f
      <3>2. stack' \in Seq(Frame)  BY <3>1
      <3>3. 1 \in Nums  BY DEF Nums
      <3> QED  BY <1>0, <1>5, <2>1, <3>1, <3>2, <3>3 DEF Settle, dir
    <2>3. CASE entry[Order[i]] # "idle"
      BY <1>0, <1>5, <2>1, <2>3 DEF Settle, dir
    <2> QED  BY <2>2, <2>3
  <1>7. CASE Price
    <2>1. i + 1 \in 1..(Len(Order) + 1)  BY <1>0, <1>7, OrderType DEF Price
    <2> DEFINE f == ForceInstance(Order[i], 1, "price")
    <2>2. stack' = <<f>> /\ f \in Frame /\ Order[i] \in Mod
      BY <1>0, <1>7, PriceEffect
    <2> HIDE DEF f
    <2>3. stack' \in Seq(Frame)  BY <2>2
    <2>4. 1 \in Nums  BY DEF Nums
    <2> QED  BY <1>0, <1>7, <2>1, <2>2, <2>3, <2>4 DEF Price, dir
  <1>8. CASE \E a \in Names : Choose(a)
    <2> PICK a \in Names : Choose(a)  BY <1>8
    <2>1. stack # <<>> /\ stack' = Replace(Chosen(a))  BY DEF Choose, Chosen
    <2>2. Chosen(a) \in Frame  BY <1>0, <2>1, LeftType
    <2>3. stack' \in Seq(Frame)  BY <1>0, <2>1, <2>2, ReplaceEffect
    <2> QED  BY <1>0, <2>3 DEF Choose, dir
  <1>9. CASE \E x \in Mod : Ask(x)
    <2> PICK x \in Mod : Ask(x)  BY <1>9
    <2>1. /\ stack' \in Seq(Frame) /\ entry' = [entry EXCEPT ![x] = "running"]
          /\ built' = built \cup {<<x, 1>>}
      BY <1>0, AskEffect
    <2>2. 1 \in Nums  BY DEF Nums
    <2> QED  BY <1>0, <2>1, <2>2 DEF Ask, dir
  <1>10. CASE Answer
    <2>1. stack' \in Seq(Frame) /\ given' \in [Mod -> [Nums -> [Names -> Val]]]
      BY <1>0, <1>10, AnswerEffect
    <2> QED  BY <1>0, <1>10, <2>1 DEF Answer, dir
  <1>11. CASE EachKnown
    <2>1. PICK k \in Nums : insts' = [insts EXCEPT ![Top.mod] = k]
      BY <1>0, <1>11, EachPosition
    <2>2. /\ stack' = <<>> /\ Top.mod \in Mod /\ i <= Len(Order) /\ i' = i + 1
          /\ entry' = [entry EXCEPT ![Top.mod] = "idle"]
      BY <1>0, <1>11, EachPosition
    <2>3. i + 1 \in 1..(Len(Order) + 1)  BY <1>0, <2>2, OrderType
    <2>4. stack' \in Seq(Frame)  BY <2>2
    <2>5. insts' \in [Mod -> {0} \cup Nums]  BY <1>0, <2>1
    <2>6. entry' \in [Mod -> {"unregistered", "idle", "running", "done"}]
      BY <1>0, <2>2
    <2> QED  BY <1>0, <1>11, <2>2, <2>3, <2>4, <2>5, <2>6 DEF EachKnown, dir
  <1>12. CASE NextInstance
    <2>1. /\ stack' \in Seq(Frame) /\ built' = built \cup {<<Top.mod, 2>>} /\ 2 \in Nums
          /\ stack # <<>>
      BY <1>0, <1>12, NextInstanceEffect
    <2>2. Top.mod \in Mod  BY <1>0, <2>1, TopType
    <2> QED  BY <1>0, <1>12, <2>1, <2>2 DEF NextInstance, dir
  <1>13. CASE EntryDone
    <2>1. stack # <<>>  BY <1>13 DEF EntryDone, Returning
    <2>2. Top.mod \in Mod /\ Top.k \in Nums  BY <1>0, <2>1, TopType
    <2>3. Outputs(Top.mod, Top.k) \in Val  BY <1>0, <2>2, OutputsType
    <2>4. stack' \in Seq(Frame)  BY <1>0, <1>13, <2>1, PopEffect DEF EntryDone
    <2> QED  BY <1>0, <1>13, <2>2, <2>3, <2>4 DEF EntryDone, dir
  <1>14. CASE PriceDone
    <2>1. stack # <<>>  BY <1>14 DEF PriceDone, Returning
    <2>4. stack' \in Seq(Frame)  BY <1>0, <1>14, <2>1, PopEffect DEF PriceDone
    <2> QED  BY <1>0, <1>14, <2>4 DEF PriceDone, dir
  <1>15. CASE UNCHANGED vars
    BY <1>0, <1>15 DEF vars, dir
  <1> QED  BY <1>1, <1>2, <1>4, <1>5, <1>7, <1>8, <1>9, <1>10, <1>11,
              <1>12, <1>13, <1>14, <1>15 DEF Next

-----------------------------------------------------------------------------
(* The calls in flight.                                                    *)

\* Nothing is forced while the locals are swept.
LEMMA Idle ==
    ASSUME TypeOK, Nested, Frames, Sweeping \/ (\E l \in Local : Retry(l)) \/ SweepAgain
                                   \/ SweepDone \/ LoopDone
    PROVE  stack = <<>>
  <1>1. CASE LoopDone  BY <1>1 DEF LoopDone
  <1>2. CASE Sweeping \/ (\E l \in Local : Retry(l)) \/ SweepAgain \/ SweepDone
    <2>1. Sweeping  BY <1>2 DEF Retry, SweepAgain, SweepDone
    <2> QED  BY <2>1, Position
  <1> QED  BY <1>1, <1>2

LEMMA NestedStep ==
    ASSUME IInv, [Next]_vars
    PROVE  Nested'
  <1>0. TypeOK /\ Nested /\ Frames  BY DEF IInv
  <1>1. CASE \E l \in Local : Retry(l)
    <2>1. stack = <<>>  BY <1>0, <1>1, Idle
    <2>2. stack' = stack  BY <1>1 DEF Retry
    <2> QED  BY <2>1, <2>2 DEF Nested
  <1>2. CASE SweepAgain \/ SweepDone \/ LoopDone
    <2>1. stack = <<>>  BY <1>0, <1>2, Idle
    <2>2. stack' = stack  BY <1>2 DEF SweepAgain, SweepDone, LoopDone, Sweep
    <2> QED  BY <2>1, <2>2 DEF Nested
  <1>3. CASE Register
    <2> DEFINE f == EachFrame
    <2>1. stack' = <<f>> /\ f.via = "each"  BY <1>0, <1>3, RegisterEffect
    <2> HIDE DEF f
    <2>2. pc' = "register"  BY <1>3 DEF Register
    <2> QED  BY <2>1, <2>2, Walks DEF Nested
  <1>4. CASE Settle
    <2>1. CASE entry[Order[i]] = "idle"
      <3> DEFINE f == ForceInstance(Order[i], 1, "entry")
      <3>1. stack' = <<f>>  BY <1>0, <1>4, <2>1, SettleEffect
      <3>2. f.via = "entry"  BY DEF ForceInstance
      <3> HIDE DEF f
      <3>3. pc' = "settle"  BY <1>4 DEF Settle
      <3> QED  BY <3>1, <3>2, <3>3, Walks DEF Nested
    <2>2. CASE entry[Order[i]] # "idle"
      BY <1>4, <2>2 DEF Settle, Nested
    <2> QED  BY <2>1, <2>2
  <1>5. CASE Price
    <2> DEFINE f == ForceInstance(Order[i], 1, "price")
    <2>1. stack' = <<f>>  BY <1>0, <1>5, PriceEffect
    <2>2. f.via = "price"  BY DEF ForceInstance
    <2> HIDE DEF f
    <2>3. pc' = "price"  BY <1>5 DEF Price
    <2> QED  BY <2>1, <2>2, <2>3, Walks DEF Nested
  <1>6. ASSUME stack # <<>>, NEW f \in Frame, f.via = Top.via, stack' = Replace(f), pc' = pc
        PROVE  Nested'
    <2>1. /\ Len(stack') = Len(stack) /\ DOMAIN stack' = DOMAIN stack
          /\ stack'[Len(stack)] = f
          /\ \A n \in DOMAIN stack : n # Len(stack) => stack'[n] = stack[n]
      BY <1>0, <1>6, ReplaceEffect
    <2>2. Top = stack[Len(stack)] /\ Len(stack) \in Nat /\ DOMAIN stack = 1..Len(stack)
          /\ 1 \in DOMAIN stack
      BY <1>0, <1>6, TopType
    <2>3. \A n \in DOMAIN stack : stack'[n].via = stack[n].via
      BY <1>6, <2>1, <2>2
    <2>4. \A n \in DOMAIN stack : n < Len(stack) => stack'[n] = stack[n]
      BY <2>1, <2>2
    <2>5. stack'[1].via = stack[1].via  BY <2>2, <2>3
    <2> QED  BY <1>0, <1>6, <2>1, <2>3, <2>4, <2>5 DEF Nested, Via
  <1>7. CASE \E a \in Names : Choose(a)
    <2> PICK a \in Names : Choose(a)  BY <1>7
    <2>1. stack # <<>> /\ stack' = Replace(Chosen(a)) /\ pc' = pc  BY DEF Choose, Chosen
    <2>2. Chosen(a) \in Frame /\ Chosen(a).via = Top.via  BY <1>0, <2>1, LeftType
    <2> QED  BY <1>6, <2>1, <2>2
  <1>8. CASE Answer
    <2>1. stack # <<>> /\ stack' = Replace(Answered) /\ pc' = pc  BY <1>8 DEF Answer, Answered
    <2>2. Answered \in Frame /\ Answered.via = Top.via  BY <1>0, <2>1, LeftType
    <2> QED  BY <1>6, <2>1, <2>2
  <1>9. CASE NextInstance
    <2> DEFINE f == ForceInstance(Top.mod, Top.k + 1, Top.via)
    <2>1. stack # <<>> /\ f \in Frame  BY <1>0, <1>9, NextInstanceEffect
    <2>2. stack' = Replace(f) /\ pc' = pc  BY <1>9 DEF NextInstance
    <2>3. f.via = Top.via  BY DEF ForceInstance
    <2> HIDE DEF f
    <2> QED  BY <1>6, <2>1, <2>2, <2>3
  <1>10. CASE \E x \in Mod : Ask(x)
    <2> PICK x \in Mod : Ask(x)  BY <1>10
    <2> DEFINE f == ForceInstance(x, 1, "entry")
    <2>1. /\ stack' \in Seq(Frame) /\ Len(stack') = Len(stack) + 1
          /\ Len(stack) \in DOMAIN stack /\ stack'[Len(stack)] = Waiting
          /\ stack'[Len(stack')] = f
          /\ \A n \in DOMAIN stack : n # Len(stack) => stack'[n] = stack[n]
          /\ \A n \in DOMAIN stack' : n # Len(stack') => n \in DOMAIN stack
      BY <1>0, AskEffect
    <2>2. f.via = "entry"  BY DEF ForceInstance
    <2>3. stack # <<>> /\ Top.cur # None  BY DEF Ask, Asks
    <2>4. pc' = pc  BY DEF Ask
    <2> HIDE DEF f
    <2>5. Top = stack[Len(stack)] /\ Len(stack) \in Nat /\ DOMAIN stack = 1..Len(stack)
          /\ Waiting.via = Top.via /\ Waiting.cur = Top.cur
      BY <1>0, <2>3, TopType, LeftType
    <2>6. \A n \in DOMAIN stack : stack'[n].via = stack[n].via /\ stack'[n].cur = stack[n].cur
      BY <2>1, <2>5
    <2>7. DOMAIN stack' = 1..Len(stack') /\ 1 \in DOMAIN stack /\ Len(stack') > 1
      BY <2>1, <2>5
    <2>8. stack'[1].via = stack[1].via  BY <2>6, <2>7
    <2>9. \A n \in DOMAIN stack' : n > 1 => stack'[n].via = "entry"
      BY <1>0, <2>1, <2>2, <2>6 DEF Nested
    <2>10. \A n \in DOMAIN stack' : n < Len(stack') => stack'[n].cur # None
      BY <1>0, <2>1, <2>3, <2>5, <2>6 DEF Nested
    <2> QED  BY <1>0, <2>3, <2>4, <2>8, <2>9, <2>10 DEF Nested, Via
  <1>11. CASE EachKnown
    BY <1>11 DEF EachKnown, Nested
  <1>12. CASE EntryDone \/ PriceDone
    <2>1. stack # <<>> /\ stack' = Pop /\ pc' = pc
      BY <1>12 DEF EntryDone, PriceDone, Returning
    <2>2. /\ stack' \in Seq(Frame) /\ Len(stack') = Len(stack) - 1
          /\ \A n \in DOMAIN stack' : n \in DOMAIN stack /\ n < Len(stack) /\ stack'[n] = stack[n]
      BY <1>0, <2>1, PopEffect
    <2>3. Len(stack) \in Nat  BY <1>0, <2>1, TopType
    <2>4. stack' # <<>> => 1 \in DOMAIN stack'  BY <2>2
    <2>5. stack' # <<>> => stack'[1] = stack[1]  BY <2>2, <2>4
    <2>6. \A n \in DOMAIN stack' : n \in Nat  BY <2>2
    <2> QED  BY <1>0, <2>1, <2>2, <2>3, <2>5, <2>6 DEF Nested, Via
  <1>13. CASE UNCHANGED vars
    BY <1>0, <1>13 DEF vars, Nested
  <1> QED  BY <1>1, <1>2, <1>3, <1>4, <1>5, <1>7, <1>8, <1>9, <1>10, <1>11, <1>12, <1>13
           DEF Next

\* What is expected of a call outlives a step that keeps its call, its
\* instances and their builds.
LEMMA FrameKept ==
    ASSUME NEW f, NEW g, NEW n, FrameOK(f), stack'[n] = g,
           g.mod = f.mod, g.k = f.k, g.via = f.via, g.todo \subseteq f.todo,
           g.cur # None => g.cur \in g.todo,
           expr' = expr, fetch' = fetch, pc' = pc,
           f.via = "each" => i' = i,
           f.via # "each" => insts'[f.mod] = insts[f.mod],
           f.via = "entry" => \A j \in Nums : <<f.mod, j>> \in built' <=> <<f.mod, j>> \in built,
           g.cur # None /\ g.asked => \A x \in fetch :
               ExprOf(f.mod, g.cur).refs = {x} => entry'[x] \in {"running", "done"}
    PROVE  FrameOK(stack[n])'
  <1>1. NoEach' = NoEach  BY DEF NoEach
  <1>2. (stack[n].cur # None => stack[n].cur \in stack[n].todo)'  OBVIOUS
  <1>3. (stack[n].via = "each" =>
            /\ stack[n].todo \subseteq {"each"} /\ stack[n].k = 1
            /\ pc = "register" /\ i <= Len(Order) /\ stack[n].mod = Order[i]
            /\ NoEach => stack[n].todo = {})'
    BY <1>1 DEF FrameOK
  <1>4. (stack[n].via = "entry" =>
            /\ stack[n].todo \subseteq Input /\ stack[n].k <= insts[stack[n].mod]
            /\ \A j \in Nums : j <= stack[n].k => <<stack[n].mod, j>> \in built
            /\ stack[n].mod \in fetch =>
                  \A j \in Nums : <<stack[n].mod, j>> \in built => j <= stack[n].k)'
    BY DEF FrameOK
  <1>5. (stack[n].via = "price" =>
            stack[n].todo = {} /\ pc = "price" /\ stack[n].k <= insts[stack[n].mod])'
    BY DEF FrameOK
  <1>6. ((stack[n].cur # None /\ stack[n].asked) =>
          \A x \in fetch : ExprOf(stack[n].mod, stack[n].cur).refs = {x}
                             => entry[x] \in {"running", "done"})'
    BY DEF ExprOf
  <1> QED  BY <1>2, <1>3, <1>4, <1>5, <1>6 DEF FrameOK

\* The call of a module that is forced.
LEMMA NewCall ==
    ASSUME TypeOK, Registered, Forced, NEW x \in Mod, entry[x] = "idle", NEW n,
           stack'[n] = ForceInstance(x, 1, "entry"), built' = built \cup {<<x, 1>>},
           insts' = insts, fetch' = fetch, expr' = expr
    PROVE  FrameOK(stack[n])'
  <1> DEFINE g == ForceInstance(x, 1, "entry")
  <1>1. /\ g.mod = x /\ g.k = 1 /\ g.via = "entry" /\ g.cur = None /\ g.asked = FALSE
        /\ g.todo \subseteq Input
    BY DEF ForceInstance, Present
  <1>2. stack'[n] = g  OBVIOUS
  <1> HIDE DEF g
  <1>3. insts[x] # 0 /\ insts[x] \in {0} \cup Nums  BY DEF Registered, TypeOK
  <1>4. 1 <= insts[x]  BY <1>3 DEF Nums
  <1>5. x \in fetch => \A j \in Nums : <<x, j>> \notin built  BY DEF Forced
  <1>6. \A j \in Nums : j <= 1 => <<x, j>> \in built'  BY DEF Nums
  <1>7. x \in fetch => \A j \in Nums : <<x, j>> \in built' => j <= 1  BY <1>5
  <1> QED  BY <1>1, <1>2, <1>4, <1>6, <1>7 DEF FrameOK

LEMMA FramesStep ==
    ASSUME IInv, [Next]_vars
    PROVE  Frames'
  <1>0. TypeOK /\ Nested /\ Frames /\ Running /\ Registered /\ Forced  BY DEF IInv
  <1> SUFFICES ASSUME NEW n \in DOMAIN stack'
               PROVE  FrameOK(stack[n])'
    BY DEF Frames
  <1>a. n \in DOMAIN stack => FrameOK(stack[n]) /\ (stack[n].cur # None => stack[n].cur \in stack[n].todo)
    BY <1>0 DEF Frames, FrameOK
  <1>b. n \in DOMAIN stack => /\ stack[n].mod \in Mod
                              /\ stack[n].via = "entry" => entry[stack[n].mod] = "running"
    BY <1>0, FrameType DEF Running, IsCall
  <1>1. CASE \E l \in Local : Retry(l)
    <2>1. stack = <<>>  BY <1>0, <1>1, Idle
    <2>2. stack' = stack  BY <1>1 DEF Retry
    <2> QED  BY <2>1, <2>2
  <1>2. CASE SweepAgain \/ SweepDone \/ LoopDone
    <2>1. stack = <<>>  BY <1>0, <1>2, Idle
    <2>2. stack' = stack  BY <1>2 DEF SweepAgain, SweepDone, LoopDone, Sweep
    <2> QED  BY <2>1, <2>2
  <1>3. CASE Register
    <2> DEFINE f == EachFrame
    <2>1. /\ stack' = <<f>> /\ Order[i] \in Mod /\ f.mod = Order[i] /\ f.k = 1 /\ f.via = "each"
          /\ f.cur = None /\ f.todo = Present(Order[i], {"each"})
      BY <1>0, <1>3, RegisterEffect
    <2> HIDE DEF f
    <2>2. f.todo \subseteq {"each"}  BY <2>1 DEF Present
    <2>3. NoEach => f.todo = {}
      BY <2>1, <1>0, DirType DEF NoEach, Present
    <2>4. stack'[n] = f  BY <2>1
    <2>5. /\ pc' = "register" /\ i' = i /\ i <= Len(Order) /\ expr' = expr
      BY <1>3 DEF Register, dir
    <2>6. NoEach' = NoEach  BY <2>5 DEF NoEach
    <2> QED  BY <2>1, <2>2, <2>3, <2>4, <2>5, <2>6 DEF FrameOK
  <1>4. CASE Settle
    <2>1. CASE entry[Order[i]] = "idle"
      <3>1. /\ stack' = <<ForceInstance(Order[i], 1, "entry")>> /\ Order[i] \in Mod
            /\ built' = built \cup {<<Order[i], 1>>}
        BY <1>0, <1>4, <2>1, SettleEffect
      <3>2. stack'[n] = ForceInstance(Order[i], 1, "entry")  BY <3>1
      <3>3. insts' = insts /\ fetch' = fetch /\ expr' = expr  BY <1>4 DEF Settle, dir
      <3> QED  BY <1>0, <2>1, <3>1, <3>2, <3>3, NewCall
    <2>2. CASE entry[Order[i]] # "idle"
      BY <1>4, <2>2 DEF Settle
    <2> QED  BY <2>1, <2>2
  <1>5. CASE Price
    <2> DEFINE f == ForceInstance(Order[i], 1, "price")
    <2>1. stack' = <<f>> /\ Order[i] \in Mod  BY <1>0, <1>5, PriceEffect
    <2>2. pc = "price" /\ pc' = pc /\ insts' = insts  BY <1>5 DEF Price
    <2>3. entry[Order[i]] # "unregistered" /\ (Order[i] \in fetch => entry[Order[i]] = "done")
      BY <1>0, <2>1, <2>2 DEF Registered, Forced
    <2>4. insts[Order[i]] # 0 /\ insts[Order[i]] \in {0} \cup Nums
      BY <1>0, <2>1, <2>3 DEF Registered, TypeOK
    <2>5. 1 <= insts[Order[i]] /\ 1 \in Nums  BY <2>4 DEF Nums
    <2>6. Order[i] \in fetch => <<Order[i], 1>> \in built
      BY <1>0, <2>3, <2>5 DEF Forced
    <2>7. /\ f.mod = Order[i] /\ f.k = 1 /\ f.via = "price" /\ f.cur = None /\ f.todo = {}
      BY <2>6 DEF ForceInstance
    <2> HIDE DEF f
    <2>8. stack'[n] = f  BY <2>1
    <2> QED  BY <2>2, <2>5, <2>7, <2>8 DEF FrameOK
  <1>6. CASE \E a \in Names : Choose(a)
    <2> PICK a \in Names : Choose(a)  BY <1>6
    <2>1. stack # <<>> /\ a \in Top.todo /\ stack' = Replace(Chosen(a))
      BY DEF Choose, Chosen
    <2>2. /\ expr' = expr /\ fetch' = fetch /\ pc' = pc /\ i' = i /\ insts' = insts
          /\ built' = built /\ entry' = entry
      BY DEF Choose, dir
    <2>3. /\ Chosen(a) \in Frame /\ Chosen(a).mod = Top.mod
          /\ Chosen(a).k = Top.k /\ Chosen(a).via = Top.via
          /\ Chosen(a).todo = Top.todo /\ Chosen(a).cur = a /\ Chosen(a).asked = FALSE
      BY <1>0, <2>1, LeftType
    <2>4. /\ DOMAIN stack' = DOMAIN stack /\ stack'[Len(stack)] = Chosen(a)
          /\ \A j \in DOMAIN stack : j # Len(stack) => stack'[j] = stack[j]
      BY <1>0, <2>1, <2>3, ReplaceEffect
    <2>5. CASE n = Len(stack)
      <3>1. stack[n] = Top /\ n \in DOMAIN stack  BY <2>5, <2>4 DEF Top
      <3>2. stack'[n] = Chosen(a)  BY <2>4, <2>5
      <3> HIDE DEF Chosen
      <3> QED  BY <1>a, <2>1, <2>2, <2>3, <3>1, <3>2, FrameKept
    <2>6. CASE n # Len(stack)
      <3>1. n \in DOMAIN stack /\ stack'[n] = stack[n]  BY <2>4, <2>6
      <3>2. stack[n].cur # None /\ stack[n].asked => \A x \in fetch :
               ExprOf(stack[n].mod, stack[n].cur).refs = {x} => entry'[x] \in {"running", "done"}
        BY <1>a, <2>2, <3>1 DEF FrameOK
      <3> QED  BY <1>a, <2>2, <3>1, <3>2, FrameKept
    <2> QED  BY <2>5, <2>6
  <1>7. CASE Answer
    <2>1. stack # <<>>  BY <1>7 DEF Answer
    <2>2. /\ expr' = expr /\ fetch' = fetch /\ pc' = pc /\ i' = i /\ insts' = insts
          /\ built' = built /\ entry' = entry
      BY <1>7 DEF Answer, dir
    <2>3. /\ Answered.mod = Top.mod /\ Answered.k = Top.k /\ Answered.via = Top.via
          /\ Answered.todo = Top.todo \ {Top.cur} /\ Answered.cur = None
      BY <1>0, <2>1, LeftType
    <2>4. /\ DOMAIN stack' = DOMAIN stack /\ stack'[Len(stack)] = Answered
          /\ \A j \in DOMAIN stack : j # Len(stack) => stack'[j] = stack[j]
      BY <1>0, <1>7, AnswerEffect
    <2>5. CASE n = Len(stack)
      <3>1. stack[n] = Top /\ n \in DOMAIN stack  BY <2>5, <2>4 DEF Top
      <3>2. stack'[n] = Answered  BY <2>4, <2>5
      <3>3. Answered.todo \subseteq Top.todo  BY <2>3
      <3> QED  BY <1>a, <2>2, <2>3, <3>1, <3>2, <3>3, FrameKept
    <2>6. CASE n # Len(stack)
      <3>1. n \in DOMAIN stack /\ stack'[n] = stack[n]  BY <2>4, <2>6
      <3>2. stack[n].cur # None /\ stack[n].asked => \A x \in fetch :
               ExprOf(stack[n].mod, stack[n].cur).refs = {x} => entry'[x] \in {"running", "done"}
        BY <1>a, <2>2, <3>1 DEF FrameOK
      <3> QED  BY <1>a, <2>2, <3>1, <3>2, FrameKept
    <2> QED  BY <2>5, <2>6
  <1>8. CASE \E x \in Mod : Ask(x)
    <2> PICK x \in Mod : Ask(x)  BY <1>8
    <2>1. /\ stack # <<>> /\ Top.cur # None /\ entry[x] = "idle"
          /\ ExprOf(Top.mod, Top.cur).refs = {x}
      BY DEF Ask, Asks
    <2>2. /\ expr' = expr /\ fetch' = fetch /\ pc' = pc /\ i' = i /\ insts' = insts
      BY DEF Ask, dir
    <2>3. /\ Len(stack) \in DOMAIN stack /\ stack'[Len(stack)] = Waiting
          /\ stack'[Len(stack')] = ForceInstance(x, 1, "entry")
          /\ \A j \in DOMAIN stack : j # Len(stack) => stack'[j] = stack[j]
          /\ \A j \in DOMAIN stack' : j # Len(stack') => j \in DOMAIN stack
          /\ entry' = [entry EXCEPT ![x] = "running"] /\ built' = built \cup {<<x, 1>>}
      BY <1>0, AskEffect
    <2>4. /\ Waiting.mod = Top.mod /\ Waiting.k = Top.k /\ Waiting.via = Top.via
          /\ Waiting.todo = Top.todo /\ Waiting.cur = Top.cur
      BY <1>0, <2>1, LeftType
    <2>5. \A y \in Mod : entry[y] \in {"running", "done"} \/ y = x
                         => entry'[y] \in {"running", "done"}
      BY <1>0, <2>3 DEF TypeOK
    <2>6. fetch \subseteq Mod  BY <1>0, DirType
    <2>7. CASE n = Len(stack')
      BY <1>0, <2>1, <2>2, <2>3, <2>7, NewCall
    <2>8. CASE n # Len(stack')
      <3>1. n \in DOMAIN stack  BY <2>3, <2>8
      <3>2. stack[n].via = "entry" => \A j \in Nums :
               <<stack[n].mod, j>> \in built' <=> <<stack[n].mod, j>> \in built
        <4>1. stack[n].via = "entry" => stack[n].mod # x  BY <1>b, <2>1, <3>1
        <4> QED  BY <4>1, <2>3
      <3>3. CASE n = Len(stack)
        <4>1. stack[n] = Top /\ stack'[n] = Waiting  BY <2>3, <3>3 DEF Top
        <4>2. \A y \in fetch : ExprOf(Top.mod, Top.cur).refs = {y} => entry'[y] \in {"running", "done"}
          BY <2>1, <2>5, <2>6
        <4> QED  BY <1>a, <2>2, <2>4, <3>1, <3>2, <4>1, <4>2, FrameKept
      <3>4. CASE n # Len(stack)
        <4>1. stack'[n] = stack[n]  BY <2>3, <3>1, <3>4
        <4>2. stack[n].cur # None /\ stack[n].asked => \A y \in fetch :
               ExprOf(stack[n].mod, stack[n].cur).refs = {y} => entry'[y] \in {"running", "done"}
          BY <1>a, <2>5, <2>6, <3>1 DEF FrameOK
        <4> QED  BY <1>a, <2>2, <3>1, <3>2, <4>1, <4>2, FrameKept
      <3> QED  BY <3>3, <3>4
    <2> QED  BY <2>7, <2>8
  <1>9. CASE EachKnown
    BY <1>9 DEF EachKnown
  <1>10. CASE NextInstance
    <2> DEFINE f == ForceInstance(Top.mod, 2, Top.via)
    <2>1. /\ stack # <<>> /\ Top.via \in {"entry", "price"} /\ Top.k = 1 /\ 2 \in Nums
          /\ insts[Top.mod] = 2
          /\ DOMAIN stack' = DOMAIN stack /\ stack'[Len(stack)] = f
          /\ \A j \in DOMAIN stack : j # Len(stack) => stack'[j] = stack[j]
          /\ built' = built \cup {<<Top.mod, 2>>}
      BY <1>0, <1>10, NextInstanceEffect
    <2>2. /\ expr' = expr /\ fetch' = fetch /\ pc' = pc /\ i' = i /\ insts' = insts
          /\ entry' = entry
      BY <1>10 DEF NextInstance, dir
    <2>3. FrameOK(Top) /\ Top.mod \in Mod  BY <1>0, <2>1, Position, TopType
    <2>4. CASE n = Len(stack) /\ Top.via = "entry"
      <3>1. /\ f.mod = Top.mod /\ f.k = 2 /\ f.via = "entry" /\ f.cur = None
            /\ f.todo \subseteq Input
        BY <2>4 DEF ForceInstance, Present
      <3>2. \A j \in Nums : j <= 1 => <<Top.mod, j>> \in built  BY <2>1, <2>3, <2>4 DEF FrameOK
      <3>3. \A j \in Nums : j <= 2 => <<Top.mod, j>> \in built'
        BY <2>1, <3>2 DEF Nums
      <3>4. \A j \in Nums : j <= 2  BY DEF Nums
      <3>5. stack'[n] = f  BY <2>1, <2>4
      <3> HIDE DEF f
      <3> QED  BY <2>1, <2>2, <3>1, <3>3, <3>4, <3>5 DEF FrameOK
    <2>5. CASE n = Len(stack) /\ Top.via = "price"
      <3>1. pc = "price"  BY <2>3, <2>5 DEF FrameOK
      <3>2. Top.mod \in fetch => <<Top.mod, 2>> \in built
        BY <1>0, <2>1, <2>3, <3>1 DEF Forced
      <3>3. /\ f.mod = Top.mod /\ f.k = 2 /\ f.via = "price" /\ f.cur = None /\ f.todo = {}
        BY <2>5, <3>2 DEF ForceInstance
      <3>4. stack'[n] = f  BY <2>1, <2>5
      <3> HIDE DEF f
      <3> QED  BY <2>1, <2>2, <3>1, <3>3, <3>4 DEF FrameOK
    <2>6. CASE n # Len(stack)
      <3>1. n \in DOMAIN stack /\ stack'[n] = stack[n]  BY <2>1, <2>6
      <3>2. stack[n].cur # None /\ stack[n].asked => \A x \in fetch :
               ExprOf(stack[n].mod, stack[n].cur).refs = {x} => entry'[x] \in {"running", "done"}
        BY <1>a, <2>2, <3>1 DEF FrameOK
      <3>3. stack[n].via = "entry" => stack[n].mod # Top.mod
        <4>1. Top.via = "price" => stack[n].via # "entry"
          BY <1>0, <2>1, <3>1, Position
        <4>2. Top.via = "entry" => ~IsCall(n, Top.mod)
          BY <1>0, <2>1, <2>6, <3>1, EntryPosition
        <4> QED  BY <2>1, <3>1, <4>1, <4>2 DEF IsCall
      <3>4. stack[n].via = "entry" => \A j \in Nums :
               <<stack[n].mod, j>> \in built' <=> <<stack[n].mod, j>> \in built
        BY <2>1, <3>3
      <3> QED  BY <1>a, <2>2, <3>1, <3>2, <3>4, FrameKept
    <2> QED  BY <2>1, <2>4, <2>5, <2>6
  <1>11. CASE EntryDone \/ PriceDone
    <2>1. /\ stack # <<>> /\ stack' = Pop /\ expr' = expr /\ fetch' = fetch /\ pc' = pc
          /\ i' = i /\ insts' = insts /\ built' = built
      BY <1>11 DEF EntryDone, PriceDone, Returning, dir
    <2>2. n \in DOMAIN stack /\ n < Len(stack) /\ stack'[n] = stack[n]
      BY <1>0, <2>1, PopEffect
    <2>3. Top.mod \in Mod /\ fetch \subseteq Mod  BY <1>0, <2>1, TopType, DirType
    <2>4. \A y \in fetch : entry[y] \in {"running", "done"} => entry'[y] \in {"running", "done"}
      <3>1. CASE EntryDone  BY <1>0, <2>3, <3>1 DEF EntryDone, TypeOK
      <3>2. CASE PriceDone  BY <3>2 DEF PriceDone
      <3> QED  BY <1>11, <3>1, <3>2
    <2>5. stack[n].cur # None /\ stack[n].asked => \A x \in fetch :
             ExprOf(stack[n].mod, stack[n].cur).refs = {x} => entry'[x] \in {"running", "done"}
      BY <1>a, <2>2, <2>4 DEF FrameOK
    <2> QED  BY <1>a, <2>1, <2>2, <2>5, FrameKept
  <1>12. CASE UNCHANGED vars
    <2>1. /\ stack' = stack /\ expr' = expr /\ fetch' = fetch /\ pc' = pc
          /\ i' = i /\ insts' = insts /\ built' = built /\ entry' = entry
      BY <1>12 DEF vars, dir
    <2>2. n \in DOMAIN stack /\ stack'[n] = stack[n]  BY <2>1
    <2>3. stack[n].cur # None /\ stack[n].asked => \A x \in fetch :
             ExprOf(stack[n].mod, stack[n].cur).refs = {x} => entry'[x] \in {"running", "done"}
      BY <1>a, <2>1, <2>2 DEF FrameOK
    <2> QED  BY <1>a, <2>1, <2>2, <2>3, FrameKept
  <1> QED  BY <1>1, <1>2, <1>3, <1>4, <1>5, <1>6, <1>7, <1>8, <1>9, <1>10, <1>11, <1>12
           DEF Next

LEMMA RunningStays ==
    ASSUME Running,
           \A m \in Mod : entry'[m] = "running" <=> entry[m] = "running",
           \A n : n \in DOMAIN stack' <=> n \in DOMAIN stack,
           \A n \in DOMAIN stack : stack'[n].via = stack[n].via /\ stack'[n].mod = stack[n].mod
    PROVE  Running'
  <1>1. ASSUME NEW m \in Mod, NEW n PROVE IsCall(n, m)' <=> IsCall(n, m)
    BY DEF IsCall
  <1>2. ASSUME NEW m \in Mod
        PROVE  /\ entry'[m] = "running" <=> \E n \in DOMAIN stack' : IsCall(n, m)'
               /\ \A n, k \in DOMAIN stack' : IsCall(n, m)' /\ IsCall(k, m)' => n = k
    BY <1>1 DEF Running
  <1> QED  BY <1>2 DEF Running

\* A module is not running when no call is in flight.
LEMMA NoneRunning ==
    ASSUME Running, \A n \in DOMAIN stack : stack[n].via # "entry", NEW m \in Mod
    PROVE  entry[m] # "running"
  BY DEF Running, IsCall

LEMMA RunningStep ==
    ASSUME IInv, [Next]_vars
    PROVE  Running'
  <1>0. TypeOK /\ Nested /\ Frames /\ Running /\ Registered /\ Forced  BY DEF IInv
  <1>1. CASE (\E l \in Local : Retry(l)) \/ SweepAgain \/ SweepDone \/ LoopDone
             \/ UNCHANGED vars
    <2>1. stack' = stack /\ entry' = entry
      BY <1>1 DEF Retry, SweepAgain, SweepDone, LoopDone, Sweep, vars
    <2> QED  BY <1>0, <2>1, RunningStays
  <1>2. ASSUME stack = <<>>, NEW f, stack' = <<f>>, f.via # "entry", entry' = entry
        PROVE  Running'
    <2>1. \A m \in Mod : entry'[m] # "running"  BY <1>0, <1>2, NoneRunning
    <2>2. \A n \in DOMAIN stack' : stack'[n].via # "entry"  BY <1>2
    <2> QED  BY <2>1, <2>2 DEF Running, IsCall
  <1>3. CASE Register
    <2> DEFINE f == EachFrame
    <2>1. stack' = <<f>> /\ f.via = "each"  BY <1>0, <1>3, RegisterEffect
    <2> HIDE DEF f
    <2>2. stack = <<>> /\ entry' = entry  BY <1>3 DEF Register
    <2> QED  BY <1>2, <2>1, <2>2
  <1>4. CASE Price
    <2> DEFINE f == ForceInstance(Order[i], 1, "price")
    <2>1. stack' = <<f>>  BY <1>0, <1>4, PriceEffect
    <2>2. f.via = "price"  BY DEF ForceInstance
    <2> HIDE DEF f
    <2>3. stack = <<>> /\ entry' = entry  BY <1>4 DEF Price
    <2> QED  BY <1>2, <2>1, <2>2, <2>3
  <1>5. CASE Settle
    <2>1. CASE entry[Order[i]] = "idle"
      <3> DEFINE f == ForceInstance(Order[i], 1, "entry")
      <3>1. /\ stack' = <<f>> /\ Order[i] \in Mod
            /\ entry' = [entry EXCEPT ![Order[i]] = "running"]
        BY <1>0, <1>5, <2>1, SettleEffect
      <3>2. f.via = "entry" /\ f.mod = Order[i]  BY DEF ForceInstance
      <3> HIDE DEF f
      <3>3. stack = <<>>  BY <1>5 DEF Settle
      <3>4. \A m \in Mod : entry[m] # "running"  BY <1>0, <3>3, NoneRunning
      <3>5. \A m \in Mod : entry'[m] = "running" <=> m = Order[i]
        BY <1>0, <3>1, <3>4 DEF TypeOK
      <3>6. DOMAIN stack' = {1} /\ stack'[1] = f  BY <3>1
      <3> QED  BY <3>2, <3>5, <3>6 DEF Running, IsCall
    <2>2. CASE entry[Order[i]] # "idle"
      <3>1. stack' = stack /\ entry' = entry  BY <1>5, <2>2 DEF Settle
      <3> QED  BY <1>0, <3>1, RunningStays
    <2> QED  BY <2>1, <2>2
  <1>6. ASSUME stack # <<>>, NEW f \in Frame, f.via = Top.via, f.mod = Top.mod,
               stack' = Replace(f), entry' = entry
        PROVE  Running'
    <2>1. /\ DOMAIN stack' = DOMAIN stack /\ stack'[Len(stack)] = f
          /\ \A n \in DOMAIN stack : n # Len(stack) => stack'[n] = stack[n]
      BY <1>0, <1>6, ReplaceEffect
    <2>2. Top = stack[Len(stack)]  BY DEF Top
    <2>3. \A n \in DOMAIN stack : stack'[n].via = stack[n].via /\ stack'[n].mod = stack[n].mod
      BY <1>6, <2>1, <2>2
    <2> QED  BY <1>0, <1>6, <2>1, <2>3, RunningStays
  <1>7. CASE \E a \in Names : Choose(a)
    <2> PICK a \in Names : Choose(a)  BY <1>7
    <2>1. stack # <<>> /\ stack' = Replace(Chosen(a)) /\ entry' = entry
      BY DEF Choose, Chosen
    <2>2. Chosen(a) \in Frame /\ Chosen(a).via = Top.via /\ Chosen(a).mod = Top.mod
      BY <1>0, <2>1, LeftType
    <2> QED  BY <1>6, <2>1, <2>2
  <1>8. CASE Answer
    <2>1. stack # <<>> /\ stack' = Replace(Answered) /\ entry' = entry
      BY <1>8 DEF Answer, Answered
    <2>2. Answered \in Frame /\ Answered.via = Top.via /\ Answered.mod = Top.mod
      BY <1>0, <2>1, LeftType
    <2> QED  BY <1>6, <2>1, <2>2
  <1>9. CASE NextInstance
    <2> DEFINE f == ForceInstance(Top.mod, Top.k + 1, Top.via)
    <2>1. stack # <<>> /\ f \in Frame  BY <1>0, <1>9, NextInstanceEffect
    <2>2. stack' = Replace(f) /\ entry' = entry  BY <1>9 DEF NextInstance
    <2>3. f.via = Top.via /\ f.mod = Top.mod  BY DEF ForceInstance
    <2> HIDE DEF f
    <2> QED  BY <1>6, <2>1, <2>2, <2>3
  <1>10. CASE \E x \in Mod : Ask(x)
    <2> PICK x \in Mod : Ask(x)  BY <1>10
    <2> DEFINE f == ForceInstance(x, 1, "entry")
    <2> PICK N : N = Len(stack')  OBVIOUS
    <2>1. stack # <<>> /\ entry[x] = "idle"  BY DEF Ask, Asks
    <2>2. /\ Len(stack) \in DOMAIN stack /\ stack'[Len(stack)] = Waiting
          /\ N \in DOMAIN stack' /\ stack'[N] = f
          /\ \A n \in DOMAIN stack : n \in DOMAIN stack' /\ n < N
          /\ \A n \in DOMAIN stack : n # Len(stack) => stack'[n] = stack[n]
          /\ \A n \in DOMAIN stack' : n # N => n \in DOMAIN stack
          /\ entry' = [entry EXCEPT ![x] = "running"]
      BY <1>0, AskEffect
    <2>3. f.via = "entry" /\ f.mod = x  BY DEF ForceInstance
    <2>4. Waiting.via = Top.via /\ Waiting.mod = Top.mod /\ Top = stack[Len(stack)]
          /\ \A n \in DOMAIN stack : n \in Nat
      BY <1>0, <2>1, LeftType, TopType
    <2> HIDE DEF f
    <2>5. \A n \in DOMAIN stack : n # N  BY <2>2, <2>4
    <2>6. \A n \in DOMAIN stack : stack'[n].via = stack[n].via /\ stack'[n].mod = stack[n].mod
      BY <2>2, <2>4
    <2>7. \A m \in Mod : m # x => entry'[m] = entry[m]  BY <1>0, <2>2 DEF TypeOK
    <2>8. entry'[x] = "running"  BY <1>0, <2>2 DEF TypeOK
    <2>9. ASSUME NEW m \in Mod, m # x
          PROVE  /\ entry'[m] = "running" <=> \E n \in DOMAIN stack' : IsCall(n, m)'
                 /\ \A n, k \in DOMAIN stack' : IsCall(n, m)' /\ IsCall(k, m)' => n = k
      <3>1. ~IsCall(N, m)'  BY <2>2, <2>3, <2>9 DEF IsCall
      <3>2. \A n \in DOMAIN stack : IsCall(n, m)' <=> IsCall(n, m)
        BY <2>2, <2>6 DEF IsCall
      <3> QED  BY <1>0, <2>2, <2>7, <2>9, <3>1, <3>2 DEF Running
    <2>10. \A n \in DOMAIN stack' : IsCall(n, x)' <=> n = N
      <3>1. IsCall(N, x)'  BY <2>2, <2>3 DEF IsCall
      <3>2. \A n \in DOMAIN stack : ~IsCall(n, x)  BY <1>0, <2>1 DEF Running
      <3>3. \A n \in DOMAIN stack : ~IsCall(n, x)'
        BY <2>6, <3>2 DEF IsCall
      <3> QED  BY <2>2, <3>1, <3>3
    <2>11. /\ entry'[x] = "running" <=> \E n \in DOMAIN stack' : IsCall(n, x)'
           /\ \A n, k \in DOMAIN stack' : IsCall(n, x)' /\ IsCall(k, x)' => n = k
      BY <2>2, <2>8, <2>10
    <2> QED  BY <2>9, <2>11 DEF Running
  <1>11. CASE EachKnown
    <2>1. /\ stack' = <<>> /\ entry' = [entry EXCEPT ![Top.mod] = "idle"] /\ Top.mod \in Mod
          /\ \A n \in DOMAIN stack : stack[n].via # "entry"
      BY <1>0, <1>11, EachPosition
    <2>2. \A m \in Mod : entry[m] # "running"  BY <1>0, <2>1, NoneRunning
    <2>3. \A m \in Mod : entry'[m] # "running"  BY <1>0, <2>1, <2>2 DEF TypeOK
    <2>4. DOMAIN stack' = {}  BY <2>1
    <2> QED  BY <2>3, <2>4 DEF Running
  <1>12. CASE EntryDone
    <2>1. stack # <<>> /\ Top.via = "entry" /\ stack' = Pop
      BY <1>12 DEF EntryDone, Returning
    <2>2. /\ Top.mod \in Mod /\ IsCall(Len(stack), Top.mod)
          /\ \A n \in DOMAIN stack : n # Len(stack) => ~IsCall(n, Top.mod)
      BY <1>0, <2>1, EntryPosition
    <2>3. /\ \A n \in DOMAIN stack' : n \in DOMAIN stack /\ n < Len(stack) /\ stack'[n] = stack[n]
          /\ \A n \in DOMAIN stack : n # Len(stack) => n \in DOMAIN stack'
      BY <1>0, <2>1, PopEffect
    <2>4. Len(stack) \in Nat /\ Top = stack[Len(stack)]  BY <1>0, <2>1, TopType
    <2>5. entry'[Top.mod] # "running" /\ \A m \in Mod : m # Top.mod => entry'[m] = entry[m]
      BY <1>0, <1>12, <2>2 DEF EntryDone, TypeOK
    <2>6. ASSUME NEW m \in Mod
          PROVE  \A n : n \in DOMAIN stack' /\ IsCall(n, m)' <=> n # Len(stack) /\ IsCall(n, m)
      BY <2>3, <2>4 DEF IsCall
    <2>7. ASSUME NEW m \in Mod
          PROVE  /\ entry'[m] = "running" <=> \E n \in DOMAIN stack' : IsCall(n, m)'
                 /\ \A n, k \in DOMAIN stack' : IsCall(n, m)' /\ IsCall(k, m)' => n = k
      <3>1. \A n, k \in DOMAIN stack' : IsCall(n, m)' /\ IsCall(k, m)' => n = k
        BY <1>0, <2>3, <2>6 DEF Running
      <3>2. CASE m = Top.mod
        <4>1. \A n \in DOMAIN stack' : ~IsCall(n, m)'  BY <2>2, <2>3, <2>6, <3>2
        <4> QED  BY <2>5, <3>1, <3>2, <4>1
      <3>3. CASE m # Top.mod
        <4>1. ~IsCall(Len(stack), m)  BY <2>4, <3>3 DEF IsCall
        <4>2. entry[m] = "running" <=> \E n \in DOMAIN stack : IsCall(n, m)
          BY <1>0 DEF Running
        <4>3. (\E n \in DOMAIN stack : IsCall(n, m)) <=> (\E n \in DOMAIN stack' : IsCall(n, m)')
          BY <2>3, <2>6, <4>1
        <4> QED  BY <2>5, <3>1, <3>3, <4>2, <4>3
      <3> QED  BY <3>2, <3>3
    <2> QED  BY <2>7 DEF Running
  <1>13. CASE PriceDone
    <2>1. stack # <<>> /\ Top.via = "price" /\ stack' = Pop /\ entry' = entry
      BY <1>13 DEF PriceDone, Returning
    <2>2. \A n \in DOMAIN stack : stack[n].via # "entry"  BY <1>0, <2>1, Position
    <2>3. \A m \in Mod : entry[m] # "running"  BY <1>0, <2>2, NoneRunning
    <2>4. \A n \in DOMAIN stack' : n \in DOMAIN stack /\ stack'[n] = stack[n]
      BY <1>0, <2>1, PopEffect
    <2>5. \A n \in DOMAIN stack' : stack'[n].via # "entry"  BY <2>2, <2>4
    <2> QED  BY <2>1, <2>3, <2>5 DEF Running, IsCall
  <1> QED  BY <1>1, <1>3, <1>4, <1>5, <1>7, <1>8, <1>9, <1>10, <1>11, <1>12, <1>13
           DEF Next

-----------------------------------------------------------------------------
(* The walks over the modules.                                             *)

LEMMA RegisteredStays ==
    ASSUME Registered, insts' = insts, pc' = pc, pc = "register" => i' = i,
           \A m \in Mod : entry'[m] = "unregistered" <=> entry[m] = "unregistered"
    PROVE  Registered'
  <1>1. \A n \in DOMAIN Order : Order[n] \in Mod  BY OrderType
  <1> QED  BY <1>1 DEF Registered

\* Which entries a step between the walks changes, if it is not EachKnown.
LEMMA EntryEffect ==
    ASSUME TypeOK, Nested, Frames, Running, Registered,
           \/ \E l \in Local : Retry(l)
           \/ SweepAgain \/ SweepDone \/ LoopDone
           \/ Register \/ Settle \/ Price \/ \E a \in Names : Choose(a)
           \/ \E x \in Mod : Ask(x)
           \/ Answer \/ NextInstance \/ EntryDone \/ PriceDone \/ UNCHANGED vars
    PROVE  /\ insts' = insts /\ fetch' = fetch /\ expr' = expr
           /\ \A m \in Mod :
                 \/ entry'[m] = entry[m] /\ out'[m] = out[m]
                 \/ entry[m] = "idle" /\ entry'[m] = "running" /\ out'[m] = out[m]
                 \/ entry[m] = "running" /\ entry'[m] = "done" /\ (m \in fetch => out'[m] # {})
                 \/ entry[m] = "running" /\ entry'[m] = "idle" /\ m \notin fetch
  <1>1. CASE Settle
    <2>1. CASE entry[Order[i]] = "idle"
      BY <1>1, <2>1 DEF Settle, TypeOK, dir, Enter
    <2>2. CASE entry[Order[i]] # "idle"
      BY <1>1, <2>2 DEF Settle, dir
    <2> QED  BY <2>1, <2>2
  <1>2. CASE \E x \in Mod : Ask(x)
    <2> PICK x \in Mod : Ask(x)  BY <1>2
    <2>1. entry[x] = "idle" /\ entry' = [entry EXCEPT ![x] = "running"]
      BY DEF Ask, Asks, Enter
    <2>2. out' = out /\ insts' = insts /\ fetch' = fetch /\ expr' = expr  BY DEF Ask, dir
    <2> QED  BY <2>1, <2>2 DEF TypeOK
  <1>3. CASE EntryDone
    <2>1. stack # <<>> /\ Top.via = "entry"  BY <1>3 DEF EntryDone, Returning
    <2>2. Top.mod \in Mod /\ entry[Top.mod] = "running"  BY <2>1, EntryPosition
    <2>3. insts' = insts /\ fetch' = fetch /\ expr' = expr  BY <1>3 DEF EntryDone, dir
    <2>4. Top.mod \in fetch => Outputs(Top.mod, Top.k) # {}  BY DEF Outputs
    <2>5. /\ out' = [out EXCEPT ![Top.mod] = Outputs(Top.mod, Top.k)]
          /\ entry' = [entry EXCEPT ![Top.mod] =
                          IF Top.mod \in fetch \/ insts[Top.mod] > 1 THEN "done" ELSE "idle"]
      BY <1>3 DEF EntryDone
    <2>6. \A m \in Mod : m # Top.mod => entry'[m] = entry[m] /\ out'[m] = out[m]
      BY <2>5 DEF TypeOK
    <2>7. out'[Top.mod] = Outputs(Top.mod, Top.k)  BY <2>2, <2>5 DEF TypeOK
    <2>8. entry'[Top.mod] = IF Top.mod \in fetch \/ insts[Top.mod] > 1 THEN "done" ELSE "idle"
      BY <2>2, <2>5 DEF TypeOK
    <2> QED  BY <2>2, <2>3, <2>4, <2>6, <2>7, <2>8
  <1>4. CASE SweepAgain \/ SweepDone \/ LoopDone
    BY <1>4 DEF SweepAgain, SweepDone, LoopDone, Sweep, dir
  <1>5. CASE \E l \in Local : Retry(l)  BY <1>5 DEF Retry, dir
  <1>6. CASE Register \/ Price  BY <1>6 DEF Register, Price, dir
  <1>7. CASE \E a \in Names : Choose(a)  BY <1>7 DEF Choose, dir
  <1>8. CASE Answer \/ NextInstance \/ PriceDone \/ UNCHANGED vars
    BY <1>8 DEF Answer, NextInstance, PriceDone, vars, dir
  <1> QED  BY <1>1, <1>2, <1>3, <1>4, <1>5, <1>6, <1>7, <1>8

LEMMA RegisteredStep ==
    ASSUME IInv, [Next]_vars
    PROVE  Registered'
  <1>0. TypeOK /\ Nested /\ Frames /\ Running /\ Registered  BY DEF IInv
  <1>1. CASE SweepAgain \/ SweepDone \/ LoopDone
    <2>1. PICK q \in {"new", "build", "register", "settle", "final", "price"} :
             /\ Sweep(q)
             /\ SweepAgain => q = pc /\ q \in {"new", "build", "final"}
             /\ SweepDone => \/ pc = "new" /\ q = "build"
                             \/ pc = "build" /\ q = "register"
                             \/ pc = "final" /\ q = "price"
             /\ LoopDone => /\ i > Len(Order)
                            /\ \/ pc = "register" /\ q = "settle"
                               \/ pc = "settle" /\ q = "final"
      BY <1>0, <1>1, LoopEffect
    <2>2. Sweep(q)  BY <2>1
    <2>3. pc' = q /\ i' = 1 /\ insts' = insts /\ entry' = entry
      BY <2>2 DEF Sweep
    <2>4. \/ pc \in {"new", "build"} /\ pc' \in {"new", "build", "register"}
          \/ pc \in {"settle", "final"} /\ pc' \in {"final", "price"}
          \/ pc = "register" /\ i > Len(Order) /\ pc' = "settle"
      BY <1>1, <2>1, <2>3
    <2>5. CASE pc \in {"new", "build"} /\ pc' \in {"new", "build", "register"}
      <3>1. \A m \in Mod : entry[m] = "unregistered"  BY <1>0, <2>5 DEF Registered
      <3>2. \A n \in DOMAIN Order : Order[n] \in Mod /\ n >= 1  BY OrderType
      <3> QED  BY <1>0, <2>3, <2>5, <3>1, <3>2 DEF Registered
    <2>6. CASE pc \in {"settle", "final"} /\ pc' \in {"final", "price"}
      BY <1>0, <2>3, <2>6 DEF Registered
    <2>7. CASE pc = "register" /\ i > Len(Order) /\ pc' = "settle"
      <3>1. \A n \in DOMAIN Order : ~(n >= i)
        BY <1>0, <2>7, OrderType DEF TypeOK
      <3>2. \A n \in DOMAIN Order : entry[Order[n]] # "unregistered"
        BY <1>0, <2>7, <3>1 DEF Registered
      <3>3. \A m \in Mod : entry[m] # "unregistered"  BY <3>2, ScopeAssumption
      <3> QED  BY <1>0, <2>3, <2>7, <3>3 DEF Registered
    <2> QED  BY <2>4, <2>5, <2>6, <2>7
  <1>2. CASE EachKnown
    <2>1. /\ pc = "register" /\ i \in DOMAIN Order /\ Top.mod = Order[i] /\ Top.mod \in Mod
          /\ entry' = [entry EXCEPT ![Top.mod] = "idle"] /\ i' = i + 1
          /\ \E k \in Nums : insts' = [insts EXCEPT ![Top.mod] = k]
      BY <1>0, <1>2, EachPosition
    <2>2. pc' = pc  BY <1>2 DEF EachKnown
    <2>3. entry'[Top.mod] = "idle" /\ \A m \in Mod : m # Top.mod => entry'[m] = entry[m]
      BY <1>0, <2>1 DEF TypeOK
    <2>4. insts'[Top.mod] # 0 /\ \A m \in Mod : m # Top.mod => insts'[m] = insts[m]
      BY <1>0, <2>1 DEF TypeOK, Nums
    <2>5. \A m \in Mod : insts'[m] = 0 <=> entry'[m] = "unregistered"
      BY <1>0, <2>3, <2>4 DEF Registered
    <2>6. ASSUME NEW n \in DOMAIN Order
          PROVE  entry'[Order[n]] = "unregistered" <=> n >= i'
      <3>1. Order[n] \in Mod /\ n \in Nat /\ i \in Nat  BY <1>0, OrderType DEF TypeOK
      <3>2. entry[Order[n]] = "unregistered" <=> n >= i  BY <1>0, <2>1 DEF Registered
      <3>3. CASE n = i  BY <2>1, <2>3, <3>1, <3>3
      <3>4. CASE n # i
        <4>1. Order[n] # Top.mod  BY <2>1, <3>4, ScopeAssumption
        <4> QED  BY <2>1, <2>3, <3>1, <3>2, <3>4, <4>1
      <3> QED  BY <3>3, <3>4
    <2> QED  BY <2>1, <2>2, <2>5, <2>6 DEF Registered
  <1>3. CASE ~(SweepAgain \/ SweepDone \/ LoopDone) /\ ~EachKnown
    <2>1. /\ insts' = insts
          /\ \A m \in Mod : entry'[m] = "unregistered" <=> entry[m] = "unregistered"
      <3>1. /\ insts' = insts
            /\ \A m \in Mod :
                 \/ entry'[m] = entry[m] /\ out'[m] = out[m]
                 \/ entry[m] = "idle" /\ entry'[m] = "running" /\ out'[m] = out[m]
                 \/ entry[m] = "running" /\ entry'[m] = "done" /\ (m \in fetch => out'[m] # {})
                 \/ entry[m] = "running" /\ entry'[m] = "idle" /\ m \notin fetch
        BY <1>0, <1>3, EntryEffect DEF Next
      <3> QED  BY <3>1
    <2>2. pc' = pc /\ (pc = "register" => i' = i)
      BY <1>3 DEF Next, Retry, Register, Settle, Price, Choose, Ask, Answer, NextInstance,
                  EntryDone, PriceDone, vars
    <2> QED  BY <1>0, <2>1, <2>2, RegisteredStays
  <1> QED  BY <1>1, <1>2, <1>3

\* Which instances a step builds.
LEMMA BuiltEffect ==
    ASSUME IInv, [Next]_vars
    PROVE  /\ built \subseteq built'
           /\ \A m \in Mod, k \in Nums : <<m, k>> \in built' /\ <<m, k>> \notin built =>
                 \/ entry[m] = "idle" /\ entry'[m] = "running"
                 \/ entry[m] = "running" /\ entry'[m] = "running"
                 \/ pc = "price" /\ pc' = "price" /\ m \notin fetch
  <1>0. TypeOK /\ Nested /\ Frames /\ Running /\ Registered /\ Forced  BY DEF IInv
  <1>1. CASE built' = built  BY <1>1
  <1>2. CASE Settle /\ entry[Order[i]] = "idle"
    <2>1. /\ Order[i] \in Mod /\ entry' = [entry EXCEPT ![Order[i]] = "running"]
          /\ built' = built \cup {<<Order[i], 1>>}
      BY <1>0, <1>2, SettleEffect
    <2> QED  BY <1>0, <1>2, <2>1 DEF TypeOK
  <1>3. CASE \E x \in Mod : Ask(x)
    <2> PICK x \in Mod : Ask(x)  BY <1>3
    <2>1. entry[x] = "idle"  BY DEF Ask, Asks
    <2>2. entry' = [entry EXCEPT ![x] = "running"] /\ built' = built \cup {<<x, 1>>}
      BY <1>0, AskEffect
    <2> QED  BY <1>0, <2>1, <2>2 DEF TypeOK
  <1>4. CASE Price
    <2>1. Order[i] \in Mod  BY <1>0, <1>4, PriceEffect
    <2>2. pc = "price" /\ pc' = "price" /\ built' = built \cup {<<Order[i], 1>>}
      BY <1>4 DEF Price
    <2>3. Order[i] \in fetch => <<Order[i], 1>> \in built
      <3>1. entry[Order[i]] # "unregistered" /\ (Order[i] \in fetch => entry[Order[i]] = "done")
        BY <1>0, <2>1, <2>2 DEF Registered, Forced
      <3>2. insts[Order[i]] # 0 /\ insts[Order[i]] \in {0} \cup Nums
        BY <1>0, <2>1, <3>1 DEF Registered, TypeOK
      <3>3. 1 <= insts[Order[i]] /\ 1 \in Nums  BY <3>2 DEF Nums
      <3> QED  BY <1>0, <3>1, <3>3 DEF Forced
    <2> QED  BY <2>2, <2>3
  <1>5. CASE NextInstance
    <2>1. /\ stack # <<>> /\ Top.via \in {"entry", "price"} /\ 2 \in Nums
          /\ insts[Top.mod] = 2 /\ built' = built \cup {<<Top.mod, 2>>}
      BY <1>0, <1>5, NextInstanceEffect
    <2>2. entry' = entry /\ pc' = pc /\ Top.mod \in Mod
      BY <1>0, <1>5, <2>1, TopType DEF NextInstance
    <2>3. CASE Top.via = "entry"
      <3>1. entry[Top.mod] = "running"  BY <1>0, <2>1, <2>3, EntryPosition
      <3> QED  BY <2>1, <2>2, <3>1
    <2>4. CASE Top.via = "price"
      <3>1. pc = "price"  BY <1>0, <2>1, <2>4, Position
      <3>2. Top.mod \in fetch => <<Top.mod, 2>> \in built
        BY <1>0, <2>1, <2>2, <3>1 DEF Forced
      <3> QED  BY <2>1, <2>2, <3>1, <3>2
    <2> QED  BY <2>1, <2>3, <2>4
  <1>6. CASE ~(built' = built)
    <2>1. (Settle /\ entry[Order[i]] = "idle") \/ (\E x \in Mod : Ask(x)) \/ Price \/ NextInstance
      BY <1>6 DEF Next, Retry, SweepAgain, SweepDone, LoopDone, Sweep, Register, Settle, Choose,
                  Answer, EachKnown, EntryDone, PriceDone, vars
    <2> QED  BY <1>2, <1>3, <1>4, <1>5, <2>1
  <1> QED  BY <1>1, <1>6

LEMMA ForcedStep ==
    ASSUME IInv, [Next]_vars
    PROVE  Forced'
  <1>0. TypeOK /\ Nested /\ Frames /\ Running /\ Registered /\ Forced  BY DEF IInv
  <1>b. /\ built \subseteq built'
        /\ \A m \in Mod, k \in Nums : <<m, k>> \in built' /\ <<m, k>> \notin built =>
              \/ entry[m] = "idle" /\ entry'[m] = "running"
              \/ entry[m] = "running" /\ entry'[m] = "running"
              \/ pc = "price" /\ pc' = "price" /\ m \notin fetch
    BY BuiltEffect
  <1>f. fetch \subseteq Mod  BY <1>0, DirType
  <1>1. CASE EachKnown
    <2>1. /\ pc = "register" /\ Top.mod \in Mod /\ entry[Top.mod] = "unregistered"
          /\ entry' = [entry EXCEPT ![Top.mod] = "idle"]
          /\ \E k \in Nums : insts' = [insts EXCEPT ![Top.mod] = k]
      BY <1>0, <1>1, EachPosition
    <2>2. pc' = pc /\ built' = built /\ out' = out /\ fetch' = fetch
      BY <1>1 DEF EachKnown, dir
    <2>3. entry'[Top.mod] = "idle" /\ \A m \in Mod : m # Top.mod => entry'[m] = entry[m]
      BY <1>0, <2>1 DEF TypeOK
    <2>4. \A m \in Mod : m # Top.mod => insts'[m] = insts[m]
      BY <1>0, <2>1 DEF TypeOK
    <2>5. \A k \in Nums : <<Top.mod, k>> \notin built  BY <1>0, <2>1 DEF Forced
    <2> QED  BY <1>0, <1>f, <2>1, <2>2, <2>3, <2>4, <2>5 DEF Forced
  <1>2. CASE ~EachKnown
    <2>1. /\ insts' = insts /\ fetch' = fetch
          /\ \A m \in Mod :
                 \/ entry'[m] = entry[m] /\ out'[m] = out[m]
                 \/ entry[m] = "idle" /\ entry'[m] = "running" /\ out'[m] = out[m]
                 \/ entry[m] = "running" /\ entry'[m] = "done" /\ (m \in fetch => out'[m] # {})
                 \/ entry[m] = "running" /\ entry'[m] = "idle" /\ m \notin fetch
      BY <1>0, <1>2, EntryEffect DEF Next
    <2>2. (pc = "settle" => \A n \in DOMAIN Order :
          (n < i /\ Order[n] \in fetch) => entry[Order[n]] \in {"running", "done"})'
      <3> SUFFICES ASSUME pc' = "settle", NEW n \in DOMAIN Order, n < i', Order[n] \in fetch
                   PROVE  entry'[Order[n]] \in {"running", "done"}
        BY <2>1
      <3>1. Order[n] \in Mod /\ n \in Nat /\ i \in Nat /\ n >= 1  BY <1>0, OrderType DEF TypeOK
      <3>2. CASE pc # "settle"
        <4>1. SweepAgain \/ SweepDone \/ LoopDone
          BY <1>2, <3>2 DEF Next, Retry, Register, Settle, Price, Choose, Ask, Answer, NextInstance,
                             EntryDone, PriceDone, vars
        <4>2. i' = 1  BY <4>1 DEF SweepAgain, SweepDone, LoopDone, Sweep
        <4> QED  BY <3>1, <4>2
      <3>3. CASE pc = "settle" /\ n < i
        <4>1. entry[Order[n]] \in {"running", "done"}  BY <1>0, <3>3 DEF Forced
        <4> QED  BY <2>1, <3>1, <4>1
      <3>4. CASE pc = "settle" /\ ~(n < i)
        <4>1. i' # i  BY <3>4
        <4>2. i' # 1  BY <3>1
        <4>3. Settle
          BY <1>2, <3>4, <4>1, <4>2 DEF Next, Retry, SweepAgain, SweepDone, LoopDone, Sweep, Register,
                Price, Choose, Ask, Answer, NextInstance, EntryDone, PriceDone, vars
        <4>4. i' = i + 1  BY <4>3 DEF Settle
        <4>5. n = i  BY <3>1, <3>4, <4>4
        <4>6. entry[Order[n]] # "unregistered"  BY <1>0, <3>1, <3>4 DEF Registered
        <4>7. CASE entry[Order[i]] = "idle"
          BY <1>0, <3>1, <4>3, <4>5, <4>7, SettleEffect DEF TypeOK
        <4>8. CASE entry[Order[i]] # "idle"
          <5>1. entry[Order[n]] \in {"running", "done"}
            BY <1>0, <3>1, <4>5, <4>6, <4>8 DEF TypeOK
          <5> QED  BY <2>1, <3>1, <5>1
        <4> QED  BY <4>7, <4>8
      <3> QED  BY <3>2, <3>3, <3>4
    <2>3. (pc \in {"final", "price"} => \A m \in fetch : entry[m] = "done")'
      <3> SUFFICES ASSUME pc' \in {"final", "price"}, NEW m \in fetch
                   PROVE  entry'[m] = "done"
        BY <2>1
      <3>1. CASE pc \in {"final", "price"}
        BY <1>0, <1>f, <2>1, <3>1 DEF Forced
      <3>2. CASE pc \notin {"final", "price"}
        <4>1. SweepAgain \/ SweepDone \/ LoopDone
          BY <1>2, <3>2 DEF Next, Retry, Register, Settle, Price, Choose, Ask, Answer, NextInstance,
                             EntryDone, PriceDone, vars
        <4>2. PICK q \in {"new", "build", "register", "settle", "final", "price"} :
                 /\ Sweep(q)
                 /\ SweepAgain => q = pc
                 /\ SweepDone => \/ pc = "new" /\ q = "build"
                                 \/ pc = "build" /\ q = "register"
                                 \/ pc = "final" /\ q = "price"
                 /\ LoopDone => /\ stack = <<>> /\ i > Len(Order)
                                /\ \/ pc = "register" /\ q = "settle"
                                   \/ pc = "settle" /\ q = "final"
          BY <1>0, <4>1, LoopEffect
        <4>3. Sweep(q)  BY <4>2
        <4>4. pc' = q /\ entry' = entry  BY <4>3 DEF Sweep
        <4>5. pc = "settle" /\ stack = <<>> /\ i > Len(Order)
          BY <3>2, <4>1, <4>2, <4>4
        <4>6. entry[m] # "running"  BY <1>0, <1>f, <4>5, NoneRunning
        <4>7. PICK n \in DOMAIN Order : Order[n] = m  BY <1>f, ScopeAssumption
        <4>8. n < i  BY <1>0, <4>5, OrderType DEF TypeOK
        <4>9. entry[m] \in {"running", "done"}  BY <1>0, <4>5, <4>7, <4>8 DEF Forced
        <4> QED  BY <4>4, <4>6, <4>9
      <3> QED  BY <3>1, <3>2
    <2>4. (\A m \in Mod, k \in Nums : <<m, k>> \in built => entry[m] # "unregistered")'
      <3>1. \A m \in Mod : pc = "price" => entry[m] # "unregistered"  BY <1>0 DEF Registered
      <3>2. \A m \in Mod, k \in Nums : <<m, k>> \in built => entry[m] # "unregistered"
        BY <1>0 DEF Forced
      <3>3. \A m \in Mod : entry[m] # "unregistered" => entry'[m] # "unregistered"  BY <2>1
      <3> QED  BY <1>b, <3>1, <3>2, <3>3
    <2>5. (\A m \in fetch, k \in Nums : entry[m] = "idle" => <<m, k>> \notin built)'
      <3>1. \A m \in fetch : entry'[m] = "idle" => entry[m] = "idle"  BY <1>f, <2>1
      <3>2. \A m \in fetch, k \in Nums : entry[m] = "idle" => <<m, k>> \notin built
        BY <1>0 DEF Forced
      <3> QED  BY <1>b, <1>f, <2>1, <3>1, <3>2
    <2>6. (\A m \in fetch, k \in Nums : entry[m] = "done" /\ k <= insts[m] => <<m, k>> \in built)'
      <3> SUFFICES ASSUME NEW m \in fetch, NEW k \in Nums, entry'[m] = "done", k <= insts[m]
                   PROVE  <<m, k>> \in built
        BY <1>b, <2>1
      <3>1. CASE entry[m] = "done"  BY <1>0, <3>1 DEF Forced
      <3>2. CASE entry[m] # "done"
        <4>1. EntryDone
          <5>1. entry' # entry  BY <3>2
          <5>2. CASE Settle \/ \E x \in Mod : Ask(x)
            <6>1. PICK x \in Mod : entry' = [entry EXCEPT ![x] = "running"]
              <7>1. CASE Settle  BY <1>0, <5>1, <7>1, SettleEffect DEF Settle
              <7>2. CASE \E x \in Mod : Ask(x)  BY <1>0, <7>2, AskEffect
              <7> QED  BY <5>2, <7>1, <7>2
            <6>2. entry'[m] # "done"  BY <1>0, <1>f, <3>2, <6>1 DEF TypeOK
            <6> QED  BY <6>2
          <5> QED
            BY <1>2, <5>1, <5>2 DEF Next, Retry, SweepAgain, SweepDone, LoopDone, Sweep, Register,
                  Price, Choose, Answer, NextInstance, PriceDone, vars
        <4>2. stack # <<>> /\ Top.via = "entry" /\ Top.k = insts[Top.mod]
          BY <4>1 DEF EntryDone, Returning
        <4>3. FrameOK(Top) /\ Top.mod \in Mod  BY <1>0, <4>2, EntryPosition
        <4>4. Top.mod = m
          BY <1>0, <1>f, <3>2, <4>1 DEF EntryDone, TypeOK
        <4> QED  BY <4>2, <4>3, <4>4 DEF FrameOK
      <3> QED  BY <3>1, <3>2
    <2>7. (\A m \in fetch : entry[m] = "done" => out[m] # {})'
      BY <1>0, <1>f, <2>1 DEF Forced
    <2> QED  BY <2>2, <2>3, <2>4, <2>5, <2>6, <2>7 DEF Forced
  <1> QED  BY <1>1, <1>2

-----------------------------------------------------------------------------
(* The fixpoints.                                                          *)

\* Outside of the sweeps the locals and the resources stay as they are.
LEMMA QuietEffect ==
    ASSUME TypeOK, Nested, Frames,
           \/ Register \/ Settle \/ Price \/ \E a \in Names : Choose(a)
           \/ \E x \in Mod : Ask(x)
           \/ Answer \/ EachKnown \/ NextInstance \/ EntryDone \/ PriceDone
    PROVE  /\ locals' = locals /\ rsrc' = rsrc /\ todo' = todo /\ changed' = changed
           /\ expr' = expr /\ pc' = pc /\ pc \in DOMAIN Via /\ ~Sweeping
           /\ pc = "price" => entry' = entry /\ out' = out
  <1>1. /\ locals' = locals /\ rsrc' = rsrc /\ todo' = todo /\ changed' = changed
        /\ expr' = expr /\ pc' = pc
    BY DEF Register, Settle, Price, Choose, Ask, Answer, EachKnown, NextInstance, EntryDone,
           PriceDone, dir
  <1>2. CASE Register \/ Settle \/ Price
    <2>1. pc \in {"register", "settle", "price"}
      BY <1>2 DEF Register, Settle, Price
    <2>2. pc = "price" => entry' = entry /\ out' = out
      BY <1>2 DEF Register, Settle, Price
    <2> QED  BY <1>1, <2>1, <2>2, Walks DEF Sweeping
  <1>3. CASE ~(Register \/ Settle \/ Price)
    <2>1. stack # <<>>
      BY <1>3 DEF Choose, Ask, Asks, Answer, EachKnown, NextInstance, EntryDone, PriceDone, Returning
    <2>2. pc \in DOMAIN Via /\ ~Sweeping  BY <2>1, Position
    <2>3. ASSUME pc = "price" PROVE entry' = entry /\ out' = out
      <3>1. Top.via = "price" /\ Top.cur = None /\ Top.todo = {}  BY <2>1, <2>3, Position
      <3>2. NextInstance \/ PriceDone
        BY <1>3, <3>1 DEF Choose, Ask, Asks, Answer, EachKnown, EntryDone, Returning
      <3> QED  BY <3>2 DEF NextInstance, PriceDone
    <2> QED  BY <1>1, <2>2, <2>3
  <1> QED  BY <1>2, <1>3

LEMMA ScopeSame ==
    ASSUME locals' = locals, rsrc' = rsrc, entry' = entry, out' = out, expr' = expr
    PROVE  /\ Pending' = Pending
           /\ \A l \in Local : InScope(expr.local[l], l)' = InScope(expr.local[l], l)
  BY DEF Pending, InScope, Eval, Scope

LEMMA ResourcesSame ==
    ASSUME locals' = locals, expr' = expr
    PROVE  Resources(locals)' = Resources(locals)
  BY DEF Resources, Eval

LEMMA RetryEffect ==
    ASSUME TypeOK, NEW l \in Local, Retry(l)
    PROVE  /\ InScope(expr.local[l], l) \in Val
           /\ locals'[l] = InScope(expr.local[l], l)
           /\ \A k \in Local : k # l => locals'[k] = locals[k]
           /\ todo' = todo \ {l} /\ l \in todo /\ Sweeping
           /\ changed' = (changed \/ InScope(expr.local[l], l) # {})
           /\ expr' = expr /\ rsrc' = rsrc /\ entry' = entry /\ out' = out /\ given' = given
           /\ pc' = pc
  <1>1. InScope(expr.local[l], l) \in Val  BY DirType, InScopeType DEF Owner, Refer
  <1>2. locals' = [locals EXCEPT ![l] = InScope(expr.local[l], l)]  BY DEF Retry
  <1>3. locals'[l] = InScope(expr.local[l], l)
        /\ \A k \in Local : k # l => locals'[k] = locals[k]
    BY <1>2 DEF TypeOK
  <1>4. changed' = (changed \/ InScope(expr.local[l], l) # {})  BY <1>3 DEF Retry
  <1> QED  BY <1>1, <1>3, <1>4 DEF Retry, dir

LEMMA SweptStep ==
    ASSUME IInv, [Next]_vars
    PROVE  Swept'
  <1>0. TypeOK /\ Nested /\ Frames /\ Swept  BY DEF IInv
  <1>1. CASE \E l \in Local : Retry(l)
    <2> PICK l \in Local : Retry(l)  BY <1>1
    <2>1. /\ locals'[l] = InScope(expr.local[l], l)
          /\ \A k \in Local : k # l => locals'[k] = locals[k]
          /\ todo' = todo \ {l} /\ l \in todo /\ Sweeping
          /\ changed' = (changed \/ InScope(expr.local[l], l) # {})
          /\ expr' = expr /\ rsrc' = rsrc /\ entry' = entry /\ out' = out /\ pc' = pc
      BY <1>0, RetryEffect
    <2>2. todo \subseteq Pending  BY <1>0 DEF Swept
    <2>3. todo' \subseteq Pending'
      BY <2>1, <2>2 DEF Pending
    <2>4. pc \in {"new", "build", "final"} /\ pc' # "price"  BY <2>1 DEF Sweeping
    <2>5. ASSUME ~changed'
          PROVE  /\ \A k \in Pending' \ todo' : InScope(expr.local[k], k)' = {}
                 /\ pc \in {"build", "final"} => rsrc' = Resources(locals)'
      <3>1. ~changed /\ InScope(expr.local[l], l) = {}  BY <2>1, <2>5
      <3>2. locals[l] = {}  BY <2>1, <2>2 DEF Pending
      <3>3. locals' = locals
        <4>1. locals \in [Local -> Val] /\ locals' = [locals EXCEPT ![l] = InScope(expr.local[l], l)]
          BY <1>0 DEF TypeOK, Retry
        <4> QED  BY <3>1, <3>2, <4>1
      <3>4. Pending' = Pending
            /\ \A k \in Local : InScope(expr.local[k], k)' = InScope(expr.local[k], k)
        BY <2>1, <3>3, ScopeSame
      <3>5. \A k \in Pending \ todo : InScope(expr.local[k], k) = {}
        BY <1>0, <2>1, <3>1 DEF Swept
      <3>6. \A k \in Pending' \ todo' : InScope(expr.local[k], k)' = {}
        BY <2>1, <3>1, <3>4, <3>5 DEF Pending
      <3>7. Resources(locals)' = Resources(locals)  BY <2>1, <3>3, ResourcesSame
      <3> QED  BY <1>0, <2>1, <3>1, <3>6, <3>7 DEF Swept
    <2>6. pc' \notin DOMAIN Via  BY <2>1, <2>4, Walks
    <2> QED  BY <2>1, <2>3, <2>4, <2>5, <2>6 DEF Swept
  <1>2. CASE SweepAgain \/ SweepDone \/ LoopDone
    <2>1. PICK q \in {"new", "build", "register", "settle", "final", "price"} :
             /\ Sweep(q)
             /\ SweepAgain => /\ q = pc /\ todo = {} /\ changed /\ q \in {"new", "build", "final"}
                              /\ rsrc' = IF pc = "new" THEN rsrc ELSE Resources(locals)
             /\ SweepDone => /\ todo = {} /\ ~changed /\ Sweeping
                             /\ rsrc' = IF pc = "new" THEN Resources(locals) ELSE rsrc
                             /\ \/ pc = "new" /\ q = "build"
                                \/ pc = "build" /\ q = "register"
                                \/ pc = "final" /\ q = "price"
             /\ LoopDone => /\ stack = <<>> /\ i > Len(Order) /\ rsrc' = rsrc
                            /\ \/ pc = "register" /\ q = "settle"
                               \/ pc = "settle" /\ q = "final"
      BY <1>0, <1>2, LoopEffect
    <2>2. Sweep(q)  BY <2>1
    <2>3. /\ pc' = q /\ changed' = FALSE /\ expr' = expr /\ locals' = locals
          /\ entry' = entry /\ out' = out
      BY <2>2 DEF Sweep, dir
    <2>4. todo' = IF q \in {"new", "build", "final"} THEN Pending ELSE {}  BY <2>2 DEF Sweep
    <2>5. Pending' = Pending  BY <2>3 DEF Pending
    <2>6. (todo \subseteq Pending)'  BY <2>4, <2>5
    <2>7. (Sweeping /\ ~changed => \A l \in Pending \ todo : InScope(expr.local[l], l) = {})'
      BY <2>3, <2>4, <2>5 DEF Sweeping
    <2>8. (pc = "price" => \A l \in Pending : InScope(expr.local[l], l) = {})'
      <3> SUFFICES ASSUME pc' = "price"
                   PROVE  \A l \in Pending' : InScope(expr.local[l], l)' = {}
        OBVIOUS
      <3>1. /\ q = "price" /\ todo = {} /\ ~changed /\ Sweeping /\ rsrc' = rsrc
        BY <1>2, <2>1, <2>3
      <3>2. \A l \in Pending : InScope(expr.local[l], l) = {}  BY <1>0, <3>1 DEF Swept
      <3>3. \A k \in Local : InScope(expr.local[k], k)' = InScope(expr.local[k], k)
        BY <2>3, <3>1, ScopeSame
      <3> QED  BY <2>5, <3>2, <3>3 DEF Pending
    <2>9. ((pc \in DOMAIN Via \/ (pc \in {"build", "final"} /\ ~changed))
             => rsrc = Resources(locals))'
      <3>1. Resources(locals)' = Resources(locals)  BY <2>3, ResourcesSame
      <3>2. CASE SweepAgain
        BY <2>1, <2>3, <3>1, <3>2, Walks
      <3>3. CASE SweepDone
        <4>1. pc \in {"build", "final"} => rsrc = Resources(locals)
          BY <1>0, <2>1, <3>3 DEF Swept
        <4> QED  BY <2>1, <3>1, <3>3, <4>1
      <3>4. CASE LoopDone
        <4>1. pc \in DOMAIN Via  BY <2>1, <3>4, Walks
        <4>2. rsrc = Resources(locals)  BY <1>0, <4>1 DEF Swept
        <4> QED  BY <2>1, <3>1, <3>4, <4>2
      <3> QED  BY <1>2, <3>2, <3>3, <3>4
    <2> QED  BY <2>6, <2>7, <2>8, <2>9 DEF Swept
  <1>3. CASE \/ Register \/ Settle \/ Price \/ \E a \in Names : Choose(a)
             \/ \E x \in Mod : Ask(x)
             \/ Answer \/ EachKnown \/ NextInstance \/ EntryDone \/ PriceDone
    <2>1. /\ locals' = locals /\ rsrc' = rsrc /\ todo' = todo /\ changed' = changed
          /\ expr' = expr /\ pc' = pc /\ pc \in DOMAIN Via /\ ~Sweeping
          /\ pc = "price" => entry' = entry /\ out' = out
      BY <1>0, <1>3, QuietEffect
    <2>2. Pending' = Pending /\ ~Sweeping'  BY <2>1 DEF Pending, Sweeping
    <2>3. pc = "price" => \A l \in Local : InScope(expr.local[l], l)' = InScope(expr.local[l], l)
      BY <2>1, ScopeSame
    <2>4. Resources(locals)' = Resources(locals)  BY <2>1, ResourcesSame
    <2>5. (todo \subseteq Pending)'  BY <1>0, <2>1, <2>2 DEF Swept
    <2>6. (pc = "price" => \A l \in Pending : InScope(expr.local[l], l) = {})'
      <3> SUFFICES ASSUME pc' = "price"
                   PROVE  \A l \in Pending' : InScope(expr.local[l], l)' = {}
        OBVIOUS
      <3>1. \A l \in Pending : InScope(expr.local[l], l) = {}  BY <1>0, <2>1 DEF Swept
      <3> QED  BY <2>1, <2>2, <2>3, <3>1 DEF Pending
    <2>7. rsrc = Resources(locals)  BY <1>0, <2>1 DEF Swept
    <2> QED  BY <2>1, <2>2, <2>4, <2>5, <2>6, <2>7 DEF Swept
  <1>4. CASE UNCHANGED vars
    <2>1. /\ locals' = locals /\ rsrc' = rsrc /\ todo' = todo /\ changed' = changed
          /\ expr' = expr /\ pc' = pc /\ entry' = entry /\ out' = out
      BY <1>4 DEF vars, dir
    <2>2. /\ Pending' = Pending
          /\ \A l \in Local : InScope(expr.local[l], l)' = InScope(expr.local[l], l)
      BY <2>1, ScopeSame
    <2>3. Resources(locals)' = Resources(locals)  BY <2>1, ResourcesSame
    <2>4. Sweeping' = Sweeping  BY <2>1 DEF Sweeping
    <2> QED  BY <1>0, <2>1, <2>2, <2>3, <2>4 DEF Swept, Pending
  <1> QED  BY <1>1, <1>2, <1>3, <1>4 DEF Next

-----------------------------------------------------------------------------
(* What has been read lasts.                                               *)

\* More values change the value of an expression only if it was a fallback.
LEMMA EvalKept ==
    ASSUME NEW e, NEW o, NEW v, NEW w, Eval(e, o, v) # {},
           \A x \in e.refs : v[x] # {} => w[x] = v[x]
    PROVE  Eval(e, o, w) = Eval(e, o, v) \/ (~TryFree(e) /\ Eval(e, o, v) = Fallback(o))
  <1>1. CASE e.refs = {}  BY <1>1 DEF Eval
  <1>2. CASE e.refs # {} /\ \A x \in e.refs : v[x] # {}
    <2>1. \A x \in e.refs : w[x] = v[x]  BY <1>2
    <2>2. {w[x] : x \in e.refs} = {v[x] : x \in e.refs}  BY <2>1
    <2> QED  BY <1>2, <2>1, <2>2 DEF Eval
  <1>3. CASE e.refs # {} /\ ~\A x \in e.refs : v[x] # {}
    <2>1. e.op = "try" /\ Eval(e, o, v) = {<<"fallback", o>>}  BY <1>3 DEF Eval
    <2> QED  BY <2>1 DEF TryFree, Fallback
  <1> QED  BY <1>1, <1>2, <1>3

LEMMA TryHasValue ==
    ASSUME NEW e, NEW o, NEW v, ~TryFree(e)
    PROVE  Eval(e, o, v) # {}
  <1>1. e.op = "try"  BY DEF TryFree
  <1>2. CASE e.refs = {}  BY <1>1, <1>2 DEF Eval
  <1>3. CASE e.refs # {} /\ \A x \in e.refs : v[x] # {}
    <2>1. Eval(e, o, v) = UNION {v[x] : x \in e.refs}  BY <1>1, <1>3 DEF Eval
    <2>2. PICK x \in e.refs : v[x] # {}  BY <1>3
    <2>3. v[x] \subseteq UNION {v[y] : y \in e.refs}  OBVIOUS
    <2> QED  BY <2>1, <2>2, <2>3
  <1>4. CASE e.refs # {} /\ ~\A x \in e.refs : v[x] # {}  BY <1>1, <1>4 DEF Eval
  <1> QED  BY <1>2, <1>3, <1>4

LEMMA ResourcesKept ==
    ASSUME expr' = expr, NEW r \in Rsrc, Resources(locals)[r] # {},
           \A l \in Local : locals[l] # {} => locals'[l] = locals[l]
    PROVE  \/ Resources(locals)'[r] = Resources(locals)[r]
           \/ ~TryFree(expr.rsrc[r]) /\ Resources(locals)[r] = Fallback(r)
  <1> PICK e : e = expr.rsrc[r]  OBVIOUS
  <1> PICK v : v = [x \in e.refs |-> IF x \in Local THEN locals[x] ELSE {}]  OBVIOUS
  <1> PICK w : w = [x \in e.refs |-> IF x \in Local THEN locals'[x] ELSE {}]  OBVIOUS
  <1>1. Resources(locals)[r] = Eval(e, r, v)  BY DEF Resources
  <1>2. Resources(locals)'[r] = Eval(e, r, w)  BY DEF Resources, Eval
  <1>3. \A x \in e.refs : v[x] # {} => w[x] = v[x]  OBVIOUS
  <1> QED  BY <1>1, <1>2, <1>3, EvalKept

LEMMA TryResource ==
    ASSUME NEW r \in Rsrc, ~TryFree(expr.rsrc[r])
    PROVE  Resources(locals)[r] # {}
  BY TryHasValue DEF Resources

\* A local that has a value keeps it.
LEMMA LocalsKept ==
    ASSUME IInv, [Next]_vars
    PROVE  \A l \in Local : locals[l] # {} => locals'[l] = locals[l]
  <1>0. TypeOK /\ Nested /\ Frames /\ Swept  BY DEF IInv
  <1>1. CASE \E l \in Local : Retry(l)
    <2> PICK l \in Local : Retry(l)  BY <1>1
    <2>1. l \in todo /\ \A k \in Local : k # l => locals'[k] = locals[k]
      BY <1>0, RetryEffect
    <2>2. locals[l] = {}  BY <1>0, <2>1 DEF Swept, Pending
    <2> QED  BY <2>1, <2>2
  <1>2. CASE ~\E l \in Local : Retry(l)
    <2>1. locals' = locals
      BY <1>2 DEF Next, SweepAgain, SweepDone, LoopDone, Sweep, Register, Settle, Price, Choose, Ask,
            Answer, EachKnown, NextInstance, EntryDone, PriceDone, vars
    <2> QED  BY <2>1
  <1> QED  BY <1>1, <1>2

LEMMA ExprKept ==
    ASSUME [Next]_vars
    PROVE  expr' = expr /\ fetch' = fetch
  BY DEF Next, Retry, SweepAgain, SweepDone, LoopDone, Sweep, Register, Settle, Price, Choose, Ask,
         Answer, EachKnown, NextInstance, EntryDone, PriceDone, vars, dir

\* The resources change when they are resolved again.
LEMMA RsrcEffect ==
    ASSUME IInv, [Next]_vars
    PROVE  rsrc' = rsrc \/ (rsrc' = Resources(locals) /\ locals' = locals)
  <1>0. TypeOK  BY DEF IInv
  <1>1. CASE SweepAgain \/ SweepDone \/ LoopDone
    <2>1. PICK q \in {"new", "build", "register", "settle", "final", "price"} :
             Sweep(q) /\ (rsrc' = rsrc \/ rsrc' = Resources(locals))
      BY <1>0, <1>1, LoopEffect
    <2>2. Sweep(q)  BY <2>1
    <2> QED  BY <2>1, <2>2 DEF Sweep
  <1>2. CASE ~(SweepAgain \/ SweepDone \/ LoopDone)
    BY <1>2 DEF Next, Retry, Register, Settle, Price, Choose, Ask,
            Answer, EachKnown, NextInstance, EntryDone, PriceDone, vars
  <1> QED  BY <1>1, <1>2

\* What a scope gives stays, unless it is the fallback of a resource.
AtFallback(x) == x \in Rsrc /\ ~TryFree(expr.rsrc[x]) /\ Scope(x) = Fallback(x)
Grows(x) == Scope(x) # {} => Scope(x)' # {} /\ (Scope(x)' = Scope(x) \/ AtFallback(x))

LEMMA ScopeKept ==
    ASSUME IInv, [Next]_vars
    PROVE  \A x \in Refer : Grows(x)
  <1>0. TypeOK /\ Nested /\ Frames /\ Running /\ Registered /\ Lasting  BY DEF IInv
  <1>1. \A l \in Local : locals[l] # {} => locals'[l] = locals[l]  BY LocalsKept
  <1>2. ASSUME NEW r \in Rsrc, rsrc[r] # {}
        PROVE  /\ rsrc'[r] # {}
               /\ rsrc'[r] = rsrc[r] \/ (~TryFree(expr.rsrc[r]) /\ rsrc[r] = Fallback(r))
    <2>1. CASE rsrc' = rsrc  BY <1>2, <2>1
    <2>2. CASE rsrc' = Resources(locals)
      <3>1. \/ rsrc[r] = Resources(locals)[r]
            \/ ~TryFree(expr.rsrc[r]) /\ rsrc[r] = Fallback(r)
        BY <1>0, <1>2 DEF Lasting
      <3>2. ~TryFree(expr.rsrc[r]) => Resources(locals)[r] # {}  BY TryResource
      <3> QED  BY <1>2, <2>2, <3>1, <3>2
    <2> QED  BY <2>1, <2>2, RsrcEffect
  <1>3. \A m \in Mod : entry[m] = "done" => entry'[m] = "done" /\ out'[m] = out[m]
    <2>1. CASE EachKnown
      <3>1. /\ Top.mod \in Mod /\ entry[Top.mod] = "unregistered"
            /\ entry' = [entry EXCEPT ![Top.mod] = "idle"]
        BY <1>0, <2>1, EachPosition
      <3>2. out' = out  BY <2>1 DEF EachKnown
      <3> QED  BY <1>0, <3>1, <3>2 DEF TypeOK
    <2>2. CASE ~EachKnown
      <3>1. \A m \in Mod :
                 \/ entry'[m] = entry[m] /\ out'[m] = out[m]
                 \/ entry[m] = "idle" /\ entry'[m] = "running" /\ out'[m] = out[m]
                 \/ entry[m] = "running" /\ entry'[m] = "done" /\ (m \in fetch => out'[m] # {})
                 \/ entry[m] = "running" /\ entry'[m] = "idle" /\ m \notin fetch
        BY <1>0, <2>2, EntryEffect DEF Next
      <3> QED  BY <3>1
    <2> QED  BY <2>1, <2>2
  <1>4. Local \cap Rsrc = {} /\ Local \cap Mod = {} /\ Rsrc \cap Mod = {}
    BY ScopeAssumption
  <1>5. ASSUME NEW x \in Local, Scope(x) # {} PROVE Scope(x)' = Scope(x)
    BY <1>1, <1>5 DEF Scope
  <1>6. ASSUME NEW x \in Rsrc, Scope(x) # {}
        PROVE  Scope(x)' # {} /\ (Scope(x)' = Scope(x) \/ AtFallback(x))
    <2>1. Scope(x) = rsrc[x] /\ Scope(x)' = rsrc'[x]  BY <1>4 DEF Scope
    <2> QED  BY <1>2, <1>6, <2>1 DEF AtFallback
  <1>7. ASSUME NEW x \in Mod, Scope(x) # {} PROVE Scope(x)' = Scope(x)
    BY <1>3, <1>4, <1>7 DEF Scope
  <1> QED  BY <1>5, <1>6, <1>7 DEF Refer, Grows

LEMMA StandsKept ==
    ASSUME NEW e \in Expr, NEW o, NEW v, Stands(e, o, v), e.refs \subseteq Refer, expr' = expr,
           \A x \in Refer : Grows(x)
    PROVE  Stands(e, o, v)'
  <1> SUFFICES ASSUME e.refs # {}, v # {}, ~(~TryFree(e) /\ v = Fallback(o))
               PROVE  /\ \A x \in e.refs : Scope(x)' # {}
                      /\ \E S \in SUBSET Fallible(e)' : v = MeansWith(e, S)'
    BY DEF Stands, TryFree, Fallback
  <1>1. \A x \in e.refs : Scope(x) # {}  BY DEF Stands
  <1>2. PICK S \in SUBSET Fallible(e) : v = MeansWith(e, S)  BY DEF Stands
  <1> PICK T : T = S \cup {x \in Fallible(e) : Scope(x) = Fallback(x)}  OBVIOUS
  <1> DEFINE old(x) == IF x \in S THEN Fallback(x) ELSE Scope(x)
             new(x) == IF x \in T THEN Fallback(x) ELSE Scope(x)'
  <1>3. T \in SUBSET Fallible(e)  OBVIOUS
  <1>4. ASSUME NEW x \in e.refs PROVE new(x) = old(x)
    <2>1. Scope(x)' = Scope(x) \/ AtFallback(x)  BY <1>1 DEF Grows
    <2>2. AtFallback(x) => x \in T  BY DEF AtFallback, Fallible
    <2>3. x \in T => x \in S \/ Scope(x) = Fallback(x)  OBVIOUS
    <2> QED  BY <2>1, <2>2, <2>3
  <1>5. UNION {new(x) : x \in e.refs} = UNION {old(x) : x \in e.refs}
    <2>1. {new(x) : x \in e.refs} = {old(x) : x \in e.refs}  BY <1>4
    <2> QED  BY <2>1
  <1>6. MeansWith(e, S) = UNION {old(x) : x \in e.refs}  BY DEF MeansWith
  <1>7. MeansWith(e, T)' = UNION {new(x) : x \in e.refs}  BY DEF MeansWith, Fallback
  <1>8. Fallible(e)' = Fallible(e)  BY DEF Fallible, TryFree
  <1>9. \A x \in e.refs : Scope(x)' # {}  BY <1>1 DEF Grows
  <1>10. T \in SUBSET Fallible(e)' /\ v = MeansWith(e, T)'
    BY <1>2, <1>3, <1>5, <1>6, <1>7, <1>8
  <1> QED  BY <1>9, <1>10

LEMMA InScopeStands ==
    ASSUME NEW e \in Expr, NEW o
    PROVE  Stands(e, o, InScope(e, o))
  <1> SUFFICES ASSUME e.refs # {}, InScope(e, o) # {}
               PROVE  \/ ~TryFree(e) /\ InScope(e, o) = Fallback(o)
                      \/ /\ \A x \in e.refs : Scope(x) # {}
                         /\ \E S \in SUBSET Fallible(e) : InScope(e, o) = MeansWith(e, S)
    BY DEF Stands
  <1> DEFINE v == [x \in e.refs |-> Scope(x)]
  <1>1. InScope(e, o) = Eval(e, o, v)  BY DEF InScope
  <1>2. \A x \in e.refs : v[x] = Scope(x)  OBVIOUS
  <1> HIDE DEF v
  <1>3. CASE \A x \in e.refs : v[x] # {}
    <2>1. e.op # "absent"  BY <1>1 DEF Eval
    <2>2. Eval(e, o, v) = UNION {v[x] : x \in e.refs}  BY <1>3, <2>1 DEF Eval
    <2>3. {v[x] : x \in e.refs} = {Scope(x) : x \in e.refs}  BY <1>2
    <2>4. MeansWith(e, {}) = UNION {Scope(x) : x \in e.refs}  BY DEF MeansWith
    <2>5. \A x \in e.refs : Scope(x) # {}  BY <1>2, <1>3
    <2> QED  BY <1>1, <2>2, <2>3, <2>4, <2>5
  <1>4. CASE ~\A x \in e.refs : v[x] # {}
    <2>1. e.op = "try" /\ Eval(e, o, v) = {<<"fallback", o>>}  BY <1>1, <1>4 DEF Eval
    <2> QED  BY <1>1, <2>1 DEF TryFree, Fallback
  <1> QED  BY <1>3, <1>4

LEMMA LastingStep ==
    ASSUME IInv, [Next]_vars
    PROVE  Lasting'
  <1>0. TypeOK /\ Nested /\ Frames /\ Lasting  BY DEF IInv
  <1>1. \A l \in Local : locals[l] # {} => locals'[l] = locals[l]  BY LocalsKept
  <1>2. expr' = expr  BY ExprKept
  <1>3. ASSUME NEW r \in Rsrc, rsrc'[r] # {}
        PROVE  \/ rsrc'[r] = Resources(locals)'[r]
               \/ ~TryFree(expr.rsrc[r]) /\ rsrc'[r] = Fallback(r)
    <2>1. CASE rsrc' = rsrc
      <3>1. \/ rsrc[r] = Resources(locals)[r]
            \/ ~TryFree(expr.rsrc[r]) /\ rsrc[r] = Fallback(r)
        BY <1>0, <1>3, <2>1 DEF Lasting
      <3> QED  BY <1>1, <1>2, <1>3, <2>1, <3>1, ResourcesKept
    <2>2. CASE rsrc' = Resources(locals) /\ locals' = locals
      <3>1. Resources(locals)' = Resources(locals)  BY <1>2, <2>2, ResourcesSame
      <3> QED  BY <2>2, <3>1
    <2> QED  BY <2>1, <2>2, RsrcEffect
  <1>4. ASSUME NEW l \in Local
        PROVE  Stands(expr.local[l], l, locals[l])'
    <2> PICK e : e = expr.local[l]  OBVIOUS
    <2> PICK v : v = locals'[l]  OBVIOUS
    <2>1. e \in Expr /\ e.refs \subseteq Refer  BY <1>0, DirType, ExprType
    <2>2. \A x \in Refer : Grows(x)  BY ScopeKept
    <2>3. Stands(e, l, v)
      <3>1. CASE v = locals[l]
        BY <1>0, <3>1 DEF Lasting
      <3>2. CASE v # locals[l]
        <4>1. PICK k \in Local : Retry(k)
          BY <3>2 DEF Next, SweepAgain, SweepDone, LoopDone, Sweep, Register, Settle, Price, Choose,
                      Ask, Answer, EachKnown, NextInstance, EntryDone, PriceDone, vars
        <4>2. l = k /\ v = InScope(e, l)  BY <1>0, <3>2, <4>1, RetryEffect
        <4>3. Stands(e, l, InScope(e, l))  BY <2>1, InScopeStands
        <4> QED  BY <4>2, <4>3
      <3> QED  BY <3>1, <3>2
    <2>4. Stands(e, l, v)'  BY <1>2, <2>1, <2>2, <2>3, StandsKept
    <2>5. e = expr'.local[l] /\ v = locals'[l]  BY <1>2
    <2> QED  BY <2>4, <2>5 DEF Stands, MeansWith, Fallible, Fallback, TryFree, Scope
  <1>5. ASSUME NEW m \in Mod, NEW k \in Nums, NEW a \in Input
        PROVE  Stands(expr.in[m][a], <<m, a>>, given[m][k][a])'
    <2> PICK e : e = expr.in[m][a]  OBVIOUS
    <2> PICK v : v = given'[m][k][a]  OBVIOUS
    <2>1. e \in Expr /\ e.refs \subseteq Refer /\ ExprOf(m, a) = e  BY <1>0, DirType, ExprType
    <2>2. \A x \in Refer : Grows(x)  BY ScopeKept
    <2>3. Stands(e, <<m, a>>, v)
      <3>1. CASE v = given[m][k][a]
        BY <1>0, <3>1 DEF Lasting
      <3>2. CASE v # given[m][k][a]
        <4>1. Answer
          BY <3>2 DEF Next, Retry, SweepAgain, SweepDone, LoopDone, Sweep, Register, Settle, Price,
                      Choose, Ask, EachKnown, NextInstance, EntryDone, PriceDone, vars
        <4>2. a \in Names  BY DEF Names
        <4>3. /\ \A mm \in Mod, kk \in Nums, aa \in Names :
                    <<mm, kk, aa>> # <<Top.mod, Top.k, Top.cur>> => given'[mm][kk][aa] = given[mm][kk][aa]
              /\ given'[Top.mod][Top.k][Top.cur]
                    = InScope(ExprOf(Top.mod, Top.cur), <<Top.mod, Top.cur>>)
          BY <1>0, <4>1, AnswerEffect
        <4>4. <<m, k, a>> = <<Top.mod, Top.k, Top.cur>>  BY <3>2, <4>2, <4>3
        <4>5. v = InScope(e, <<m, a>>)  BY <2>1, <4>3, <4>4
        <4>6. Stands(e, <<m, a>>, InScope(e, <<m, a>>))  BY <2>1, InScopeStands
        <4> QED  BY <4>5, <4>6
      <3> QED  BY <3>1, <3>2
    <2>4. Stands(e, <<m, a>>, v)'  BY <1>2, <2>1, <2>2, <2>3, StandsKept
    <2>5. e = expr'.in[m][a] /\ v = given'[m][k][a]  BY <1>2
    <2> QED  BY <2>4, <2>5 DEF Stands, MeansWith, Fallible, Fallback, TryFree, Scope
  <1>6. \A r \in Rsrc : TryFree(expr.rsrc[r])' = TryFree(expr.rsrc[r]) /\ Fallback(r)' = Fallback(r)
    BY <1>2 DEF TryFree, Fallback
  <1>7. (\A r \in Rsrc : rsrc[r] # {} => \/ rsrc[r] = Resources(locals)[r]
                                         \/ ~TryFree(expr.rsrc[r]) /\ rsrc[r] = Fallback(r))'
    BY <1>3, <1>6
  <1> QED  BY <1>4, <1>5, <1>7 DEF Lasting

-----------------------------------------------------------------------------
(* Direct references.                                                      *)

LEMMA RankType ==
    ASSUME NEW rank \in Ranks
    PROVE  \A m \in Mod : rank[m] \in Int
  <1>1. Cardinality(Mod) \in Nat  BY ScopeAssumption, FS_CardinalityType
  <1> QED  BY <1>1 DEF Ranks

LEMMA UsesKept ==
    ASSUME expr' = expr
    PROVE  \A m, x : Uses(m, x)' <=> Uses(m, x)
  BY DEF Uses, ExprOf

LEMMA FallingStays ==
    ASSUME Falling, expr' = expr,
           \A n \in DOMAIN stack' : n \in DOMAIN stack /\ stack'[n].mod = stack[n].mod
    PROVE  Falling'
  <1>1. \A m, x : Uses(m, x)' <=> Uses(m, x)  BY UsesKept
  <1>2. ASSUME NEW rank \in Ranks, \A m, x \in Mod : Uses(m, x)' => rank[x] < rank[m],
               NEW j \in DOMAIN stack', NEW n \in DOMAIN stack', j < n
        PROVE  rank[stack'[n].mod] < rank[stack'[j].mod]
    <2>1. \A m, x \in Mod : Uses(m, x) => rank[x] < rank[m]  BY <1>1, <1>2
    <2>2. rank[stack[n].mod] < rank[stack[j].mod]  BY <1>2, <2>1 DEF Falling
    <2> QED  BY <2>2
  <1> QED  BY <1>2 DEF Falling, Ranks

\* A call alone on the stack.
LEMMA FallingAlone ==
    ASSUME stack' = <<>> \/ \E f : stack' = <<f>>
    PROVE  Falling'
  <1>1. \A j, n \in DOMAIN stack' : ~(j < n)
    <2>1. DOMAIN stack' \subseteq {1}  OBVIOUS
    <2> QED  BY <2>1
  <1> QED  BY <1>1 DEF Falling

LEMMA FallingStep ==
    ASSUME IInv, [Next]_vars
    PROVE  Falling'
  <1>0. TypeOK /\ Nested /\ Frames /\ Registered /\ Falling  BY DEF IInv
  <1>e. expr' = expr  BY ExprKept
  <1>1. CASE (\E l \in Local : Retry(l)) \/ SweepAgain \/ SweepDone \/ LoopDone
             \/ UNCHANGED vars
    <2>1. stack' = stack
      BY <1>1 DEF Retry, SweepAgain, SweepDone, LoopDone, Sweep, vars
    <2> QED  BY <1>0, <1>e, <2>1, FallingStays
  <1>2. CASE Register
    <2> DEFINE f == EachFrame
    <2>1. stack' = <<f>>  BY <1>0, <1>2, RegisterEffect
    <2> QED  BY <2>1, FallingAlone
  <1>3. CASE Price
    <2>1. stack' = <<ForceInstance(Order[i], 1, "price")>>  BY <1>0, <1>3, PriceEffect
    <2> QED  BY <2>1, FallingAlone
  <1>4. CASE Settle
    <2>1. CASE entry[Order[i]] = "idle"
      <3>1. stack' = <<ForceInstance(Order[i], 1, "entry")>>
        BY <1>0, <1>4, <2>1, SettleEffect
      <3> QED  BY <3>1, FallingAlone
    <2>2. CASE entry[Order[i]] # "idle"
      <3>1. stack' = stack  BY <1>4, <2>2 DEF Settle
      <3> QED  BY <1>0, <1>e, <3>1, FallingStays
    <2> QED  BY <2>1, <2>2
  <1>5. ASSUME stack # <<>>, NEW f \in Frame, f.mod = Top.mod, stack' = Replace(f)
        PROVE  Falling'
    <2>1. /\ DOMAIN stack' = DOMAIN stack /\ stack'[Len(stack)] = f
          /\ \A n \in DOMAIN stack : n # Len(stack) => stack'[n] = stack[n]
      BY <1>0, <1>5, ReplaceEffect
    <2>2. \A n \in DOMAIN stack' : n \in DOMAIN stack /\ stack'[n].mod = stack[n].mod
      BY <1>5, <2>1 DEF Top
    <2> QED  BY <1>0, <1>e, <2>2, FallingStays
  <1>6. CASE \E a \in Names : Choose(a)
    <2> PICK a \in Names : Choose(a)  BY <1>6
    <2>1. stack # <<>> /\ stack' = Replace(Chosen(a))  BY DEF Choose, Chosen
    <2>2. Chosen(a) \in Frame /\ Chosen(a).mod = Top.mod  BY <1>0, <2>1, LeftType
    <2> QED  BY <1>5, <2>1, <2>2
  <1>7. CASE Answer
    <2>1. stack # <<>> /\ stack' = Replace(Answered)  BY <1>7 DEF Answer, Answered
    <2>2. Answered \in Frame /\ Answered.mod = Top.mod  BY <1>0, <2>1, LeftType
    <2> QED  BY <1>5, <2>1, <2>2
  <1>8. CASE NextInstance
    <2> DEFINE f == ForceInstance(Top.mod, Top.k + 1, Top.via)
    <2>1. stack # <<>> /\ f \in Frame  BY <1>0, <1>8, NextInstanceEffect
    <2>2. stack' = Replace(f)  BY <1>8 DEF NextInstance
    <2>3. f.mod = Top.mod  BY DEF ForceInstance
    <2> HIDE DEF f
    <2> QED  BY <1>5, <2>1, <2>2, <2>3
  <1>9. CASE \E x \in Mod : Ask(x)
    <2> PICK x \in Mod : Ask(x)  BY <1>9
    <2> DEFINE f == ForceInstance(x, 1, "entry")
    <2>1. /\ stack # <<>> /\ Top.cur # None /\ ExprOf(Top.mod, Top.cur).refs = {x}
      BY DEF Ask, Asks
    <2>2. /\ Len(stack) \in DOMAIN stack /\ stack'[Len(stack)] = Waiting
          /\ stack'[Len(stack')] = f
          /\ \A n \in DOMAIN stack : n \in DOMAIN stack' /\ n < Len(stack')
          /\ \A n \in DOMAIN stack : n # Len(stack) => stack'[n] = stack[n]
          /\ \A n \in DOMAIN stack' : n # Len(stack') => n \in DOMAIN stack
          /\ Len(stack') = Len(stack) + 1
      BY <1>0, AskEffect
    <2>3. f.mod = x  BY DEF ForceInstance
    <2> HIDE DEF f
    <2>4. /\ Waiting.mod = Top.mod /\ Top = stack[Len(stack)] /\ Top.mod \in Mod
          /\ Top.cur \in Names /\ Len(stack) \in Nat /\ DOMAIN stack = 1..Len(stack)
      BY <1>0, <2>1, LeftType, TopType
    <2>5. \A n \in DOMAIN stack : stack'[n].mod = stack[n].mod /\ stack[n].mod \in Mod
      BY <1>0, <2>2, <2>4, FrameType
    <2>6. Uses(Top.mod, x)  BY <2>1, <2>4 DEF Uses
    <2>7. \A m, y : Uses(m, y)' <=> Uses(m, y)  BY <1>e, UsesKept
    <2>8. ASSUME NEW rank \in Ranks, \A m, y \in Mod : Uses(m, y)' => rank[y] < rank[m],
                 NEW j \in DOMAIN stack', NEW n \in DOMAIN stack', j < n
          PROVE  rank[stack'[n].mod] < rank[stack'[j].mod]
      <3>1. \A m, y \in Mod : Uses(m, y) => rank[y] < rank[m]  BY <2>7, <2>8
      <3>2. \A jj, nn \in DOMAIN stack : jj < nn => rank[stack[nn].mod] < rank[stack[jj].mod]
        BY <1>0, <3>1 DEF Falling
      <3>3. j \in DOMAIN stack
        BY <2>2, <2>4, <2>8
      <3>4. CASE n \in DOMAIN stack
        BY <2>5, <2>8, <3>2, <3>3, <3>4
      <3>5. CASE n \notin DOMAIN stack
        <4>1. stack'[n].mod = x  BY <2>2, <2>3, <3>5
        <4>2. rank[x] < rank[Top.mod]  BY <2>4, <2>6, <3>1
        <4>3. j = Len(stack) \/ j < Len(stack)  BY <2>4, <3>3
        <4>4. j < Len(stack) => rank[Top.mod] < rank[stack[j].mod]
          BY <2>2, <2>4, <3>2, <3>3
        <4>5. rank[x] \in Int /\ rank[Top.mod] \in Int /\ rank[stack[j].mod] \in Int
          BY <2>4, <2>5, <3>3, RankType
        <4>6. rank[x] < rank[stack[j].mod]  BY <2>4, <4>2, <4>3, <4>4, <4>5
        <4> QED  BY <2>5, <3>3, <4>1, <4>6
      <3> QED  BY <3>4, <3>5
    <2> QED  BY <2>8 DEF Falling, Ranks
  <1>10. CASE EachKnown
    <2>1. stack' = <<>>  BY <1>10 DEF EachKnown
    <2> QED  BY <2>1, FallingAlone
  <1>11. CASE EntryDone \/ PriceDone
    <2>1. stack # <<>> /\ stack' = Pop  BY <1>11 DEF EntryDone, PriceDone, Returning
    <2>2. \A n \in DOMAIN stack' : n \in DOMAIN stack /\ stack'[n] = stack[n]
      BY <1>0, <2>1, PopEffect
    <2> QED  BY <1>0, <1>e, <2>2, FallingStays
  <1> QED  BY <1>1, <1>2, <1>3, <1>4, <1>6, <1>7, <1>8, <1>9, <1>10, <1>11 DEF Next

\* A direct reference that is answered has a value: the module it refers to is
\* registered, is not further down on the stack, and has been forced.
LEMMA AnswerSeen ==
    ASSUME IInv, Answer, Acyclic, NoEach, Top.cur \in Input, Direct(Top.mod, Top.cur)
    PROVE  InScope(ExprOf(Top.mod, Top.cur), <<Top.mod, Top.cur>>) # {}
  <1>0. TypeOK /\ Nested /\ Frames /\ Running /\ Registered /\ Forced /\ Falling  BY DEF IInv
  <1>1. stack # <<>> /\ Top.cur # None /\ \A x \in Mod : ~Asks(x)  BY DEF Answer
  <1>2. /\ Top.mod \in Mod /\ Top.cur \in Names /\ Top = stack[Len(stack)]
        /\ Len(stack) \in DOMAIN stack /\ DOMAIN stack = 1..Len(stack) /\ Len(stack) \in Nat
    BY <1>0, <1>1, TopType
  <1> PICK e : e = ExprOf(Top.mod, Top.cur)  OBVIOUS
  <1>3. e \in Expr /\ e = expr.in[Top.mod][Top.cur]  BY <1>0, <1>2, DirType
  <1>4. e.op = "direct" /\ e.refs \subseteq fetch /\ fetch \subseteq Mod
    BY <1>0, <1>3, DirType DEF Direct, Available
  <1>5. PICK x \in e.refs : e.refs = {x}  BY <1>3, <1>4, ExprType
  <1>6. x \in fetch /\ x \in Mod  BY <1>4, <1>5
  <1>7. FrameOK(Top) /\ Top.cur \in Top.todo  BY <1>0, <1>1, Position DEF FrameOK
  <1>8. Top.via = "entry" /\ pc \in {"settle", "price"}
    <2>1. Top.via # "each" /\ Top.via # "price"  BY <1>7 DEF FrameOK
    <2>2. Top.via = "entry"  BY <1>0, <1>1, <2>1, TopType
    <2>3. pc # "register"
      <3> SUFFICES ASSUME pc = "register" PROVE FALSE
        OBVIOUS
      <3>1. 1 \in DOMAIN stack /\ stack[1].via = "each"
        BY <1>0, <1>1, <1>2, Walks DEF Nested
      <3>2. FrameOK(stack[1])  BY <1>0, <3>1 DEF Frames
      <3>3. stack[1].cur = None  BY <3>1, <3>2 DEF FrameOK
      <3>4. ~(1 < Len(stack))  BY <1>0, <3>1, <3>3 DEF Nested
      <3>5. Len(stack) = 1  BY <1>2, <3>1, <3>4
      <3> QED  BY <1>2, <2>2, <3>1, <3>5
    <2> QED  BY <1>0, <1>1, <2>2, <2>3, Position
  <1>9. entry[x] # "unregistered"  BY <1>0, <1>6, <1>8 DEF Registered
  <1>10. entry[x] # "idle"
    <2>1. CASE Top.asked
      BY <1>1, <1>5, <1>6, <1>7, <2>1 DEF FrameOK
    <2>2. CASE ~Top.asked
      BY <1>1, <1>4, <1>5, <1>6, <2>2 DEF Asks
    <2> QED  BY <2>1, <2>2
  <1>11. entry[x] # "running"
    <2> SUFFICES ASSUME entry[x] = "running" PROVE FALSE
      OBVIOUS
    <2>1. PICK n \in DOMAIN stack : stack[n].mod = x
      BY <1>0, <1>6 DEF Running, IsCall
    <2>2. PICK rank \in Ranks : \A m, y \in Mod : Uses(m, y) => rank[y] < rank[m]
      BY DEF Acyclic
    <2>3. rank[x] < rank[Top.mod]  BY <1>2, <1>5, <1>6, <2>2 DEF Uses
    <2>4. n < Len(stack) => rank[Top.mod] < rank[x]
      BY <1>0, <1>2, <2>1, <2>2 DEF Falling
    <2>5. n = Len(stack) => Top.mod = x  BY <1>2, <2>1
    <2>6. rank[x] \in Int /\ rank[Top.mod] \in Int  BY <1>2, <1>6, RankType
    <2>7. n = Len(stack) \/ n < Len(stack)  BY <1>2, <2>1
    <2> QED  BY <2>3, <2>4, <2>5, <2>6, <2>7
  <1>12. entry[x] = "done"  BY <1>0, <1>6, <1>9, <1>10, <1>11 DEF TypeOK
  <1>13. out[x] # {}  BY <1>0, <1>6, <1>12 DEF Forced
  <1>14. Scope(x) # {}  BY <1>6, <1>12, <1>13, ScopeAssumption DEF Scope
  <1> PICK v : v = [y \in e.refs |-> Scope(y)]  OBVIOUS
  <1>15. InScope(ExprOf(Top.mod, Top.cur), <<Top.mod, Top.cur>>) = Eval(e, <<Top.mod, Top.cur>>, v)
    BY DEF InScope
  <1>16. \A y \in e.refs : v[y] # {}  BY <1>5, <1>14
  <1>17. Eval(e, <<Top.mod, Top.cur>>, v) = UNION {v[y] : y \in e.refs}
    BY <1>4, <1>5, <1>16 DEF Eval
  <1>18. UNION {v[y] : y \in e.refs} # {}  BY <1>5, <1>16
  <1> QED  BY <1>15, <1>17, <1>18

\* The inputs of an instance are ahead of it when it is first forced.
LEMMA FirstAhead ==
    ASSUME TypeOK, NEW m \in Mod, NEW k \in Nums, NEW a \in Input, Direct(m, a),
           <<m, k>> \notin built, NEW n \in DOMAIN stack',
           stack'[n] = ForceInstance(m, k, "entry")
    PROVE  Ahead(m, k, a)'
  <1>1. m \in fetch /\ a \in Present(m, Input)  BY DEF Direct, Available, Present
  <1>2. /\ stack'[n].via = "entry" /\ stack'[n].mod = m /\ stack'[n].k = k
        /\ stack'[n].todo = Present(m, Input)
    BY <1>1 DEF ForceInstance
  <1> QED  BY <1>1, <1>2 DEF Ahead, IsCall

\* What is ahead of a call stays ahead until it is answered.
LEMMA AheadKept ==
    ASSUME IInv, [Next]_vars, NEW m \in Mod, NEW k \in Nums, NEW a \in Input, Ahead(m, k, a),
           ~(Answer /\ m = Top.mod /\ k = Top.k /\ a = Top.cur)
    PROVE  Ahead(m, k, a)'
  <1>0. TypeOK /\ Nested /\ Frames /\ Registered  BY DEF IInv
  <1>1. PICK n \in DOMAIN stack : /\ stack[n].via = "entry" /\ stack[n].mod = m
                                  /\ stack[n].k = k /\ a \in stack[n].todo
    BY DEF Ahead, IsCall
  <1>2. stack # <<>>  BY <1>1
  <1>3. Top = stack[Len(stack)]  BY DEF Top
  <1>4. SUFFICES n \in DOMAIN stack' /\ stack'[n].via = "entry" /\ stack'[n].mod = m
                 /\ stack'[n].k = k /\ a \in stack'[n].todo
    BY DEF Ahead, IsCall
  <1>5. CASE (\E l \in Local : Retry(l)) \/ SweepAgain \/ SweepDone \/ LoopDone
             \/ UNCHANGED vars
    <2>1. stack' = stack
      BY <1>5 DEF Retry, SweepAgain, SweepDone, LoopDone, Sweep, vars
    <2> QED  BY <1>1, <2>1
  <1>6. CASE Register \/ Settle \/ Price
    BY <1>2, <1>6 DEF Register, Settle, Price
  <1>7. CASE \E b \in Names : Choose(b)
    <2> PICK b \in Names : Choose(b)  BY <1>7
    <2>1. stack' = Replace(Chosen(b))  BY DEF Choose, Chosen
    <2>2. /\ Chosen(b) \in Frame /\ Chosen(b).mod = Top.mod
          /\ Chosen(b).k = Top.k /\ Chosen(b).via = Top.via
          /\ Chosen(b).todo = Top.todo
      BY <1>0, <1>2, LeftType
    <2>3. /\ DOMAIN stack' = DOMAIN stack /\ stack'[Len(stack)] = Chosen(b)
          /\ \A j \in DOMAIN stack : j # Len(stack) => stack'[j] = stack[j]
      BY <1>0, <1>2, <2>1, <2>2, ReplaceEffect
    <2> QED  BY <1>1, <1>3, <2>2, <2>3
  <1>8. CASE \E x \in Mod : Ask(x)
    <2> PICK x \in Mod : Ask(x)  BY <1>8
    <2>1. /\ stack'[Len(stack)] = Waiting
          /\ \A j \in DOMAIN stack : j \in DOMAIN stack' /\ j < Len(stack')
          /\ \A j \in DOMAIN stack : j # Len(stack) => stack'[j] = stack[j]
      BY <1>0, AskEffect
    <2>2. /\ Waiting.mod = Top.mod /\ Waiting.k = Top.k /\ Waiting.via = Top.via
          /\ Waiting.todo = Top.todo
      BY <1>0, <1>2, LeftType
    <2> QED  BY <1>1, <1>3, <2>1, <2>2
  <1>9. CASE Answer
    <2>1. /\ Answered.mod = Top.mod /\ Answered.k = Top.k /\ Answered.via = Top.via
          /\ Answered.todo = Top.todo \ {Top.cur}
      BY <1>0, <1>2, LeftType
    <2>2. /\ DOMAIN stack' = DOMAIN stack /\ stack'[Len(stack)] = Answered
          /\ \A j \in DOMAIN stack : j # Len(stack) => stack'[j] = stack[j]
      BY <1>0, <1>9, AnswerEffect
    <2>3. CASE n = Len(stack)
      <3>1. a # Top.cur  BY <1>1, <1>3, <1>9, <2>3
      <3> QED  BY <1>1, <1>3, <2>1, <2>2, <2>3, <3>1
    <2>4. CASE n # Len(stack)  BY <1>1, <2>2, <2>4
    <2> QED  BY <2>3, <2>4
  <1>10. CASE EachKnown
    <2>1. \A j \in DOMAIN stack : stack[j].via # "entry"  BY <1>0, <1>10, EachPosition
    <2> QED  BY <1>1, <2>1
  <1>11. CASE NextInstance
    <2> DEFINE f == ForceInstance(Top.mod, Top.k + 1, Top.via)
    <2>1. /\ Top.todo = {} /\ DOMAIN stack' = DOMAIN stack
          /\ \A j \in DOMAIN stack : j # Len(stack) => stack'[j] = stack[j]
      BY <1>0, <1>11, NextInstanceEffect
    <2>2. n # Len(stack)  BY <1>1, <1>3, <2>1
    <2> QED  BY <1>1, <2>1, <2>2
  <1>12. CASE EntryDone \/ PriceDone
    <2>1. stack' = Pop /\ Top.todo = {}
      BY <1>12 DEF EntryDone, PriceDone, Returning
    <2>2. /\ \A j \in DOMAIN stack' : stack'[j] = stack[j]
          /\ \A j \in DOMAIN stack : j # Len(stack) => j \in DOMAIN stack'
      BY <1>0, <1>2, <2>1, PopEffect
    <2>3. n # Len(stack)  BY <1>1, <1>3, <2>1
    <2> QED  BY <1>1, <2>2, <2>3
  <1> QED  BY <1>5, <1>6, <1>7, <1>8, <1>9, <1>10, <1>11, <1>12 DEF Next

\* An instance is built by a call that has its inputs ahead.
LEMMA BuiltAhead ==
    ASSUME IInv, [Next]_vars, NEW m \in Mod, NEW k \in Nums, NEW a \in Input, Direct(m, a),
           <<m, k>> \in built', <<m, k>> \notin built
    PROVE  Ahead(m, k, a)'
  <1>0. TypeOK /\ Nested /\ Frames /\ Registered /\ Forced  BY DEF IInv
  <1>1. m \in fetch  BY DEF Direct, Available
  <1>2. /\ (Settle /\ entry[Order[i]] = "idle") \/ (\E x \in Mod : Ask(x)) \/ Price \/ NextInstance
        /\ pc # "price"
    <2>1. (Settle /\ entry[Order[i]] = "idle") \/ (\E x \in Mod : Ask(x)) \/ Price \/ NextInstance
      BY DEF Next, Retry, SweepAgain, SweepDone, LoopDone, Sweep, Register, Settle, Choose,
             Answer, EachKnown, EntryDone, PriceDone, vars
    <2>2. pc = "price" => entry[m] = "done"  BY <1>0, <1>1 DEF Forced
    <2>3. pc # "price"  BY <1>1, <2>2, BuiltEffect
    <2> QED  BY <2>1, <2>3
  <1>3. CASE Settle /\ entry[Order[i]] = "idle"
    <2> DEFINE f == ForceInstance(Order[i], 1, "entry")
    <2>1. stack' = <<f>> /\ built' = built \cup {<<Order[i], 1>>}
      BY <1>0, <1>3, SettleEffect
    <2>2. m = Order[i] /\ k = 1  BY <2>1
    <2>3. 1 \in DOMAIN stack' /\ stack'[1] = ForceInstance(m, k, "entry")  BY <2>1, <2>2
    <2> QED  BY <1>0, <2>3, FirstAhead
  <1>4. CASE \E x \in Mod : Ask(x)
    <2> PICK x \in Mod : Ask(x)  BY <1>4
    <2> DEFINE f == ForceInstance(x, 1, "entry")
    <2> PICK N : N = Len(stack')  OBVIOUS
    <2>1. N \in DOMAIN stack' /\ stack'[N] = f /\ built' = built \cup {<<x, 1>>}
      BY <1>0, AskEffect
    <2>2. m = x /\ k = 1  BY <2>1
    <2>3. stack'[N] = ForceInstance(m, k, "entry")  BY <2>1, <2>2
    <2> QED  BY <1>0, <2>1, <2>3, FirstAhead
  <1>5. CASE NextInstance
    <2> DEFINE f == ForceInstance(Top.mod, 2, Top.via)
    <2> PICK N : N = Len(stack)  OBVIOUS
    <2>1. /\ stack # <<>> /\ Top.via \in {"entry", "price"} /\ stack'[N] = f
          /\ DOMAIN stack' = DOMAIN stack /\ built' = built \cup {<<Top.mod, 2>>}
      BY <1>0, <1>5, NextInstanceEffect
    <2>2. m = Top.mod /\ k = 2  BY <2>1
    <2>3. Top.via = "entry"  BY <1>0, <1>2, <2>1, Position
    <2>4. N \in DOMAIN stack'  BY <1>0, <2>1, TopType
    <2>5. stack'[N] = ForceInstance(m, k, "entry")  BY <2>1, <2>2, <2>3
    <2> QED  BY <1>0, <2>4, <2>5, FirstAhead
  <1>6. CASE Price
    BY <1>2, <1>6 DEF Price
  <1> QED  BY <1>2, <1>3, <1>4, <1>5, <1>6

LEMMA SeenStep ==
    ASSUME IInv, [Next]_vars
    PROVE  Seen'
  <1>0. TypeOK /\ Nested /\ Frames /\ Seen  BY DEF IInv
  <1>1. expr' = expr /\ fetch' = fetch  BY ExprKept
  <1>2. Acyclic' = Acyclic /\ NoEach' = NoEach
    <2>1. \A m, x : Uses(m, x)' <=> Uses(m, x)  BY <1>1, UsesKept
    <2>2. Acyclic' <=> Acyclic  BY <2>1 DEF Acyclic, Ranks
    <2>3. NoEach' <=> NoEach  BY <1>1 DEF NoEach
    <2> QED  BY <2>2, <2>3 DEF Acyclic, NoEach
  <1>3. \A m, a : Direct(m, a)' <=> Direct(m, a)
    BY <1>1 DEF Direct, Available, ExprOf
  <1>4. ASSUME Acyclic, NoEach, NEW m \in Mod, NEW k \in Nums, NEW a \in Input, Direct(m, a),
               <<m, k>> \in built', ~Ahead(m, k, a)'
        PROVE  given'[m][k][a] # {}
    <2>1. <<m, k>> \in built  BY <1>4, BuiltAhead
    <2>2. a \in Names  BY DEF Names
    <2>3. CASE Answer /\ m = Top.mod /\ k = Top.k /\ a = Top.cur
      <3>1. InScope(ExprOf(Top.mod, Top.cur), <<Top.mod, Top.cur>>) # {}
        BY <1>4, <2>3, AnswerSeen
      <3>2. given'[Top.mod][Top.k][Top.cur]
               = InScope(ExprOf(Top.mod, Top.cur), <<Top.mod, Top.cur>>)
        BY <1>0, <2>3, AnswerEffect
      <3> QED  BY <2>3, <3>1, <3>2
    <2>4. CASE ~(Answer /\ m = Top.mod /\ k = Top.k /\ a = Top.cur)
      <3>1. ~Ahead(m, k, a)  BY <1>4, <2>4, AheadKept
      <3>2. given[m][k][a] # {}  BY <1>0, <1>4, <2>1, <3>1 DEF Seen
      <3>3. CASE Answer
        <4>1. <<m, k, a>> # <<Top.mod, Top.k, Top.cur>>  BY <2>4, <3>3
        <4>2. given'[m][k][a] = given[m][k][a]  BY <1>0, <2>2, <3>3, <4>1, AnswerEffect
        <4> QED  BY <3>2, <4>2
      <3>4. CASE ~Answer
        <4>1. given' = given
          BY <3>4 DEF Next, Retry, SweepAgain, SweepDone, LoopDone, Sweep, Register, Settle, Price,
                      Choose, Ask, EachKnown, NextInstance, EntryDone, PriceDone, vars
        <4> QED  BY <3>2, <4>1
      <3> QED  BY <3>3, <3>4
    <2> QED  BY <2>3, <2>4
  <1> QED  BY <1>2, <1>3, <1>4 DEF Seen

-----------------------------------------------------------------------------
(* The invariant is inductive.                                             *)

LEMMA InitIInv ==
    ASSUME Init
    PROVE  IInv
  <1>1. PICK d \in Dirs : expr = d[1] /\ fetch = d[2]  BY DEF Init
  <1>2. d \in Dir  BY ScopeAssumption
  <1>3. dir \in Dir
    <2>1. d = <<d[1], d[2]>>  BY <1>2 DEF Dir
    <2> QED  BY <1>1, <1>2, <2>1 DEF dir
  <1>4. {} \in Val  BY DEF Val
  <1>5. given \in [Mod -> [Nums -> [Names -> Val]]]  BY <1>4 DEF Init, NoInputs
  <1>6. TypeOK
    <2>1. stack \in Seq(Frame)  BY DEF Init
    <2>2. i \in 1..(Len(Order) + 1)  BY OrderType DEF Init
    <2>3. /\ locals \in [Local -> Val] /\ rsrc \in [Rsrc -> Val]
          /\ entry \in [Mod -> {"unregistered", "idle", "running", "done"}]
          /\ out \in [Mod -> Val] /\ insts \in [Mod -> {0} \cup Nums]
          /\ built \in SUBSET (Mod \X Nums) /\ pc = "new"
          /\ todo \in SUBSET Local /\ changed \in BOOLEAN
      BY <1>4 DEF Init
    <2> QED  BY <1>3, <1>5, <2>1, <2>2, <2>3 DEF TypeOK
  <1>7. stack = <<>> /\ DOMAIN stack = {}  BY DEF Init
  <1>8. Nested /\ Frames /\ Falling  BY <1>7 DEF Nested, Frames, Falling
  <1>9. Running  BY <1>7 DEF Running, Init
  <1>10. Registered  BY DEF Registered, Init
  <1>11. Forced
    <2>1. /\ \A m \in Mod : entry[m] = "unregistered"
          /\ pc = "new" /\ built = {}
      BY DEF Init
    <2>2. fetch \subseteq Mod  BY <1>6, DirType
    <2> QED  BY <2>1, <2>2 DEF Forced
  <1>12. Swept
    <2>1. pc = "new" /\ todo = Local /\ locals = [l \in Local |-> {}]  BY DEF Init
    <2> QED  BY <2>1, Walks DEF Swept, Pending
  <1>13. Lasting
    <2>1. \A r \in Rsrc : rsrc[r] = {}  BY DEF Init
    <2>2. \A l \in Local : locals[l] = {}  BY DEF Init
    <2>3. \A m \in Mod, k \in Nums, a \in Input : given[m][k][a] = {}
      BY DEF Init, NoInputs, Names
    <2> QED  BY <2>1, <2>2, <2>3 DEF Lasting, Stands
  <1>14. Seen  BY DEF Seen, Init
  <1> QED  BY <1>6, <1>8, <1>9, <1>10, <1>11, <1>12, <1>13, <1>14 DEF IInv

LEMMA NextIInv ==
    ASSUME IInv, [Next]_vars
    PROVE  IInv'
  BY TypeStep, NestedStep, FramesStep, RunningStep, RegisteredStep, ForcedStep, SweptStep,
     LastingStep, FallingStep, SeenStep DEF IInv

LEMMA Inductive == Spec => []IInv
  BY InitIInv, NextIInv, PTL DEF Spec

-----------------------------------------------------------------------------
(* The theorems.                                                           *)

\* The state of dirScope, Resolver and the module entries keeps to its types,
\* whatever the directory and the order of its evaluation.
THEOREM TypeCorrect == Spec => []TypeOK
  <1>1. IInv => TypeOK  BY DEF IInv
  <1> QED  BY <1>1, Inductive, PTL

\* moduleOutputs and its running guard: a module is running exactly while one
\* call of its outputs is in flight, for any number of modules that refer to
\* each other, or to themselves, in any way.
THEOREM GuardMatchesStack == Spec => []RunningOnce
  <1>1. ASSUME Running, NEW m \in Mod
        PROVE  Cardinality({n \in DOMAIN stack : stack[n].via = "entry" /\ stack[n].mod = m})
               = IF entry[m] = "running" THEN 1 ELSE 0
    <2> DEFINE C == {n \in DOMAIN stack : stack[n].via = "entry" /\ stack[n].mod = m}
    <2>1. \A n : n \in C <=> n \in DOMAIN stack /\ IsCall(n, m)  BY DEF IsCall
    <2> HIDE DEF C
    <2>2. CASE entry[m] = "running"
      <3>1. PICK n \in DOMAIN stack : IsCall(n, m)  BY <1>1, <2>2 DEF Running
      <3>2. C = {n}  BY <1>1, <2>1, <3>1 DEF Running
      <3>3. Cardinality({n}) = 1  BY FS_Singleton
      <3> QED  BY <2>2, <3>2, <3>3 DEF C
    <2>3. CASE entry[m] # "running"
      <3>1. C = {}  BY <1>1, <2>1, <2>3 DEF Running
      <3>2. Cardinality({}) = 0  BY FS_EmptySet
      <3> QED  BY <2>3, <3>1, <3>2 DEF C
    <2> QED  BY <2>2, <2>3
  <1>2. IInv => RunningOnce  BY <1>1 DEF IInv, RunningOnce
  <1> QED  BY <1>2, Inductive, PTL

\* registerModules leaves no module unsettled that has a source: an answer of
\* nil given in the middle of a build is not the last word (ForceModule in
\* registration order), for any number of calls and any references.
THEOREM AllSettled == Spec => []SettledAll
  <1>1. IInv => SettledAll  BY DEF IInv, Forced, SettledAll
  <1> QED  BY <1>1, Inductive, PTL

\* RetryLocals and the fixpoint of dirScope end with nothing left to resolve,
\* in any order in which the Go maps are ranged over.
THEOREM FixpointReached == Spec => []FixpointComplete
  <1>1. ASSUME IInv, Done, NEW r \in Rsrc, expr.rsrc[r].refs # {},
               expr.rsrc[r].refs \subseteq Local, Means(expr.rsrc[r]) # {}
        PROVE  rsrc[r] = Means(expr.rsrc[r])
    <2> PICK e : e = expr.rsrc[r]  OBVIOUS
    <2>1. pc \in DOMAIN Via  BY <1>1, Walks DEF Done
    <2>2. rsrc = Resources(locals)  BY <1>1, <2>1 DEF IInv, Swept
    <2> PICK v : v = [x \in e.refs |-> IF x \in Local THEN locals[x] ELSE {}]  OBVIOUS
    <2>3. rsrc[r] = Eval(e, r, v)  BY <2>2 DEF Resources
    <2>4. \A x \in e.refs : v[x] = Scope(x)  BY <1>1 DEF Scope
    <2>5. \A x \in e.refs : Scope(x) # {}  BY <1>1 DEF Means
    <2>6. e \in Expr /\ e.op # "absent"  BY <1>1, DirType, ExprType DEF IInv
    <2>7. Eval(e, r, v) = UNION {v[x] : x \in e.refs}
      BY <1>1, <2>4, <2>5, <2>6 DEF Eval
    <2>8. {v[x] : x \in e.refs} = {Scope(x) : x \in e.refs}  BY <2>4
    <2>9. Means(e) = UNION {Scope(x) : x \in e.refs}  BY <2>5 DEF Means
    <2> QED  BY <2>3, <2>7, <2>8, <2>9
  <1>2. IInv /\ Done => \A l \in Pending : InScope(expr.local[l], l) = {}
    BY DEF IInv, Swept, Done
  <1>3. IInv => FixpointComplete  BY <1>1, <1>2 DEF FixpointComplete
  <1> QED  BY <1>3, Inductive, PTL

\* Only a fallback of a try() that was read early can be stale in the finished
\* directory, in every order of the sweeps and of the forced references: any
\* other value of a local or a module input is what its references mean at the
\* end (RetryLocals, moduleInstance.force).
THEOREM OnlyFallbacksStale == Spec => []Coherent
  <1>1. IInv => Coherent  BY DEF IInv, Lasting, Coherent
  <1> QED  BY <1>1, Inductive, PTL

\* resolveTraversal forces what it refers to: without loops and for_each, every
\* direct reference to the output of a module has a value at the end, in
\* whatever order the modules are declared.
THEOREM ReferencesSeen == Spec => []DirectSeen
  <1>1. ASSUME IInv, Done, Acyclic, NoEach, NEW m \in Mod, NEW k \in 1..insts[m], NEW a \in Input,
               Direct(m, a)
        PROVE  given[m][k][a] # {}
    <2>1. TypeOK /\ Forced /\ Seen  BY <1>1 DEF IInv
    <2>2. m \in fetch /\ pc = "price" /\ stack = <<>>  BY <1>1 DEF Direct, Available, Done
    <2>3. entry[m] = "done"  BY <2>1, <2>2 DEF Forced
    <2>4. insts[m] \in {0} \cup Nums  BY <2>1 DEF TypeOK
    <2>5. k \in Nums /\ k <= insts[m]  BY <1>1, <2>4 DEF Nums
    <2>6. <<m, k>> \in built  BY <2>1, <2>2, <2>3, <2>5 DEF Forced
    <2>7. ~Ahead(m, k, a)  BY <2>2 DEF Ahead
    <2> QED  BY <1>1, <2>1, <2>5, <2>6, <2>7 DEF Seen
  <1>2. IInv => DirectSeen  BY <1>1 DEF DirectSeen, NoEach
  <1> QED  BY <1>2, Inductive, PTL

\* A module call is evaluated once: no step changes outputs that were seen, nor
\* the inputs of an instance once the call that built it is over, pricing
\* included (moduleOutputs, moduleInstance.force).
THEOREM SharedEvaluation == Spec => EvaluatedOnce
  <1>1. ASSUME IInv, [Next]_vars, NEW m \in Mod, entry[m] = "done"
        PROVE  entry'[m] = "done" /\ out'[m] = out[m]
    <2>0. TypeOK /\ Nested /\ Frames /\ Running /\ Registered  BY <1>1 DEF IInv
    <2>1. CASE EachKnown
      <3>1. /\ Top.mod \in Mod /\ entry[Top.mod] = "unregistered"
            /\ entry' = [entry EXCEPT ![Top.mod] = "idle"]
        BY <2>0, <2>1, EachPosition
      <3>2. out' = out  BY <2>1 DEF EachKnown
      <3> QED  BY <1>1, <2>0, <3>1, <3>2 DEF TypeOK
    <2>2. CASE ~EachKnown
      <3>1. \A x \in Mod :
                 \/ entry'[x] = entry[x] /\ out'[x] = out[x]
                 \/ entry[x] = "idle" /\ entry'[x] = "running" /\ out'[x] = out[x]
                 \/ entry[x] = "running" /\ entry'[x] = "done" /\ (x \in fetch => out'[x] # {})
                 \/ entry[x] = "running" /\ entry'[x] = "idle" /\ x \notin fetch
        BY <1>1, <2>0, <2>2, EntryEffect DEF Next
      <3> QED  BY <1>1, <3>1
    <2> QED  BY <2>1, <2>2
  <1>2. ASSUME IInv, [Next]_vars, NEW m \in Mod, NEW k \in Nums, <<m, k>> \in built, ~Forcing(m, k)
        PROVE  given'[m][k] = given[m][k]
    <2>0. TypeOK /\ Nested /\ Frames /\ Running /\ Registered /\ Forced  BY <1>2 DEF IInv
    <2>1. CASE Answer
      <3>1. stack # <<>> /\ Top.cur # None /\ Top.cur \in Names
        BY <2>0, <2>1, AnswerEffect DEF Answer
      <3>2. FrameOK(Top) /\ Top = stack[Len(stack)] /\ Len(stack) \in DOMAIN stack /\ Top.mod \in Mod
            /\ Top.via \in {"each", "entry", "price"} /\ Top.k \in Nums
        BY <2>0, <3>1, TopType, Position
      <3>3. <<m, k>> # <<Top.mod, Top.k>>
        <4>1. CASE Top.via = "entry"  BY <1>2, <3>2, <4>1 DEF Forcing
        <4>2. CASE Top.via = "price"  BY <3>1, <3>2, <4>2 DEF FrameOK
        <4>3. CASE Top.via = "each"
          <5>1. pc = "register" /\ i <= Len(Order) /\ Top.mod = Order[i]  BY <3>2, <4>3 DEF FrameOK
          <5>2. i \in DOMAIN Order  BY <2>0, <5>1, OrderType DEF TypeOK
          <5>3. entry[Top.mod] = "unregistered"
            BY <2>0, <5>1, <5>2, OrderType DEF Registered
          <5> QED  BY <1>2, <2>0, <3>2, <5>3 DEF Forced
        <4> QED  BY <3>2, <4>1, <4>2, <4>3
      <3>4. given' \in [Mod -> [Nums -> [Names -> Val]]]
            /\ \A mm \in Mod, kk \in Nums, a \in Names :
                 <<mm, kk, a>> # <<Top.mod, Top.k, Top.cur>> => given'[mm][kk][a] = given[mm][kk][a]
        BY <2>0, <2>1, AnswerEffect
      <3>5. \A a \in Names : given'[m][k][a] = given[m][k][a]  BY <3>3, <3>4
      <3>6. given[m][k] \in [Names -> Val] /\ given'[m][k] \in [Names -> Val]
        BY <2>0, <3>4 DEF TypeOK
      <3> QED  BY <3>5, <3>6
    <2>2. CASE ~Answer
      BY <1>2, <2>2 DEF Next, Retry, SweepAgain, SweepDone, LoopDone, Sweep, Register, Settle, Price,
            Choose, Ask, EachKnown, NextInstance, EntryDone, PriceDone, vars
    <2> QED  BY <2>1, <2>2
  <1>3. IInv /\ [Next]_vars =>
           [\A m \in Mod :
              /\ entry[m] = "done" => entry'[m] = "done" /\ out'[m] = out[m]
              /\ \A k \in Nums : (<<m, k>> \in built /\ ~Forcing(m, k))
                                 => given'[m][k] = given[m][k]]_vars
    BY <1>1, <1>2
  <1> QED  BY <1>3, Inductive, PTL DEF Spec, EvaluatedOnce
=============================================================================
