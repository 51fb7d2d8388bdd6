-------------------------- MODULE RefResolveProofs --------------------------
(***************************************************************************)
(* RefResolve for every directory: its types, the re-entry guard, the      *)
(* independence of the result of the order of the Go maps when there is no *)
(* reference cycle, what a cycle cannot change when there is one, and that *)
(* it implements RefMeaning: a return of the recursion is the atomic step  *)
(* that settles a resource, and all the rest stutters.  Then RefVerify:    *)
(* Verify finds the cycles, since what its search has left behind is       *)
(* closed under references.                                                *)
(***************************************************************************)
EXTENDS RefVerify, TLAPS

-----------------------------------------------------------------------------
(* The inductive invariant.                                                *)

\* What an attribute refers to has been resolved.
Settled(r, a) ==
    \A k \in DOMAIN expr[r][a].refs :
        expr[r][a].refs[k][1] = r \/ memo[expr[r][a].refs[k][1]] # None

\* Value v of attribute a is one a cycle cannot have changed.
Firm(r, a, v) == Acyclic \/ (expr[r][a].op = "ref" /\ v # {})

FrameOK(f) == /\ f.cur # None => f.cur \in f.todo
              /\ \A a \in Attr : a \notin f.todo /\ Firm(f.addr, a, f.attrs[a]) =>
                    /\ Settled(f.addr, a)
                    /\ f.attrs[a] = M!Denotes(memo, f.addr, a)

\* Calls go from a resource to one it refers to: a rank falls along the stack.
Falling == \A rank \in [Res -> Ranks] :
    (\A r, s \in Res : M!Edge(r, s) => rank[s] < rank[r])
    => \A m, n \in DOMAIN stack : m < n => rank[stack[n].addr] < rank[stack[m].addr]

Exact == \A r \in Res : memo[r] # None =>
            \A a \in Attr : Firm(r, a, memo[r][a]) =>
               Settled(r, a) /\ memo[r][a] = M!Denotes(memo, r, a)

IInv == /\ TypeOK /\ expr \in Dirs
        /\ InFlightOnce
        /\ Falling
        /\ \A n \in DOMAIN stack : FrameOK(stack[n])
        /\ Exact

-----------------------------------------------------------------------------
(* Types.                                                                  *)

LEMMA CallType ==
    ASSUME expr \in [Res -> [Attr -> Expr]], NEW r \in Res
    PROVE  Call(r) \in Frame
  BY RefAssumption DEF Call, Frame, NoVals, Vals

LEMMA TopType ==
    ASSUME TypeOK, stack # <<>>
    PROVE  Len(stack) \in DOMAIN stack /\ Top \in Frame /\ Len(stack) \in Nat
  BY DEF TypeOK, Top

LEMMA EvalType ==
    ASSUME TypeOK, NEW r \in Res, NEW a \in Attr
    PROVE  Eval(r, a) \in SUBSET Leaf
  <1> DEFINE rf == expr[r][a].refs
  <1>1. rf \in Seq(Res \X Attr) /\ expr[r][a].op \in Op
    BY DEF TypeOK, Expr
  <1>2. ASSUME NEW i \in DOMAIN rf PROVE Known(r, rf[i]) \in SUBSET Leaf
    <2>1. rf[i] \in Res \X Attr  BY <1>1
    <2>2. rf[i][1] \in Res /\ rf[i][2] \in Attr  BY <2>1
    <2>3. memo[rf[i][1]] # None => memo[rf[i][1]] \in Vals  BY <2>2 DEF TypeOK
    <2> QED  BY <2>2, <2>3 DEF Known, Vals
  <1>3. RefVals(r, a) \subseteq SUBSET Leaf
    BY <1>2 DEF RefVals
  <1>4. <<"lit", r, a>> \in Leaf /\ <<"fallback", r, a>> \in Leaf
    BY DEF Leaf
  <1> HIDE DEF rf
  <1>5. UNION RefVals(r, a) \in SUBSET Leaf  BY <1>3
  <1>6. expr[r][a].op \in {"absent", "const", "ref", "try"}  BY <1>1 DEF Op
  <1> QED  BY <1>4, <1>5, <1>6 DEF Eval


LEMMA RefType ==
    ASSUME TypeOK, stack # <<>>, Top.cur # None, NEW i \in DOMAIN Refs
    PROVE  Refs[i][1] \in Res /\ Top.addr \in Res /\ Top.cur \in Attr
  <1>1. Top \in Frame  BY TopType
  <1>2. Top.addr \in Res /\ Top.cur \in Attr  BY <1>1 DEF Frame
  <1>3. Refs \in Seq(Res \X Attr)  BY <1>2 DEF TypeOK, Expr, Refs
  <1>4. Refs[i] \in Res \X Attr  BY <1>3
  <1> QED  BY <1>2, <1>4

\* Replacing the last element of a sequence.
LEMMA ReplaceLast ==
    ASSUME NEW S, NEW s \in Seq(S), s # <<>>, NEW f \in S,
           NEW t, t = [s EXCEPT ![Len(s)] = f]
    PROVE  /\ t \in Seq(S) /\ Len(t) = Len(s) /\ DOMAIN t = DOMAIN s
           /\ Len(s) \in DOMAIN s /\ t[Len(s)] = f
           /\ \A n \in DOMAIN s : n # Len(s) => t[n] = s[n]
  OBVIOUS

\* Dropping the last element of a sequence.
LEMMA DropLast ==
    ASSUME NEW S, NEW s \in Seq(S), s # <<>>,
           NEW t, t = SubSeq(s, 1, Len(s) - 1)
    PROVE  /\ t \in Seq(S)
           /\ \A n \in DOMAIN t : n \in DOMAIN s /\ n # Len(s) /\ t[n] = s[n]
  OBVIOUS

\* What an assignment leaves of the innermost call.
Assigned == [Top EXCEPT !.attrs[Top.cur] = Eval(Top.addr, Top.cur),
                        !.todo = @ \ {Top.cur}, !.cur = None]

LEMMA AssignedType ==
    ASSUME TypeOK, stack # <<>>, Top.cur # None
    PROVE  /\ Assigned \in Frame /\ Assigned.addr = Top.addr
           /\ Assigned.cur = None /\ Assigned.todo = Top.todo \ {Top.cur}
           /\ Assigned.attrs = [Top.attrs EXCEPT ![Top.cur] = Eval(Top.addr, Top.cur)]
  <1>1. Top \in Frame  BY TopType
  <1>2. Top.addr \in Res /\ Top.cur \in Attr /\ Top.attrs \in Vals
        /\ Top.todo \in SUBSET Attr
    BY <1>1 DEF Frame
  <1>3. Eval(Top.addr, Top.cur) \in SUBSET Leaf  BY <1>2, EvalType
  <1>4. [Top.attrs EXCEPT ![Top.cur] = Eval(Top.addr, Top.cur)] \in Vals
    BY <1>2, <1>3 DEF Vals
  <1> QED  BY <1>1, <1>2, <1>4 DEF Assigned, Frame

LEMMA TypeStep ==
    ASSUME TypeOK, [Next]_vars
    PROVE  TypeOK'
  <1> USE DEF TypeOK
  <1>1. CASE \E r \in Res : Visit(r)
    BY <1>1, CallType DEF Visit
  <1>2. CASE \E a \in Attr : Choose(a)
    <2> PICK a \in Attr : Choose(a)  BY <1>2
    <2>1. stack # <<>>  BY DEF Choose
    <2>2. [Top EXCEPT !.cur = a] \in Frame  BY <2>1, TopType DEF Frame
    <2>3. stack' \in Seq(Frame)
      BY <2>1, <2>2, ReplaceLast DEF Choose, Replace
    <2> QED  BY <2>3 DEF Choose
  <1>3. CASE Descend
    <2>1. PICK i \in DOMAIN Refs : stack' = Append(stack, Call(Refs[i][1]))
      BY <1>3 DEF Descend
    <2>2. Call(Refs[i][1]) \in Frame  BY <1>3, RefType, CallType DEF Descend
    <2>3. stack' \in Seq(Frame)  BY <2>1, <2>2
    <2> QED  BY <1>3, <2>3 DEF Descend
  <1>4. CASE Assign
    <2>1. stack # <<>> /\ Top.cur # None /\ stack' = [stack EXCEPT ![Len(stack)] = Assigned]
      BY <1>4 DEF Assign, Assigned, Replace
    <2>2. stack' \in Seq(Frame)  BY <2>1, AssignedType, ReplaceLast
    <2> QED  BY <1>4, <2>2 DEF Assign
  <1>5. CASE Return
    <2>1. stack # <<>> /\ Top \in Frame  BY <1>5, TopType DEF Return
    <2>2. Top.addr \in Res /\ Top.attrs \in Vals  BY <2>1 DEF Frame
    <2>3. stack' \in Seq(Frame)  BY <1>5, <2>1, DropLast DEF Return, Pop
    <2> QED  BY <1>5, <2>2, <2>3 DEF Return
  <1>6. CASE Reset
    BY <1>6 DEF Reset, Done
  <1>7. CASE UNCHANGED vars
    BY <1>7 DEF vars
  <1> QED  BY <1>1, <1>2, <1>3, <1>4, <1>5, <1>6, <1>7 DEF Next, Step

-----------------------------------------------------------------------------
(* The re-entry guard.                                                     *)

LEMMA OnceStep ==
    ASSUME TypeOK, InFlightOnce, [Next]_vars
    PROVE  InFlightOnce'
  <1> USE DEF InFlightOnce
  <1>1. CASE \E r \in Res : Visit(r)
    BY <1>1 DEF Visit, Call
  <1>2. CASE \E a \in Attr : Choose(a)
    <2> PICK a \in Attr : Choose(a)  BY <1>2
    <2>1. stack # <<>> /\ Top \in Frame /\ stack \in Seq(Frame)
      BY TopType DEF Choose, TypeOK
    <2>2. [Top EXCEPT !.cur = a] \in Frame /\ [Top EXCEPT !.cur = a].addr = Top.addr
      BY <2>1 DEF Frame
    <2>3. DOMAIN stack' = DOMAIN stack
          /\ \A n \in DOMAIN stack : stack'[n].addr = stack[n].addr
      BY <2>1, <2>2, ReplaceLast DEF Choose, Replace, Top
    <2> QED  BY <2>3 DEF Choose
  <1>3. CASE Descend
    <2>1. PICK i \in DOMAIN Refs : Unasked(i) /\ stack' = Append(stack, Call(Refs[i][1]))
      BY <1>3 DEF Descend
    <2>2. Call(Refs[i][1]).addr = Refs[i][1]  BY DEF Call
    <2>3. memo[Refs[i][1]] = None /\ \A n \in DOMAIN stack : stack[n].addr # Refs[i][1]
      BY <2>1 DEF Unasked, InFlight
    <2>4. stack \in Seq(Frame) /\ Len(stack) \in Nat  BY DEF TypeOK
    <2>5. DOMAIN stack' = DOMAIN stack \cup {Len(stack) + 1}
          /\ (\A n \in DOMAIN stack : stack'[n] = stack[n])
          /\ stack'[Len(stack) + 1] = Call(Refs[i][1])
          /\ Len(stack) + 1 \notin DOMAIN stack
      BY <2>1, <2>4
    <2>6. memo' = memo  BY <1>3 DEF Descend
    <2> QED  BY <2>2, <2>3, <2>5, <2>6
  <1>4. CASE Assign
    <2>1. stack # <<>> /\ Top.cur # None /\ stack' = [stack EXCEPT ![Len(stack)] = Assigned]
          /\ stack \in Seq(Frame) /\ memo' = memo
      BY <1>4 DEF Assign, Assigned, Replace, TypeOK
    <2>2. DOMAIN stack' = DOMAIN stack
          /\ \A n \in DOMAIN stack : stack'[n].addr = stack[n].addr
      BY <2>1, AssignedType, ReplaceLast DEF Top
    <2> QED  BY <2>1, <2>2
  <1>5. CASE Return
    <2>1. stack # <<>> /\ stack \in Seq(Frame) /\ stack' = SubSeq(stack, 1, Len(stack) - 1)
          /\ memo' = [memo EXCEPT ![Top.addr] = Top.attrs]
      BY <1>5 DEF Return, Pop, TypeOK
    <2>2. \A n \in DOMAIN stack' : n \in DOMAIN stack /\ n # Len(stack) /\ stack'[n] = stack[n]
      BY <2>1, DropLast
    <2>3. \A n \in DOMAIN stack' : stack[n].addr # Top.addr
      BY <2>1, <2>2, TopType DEF Top
    <2>4. \A n \in DOMAIN stack' : memo'[stack[n].addr] = memo[stack[n].addr]
      BY <2>1, <2>2, <2>3
    <2> QED  BY <2>2, <2>4
  <1>6. CASE Reset
    BY <1>6 DEF Reset, Done
  <1>7. CASE UNCHANGED vars
    BY <1>7 DEF vars
  <1> QED  BY <1>1, <1>2, <1>3, <1>4, <1>5, <1>6, <1>7 DEF Next, Step

-----------------------------------------------------------------------------
(* A rank falls along the stack.                                           *)

\* If the addresses of the calls in flight only lose members, it still does.
LEMMA FallingKept ==
    ASSUME Falling, expr' = expr,
           \A n \in DOMAIN stack' : n \in DOMAIN stack /\ stack'[n].addr = stack[n].addr
    PROVE  Falling'
  <1> SUFFICES ASSUME NEW rank \in [Res -> Ranks],
                      \A r, s \in Res : M!Edge(r, s)' => rank[s] < rank[r],
                      NEW m \in DOMAIN stack', NEW n \in DOMAIN stack', m < n
               PROVE  rank[stack'[n].addr] < rank[stack'[m].addr]
    BY DEF Falling
  <1>1. \A r, s \in Res : M!Edge(r, s) => rank[s] < rank[r]  BY DEF M!Edge
  <1>2. rank[stack[n].addr] < rank[stack[m].addr]  BY <1>1 DEF Falling
  <1> QED  BY <1>2

LEMMA FallingStep ==
    ASSUME TypeOK, Falling, [Next]_vars
    PROVE  Falling'
  <1>1. CASE \E r \in Res : Visit(r)
    <2>1. stack' = <<>> \/ \E f : stack' = <<f>>  BY <1>1 DEF Visit
    <2>2. \A m, n \in DOMAIN stack' : ~(m < n)  BY <2>1
    <2> QED  BY <2>2 DEF Falling
  <1>2. CASE \E a \in Attr : Choose(a)
    <2> PICK a \in Attr : Choose(a)  BY <1>2
    <2>1. stack # <<>> /\ Top \in Frame /\ stack \in Seq(Frame) /\ expr' = expr
      BY TopType DEF Choose, TypeOK
    <2>2. [Top EXCEPT !.cur = a] \in Frame /\ [Top EXCEPT !.cur = a].addr = Top.addr
      BY <2>1 DEF Frame
    <2>3. DOMAIN stack' = DOMAIN stack
          /\ \A n \in DOMAIN stack : stack'[n].addr = stack[n].addr
      BY <2>1, <2>2, ReplaceLast DEF Choose, Replace, Top
    <2> QED  BY <2>1, <2>3, FallingKept
  <1>3. CASE Descend
    <2>1. PICK i \in DOMAIN Refs : Unasked(i) /\ stack' = Append(stack, Call(Refs[i][1]))
      BY <1>3 DEF Descend
    <2> DEFINE new == Refs[i][1]
               last == Len(stack)
    <2>2. stack # <<>> /\ Top.cur # None /\ expr' = expr /\ stack \in Seq(Frame)
      BY <1>3 DEF Descend, TypeOK
    <2>3. new \in Res /\ Top.addr \in Res /\ Top.cur \in Attr  BY <2>2, RefType
    <2>4. last \in DOMAIN stack /\ last \in Nat /\ stack[last] = Top
      BY <2>2, TopType DEF Top
    <2>5. new # Top.addr  BY <2>1, <2>4 DEF Unasked, InFlight
    <2>6. M!Edge(Top.addr, new)  BY <2>3, <2>5 DEF M!Edge, Refs
    <2>7. Call(new).addr = new  BY DEF Call
    <2>8. DOMAIN stack' = DOMAIN stack \cup {last + 1}
          /\ (\A n \in DOMAIN stack : stack'[n] = stack[n])
          /\ stack'[last + 1].addr = new
          /\ DOMAIN stack = 1..last
      BY <2>1, <2>2, <2>4, <2>7
    <2> HIDE DEF new, last
    <2> SUFFICES ASSUME NEW rank \in [Res -> Ranks],
                        \A r, s \in Res : M!Edge(r, s)' => rank[s] < rank[r],
                        NEW m \in DOMAIN stack', NEW n \in DOMAIN stack', m < n
                 PROVE  rank[stack'[n].addr] < rank[stack'[m].addr]
      BY DEF Falling
    <2>9. \A r, s \in Res : M!Edge(r, s) => rank[s] < rank[r]  BY <2>2 DEF M!Edge
    <2>10. \A j, k \in DOMAIN stack : j < k => rank[stack[k].addr] < rank[stack[j].addr]
      BY <2>9 DEF Falling
    <2>11. \A k \in DOMAIN stack : stack[k].addr \in Res
      <3>1. \A k \in DOMAIN stack : stack[k] \in Frame  BY <2>2
      <3> QED  BY <3>1 DEF Frame
    <2>12. rank[new] < rank[Top.addr]  BY <2>3, <2>6, <2>9
    <2>13. \A k \in DOMAIN stack : rank[stack[k].addr] \in Nat
      BY <2>11, RefAssumption
    <2>14. rank[new] \in Nat  BY <2>3, RefAssumption
    <2>15. CASE n \in DOMAIN stack
      <3>1. m \in DOMAIN stack  BY <2>8, <2>15, <2>4
      <3> QED  BY <2>8, <2>10, <2>15, <3>1
    <2>16. CASE n = last + 1
      <3>1. m \in DOMAIN stack  BY <2>8, <2>16, <2>4
      <3>2. m = last \/ m < last  BY <3>1, <2>4, <2>8
      <3>3. rank[Top.addr] <= rank[stack[m].addr]
        <4>1. CASE m = last  BY <4>1, <2>4, <2>13
        <4>2. CASE m < last  BY <4>2, <2>4, <2>10, <2>13, <3>1
        <4> QED  BY <3>2, <4>1, <4>2
      <3>4. rank[new] < rank[stack[m].addr]
        BY <3>1, <3>3, <2>4, <2>12, <2>13, <2>14
      <3> QED  BY <2>8, <2>16, <3>1, <3>4
    <2> QED  BY <2>8, <2>15, <2>16
  <1>4. CASE Assign
    <2>1. stack # <<>> /\ Top.cur # None /\ stack' = [stack EXCEPT ![Len(stack)] = Assigned]
          /\ stack \in Seq(Frame) /\ expr' = expr
      BY <1>4 DEF Assign, Assigned, Replace, TypeOK
    <2>2. DOMAIN stack' = DOMAIN stack
          /\ \A n \in DOMAIN stack : stack'[n].addr = stack[n].addr
      BY <2>1, AssignedType, ReplaceLast DEF Top
    <2> QED  BY <2>1, <2>2, FallingKept
  <1>5. CASE Return
    <2>1. stack # <<>> /\ stack \in Seq(Frame) /\ stack' = SubSeq(stack, 1, Len(stack) - 1)
          /\ expr' = expr
      BY <1>5 DEF Return, Pop, TypeOK
    <2>2. \A n \in DOMAIN stack' : n \in DOMAIN stack /\ stack'[n] = stack[n]
      BY <2>1, DropLast
    <2> QED  BY <2>1, <2>2, FallingKept
  <1>6. CASE Reset
    BY <1>6, FallingKept DEF Reset
  <1>7. CASE UNCHANGED vars
    BY <1>7, FallingKept DEF vars
  <1> QED  BY <1>1, <1>2, <1>3, <1>4, <1>5, <1>6, <1>7 DEF Next, Step

-----------------------------------------------------------------------------
(* Denotations.                                                            *)

\* An expression evaluates to what it denotes over the memo table.
LEMMA EvalDenotes ==
    ASSUME TypeOK, NEW r \in Res, NEW a \in Attr
    PROVE  Eval(r, a) = M!Denotes(memo, r, a)
  <1> DEFINE e == expr[r][a]
             known == {Known(r, e.refs[i]) : i \in DOMAIN e.refs}
             value == {M!Value(memo, r, e.refs[i]) : i \in DOMAIN e.refs}
  <1>1. e.op \in {"absent", "const", "ref", "try"}  BY DEF TypeOK, Expr, Op
  <1>2. ASSUME NEW i \in DOMAIN e.refs
        PROVE  Known(r, e.refs[i]) = M!Value(memo, r, e.refs[i])
    BY DEF Known, M!Value
  <1>3. known = value  BY <1>2
  <1>4. RefVals(r, a) = value  BY <1>3 DEF RefVals
  <1>5. M!Whole(memo, r, e) <=> {} \notin value  BY DEF M!Whole
  <1> HIDE DEF known
  <1>6. M!Denotes(memo, r, a) =
            IF e.op = "absent" THEN {}
            ELSE IF e.op = "const" THEN {<<"lit", r, a>>}
            ELSE IF M!Whole(memo, r, e) THEN UNION value
            ELSE IF e.op = "try" THEN {<<"fallback", r, a>>} ELSE {}
    BY DEF M!Denotes
  <1> HIDE DEF value, e
  <1>7. Eval(r, a) =
            CASE e.op = "absent" -> {}
              [] e.op = "const"  -> {<<"lit", r, a>>}
              [] e.op = "ref"    -> IF {} \in value THEN {} ELSE UNION value
              [] e.op = "try"    -> IF {} \in value THEN {<<"fallback", r, a>>}
                                    ELSE UNION value
    BY <1>4 DEF Eval, e
  <1> QED  BY <1>1, <1>5, <1>6, <1>7

\* A new entry of the memo table changes nothing that is settled.
LEMMA MemoGrows ==
    ASSUME TypeOK, expr' = expr, NEW t \in Res, memo[t] = None, NEW v \in Vals,
           memo' = [memo EXCEPT ![t] = v],
           NEW r \in Res, NEW a \in Attr, Settled(r, a)
    PROVE  Settled(r, a)' /\ M!Denotes(memo, r, a)' = M!Denotes(memo, r, a)
  <1> DEFINE e == expr[r][a]
  <1>0. e.refs \in Seq(Res \X Attr)  BY DEF TypeOK, Expr
  <1>1. v # None  BY RefAssumption
  <1>2. ASSUME NEW i \in DOMAIN e.refs
        PROVE  /\ e.refs[i][1] = r \/ memo'[e.refs[i][1]] # None
               /\ M!Value(memo', r, e.refs[i]) = M!Value(memo, r, e.refs[i])
    <2>1. e.refs[i][1] \in Res  BY <1>0
    <2>2. e.refs[i][1] = r \/ memo[e.refs[i][1]] # None  BY DEF Settled
    <2>3. e.refs[i][1] = r \/ memo'[e.refs[i][1]] = memo[e.refs[i][1]]
      BY <2>1, <2>2 DEF TypeOK
    <2> QED  BY <2>2, <2>3 DEF M!Value
  <1>3. Settled(r, a)'  BY <1>2 DEF Settled
  <1>4. M!Whole(memo', r, e) <=> M!Whole(memo, r, e)  BY <1>2 DEF M!Whole
  <1>5. {M!Value(memo', r, e.refs[i]) : i \in DOMAIN e.refs}
        = {M!Value(memo, r, e.refs[i]) : i \in DOMAIN e.refs}
    BY <1>2
  <1>6. M!Denotes(memo, r, a)' = M!Denotes(memo, r, a)
    BY <1>4, <1>5 DEF M!Denotes
  <1> QED  BY <1>3, <1>6

-----------------------------------------------------------------------------
(* The memo table and the calls in flight are exact.                       *)

\* Meaning depends on the directory and the memo table only.
LEMMA SameMeaning ==
    ASSUME expr' = expr, memo' = memo
    PROVE  /\ \A r, a, v : Firm(r, a, v)' <=> Firm(r, a, v)
           /\ \A r, a : Settled(r, a)' <=> Settled(r, a)
           /\ \A r, a : M!Denotes(memo, r, a)' = M!Denotes(memo, r, a)
  BY DEF Firm, Acyclic, M!Edge, Settled, M!Denotes

\* A call that stays in flight keeps its invariant.
LEMMA FramesKept ==
    ASSUME expr' = expr, memo' = memo, \A n \in DOMAIN stack : FrameOK(stack[n]),
           NEW m \in DOMAIN stack, NEW n \in DOMAIN stack', stack'[n] = stack[m]
    PROVE  FrameOK(stack[n])'
  BY SameMeaning DEF FrameOK

\* A call starts with nothing but undeclared attributes settled.
LEMMA CallFrame ==
    ASSUME TypeOK, expr \in Dirs, NEW r \in Res
    PROVE  FrameOK(Call(r))
  <1>1. Call(r).cur = None /\ Call(r).addr = r /\ Call(r).attrs = NoVals
        /\ Call(r).todo = {a \in Attr : expr[r][a].op # "absent"}
    BY DEF Call
  <1>2. ASSUME NEW a \in Attr, a \notin Call(r).todo
        PROVE  Settled(r, a) /\ NoVals[a] = M!Denotes(memo, r, a)
    <2>1. expr[r][a].op = "absent"  BY <1>1, <1>2
    <2>2. expr[r][a].refs = <<>>  BY <2>1, RefAssumption
    <2>3. Settled(r, a)  BY <2>2 DEF Settled
    <2>4. M!Denotes(memo, r, a) = {}  BY <2>1 DEF M!Denotes
    <2> QED  BY <2>3, <2>4 DEF NoVals
  <1> QED  BY <1>1, <1>2 DEF FrameOK

\* Without a cycle nothing an innermost call refers to is in flight: what it
\* has no need to ask for is memoised.
LEMMA AnswersComplete ==
    ASSUME TypeOK, Falling, Acyclic, stack # <<>>, Top.cur # None,
           \A i \in DOMAIN Refs : ~Unasked(i)
    PROVE  Settled(Top.addr, Top.cur)
  <1> SUFFICES ASSUME NEW i \in DOMAIN Refs, Refs[i][1] # Top.addr,
                      memo[Refs[i][1]] = None
               PROVE  FALSE
    BY DEF Settled, Refs
  <1> DEFINE new == Refs[i][1]
  <1>1. new \in Res /\ Top.addr \in Res /\ Top.cur \in Attr  BY RefType
  <1>2. PICK n \in DOMAIN stack : stack[n].addr = new
    BY DEF Unasked, InFlight
  <1>3. M!Edge(Top.addr, new)  BY <1>1 DEF M!Edge, Refs
  <1>4. PICK rank \in [Res -> Ranks] :
            \A r, s \in Res : M!Edge(r, s) => rank[s] < rank[r]
    BY DEF Acyclic
  <1>5. rank[new] < rank[Top.addr]  BY <1>1, <1>3, <1>4
  <1>6. Len(stack) \in DOMAIN stack /\ DOMAIN stack = 1..Len(stack) /\ Len(stack) \in Nat
        /\ stack[Len(stack)] = Top
    BY TopType DEF TypeOK, Top
  <1>7. n # Len(stack)  BY <1>2, <1>6
  <1>8. n < Len(stack)  BY <1>6, <1>7
  <1>9. rank[Top.addr] < rank[new]
    BY <1>2, <1>4, <1>6, <1>8 DEF Falling
  <1>10. rank[new] \in Nat /\ rank[Top.addr] \in Nat  BY <1>1, RefAssumption
  <1> HIDE DEF new
  <1> QED  BY <1>5, <1>9, <1>10

\* A reference that has a value is to something else, and memoised.
LEMMA ValuesSettle ==
    ASSUME TypeOK, NEW r \in Res, NEW a \in Attr, expr[r][a].op = "ref", Eval(r, a) # {}
    PROVE  Settled(r, a) /\ \A k \in DOMAIN expr[r][a].refs : memo[expr[r][a].refs[k][1]] # None
  <1>1. {} \notin RefVals(r, a)
    BY DEF Eval
  <1>2. ASSUME NEW k \in DOMAIN expr[r][a].refs
        PROVE  expr[r][a].refs[k][1] # r /\ memo[expr[r][a].refs[k][1]] # None
    BY <1>1 DEF RefVals, Known
  <1> QED  BY <1>2 DEF Settled

LEMMA FramesStep ==
    ASSUME IInv, [Next]_vars
    PROVE  \A n \in DOMAIN stack' : FrameOK(stack[n])'
  <1>0. TypeOK /\ expr \in Dirs /\ InFlightOnce /\ Falling
        /\ (\A n \in DOMAIN stack : FrameOK(stack[n])) /\ stack \in Seq(Frame)
    BY DEF IInv, TypeOK
  <1>1. CASE \E r \in Res : Visit(r)
    <2> PICK r \in Res : Visit(r)  BY <1>1
    <2>1. expr' = expr /\ memo' = memo /\ (stack' = <<>> \/ stack' = <<Call(r)>>)
      BY DEF Visit
    <2>2. ASSUME NEW n \in DOMAIN stack'
          PROVE  stack'[n] = Call(r)
      BY <2>1
    <2>3. FrameOK(Call(r))  BY <1>0, CallFrame
    <2> QED  BY <2>1, <2>2, <2>3, SameMeaning DEF FrameOK
  <1>2. CASE \E a \in Attr : Choose(a)
    <2> PICK a \in Attr : Choose(a)  BY <1>2
    <2>1. stack # <<>> /\ Top \in Frame /\ expr' = expr /\ memo' = memo /\ a \in Top.todo
          /\ stack' = [stack EXCEPT ![Len(stack)] = [Top EXCEPT !.cur = a]]
      BY <1>0, TopType DEF Choose, Replace
    <2> DEFINE f == [Top EXCEPT !.cur = a]
    <2>2. f \in Frame /\ f.addr = Top.addr /\ f.cur = a /\ f.todo = Top.todo
          /\ f.attrs = Top.attrs
      BY <2>1 DEF Frame
    <2> HIDE DEF f
    <2>3. Len(stack) \in DOMAIN stack /\ stack[Len(stack)] = Top
          /\ DOMAIN stack' = DOMAIN stack /\ stack'[Len(stack)] = f
          /\ \A n \in DOMAIN stack : n # Len(stack) => stack'[n] = stack[n]
      BY <1>0, <2>1, <2>2, ReplaceLast DEF Top, f
    <2>4. FrameOK(Top)  BY <1>0, <2>3
    <2>5. FrameOK(f)  BY <2>1, <2>2, <2>4 DEF FrameOK
    <2>6. ASSUME NEW n \in DOMAIN stack' PROVE FrameOK(stack[n])'
      <3>1. CASE n = Len(stack)
        <4>1. stack'[n] = f  BY <2>3, <3>1
        <4>2. expr' = expr /\ memo' = memo  BY <2>1
        <4> QED  BY <2>5, <4>1, <4>2, SameMeaning DEF FrameOK
      <3>2. CASE n # Len(stack)
        BY <1>0, <2>1, <2>3, <3>2, FramesKept
      <3> QED  BY <3>1, <3>2
    <2> QED  BY <2>6
  <1>3. CASE Descend
    <2>1. PICK i \in DOMAIN Refs : stack' = Append(stack, Call(Refs[i][1]))
      BY <1>3 DEF Descend
    <2>2. expr' = expr /\ memo' = memo /\ stack # <<>> /\ Top.cur # None
      BY <1>3 DEF Descend
    <2>3. Refs[i][1] \in Res  BY <1>0, <2>2, RefType
    <2>4. FrameOK(Call(Refs[i][1]))  BY <1>0, <2>3, CallFrame
    <2> DEFINE f == Call(Refs[i][1])
    <2> HIDE DEF f
    <2>5. DOMAIN stack' = DOMAIN stack \cup {Len(stack) + 1}
          /\ (\A n \in DOMAIN stack : stack'[n] = stack[n])
          /\ stack'[Len(stack) + 1] = f
      BY <1>0, <2>1 DEF f
    <2>6. FrameOK(f)  BY <2>4 DEF f
    <2>7. ASSUME NEW n \in DOMAIN stack' PROVE FrameOK(stack[n])'
      <3>1. CASE n = Len(stack) + 1
        <4>1. stack'[n] = f  BY <2>5, <3>1
        <4> QED  BY <2>2, <2>6, <4>1, SameMeaning DEF FrameOK
      <3>2. CASE n \in DOMAIN stack
        BY <1>0, <2>2, <2>5, <3>2, FramesKept
      <3> QED  BY <2>5, <3>1, <3>2
    <2> QED  BY <2>7
  <1>4. CASE Assign
    <2>1. stack # <<>> /\ Top.cur # None /\ stack' = [stack EXCEPT ![Len(stack)] = Assigned]
          /\ expr' = expr /\ memo' = memo /\ \A i \in DOMAIN Refs : ~Unasked(i)
      BY <1>4 DEF Assign, Assigned, Replace
    <2>2. Top \in Frame /\ Top.addr \in Res /\ Top.cur \in Attr /\ Top.attrs \in Vals
      BY <1>0, <2>1, TopType DEF Frame
    <2>3. /\ Assigned \in Frame /\ Assigned.addr = Top.addr
          /\ Assigned.cur = None /\ Assigned.todo = Top.todo \ {Top.cur}
          /\ Assigned.attrs = [Top.attrs EXCEPT ![Top.cur] = Eval(Top.addr, Top.cur)]
      BY <1>0, <2>1, AssignedType
    <2>4. Len(stack) \in DOMAIN stack /\ stack[Len(stack)] = Top
          /\ DOMAIN stack' = DOMAIN stack /\ stack'[Len(stack)] = Assigned
          /\ \A n \in DOMAIN stack : n # Len(stack) => stack'[n] = stack[n]
      BY <1>0, <2>1, <2>3, ReplaceLast DEF Top
    <2>5. FrameOK(Top)  BY <1>0, <2>4
    <2>6. ASSUME NEW a \in Attr, a \notin Assigned.todo, Firm(Top.addr, a, Assigned.attrs[a])
          PROVE  Settled(Top.addr, a) /\ Assigned.attrs[a] = M!Denotes(memo, Top.addr, a)
      <3>1. CASE a = Top.cur
        <4>1. Assigned.attrs[a] = Eval(Top.addr, Top.cur)
          BY <2>2, <2>3, <3>1 DEF Vals
        <4>2. Settled(Top.addr, Top.cur)
          <5>1. CASE Acyclic
            BY <1>0, <2>1, <5>1, AnswersComplete
          <5>2. CASE expr[Top.addr][Top.cur].op = "ref" /\ Eval(Top.addr, Top.cur) # {}
            BY <1>0, <2>2, <5>2, ValuesSettle
          <5> QED  BY <2>6, <3>1, <4>1, <5>1, <5>2 DEF Firm
        <4>3. Eval(Top.addr, Top.cur) = M!Denotes(memo, Top.addr, Top.cur)
          BY <1>0, <2>2, EvalDenotes
        <4> QED  BY <3>1, <4>1, <4>2, <4>3
      <3>2. CASE a # Top.cur
        <4>1. a \notin Top.todo  BY <2>3, <2>6, <3>2
        <4>2. Assigned.attrs[a] = Top.attrs[a]  BY <2>2, <2>3, <3>2 DEF Vals
        <4> QED  BY <2>5, <2>6, <4>1, <4>2 DEF FrameOK
      <3> QED  BY <3>1, <3>2
    <2>7. FrameOK(Assigned)  BY <2>3, <2>6 DEF FrameOK
    <2>8. ASSUME NEW n \in DOMAIN stack' PROVE FrameOK(stack[n])'
      <3>1. CASE n = Len(stack)
        <4>1. stack'[n] = Assigned  BY <2>4, <3>1
        <4> QED  BY <2>1, <2>7, <4>1, SameMeaning DEF FrameOK
      <3>2. CASE n # Len(stack)
        BY <1>0, <2>1, <2>4, <3>2, FramesKept
      <3> QED  BY <3>1, <3>2
    <2> QED  BY <2>8
  <1>5. CASE Return
    <2>1. stack # <<>> /\ stack' = SubSeq(stack, 1, Len(stack) - 1) /\ expr' = expr
          /\ memo' = [memo EXCEPT ![Top.addr] = Top.attrs]
      BY <1>5 DEF Return, Pop
    <2>2. Top.addr \in Res /\ Top.attrs \in Vals  BY <1>0, <2>1, TopType DEF Frame
    <2>3. memo[Top.addr] = None  BY <1>0, <2>1, TopType DEF InFlightOnce, Top
    <2>4. \A n \in DOMAIN stack' : n \in DOMAIN stack /\ stack'[n] = stack[n]
      BY <1>0, <2>1, DropLast
    <2>5. \A r, a, v : Firm(r, a, v)' <=> Firm(r, a, v)  BY <2>1 DEF Firm, Acyclic, M!Edge
    <2>6. ASSUME NEW n \in DOMAIN stack', NEW a \in Attr, a \notin stack[n].todo,
                 Firm(stack[n].addr, a, stack[n].attrs[a])
          PROVE  Settled(stack[n].addr, a)'
                 /\ stack[n].attrs[a] = M!Denotes(memo, stack[n].addr, a)'
      <3>1. FrameOK(stack[n]) /\ stack[n] \in Frame  BY <1>0, <2>4
      <3>2. stack[n].addr \in Res  BY <3>1 DEF Frame
      <3>3. Settled(stack[n].addr, a) /\ stack[n].attrs[a] = M!Denotes(memo, stack[n].addr, a)
        BY <2>6, <3>1 DEF FrameOK
      <3>4. \A r \in Res : Settled(r, a) =>
                Settled(r, a)' /\ M!Denotes(memo, r, a)' = M!Denotes(memo, r, a)
        BY <1>0, <2>1, <2>2, <2>3, MemoGrows
      <3> QED  BY <2>4, <3>2, <3>3, <3>4
    <2>7. ASSUME NEW n \in DOMAIN stack' PROVE FrameOK(stack[n])'
      BY <1>0, <2>4, <2>5, <2>6, <2>7 DEF FrameOK
    <2> QED  BY <2>7
  <1>6. CASE Reset
    BY <1>6 DEF Reset, Done
  <1>7. CASE UNCHANGED vars
    BY <1>0, <1>7, FramesKept DEF vars
  <1> QED  BY <1>1, <1>2, <1>3, <1>4, <1>5, <1>6, <1>7 DEF Next, Step

LEMMA ExactStep ==
    ASSUME IInv, [Next]_vars
    PROVE  Exact'
  <1>0. TypeOK /\ expr \in Dirs /\ InFlightOnce /\ Exact
        /\ (\A n \in DOMAIN stack : FrameOK(stack[n])) /\ stack \in Seq(Frame)
    BY DEF IInv, TypeOK
  <1>1. CASE expr' = expr /\ memo' = memo
    BY <1>0, <1>1, SameMeaning DEF Exact
  <1>2. CASE Return
    <2>1. stack # <<>> /\ expr' = expr /\ Top.todo = {}
          /\ memo' = [memo EXCEPT ![Top.addr] = Top.attrs]
      BY <1>2 DEF Return
    <2>2. Top.addr \in Res /\ Top.attrs \in Vals  BY <1>0, <2>1, TopType DEF Frame
    <2>3. memo[Top.addr] = None  BY <1>0, <2>1, TopType DEF InFlightOnce, Top
    <2>4. \A r, a, v : Firm(r, a, v)' <=> Firm(r, a, v)  BY <2>1 DEF Firm, Acyclic, M!Edge
    <2>5. FrameOK(Top)  BY <1>0, <2>1, TopType DEF Top
    <2>6. ASSUME NEW r \in Res, memo'[r] # None, NEW a \in Attr, Firm(r, a, memo'[r][a])
          PROVE  Settled(r, a)' /\ memo'[r][a] = M!Denotes(memo, r, a)'
      <3>1. Settled(r, a) /\ memo'[r][a] = M!Denotes(memo, r, a)
        <4>1. CASE r = Top.addr
          <5>1. memo'[r] = Top.attrs  BY <1>0, <2>1, <4>1 DEF TypeOK
          <5> QED  BY <2>1, <2>5, <2>6, <4>1, <5>1 DEF FrameOK
        <4>2. CASE r # Top.addr
          <5>1. memo'[r] = memo[r]  BY <1>0, <2>1, <4>2 DEF TypeOK
          <5> QED  BY <1>0, <2>6, <5>1 DEF Exact
        <4> QED  BY <4>1, <4>2
      <3> QED  BY <1>0, <2>1, <2>2, <2>3, <3>1, MemoGrows
    <2> QED  BY <2>4, <2>6 DEF Exact
  <1>3. CASE Reset
    BY <1>3 DEF Reset, Exact
  <1> QED  BY <1>1, <1>2, <1>3 DEF Next, Step, Visit, Choose, Descend, Assign, vars

-----------------------------------------------------------------------------
(* The theorems.                                                           *)

LEMMA Inductive == Spec => []IInv
  <1>1. Init => IInv
    <2> SUFFICES ASSUME Init PROVE IInv  OBVIOUS
    <2>1. TypeOK  BY RefAssumption DEF Init, TypeOK
    <2>2. InFlightOnce /\ Falling /\ \A n \in DOMAIN stack : FrameOK(stack[n])
      BY DEF Init, InFlightOnce, Falling
    <2>3. Exact  BY DEF Init, Exact
    <2> QED  BY <2>1, <2>2, <2>3 DEF IInv, Init
  <1>2. IInv /\ [Next]_vars => IInv'
    <2> SUFFICES ASSUME IInv, [Next]_vars PROVE IInv'  OBVIOUS
    <2>1. TypeOK /\ InFlightOnce /\ Falling /\ expr \in Dirs  BY DEF IInv
    <2>2. TypeOK'  BY <2>1, TypeStep
    <2>3. InFlightOnce'  BY <2>1, OnceStep
    <2>4. Falling'  BY <2>1, FallingStep
    <2>5. expr' = expr
      BY DEF Next, Step, Visit, Choose, Descend, Assign, Return, Reset, vars
    <2>6. (\A n \in DOMAIN stack : FrameOK(stack[n]))'  BY FramesStep
    <2>7. Exact'  BY ExactStep
    <2> QED  BY <2>1, <2>2, <2>3, <2>4, <2>5, <2>6, <2>7 DEF IInv
  <1> QED  BY <1>1, <1>2, PTL DEF Spec

\* The types of the memo table and of the calls in flight, in every directory.
THEOREM TypeCorrect == Spec => []TypeOK
  <1>1. IInv => TypeOK  BY DEF IInv
  <1> QED  BY <1>1, Inductive, PTL

\* ResolveResource never resolves an address that is being resolved, nor one
\* that has an entry, however many resources there are and however they refer
\* to each other (refs.go, the guard on resolving and resolved).
THEOREM ReentryGuard == Spec => []InFlightOnce
  <1>1. IInv => InFlightOnce  BY DEF IInv
  <1> QED  BY <1>1, Inductive, PTL

\* In a directory without a reference cycle every memo entry satisfies the
\* equations of the directory, whatever the order of the Go maps.
THEOREM OrderIndependence == Spec => []AcyclicExact
  <1>1. IInv => AcyclicExact
    <2> SUFFICES ASSUME IInv, Acyclic, NEW r \in Res, memo[r] # None
                 PROVE  /\ \A s \in Res : M!Edge(r, s) => memo[s] # None
                        /\ \A a \in Attr : memo[r][a] = M!Denotes(memo, r, a)
      BY DEF AcyclicExact
    <2>1. \A a \in Attr : Settled(r, a) /\ memo[r][a] = M!Denotes(memo, r, a)
      BY DEF IInv, Exact, Firm
    <2>2. \A s \in Res : M!Edge(r, s) => memo[s] # None
      BY <2>1 DEF M!Edge, Settled
    <2> QED  BY <2>1, <2>2
  <1> QED  BY <1>1, Inductive, PTL

\* On any directory, with any cycles and in any order, an attribute that is
\* resolved from references is the combination of memoised values and never of
\* what a call in flight has so far: try() and the re-entry guard can lose a
\* value, not invent one (refs.go, resolveExpr and ResolveResource).
THEOREM CyclesOnlyLose == Spec => []SoundValues
  <1>1. IInv => SoundValues
    <2> SUFFICES ASSUME IInv, NEW r \in Res, NEW a \in Attr,
                        memo[r] # None, expr[r][a].op = "ref", memo[r][a] # {}
                 PROVE  /\ \A i \in DOMAIN expr[r][a].refs :
                              memo[expr[r][a].refs[i][1]] # None
                        /\ memo[r][a] = M!Denotes(memo, r, a)
      BY DEF SoundValues
    <2>1. Settled(r, a) /\ memo[r][a] = M!Denotes(memo, r, a)
      BY DEF IInv, Exact, Firm
    <2> QED  BY <2>1 DEF Settled
  <1> QED  BY <1>1, Inductive, PTL

-----------------------------------------------------------------------------
(* RefResolve implements RefMeaning: the inductive invariant.               *)

\* A call is made for what the calls below it refer to.
OnPath == \A m, n \in DOMAIN stack :
              m <= n => M!Reaches(stack[m].addr, stack[n].addr)

\* What resource r refers to in attribute a is memoised, or in flight below
\* the n-th call, or r itself.
Waits(n, r, a) ==
    \A k \in DOMAIN expr[r][a].refs :
        \/ expr[r][a].refs[k][1] = r
        \/ memo[expr[r][a].refs[k][1]] # None
        \/ \E m \in DOMAIN stack : m < n /\ stack[m].addr = expr[r][a].refs[k][1]

\* An assigned attribute is what it denotes, and stays so while the call and
\* those below it are in flight.
Held(n) == \A a \in Attr : a \notin stack[n].todo =>
              /\ Waits(n, stack[n].addr, a)
              /\ stack[n].attrs[a] = M!Denotes(memo, stack[n].addr, a)

AllHeld == \A n \in DOMAIN stack : Held(n)

\* AllResolved has passed a resource when it is memoised or in flight.
Passed == \A r \in Res : r \notin pass =>
             memo[r] # None \/ \E n \in DOMAIN stack : stack[n].addr = r

RInv == IInv /\ OnPath /\ AllHeld /\ Passed

-----------------------------------------------------------------------------
(* Reachability.                                                           *)

LEMMA ReachesSelf == ASSUME NEW r \in Res PROVE M!Reaches(r, r)
  BY DEF M!Reaches

LEMMA ReachesStep ==
    ASSUME NEW r \in Res, NEW s \in Res, NEW t \in Res,
           M!Reaches(r, s), M!Edge(s, t)
    PROVE  M!Reaches(r, t)
  BY DEF M!Reaches, M!Closed

LEMMA ReachesKept ==
    ASSUME expr' = expr
    PROVE  \A r, s : M!Reaches(r, s)' <=> M!Reaches(r, s)
  BY DEF M!Reaches, M!Closed, M!Edge

-----------------------------------------------------------------------------
(* Steps that keep the addresses in flight.                                *)

LEMMA PathKept ==
    ASSUME OnPath, expr' = expr,
           \A n \in DOMAIN stack' : n \in DOMAIN stack /\ stack'[n].addr = stack[n].addr
    PROVE  OnPath'
  BY ReachesKept DEF OnPath

\* A call whose attributes did not change keeps what it holds.
LEMMA HeldKept ==
    ASSUME expr' = expr, memo' = memo, NEW n \in DOMAIN stack, Held(n),
           stack'[n].addr = stack[n].addr, stack'[n].attrs = stack[n].attrs,
           stack'[n].todo = stack[n].todo,
           \A m \in DOMAIN stack : m < n => m \in DOMAIN stack' /\ stack'[m].addr = stack[m].addr
    PROVE  Held(n)'
  <1>1. \A a \in Attr : Waits(n, stack[n].addr, a) => Waits(n, stack[n].addr, a)'
    BY DEF Waits
  <1> QED  BY <1>1, SameMeaning DEF Held

\* A call starts with nothing but undeclared attributes assigned.
LEMMA CallHeld ==
    ASSUME TypeOK, expr \in Dirs, expr' = expr, memo' = memo, NEW r \in Res, NEW n,
           stack'[n] = Call(r)
    PROVE  Held(n)'
  <1>1. Call(r).addr = r /\ Call(r).attrs = NoVals
        /\ Call(r).todo = {a \in Attr : expr[r][a].op # "absent"}
    BY DEF Call
  <1>2. ASSUME NEW a \in Attr, a \notin Call(r).todo
        PROVE  Waits(n, r, a)' /\ NoVals[a] = M!Denotes(memo, r, a)'
    <2>1. expr[r][a].op = "absent"  BY <1>1, <1>2
    <2>2. expr[r][a].refs = <<>>  BY <2>1, RefAssumption
    <2>3. Waits(n, r, a)'  BY <2>2 DEF Waits
    <2>4. M!Denotes(memo, r, a)' = {}  BY <2>1 DEF M!Denotes
    <2> QED  BY <2>3, <2>4 DEF NoVals
  <1> QED  BY <1>1, <1>2 DEF Held

\* What the innermost call has no need to ask for is memoised or in flight.
LEMMA Answered ==
    ASSUME TypeOK, stack # <<>>, Top.cur # None, \A i \in DOMAIN Refs : ~Unasked(i)
    PROVE  Waits(Len(stack), Top.addr, Top.cur)
  <1> SUFFICES ASSUME NEW i \in DOMAIN Refs, Refs[i][1] # Top.addr, memo[Refs[i][1]] = None
               PROVE  \E m \in DOMAIN stack : m < Len(stack) /\ stack[m].addr = Refs[i][1]
    BY DEF Waits, Refs
  <1>1. PICK m \in DOMAIN stack : stack[m].addr = Refs[i][1]
    BY DEF Unasked, InFlight
  <1>2. m # Len(stack)  BY <1>1 DEF Top
  <1>3. stack \in Seq(Frame)  BY DEF TypeOK
  <1>4. m < Len(stack)  BY <1>2, <1>3
  <1> QED  BY <1>1, <1>4

\* A denotation depends on the values of the references alone.
LEMMA SameDenotes ==
    ASSUME expr' = expr, NEW r \in Res, NEW a \in Attr,
           \A i \in DOMAIN expr[r][a].refs :
               M!Value(memo', r, expr[r][a].refs[i]) = M!Value(memo, r, expr[r][a].refs[i])
    PROVE  M!Denotes(memo, r, a)' = M!Denotes(memo, r, a)
  <1> DEFINE e == expr[r][a]
  <1>1. M!Whole(memo', r, e) <=> M!Whole(memo, r, e)  BY DEF M!Whole
  <1>2. {M!Value(memo', r, e.refs[i]) : i \in DOMAIN e.refs}
        = {M!Value(memo, r, e.refs[i]) : i \in DOMAIN e.refs}
    OBVIOUS
  <1> QED  BY <1>1, <1>2 DEF M!Denotes

\* The entry of a call that returns is none that a call below it waits for.
LEMMA WaitsKept ==
    ASSUME TypeOK, InFlightOnce, expr' = expr, stack # <<>>, memo[Top.addr] = None,
           Top.addr \in Res, NEW v \in Vals, memo' = [memo EXCEPT ![Top.addr] = v],
           \A n \in DOMAIN stack : n < Len(stack) => n \in DOMAIN stack' /\ stack'[n] = stack[n],
           NEW n \in DOMAIN stack, n < Len(stack), NEW r \in Res, stack[n].addr = r,
           NEW a \in Attr, Waits(n, r, a)
    PROVE  /\ Waits(n, r, a)'
           /\ M!Denotes(memo, r, a)' = M!Denotes(memo, r, a)
  <1> DEFINE e == expr[r][a]
  <1>0. e.refs \in Seq(Res \X Attr) /\ stack \in Seq(Frame)  BY DEF TypeOK, Expr
  <1>1. v # None  BY RefAssumption
  <1>2. \A m \in DOMAIN stack : m < Len(stack) => stack[m].addr # Top.addr
    BY <1>0 DEF InFlightOnce, Top
  <1>3. ASSUME NEW i \in DOMAIN e.refs
        PROVE  e.refs[i][1] = r \/ memo'[e.refs[i][1]] = memo[e.refs[i][1]]
    <2>1. e.refs[i][1] \in Res  BY <1>0
    <2>2. \/ e.refs[i][1] = r \/ memo[e.refs[i][1]] # None
          \/ \E m \in DOMAIN stack : m < n /\ stack[m].addr = e.refs[i][1]
      BY DEF Waits
    <2>3. \A m \in DOMAIN stack : m < n => m < Len(stack)  BY <1>0
    <2>4. e.refs[i][1] = r \/ e.refs[i][1] # Top.addr  BY <1>2, <2>2, <2>3
    <2> QED  BY <2>1, <2>4 DEF TypeOK
  <1>4. \A m \in DOMAIN stack : m < n => m \in DOMAIN stack' /\ stack'[m] = stack[m]
    BY <1>0
  <1>5. ASSUME NEW k \in DOMAIN e.refs
        PROVE  \/ e.refs[k][1] = r \/ memo'[e.refs[k][1]] # None
               \/ \E m \in DOMAIN stack' : m < n /\ stack'[m].addr = e.refs[k][1]
    <2>1. \/ e.refs[k][1] = r \/ memo[e.refs[k][1]] # None
          \/ \E m \in DOMAIN stack : m < n /\ stack[m].addr = e.refs[k][1]
      BY DEF Waits
    <2> QED  BY <1>3, <1>4, <2>1
  <1>6. Waits(n, r, a)'  BY <1>5 DEF Waits
  <1>7. \A i \in DOMAIN e.refs : M!Value(memo', r, e.refs[i]) = M!Value(memo, r, e.refs[i])
    BY <1>3 DEF M!Value
  <1>8. M!Denotes(memo, r, a)' = M!Denotes(memo, r, a)  BY <1>7, SameDenotes
  <1> QED  BY <1>6, <1>8

-----------------------------------------------------------------------------
(* The invariant.                                                          *)

LEMMA PathStep ==
    ASSUME RInv, [Next]_vars
    PROVE  OnPath'
  <1>0. TypeOK /\ OnPath /\ stack \in Seq(Frame)  BY DEF RInv, IInv, TypeOK
  <1>1. CASE \E r \in Res : Visit(r)
    <2> PICK r \in Res : Visit(r)  BY <1>1
    <2>1. expr' = expr /\ (stack' = <<>> \/ stack' = <<Call(r)>>)  BY DEF Visit
    <2>2. Call(r).addr = r  BY DEF Call
    <2>3. M!Reaches(r, r)'  BY <2>1, ReachesSelf, ReachesKept
    <2> QED  BY <2>1, <2>2, <2>3 DEF OnPath
  <1>2. CASE \E a \in Attr : Choose(a)
    <2> PICK a \in Attr : Choose(a)  BY <1>2
    <2>1. stack # <<>> /\ Top \in Frame  BY <1>0, TopType DEF Choose
    <2>2. [Top EXCEPT !.cur = a] \in Frame /\ [Top EXCEPT !.cur = a].addr = Top.addr
      BY <2>1 DEF Frame
    <2>3. \A n \in DOMAIN stack' : n \in DOMAIN stack /\ stack'[n].addr = stack[n].addr
      BY <1>0, <2>1, <2>2, ReplaceLast DEF Choose, Replace, Top
    <2> QED  BY <1>0, <2>3, PathKept DEF Choose
  <1>3. CASE Descend
    <2>1. PICK i \in DOMAIN Refs : Unasked(i) /\ stack' = Append(stack, Call(Refs[i][1]))
      BY <1>3 DEF Descend
    <2>2. stack # <<>> /\ Top.cur # None /\ expr' = expr  BY <1>3 DEF Descend
    <2> DEFINE new == Refs[i][1]
    <2>3. new \in Res /\ Top.addr \in Res /\ Top.cur \in Attr  BY <1>0, <2>2, RefType
    <2>4. Len(stack) \in DOMAIN stack /\ stack[Len(stack)] = Top /\ Len(stack) \in Nat
      BY <1>0, <2>2, TopType DEF Top
    <2>5. Call(new).addr = new  BY DEF Call
    <2>6. new # Top.addr  BY <2>1, <2>4 DEF Unasked, InFlight
    <2>7. M!Edge(Top.addr, new)  BY <2>3, <2>6 DEF M!Edge, Refs
    <2>8. \A m \in DOMAIN stack : stack[m].addr \in Res
      <3> TAKE m \in DOMAIN stack
      <3>1. stack[m] \in Frame  BY <1>0
      <3> QED  BY <3>1 DEF Frame
    <2>9. \A m \in DOMAIN stack : M!Reaches(stack[m].addr, new)
      <3> TAKE m \in DOMAIN stack
      <3>1. m <= Len(stack)  BY <1>0
      <3>2. M!Reaches(stack[m].addr, Top.addr)  BY <1>0, <2>4, <3>1 DEF OnPath
      <3> QED  BY <2>3, <2>7, <2>8, <3>2, ReachesStep
    <2>10. DOMAIN stack' = DOMAIN stack \cup {Len(stack) + 1}
           /\ (\A n \in DOMAIN stack : stack'[n] = stack[n] /\ n <= Len(stack) /\ n \in Nat)
           /\ stack'[Len(stack) + 1] = Call(new)
      BY <1>0, <2>1, <2>4
    <2>11. M!Reaches(new, new)  BY <2>3, ReachesSelf
    <2> HIDE DEF new
    <2>12. ASSUME NEW m \in DOMAIN stack', NEW n \in DOMAIN stack', m <= n
           PROVE  M!Reaches(stack'[m].addr, stack'[n].addr)
      <3>1. CASE n \in DOMAIN stack
        <4>1. m \in DOMAIN stack  BY <2>4, <2>10, <2>12, <3>1
        <4> QED  BY <1>0, <2>10, <2>12, <3>1, <4>1 DEF OnPath
      <3>2. CASE n = Len(stack) + 1
        BY <2>5, <2>9, <2>10, <2>11, <3>2
      <3> QED  BY <2>10, <3>1, <3>2
    <2> QED  BY <2>2, <2>12, ReachesKept DEF OnPath
  <1>4. CASE Assign
    <2>1. stack # <<>> /\ Top.cur # None /\ stack' = [stack EXCEPT ![Len(stack)] = Assigned]
          /\ expr' = expr
      BY <1>4 DEF Assign, Assigned, Replace
    <2>2. \A n \in DOMAIN stack' : n \in DOMAIN stack /\ stack'[n].addr = stack[n].addr
      BY <1>0, <2>1, AssignedType, ReplaceLast DEF Top
    <2> QED  BY <1>0, <2>1, <2>2, PathKept
  <1>5. CASE Return
    <2>1. \A n \in DOMAIN stack' : n \in DOMAIN stack /\ stack'[n] = stack[n]
      BY <1>0, <1>5, DropLast DEF Return, Pop
    <2> QED  BY <1>0, <1>5, <2>1, PathKept DEF Return
  <1>6. CASE Reset
    BY <1>6 DEF Reset, Done, OnPath
  <1>7. CASE UNCHANGED vars
    BY <1>0, <1>7, PathKept DEF vars
  <1> QED  BY <1>1, <1>2, <1>3, <1>4, <1>5, <1>6, <1>7 DEF Next, Step

LEMMA HeldStep ==
    ASSUME RInv, [Next]_vars
    PROVE  AllHeld'
  <1>0. TypeOK /\ InFlightOnce /\ AllHeld /\ stack \in Seq(Frame)
        /\ (\A n \in DOMAIN stack : FrameOK(stack[n])) /\ expr \in Dirs
    BY DEF RInv, IInv, TypeOK
  <1>1. CASE \E r \in Res : Visit(r)
    <2> PICK r \in Res : Visit(r)  BY <1>1
    <2>1. expr' = expr /\ memo' = memo /\ (stack' = <<>> \/ stack' = <<Call(r)>>)
      BY DEF Visit
    <2>2. ASSUME stack' = <<Call(r)>> PROVE Held(1)'  BY <1>0, <2>1, <2>2, CallHeld
    <2> QED  BY <2>1, <2>2 DEF AllHeld
  <1>2. CASE \E a \in Attr : Choose(a)
    <2> PICK a \in Attr : Choose(a)  BY <1>2
    <2>1. stack # <<>> /\ Top \in Frame  BY <1>0, TopType DEF Choose
    <2>2. [Top EXCEPT !.cur = a] \in Frame /\ [Top EXCEPT !.cur = a].addr = Top.addr
          /\ [Top EXCEPT !.cur = a].attrs = Top.attrs
          /\ [Top EXCEPT !.cur = a].todo = Top.todo
      BY <2>1 DEF Frame
    <2>3. DOMAIN stack' = DOMAIN stack
          /\ \A n \in DOMAIN stack : /\ stack'[n].addr = stack[n].addr
                                    /\ stack'[n].attrs = stack[n].attrs
                                    /\ stack'[n].todo = stack[n].todo
      BY <1>0, <2>1, <2>2, ReplaceLast DEF Choose, Replace, Top
    <2>4. ASSUME NEW n \in DOMAIN stack PROVE Held(n)'
      BY <1>0, <2>3, HeldKept DEF AllHeld, Choose
    <2> QED  BY <2>3, <2>4 DEF AllHeld
  <1>3. CASE Descend
    <2>1. PICK i \in DOMAIN Refs : stack' = Append(stack, Call(Refs[i][1]))
      BY <1>3 DEF Descend
    <2>2. stack # <<>> /\ Top.cur # None /\ expr' = expr /\ memo' = memo
      BY <1>3 DEF Descend
    <2>3. Refs[i][1] \in Res  BY <1>0, <2>2, RefType
    <2>4. PICK new : new = Len(stack) + 1  OBVIOUS
    <2>5. PICK r \in Res : r = Refs[i][1]  BY <2>3
    <2>6. DOMAIN stack' = DOMAIN stack \cup {new}
          /\ (\A n \in DOMAIN stack : stack'[n] = stack[n])
          /\ stack'[new] = Call(r)
      BY <1>0, <2>1, <2>4, <2>5
    <2>7. Held(new)'  BY <1>0, <2>2, <2>6, CallHeld
    <2>8. ASSUME NEW n \in DOMAIN stack PROVE Held(n)'
      BY <1>0, <2>2, <2>6, HeldKept DEF AllHeld
    <2> QED  BY <2>6, <2>7, <2>8 DEF AllHeld
  <1>4. CASE Assign
    <2>1. stack # <<>> /\ Top.cur # None /\ stack' = [stack EXCEPT ![Len(stack)] = Assigned]
          /\ expr' = expr /\ memo' = memo /\ \A i \in DOMAIN Refs : ~Unasked(i)
      BY <1>4 DEF Assign, Assigned, Replace
    <2>2. Top \in Frame /\ Top.addr \in Res /\ Top.cur \in Attr /\ Top.attrs \in Vals
      BY <1>0, <2>1, TopType DEF Frame
    <2>3. Assigned \in Frame /\ Assigned.addr = Top.addr
          /\ Assigned.todo = Top.todo \ {Top.cur}
          /\ Assigned.attrs = [Top.attrs EXCEPT ![Top.cur] = Eval(Top.addr, Top.cur)]
      BY <1>0, <2>1, AssignedType
    <2>4. Len(stack) \in DOMAIN stack /\ stack[Len(stack)] = Top
          /\ DOMAIN stack' = DOMAIN stack /\ stack'[Len(stack)] = Assigned
          /\ \A n \in DOMAIN stack : n # Len(stack) => stack'[n] = stack[n]
      BY <1>0, <2>1, <2>3, ReplaceLast DEF Top
    <2>5. Waits(Len(stack), Top.addr, Top.cur)
      BY <1>0, <2>1, <2>4, Answered
    <2>6. ASSUME NEW a \in Attr, a \notin Assigned.todo
          PROVE  /\ Waits(Len(stack), Top.addr, a)
                 /\ Assigned.attrs[a] = M!Denotes(memo, Top.addr, a)
      <3>1. CASE a = Top.cur
        BY <1>0, <2>2, <2>3, <2>5, <3>1, EvalDenotes DEF Vals
      <3>2. CASE a # Top.cur
        <4>1. a \notin Top.todo  BY <2>3, <2>6, <3>2
        <4>2. Assigned.attrs[a] = Top.attrs[a]  BY <2>2, <2>3, <3>2 DEF Vals
        <4> QED  BY <1>0, <2>4, <4>1, <4>2 DEF AllHeld, Held
      <3> QED  BY <3>1, <3>2
    <2>7. PICK last : last = Len(stack)  OBVIOUS
    <2>8. PICK r : r = Top.addr  OBVIOUS
    <2>9. \A n \in DOMAIN stack : stack'[n].addr = stack[n].addr
      BY <2>3, <2>4
    <2>10. Held(last)'
      <3>1. \A a \in Attr : Waits(last, r, a) => Waits(last, r, a)'
        BY <2>1, <2>4, <2>9 DEF Waits
      <3>2. stack'[last] = Assigned /\ stack'[last].addr = r
        BY <2>3, <2>4, <2>7, <2>8
      <3>3. \A a \in Attr : a \notin stack'[last].todo =>
               Waits(last, r, a) /\ stack'[last].attrs[a] = M!Denotes(memo, r, a)
        BY <2>6, <2>7, <2>8, <3>2
      <3>4. \A a \in Attr : M!Denotes(memo, r, a)' = M!Denotes(memo, r, a)
        BY <2>1, SameMeaning
      <3> QED  BY <3>1, <3>2, <3>3, <3>4 DEF Held
    <2>11. ASSUME NEW n \in DOMAIN stack, n # last PROVE Held(n)'
      BY <1>0, <2>1, <2>4, <2>7, <2>9, <2>11, HeldKept DEF AllHeld
    <2> QED  BY <2>4, <2>10, <2>11 DEF AllHeld
  <1>5. CASE Return
    <2>1. stack # <<>> /\ stack' = SubSeq(stack, 1, Len(stack) - 1) /\ expr' = expr
          /\ memo' = [memo EXCEPT ![Top.addr] = Top.attrs]
      BY <1>5 DEF Return, Pop
    <2>2. Top.addr \in Res /\ Top.attrs \in Vals  BY <1>0, <2>1, TopType DEF Frame
    <2>3. memo[Top.addr] = None /\ Len(stack) \in DOMAIN stack
      BY <1>0, <2>1, TopType DEF InFlightOnce, Top
    <2>4. /\ \A n \in DOMAIN stack' : n \in DOMAIN stack /\ n < Len(stack)
          /\ \A n \in DOMAIN stack : n < Len(stack) =>
                 n \in DOMAIN stack' /\ stack'[n] = stack[n]
      BY <1>0, <2>1
    <2>5. ASSUME NEW n \in DOMAIN stack' PROVE Held(n)'
      <3>1. Held(n) /\ stack[n] \in Frame /\ n \in DOMAIN stack /\ n < Len(stack)
            /\ stack'[n] = stack[n]
        BY <1>0, <2>4 DEF AllHeld
      <3>2. PICK r \in Res : r = stack[n].addr  BY <3>1 DEF Frame
      <3>3. ASSUME NEW a \in Attr, Waits(n, r, a)
            PROVE  Waits(n, r, a)' /\ M!Denotes(memo, r, a)' = M!Denotes(memo, r, a)
        BY <1>0, <2>1, <2>2, <2>3, <2>4, <3>1, <3>2, <3>3, WaitsKept
      <3> QED  BY <3>1, <3>2, <3>3 DEF Held
    <2> QED  BY <2>5 DEF AllHeld
  <1>6. CASE Reset
    BY <1>6 DEF Reset, Done, AllHeld
  <1>7. CASE UNCHANGED vars
    <2>1. ASSUME NEW n \in DOMAIN stack PROVE Held(n)'
      BY <1>0, <1>7, HeldKept DEF vars, AllHeld
    <2> QED  BY <1>7, <2>1 DEF AllHeld, vars
  <1> QED  BY <1>1, <1>2, <1>3, <1>4, <1>5, <1>6, <1>7 DEF Next, Step

LEMMA PassedStep ==
    ASSUME RInv, [Next]_vars
    PROVE  Passed'
  <1>0. TypeOK /\ Passed /\ stack \in Seq(Frame)  BY DEF RInv, IInv, TypeOK
  <1>1. CASE \E r \in Res : Visit(r)
    <2> PICK r \in Res : Visit(r)  BY <1>1
    <2>1. stack = <<>> /\ memo' = memo /\ pass' = pass \ {r}
          /\ (memo[r] = None => stack' = <<Call(r)>>)
      BY DEF Visit
    <2>2. Call(r).addr = r  BY DEF Call
    <2>3. memo[r] = None => 1 \in DOMAIN stack' /\ stack'[1].addr = r  BY <2>1, <2>2
    <2>4. \A s \in Res : s \notin pass => memo[s] # None  BY <1>0, <2>1 DEF Passed
    <2> QED  BY <2>1, <2>3, <2>4 DEF Passed
  <1>2. CASE \E a \in Attr : Choose(a)
    <2> PICK a \in Attr : Choose(a)  BY <1>2
    <2>1. stack # <<>> /\ Top \in Frame  BY <1>0, TopType DEF Choose
    <2>2. [Top EXCEPT !.cur = a] \in Frame /\ [Top EXCEPT !.cur = a].addr = Top.addr
      BY <2>1 DEF Frame
    <2>3. \A n \in DOMAIN stack : n \in DOMAIN stack' /\ stack'[n].addr = stack[n].addr
      BY <1>0, <2>1, <2>2, ReplaceLast DEF Choose, Replace, Top
    <2> QED  BY <1>0, <2>3 DEF Passed, Choose
  <1>3. CASE Descend
    <2>1. PICK i \in DOMAIN Refs : stack' = Append(stack, Call(Refs[i][1]))
      BY <1>3 DEF Descend
    <2>2. \A n \in DOMAIN stack : n \in DOMAIN stack' /\ stack'[n].addr = stack[n].addr
      BY <1>0, <2>1
    <2> QED  BY <1>0, <1>3, <2>2 DEF Passed, Descend
  <1>4. CASE Assign
    <2>1. stack # <<>> /\ Top.cur # None /\ stack' = [stack EXCEPT ![Len(stack)] = Assigned]
      BY <1>4 DEF Assign, Assigned, Replace
    <2>2. \A n \in DOMAIN stack : n \in DOMAIN stack' /\ stack'[n].addr = stack[n].addr
      BY <1>0, <2>1, AssignedType, ReplaceLast DEF Top
    <2> QED  BY <1>0, <1>4, <2>2 DEF Passed, Assign
  <1>5. CASE Return
    <2>1. stack # <<>> /\ stack' = SubSeq(stack, 1, Len(stack) - 1) /\ pass' = pass
          /\ memo' = [memo EXCEPT ![Top.addr] = Top.attrs]
      BY <1>5 DEF Return, Pop
    <2>2. Top.addr \in Res /\ Top.attrs # None
      BY <1>0, <2>1, TopType, RefAssumption DEF Frame
    <2>3. \A n \in DOMAIN stack : n # Len(stack) => n \in DOMAIN stack' /\ stack'[n] = stack[n]
      BY <1>0, <2>1
    <2>4. \A s \in Res : memo'[s] # None \/ (memo'[s] = memo[s] /\ s # Top.addr)
      <3> TAKE s \in Res
      <3>1. s = Top.addr => memo'[s] = Top.attrs  BY <1>0, <2>1 DEF TypeOK
      <3>2. s # Top.addr => memo'[s] = memo[s]  BY <1>0, <2>1 DEF TypeOK
      <3> QED  BY <2>2, <3>1, <3>2
    <2>5. \A s \in Res : memo[s] # None => memo'[s] # None  BY <2>4
    <2>6. ASSUME NEW s \in Res, s \notin pass, memo'[s] = None
          PROVE  \E n \in DOMAIN stack' : stack'[n].addr = s
      <3>1. PICK n \in DOMAIN stack : stack[n].addr = s
        BY <1>0, <2>5, <2>6 DEF Passed
      <3>2. n # Len(stack)  BY <2>4, <2>6, <3>1 DEF Top
      <3> QED  BY <2>3, <3>1, <3>2
    <2> QED  BY <2>1, <2>6 DEF Passed
  <1>6. CASE Reset
    BY <1>6 DEF Reset, Passed
  <1>7. CASE UNCHANGED vars
    BY <1>0, <1>7 DEF vars, Passed
  <1> QED  BY <1>1, <1>2, <1>3, <1>4, <1>5, <1>6, <1>7 DEF Next, Step

-----------------------------------------------------------------------------
(* The refinement.                                                         *)

\* The return of a call settles its resource.
LEMMA ReturnLearns ==
    ASSUME RInv, Return
    PROVE  M!Learn(Top.addr) /\ Top.addr \in Res
  <1> DEFINE t == Top.addr
             n == Len(stack)
  <1>0. TypeOK /\ InFlightOnce /\ OnPath /\ AllHeld /\ stack # <<>>
    BY DEF RInv, IInv, Return
  <1>1. n \in DOMAIN stack /\ stack[n] = Top /\ Top \in Frame /\ stack \in Seq(Frame)
    BY <1>0, TopType DEF Top, TypeOK
  <1>2. t \in Res /\ Top.attrs \in Vals  BY <1>1 DEF Frame
  <1>3. memo[t] = None  BY <1>0, <1>1 DEF InFlightOnce
  <1>4. \A a \in Attr : Waits(n, t, a) /\ Top.attrs[a] = M!Denotes(memo, t, a)
    BY <1>0, <1>1 DEF AllHeld, Held, Return
  <1>5. ASSUME NEW s \in Res, M!Edge(t, s)
        PROVE  memo[s] # None \/ M!Reaches(s, t)
    <2>1. PICK a \in Attr : \E k \in DOMAIN expr[t][a].refs : expr[t][a].refs[k][1] = s
      BY <1>5 DEF M!Edge
    <2>2. t # s  BY <1>5 DEF M!Edge
    <2>3. memo[s] # None \/ \E m \in DOMAIN stack : m < n /\ stack[m].addr = s
      BY <1>4, <2>1, <2>2 DEF Waits
    <2>4. \A m \in DOMAIN stack : m < n => M!Reaches(stack[m].addr, t)
      BY <1>0, <1>1 DEF OnPath
    <2> QED  BY <2>3, <2>4
  <1>6. Top.attrs = [a \in Attr |-> M!Denotes(memo, t, a)]
    BY <1>2, <1>4 DEF Vals
  <1>7. memo' = [memo EXCEPT ![t] = [a \in Attr |-> M!Denotes(memo, t, a)]] /\ expr' = expr
    BY <1>6 DEF Return
  <1> QED  BY <1>2, <1>3, <1>5, <1>7 DEF M!Learn

\* RefResolver, with its stack, its guards and the order of the Go maps, does
\* nothing that the atomic resolver could not do, in every directory, whether
\* its references form a cycle or not.
THEOREM Refinement == Spec => Implements
  <1>1. Init => OnPath /\ AllHeld /\ Passed
    BY DEF Init, OnPath, AllHeld, Passed
  <1>2. RInv /\ [Next]_vars => OnPath' /\ AllHeld' /\ Passed'
    BY PathStep, HeldStep, PassedStep
  <1>3. Spec => []RInv
    BY <1>1, <1>2, Inductive, PTL DEF Spec, RInv
  <1>4. Init => M!Init
    BY DEF Init, M!Init
  <1>5. RInv /\ [Next]_vars => [M!Next]_(M!vars)
    <2> SUFFICES ASSUME RInv, [Next]_vars PROVE [M!Next]_(M!vars)  OBVIOUS
    <2>1. CASE Return
      BY <2>1, ReturnLearns DEF M!Next
    <2>2. CASE Reset
      <3>1. \A r \in Res : memo[r] # None  BY <2>2 DEF RInv, Passed, Reset, Done
      <3> QED  BY <2>2, <3>1 DEF Reset, M!Forget, M!Next
    <2>3. CASE expr' = expr /\ memo' = memo
      BY <2>3 DEF M!vars
    <2> QED  BY <2>1, <2>2, <2>3 DEF Next, Step, Visit, Choose, Descend, Assign, vars
  <1> QED  BY <1>3, <1>4, <1>5, PTL DEF Spec, Implements, M!Spec

-----------------------------------------------------------------------------
(* Verify: the inductive invariant of the search.                          *)

CheckFrame == [addr : Res, todo : SUBSET Res]

SearchTypeOK ==
    /\ expr \in Dirs
    /\ left \in SUBSET Res
    /\ path \in Seq(CheckFrame)
    /\ visited \in SUBSET Res
    /\ verdict \in {"none", "ok", "cycle"}

\* The addresses whose call of check has returned.
Black == visited \ Chain

\* Each call of check was made for what the calls below it refer to, and no
\* two are for the same address.
ChainOK ==
    /\ \A m, n \in DOMAIN path : path[m].addr = path[n].addr => m = n
    /\ \A m, n \in DOMAIN path : m <= n => M!Reaches(path[m].addr, path[n].addr)
    /\ \A n \in DOMAIN path : path[n].addr \in visited

\* What a call of check has come past is black, or the call above it.
Explored(n) == \A d \in deps(path[n].addr) :
                  \/ d \in path[n].todo \/ d \in Black
                  \/ n + 1 \in DOMAIN path /\ d = path[n + 1].addr

\* Nothing black is on a cycle, or refers to what is not black.
BlackOK == \A b \in Black : \A d \in deps(b) : d \in Black /\ ~M!Reaches(d, b)

Searching ==
    /\ ChainOK
    /\ \A n \in DOMAIN path : path[n].todo \subseteq deps(path[n].addr) /\ Explored(n)
    /\ BlackOK
    /\ Res \ left \subseteq visited

VInv == /\ SearchTypeOK
        /\ verdict = "none" => Searching
        /\ VerifyExact

-----------------------------------------------------------------------------
(* The references of a resource.                                           *)

LEMMA DepsOf ==
    ASSUME expr \in Dirs, NEW r \in Res
    PROVE  /\ deps(r) \in SUBSET Res
           /\ \A d \in deps(r) : d # r => M!Edge(r, d)
           /\ \A d \in Res : M!Edge(r, d) => d \in deps(r)
  <1>1. expr \in [Res -> [Attr -> Expr]]  BY RefAssumption
  <1>2. ASSUME NEW a \in Attr, NEW i \in DOMAIN expr[r][a].refs
        PROVE  expr[r][a].refs[i][1] \in Res
    <2>1. expr[r][a].refs \in Seq(Res \X Attr)  BY <1>1 DEF Expr
    <2>2. expr[r][a].refs[i] \in Res \X Attr  BY <2>1
    <2> QED  BY <2>2
  <1>3. \A d : d \in deps(r) <=>
            \E a \in Attr : \E i \in DOMAIN expr[r][a].refs : expr[r][a].refs[i][1] = d
    BY DEF deps
  <1>4. deps(r) \in SUBSET Res  BY <1>2, <1>3
  <1>5. \A d \in deps(r) : d # r => M!Edge(r, d)  BY <1>3 DEF M!Edge
  <1>6. \A d \in Res : M!Edge(r, d) => d \in deps(r)  BY <1>3 DEF M!Edge
  <1> QED  BY <1>4, <1>5, <1>6

LEMMA DepsKept ==
    ASSUME expr' = expr
    PROVE  /\ \A r : deps(r)' = deps(r)
           /\ Circular' <=> Circular
  <1>1. \A r : deps(r)' = deps(r)  BY DEF deps
  <1> QED  BY <1>1, ReachesKept DEF Circular

LEMMA ReachesTrans ==
    ASSUME NEW r, NEW s, NEW t, M!Reaches(r, s), M!Reaches(s, t)
    PROVE  M!Reaches(r, t)
  BY DEF M!Reaches

-----------------------------------------------------------------------------
(* The search.                                                             *)

\* One call of check, by either of the loops, up to its own loop.  The loops
\* have l and p left to do after it: p is path without r in the innermost todo.
LEMMA CheckStep ==
    ASSUME VInv, verdict = "none", UNCHANGED vars,
           NEW r \in Res, NEW l \in SUBSET Res, NEW p \in Seq(CheckFrame),
           Len(p) = Len(path),
           \A n \in DOMAIN path : p[n].addr = path[n].addr,
           \A n \in DOMAIN path : n # Len(path) => p[n].todo = path[n].todo,
           path # <<>> => /\ r \in path[Len(path)].todo
                          /\ p[Len(path)].todo = path[Len(path)].todo \ {r},
           left \ l \subseteq {r},
           check(r, l, p)
    PROVE  VInv'
  <1>0. /\ expr \in Dirs /\ expr' = expr /\ path \in Seq(CheckFrame)
        /\ visited \in SUBSET Res /\ left \in SUBSET Res
        /\ ChainOK /\ BlackOK /\ Res \ left \subseteq visited
        /\ \A n \in DOMAIN path : path[n].todo \subseteq deps(path[n].addr) /\ Explored(n)
    BY DEF VInv, SearchTypeOK, Searching, vars
  <1>1. DOMAIN p = DOMAIN path /\ Len(path) \in Nat /\ DOMAIN path = 1 .. Len(path)
    BY <1>0
  <1>2. \A n \in DOMAIN path : path[n].addr \in Res /\ path[n].todo \in SUBSET Res
    <2> TAKE n \in DOMAIN path
    <2>1. path[n] \in CheckFrame  BY <1>0
    <2> QED  BY <2>1 DEF CheckFrame
  <1>3. \A s : deps(s)' = deps(s)  BY <1>0, DepsKept
  <1>4. \A s, t : M!Reaches(s, t)' <=> M!Reaches(s, t)  BY <1>0, ReachesKept
  <1>5. CASE r \in Chain /\ Error
    <2>1. PICK m \in DOMAIN path : path[m].addr = r  BY <1>5 DEF Chain
    <2>2. path # <<>> /\ Len(path) \in DOMAIN path /\ m <= Len(path)  BY <1>1, <2>1
    <2>3. r \in deps(path[Len(path)].addr)  BY <1>0, <2>2
    <2>4. M!Reaches(r, path[Len(path)].addr)  BY <1>0, <2>1, <2>2 DEF ChainOK
    <2>5. Circular  BY <1>2, <2>2, <2>3, <2>4 DEF Circular
    <2>6. Circular'  BY <1>0, <2>5, DepsKept
    <2>7. SearchTypeOK'  BY <1>0, <1>5 DEF SearchTypeOK, Error
    <2> QED  BY <1>5, <2>6, <2>7 DEF VInv, VerifyExact, Error
  <1>6. CASE r \notin Chain /\ r \in visited /\ Skip(l, p)
    <2>1. path' = p /\ visited' = visited /\ verdict' = "none" /\ left' = l
      BY <1>6 DEF Skip
    <2>2. SearchTypeOK'  BY <1>0, <2>1 DEF SearchTypeOK
    <2>3. Chain' = Chain  BY <1>1, <2>1 DEF Chain
    <2>4. Black' = Black  BY <2>1, <2>3 DEF Black
    <2>5. ChainOK'  BY <1>0, <1>1, <1>4, <2>1 DEF ChainOK
    <2>6. BlackOK'  BY <1>0, <1>3, <1>4, <2>4 DEF BlackOK
    <2>7. ASSUME NEW n \in DOMAIN path'
          PROVE  path'[n].todo \subseteq deps(path[n].addr)'
      BY <1>0, <1>1, <1>3, <2>1, <2>7
    <2>8. ASSUME NEW n \in DOMAIN path', NEW d \in deps(path[n].addr)'
          PROVE  d \in path'[n].todo \/ d \in Black' \/ (n + 1 \in DOMAIN path' /\ d = path'[n + 1].addr)
      <3>1. n \in DOMAIN path /\ d \in deps(path[n].addr)  BY <1>1, <1>3, <2>1, <2>8
      <3>2. d \in path[n].todo \/ d \in Black \/ (n + 1 \in DOMAIN path /\ d = path[n + 1].addr)
        BY <1>0, <3>1 DEF Explored
      <3>3. d \in path[n].todo => d \in p[n].todo \/ d = r
        BY <1>1, <3>1
      <3>4. r \in Black  BY <1>6 DEF Black
      <3> QED  BY <1>1, <2>1, <2>4, <3>2, <3>3, <3>4
    <2>9. (\A n \in DOMAIN path : path[n].todo \subseteq deps(path[n].addr) /\ Explored(n))'
      BY <2>7, <2>8 DEF Explored
    <2>10. (Res \ left \subseteq visited)'  BY <1>0, <1>6, <2>1
    <2> QED  BY <2>1, <2>2, <2>5, <2>6, <2>9, <2>10 DEF VInv, Searching, VerifyExact
  <1>7. CASE r \notin Chain /\ r \notin visited /\ Enter(r, l, p)
    <2> DEFINE new == [addr |-> r, todo |-> deps(r)]
    <2>0. deps(r) \in SUBSET Res  BY <1>0, DepsOf
    <2>1. path' = Append(p, new) /\ visited' = visited \cup {r} /\ verdict' = "none" /\ left' = l
      BY <1>7 DEF Enter
    <2>2. new \in CheckFrame /\ new.addr = r /\ new.todo = deps(r)  BY <2>0 DEF CheckFrame
    <2> HIDE DEF new
    <2>3. PICK top \in Nat : top = Len(path)  BY <1>1
    <2>4. /\ path' \in Seq(CheckFrame)
          /\ DOMAIN path' = DOMAIN path \cup {top + 1}
          /\ path'[top + 1] = new
      BY <1>1, <2>1, <2>2, <2>3
    <2>4a. \A n \in DOMAIN path : path'[n] = p[n]  BY <1>1, <2>1, <2>2, <2>3
    <2>5. \A n \in DOMAIN path : n \in Nat /\ n <= top /\ n # top + 1  BY <1>1, <2>3
    <2>6. SearchTypeOK'  BY <1>0, <2>1, <2>4 DEF SearchTypeOK
    <2>7. \A n \in DOMAIN path : path'[n].addr = path[n].addr  BY <2>4a
    <2>8. \A s : s \in Chain' <=> s \in Chain \/ s = r
      BY <2>2, <2>4, <2>7 DEF Chain
    <2>9. \A s : s \in Black' <=> s \in Black
      BY <1>7, <2>1, <2>8 DEF Black
    <2>10. \A m \in DOMAIN path : M!Reaches(path[m].addr, r)
      <3> TAKE m \in DOMAIN path
      <3>1. path # <<>> /\ top \in DOMAIN path /\ m <= top  BY <1>1, <2>3
      <3>2. r \in deps(path[top].addr)  BY <1>0, <2>3, <3>1
      <3>3. path[top].addr # r  BY <1>7, <3>1 DEF Chain
      <3>4. M!Edge(path[top].addr, r)  BY <1>0, <1>2, <3>1, <3>2, <3>3, DepsOf
      <3>5. M!Reaches(path[m].addr, path[top].addr)  BY <1>0, <3>1 DEF ChainOK
      <3> QED  BY <1>2, <3>1, <3>4, <3>5, ReachesStep
    <2>11. ASSUME NEW m \in DOMAIN path', NEW n \in DOMAIN path'
           PROVE  /\ path'[m].addr = path'[n].addr => m = n
                  /\ m <= n => M!Reaches(path'[m].addr, path'[n].addr)
                  /\ path'[n].addr \in visited'
      <3>1. CASE m \in DOMAIN path /\ n \in DOMAIN path
        BY <1>0, <2>1, <2>7, <3>1 DEF ChainOK
      <3>2. CASE m \in DOMAIN path /\ n = top + 1
        <4>1. path[m].addr # r  BY <1>7, <3>2 DEF Chain
        <4> QED  BY <2>1, <2>2, <2>4, <2>7, <2>10, <3>2, <4>1
      <3>3. CASE m = top + 1 /\ n \in DOMAIN path
        <4>1. path[n].addr # r  BY <1>7, <3>3 DEF Chain
        <4>2. ~(m <= n)  BY <2>5, <3>3
        <4>3. path[n].addr \in visited  BY <1>0, <3>3 DEF ChainOK
        <4> QED  BY <2>1, <2>2, <2>4, <2>7, <3>3, <4>1, <4>2, <4>3
      <3>4. CASE m = top + 1 /\ n = top + 1
        BY <2>1, <2>2, <2>4, <3>4, ReachesSelf
      <3> QED  BY <2>4, <3>1, <3>2, <3>3, <3>4
    <2>12. ChainOK'  BY <1>4, <2>11 DEF ChainOK
    <2>13. BlackOK'  BY <1>0, <1>3, <1>4, <2>9 DEF BlackOK
    <2>14. ASSUME NEW n \in DOMAIN path'
           PROVE  path'[n].todo \subseteq deps(path[n].addr)'
      <3>1. CASE n \in DOMAIN path
        <4>1. p[n].todo \subseteq path[n].todo  BY <1>1, <3>1
        <4> QED  BY <1>0, <1>3, <2>4a, <2>7, <3>1, <4>1
      <3>2. CASE n = top + 1  BY <1>3, <2>2, <2>4, <3>2
      <3> QED  BY <2>4, <3>1, <3>2
    <2>15. ASSUME NEW n \in DOMAIN path', NEW d \in deps(path[n].addr)'
           PROVE  d \in path'[n].todo \/ d \in Black' \/ (n + 1 \in DOMAIN path' /\ d = path'[n + 1].addr)
      <3>1. CASE n = top + 1  BY <1>3, <2>2, <2>4, <2>15, <3>1
      <3>2. CASE n \in DOMAIN path
        <4>1. d \in deps(path[n].addr)  BY <1>3, <2>7, <2>15, <3>2
        <4>2. d \in path[n].todo \/ d \in Black \/ (n + 1 \in DOMAIN path /\ d = path[n + 1].addr)
          BY <1>0, <3>2, <4>1 DEF Explored
        <4>3. d \in path[n].todo => d \in p[n].todo \/ (d = r /\ n = top)
          BY <1>1, <2>3, <3>2
        <4>4. d = r /\ n = top => n + 1 \in DOMAIN path' /\ d = path'[n + 1].addr
          BY <2>2, <2>4
        <4>5. n + 1 \in DOMAIN path => n + 1 \in DOMAIN path' /\ path'[n + 1].addr = path[n + 1].addr
          BY <2>4, <2>7
        <4> QED  BY <2>4a, <2>9, <3>2, <4>2, <4>3, <4>4, <4>5
      <3> QED  BY <2>4, <3>1, <3>2
    <2>16. (\A n \in DOMAIN path : path[n].todo \subseteq deps(path[n].addr) /\ Explored(n))'
      BY <2>14, <2>15 DEF Explored
    <2>17. (Res \ left \subseteq visited)'  BY <1>0, <2>1
    <2> QED  BY <2>1, <2>6, <2>12, <2>13, <2>16, <2>17 DEF VInv, Searching, VerifyExact
  <1> QED  BY <1>5, <1>6, <1>7 DEF check

\* A call of check returns: its address is on no cycle, because it refers to
\* black addresses only and those lead to nothing but black ones.
LEMMA ReturnStep ==
    ASSUME VInv, verdict = "none", UNCHANGED vars, CheckReturn
    PROVE  VInv'
  <1>0. /\ expr \in Dirs /\ expr' = expr /\ path \in Seq(CheckFrame)
        /\ visited \in SUBSET Res /\ left \in SUBSET Res
        /\ ChainOK /\ BlackOK /\ Res \ left \subseteq visited
        /\ \A n \in DOMAIN path : path[n].todo \subseteq deps(path[n].addr) /\ Explored(n)
    BY DEF VInv, SearchTypeOK, Searching, vars
  <1>1. PICK top \in Nat : top = Len(path)  BY <1>0
  <1>2. /\ top \in DOMAIN path /\ path[top].todo = {}
        /\ path' = SubSeq(path, 1, top - 1)
        /\ left' = left /\ visited' = visited /\ verdict' = "none"
    BY <1>0, <1>1 DEF CheckReturn, Inner
  <1>3. DOMAIN path' = DOMAIN path \ {top} /\ path' \in Seq(CheckFrame)
    BY <1>0, <1>1, <1>2
  <1>4. \A n \in DOMAIN path' : path'[n] = path[n]  BY <1>0, <1>1, <1>2, <1>3
  <1>5. PICK t \in Res : t = path[top].addr
    <2>1. path[top] \in CheckFrame  BY <1>0, <1>2
    <2> QED  BY <2>1 DEF CheckFrame
  <1>6. \A s : s \in Chain' <=> s \in Chain /\ s # t
    <2>1. \A n \in DOMAIN path : path[n].addr = t <=> n = top
      BY <1>0, <1>2, <1>5 DEF ChainOK
    <2> QED  BY <1>3, <1>4, <2>1 DEF Chain
  <1>7. t \in Chain /\ t \in visited  BY <1>0, <1>2, <1>5 DEF Chain, ChainOK
  <1>8. \A s : s \in Black' <=> s \in Black \/ s = t
    BY <1>2, <1>6, <1>7 DEF Black
  <1>9. \A s : deps(s)' = deps(s)  BY <1>0, DepsKept
  <1>10. \A s, u : M!Reaches(s, u)' <=> M!Reaches(s, u)  BY <1>0, ReachesKept
  <1>11. \A d \in deps(t) : d \in Black
    <2>1. top + 1 \notin DOMAIN path  BY <1>0, <1>1
    <2> QED  BY <1>0, <1>2, <1>5, <2>1 DEF Explored
  <1>12. \A d \in deps(t) : ~M!Reaches(d, t)
    <2> SUFFICES ASSUME NEW d \in deps(t), M!Reaches(d, t) PROVE FALSE  OBVIOUS
    <2>1. Black \in SUBSET Res  BY <1>0 DEF Black
    <2>2. M!Closed(Black)
      <3> SUFFICES ASSUME NEW u \in Black, NEW s \in Res, M!Edge(u, s) PROVE s \in Black
        BY DEF M!Closed
      <3>1. s \in deps(u)  BY <1>0, <2>1, DepsOf
      <3> QED  BY <1>0, <3>1 DEF BlackOK
    <2>3. t \in Black  BY <1>11, <2>1, <2>2 DEF M!Reaches
    <2> QED  BY <1>7, <2>3 DEF Black
  <1>13. BlackOK'  BY <1>0, <1>8, <1>9, <1>10, <1>11, <1>12 DEF BlackOK
  <1>14. ChainOK'  BY <1>0, <1>2, <1>3, <1>4, <1>10 DEF ChainOK
  <1>15. ASSUME NEW n \in DOMAIN path', NEW d \in deps(path[n].addr)'
         PROVE  d \in path'[n].todo \/ d \in Black' \/ (n + 1 \in DOMAIN path' /\ d = path'[n + 1].addr)
    <2>1. n \in DOMAIN path /\ d \in deps(path[n].addr)  BY <1>3, <1>4, <1>9, <1>15
    <2>2. d \in path[n].todo \/ d \in Black \/ (n + 1 \in DOMAIN path /\ d = path[n + 1].addr)
      BY <1>0, <2>1 DEF Explored
    <2>3. n + 1 = top => (d = path[n + 1].addr => d = t)  BY <1>5
    <2> QED  BY <1>3, <1>4, <1>8, <2>2, <2>3
  <1>16. (\A n \in DOMAIN path : path[n].todo \subseteq deps(path[n].addr) /\ Explored(n))'
    BY <1>0, <1>3, <1>4, <1>9, <1>15 DEF Explored
  <1>17. SearchTypeOK'  BY <1>0, <1>2, <1>3 DEF SearchTypeOK
  <1> QED  BY <1>0, <1>2, <1>13, <1>14, <1>16, <1>17 DEF VInv, Searching, VerifyExact

\* Verify returns without an error: everything is black.
LEMMA VerifyReturnStep ==
    ASSUME VInv, verdict = "none", UNCHANGED vars, VerifyReturn
    PROVE  VInv'
  <1>0. /\ expr \in Dirs /\ expr' = expr /\ visited \in SUBSET Res
        /\ BlackOK /\ Res \ left \subseteq visited /\ SearchTypeOK
        /\ path = <<>> /\ left = {} /\ verdict' = "ok"
        /\ path' = path /\ left' = left /\ visited' = visited
    BY DEF VInv, SearchTypeOK, Searching, vars, VerifyReturn
  <1>1. visited = Res  BY <1>0
  <1>2. Black = Res  BY <1>0, <1>1 DEF Black, Chain
  <1>3. ~Circular  BY <1>0, <1>2 DEF Circular, BlackOK
  <1>4. ~Circular'  BY <1>0, <1>3, DepsKept
  <1>5. SearchTypeOK'  BY <1>0 DEF SearchTypeOK
  <1> QED  BY <1>0, <1>1, <1>4, <1>5 DEF VInv, VerifyExact

LEMMA SearchStep ==
    ASSUME VInv, Search
    PROVE  VInv'
  <1>0. verdict = "none" /\ UNCHANGED vars /\ path \in Seq(CheckFrame) /\ left \in SUBSET Res
    BY DEF VInv, SearchTypeOK, Search
  <1>1. ASSUME NEW r \in Res, VerifyNext(r) PROVE VInv'
    <2>1. path = <<>> /\ check(r, left \ {r}, <<>>)  BY <1>1 DEF VerifyNext
    <2> QED  BY <1>0, <2>1, CheckStep
  <1>2. ASSUME NEW r \in Res, CheckDep(r) PROVE VInv'
    <2>0. path # <<>> /\ r \in Inner.todo /\ Len(path) \in DOMAIN path /\ Inner \in CheckFrame
      BY <1>0, <1>2 DEF CheckDep, Inner
    <2>1. PICK f : f = [Inner EXCEPT !.todo = @ \ {r}]  OBVIOUS
    <2>2. f \in CheckFrame /\ f.addr = Inner.addr /\ f.todo = Inner.todo \ {r}
      BY <2>0, <2>1 DEF CheckFrame
    <2>3. PICK p : p = [path EXCEPT ![Len(path)] = f]  OBVIOUS
    <2>4. check(r, left, p)  BY <1>2, <2>1, <2>3 DEF CheckDep, Inner
    <2>5. /\ p \in Seq(CheckFrame) /\ Len(p) = Len(path) /\ p[Len(path)] = f
          /\ \A n \in DOMAIN path : n # Len(path) => p[n] = path[n]
      BY <1>0, <2>0, <2>2, <2>3, ReplaceLast
    <2> QED  BY <1>0, <2>0, <2>2, <2>4, <2>5, CheckStep DEF Inner
  <1> QED  BY <1>0, <1>1, <1>2, ReturnStep, VerifyReturnStep DEF Search

LEMMA SearchInvariant == CheckedSpec => []VInv
  <1>1. CheckedInit => VInv
    BY DEF CheckedInit, Init, SearchInit, VInv, SearchTypeOK, Searching, ChainOK,
           BlackOK, Black, Chain, VerifyExact
  <1>2. VInv /\ [CheckedNext]_allVars => VInv'
    <2> SUFFICES ASSUME VInv, [CheckedNext]_allVars PROVE VInv'  OBVIOUS
    <2>1. CASE Search  BY <2>1, SearchStep
    <2>2. CASE expr' = expr /\ UNCHANGED searchVars
      <3>1. \A r : deps(r)' = deps(r)  BY <2>2, DepsKept
      <3>2. \A r, s : M!Reaches(r, s)' <=> M!Reaches(r, s)  BY <2>2, ReachesKept
      <3>3. Circular' <=> Circular  BY <2>2, DepsKept
      <3>4. path' = path /\ visited' = visited /\ left' = left /\ verdict' = verdict
        BY <2>2 DEF searchVars
      <3>5. Black' = Black  BY <3>4 DEF Black, Chain
      <3>6. SearchTypeOK'  BY <2>2, <3>4 DEF VInv, SearchTypeOK
      <3>7. ChainOK => ChainOK'  BY <3>2, <3>4 DEF ChainOK
      <3>8. BlackOK => BlackOK'  BY <3>1, <3>2, <3>5 DEF BlackOK
      <3>9. \A n \in DOMAIN path : Explored(n) => Explored(n)'
        BY <3>1, <3>4, <3>5 DEF Explored
      <3>10. Searching => Searching'  BY <3>1, <3>4, <3>7, <3>8, <3>9 DEF Searching
      <3> QED  BY <3>3, <3>4, <3>6, <3>10 DEF VInv, VerifyExact
    <2>3. ASSUME Resolve(Next) PROVE expr' = expr /\ UNCHANGED searchVars
      BY <2>3 DEF Resolve, Next, Step, Visit, Choose, Descend, Assign, Return, Reset
    <2> QED  BY <2>1, <2>2, <2>3 DEF CheckedNext, allVars, vars
  <1> QED  BY <1>1, <1>2, PTL DEF CheckedSpec

\* In every directory, in any order of the Go maps, Verify returns an error if
\* and only if some resource refers to itself, directly or through others
\* (refs.go:40-69), and has looked at every resource otherwise.
THEOREM VerifyFindsCycles == CheckedSpec => []VerifyExact
  <1>1. VInv => VerifyExact  BY DEF VInv
  <1> QED  BY <1>1, SearchInvariant, PTL

\* Verify, whose error buildScope drops, changes nothing the resolver sees:
\* what every theorem says of Spec is so with Verify before it, too.
THEOREM VerifyHarmless == CheckedSpec => Spec
  <1>1. CheckedInit => Init  BY DEF CheckedInit
  <1>2. [CheckedNext]_allVars => [Next]_vars
    BY DEF CheckedNext, Search, Resolve, allVars
  <1> QED  BY <1>1, <1>2, PTL DEF CheckedSpec, Spec
=============================================================================
