-------------------------- MODULE DeltaComputeProofs --------------------------
(***************************************************************************)
(* DeltaCompute for any number of addresses, items, specs and prices: the  *)
(* pairing, what becomes a row, and that the headline adds up.             *)
(***************************************************************************)
EXTENDS DeltaCompute, SumLemmas, TLAPS

-----------------------------------------------------------------------------
(* The inductive invariant.                                                *)

Looping == phase \in {"equal", "left", "emit"}

\* The loops stay within the two lists of the address at work.
Shape ==
    /\ rows \in Seq(RowType)
    /\ addr \notin todo
    /\ addr = None => DOMAIN pair = {}
    /\ addr # None =>
          /\ pair \in [DOMAIN C -> {0} \cup DOMAIN B]
          /\ used \subseteq DOMAIN B
          /\ Looping => i \in 1..(Len(C) + 1) /\ (i <= Len(C) \/ Len(C) = 0)
          /\ phase = "removed" => i \in 1..(Len(B) + 1)

\* An item and a base item of its spec are not both left to others.
Met(c, b) == \/ pair[c] # 0 /\ B[pair[c]].spec = C[c].spec
             \/ \E d \in DOMAIN C : pair[d] = b /\ C[d].spec = B[b].spec

\* The first pass has met the items before i, and paired only equal specs.
FirstPass ==
    phase = "equal" =>
        \A c \in DOMAIN C :
            /\ c >= i => pair[c] = 0
            /\ pair[c] # 0 => B[pair[c]].spec = C[c].spec
            /\ c < i => \A b \in DOMAIN B : C[c].spec = B[b].spec => Met(c, b)

\* The items of the proposed side that have been written, and the ones of the
\* baseline that were paired with them or written themselves.
Emitted(c) == phase = "removed" \/ (phase = "emit" /\ c < i)
Dropped(b) == \/ \E c \in DOMAIN pair : Emitted(c) /\ pair[c] = b
              \/ phase = "removed" /\ b \notin used /\ b < i

RowsOf(a)  == {k \in DOMAIN rows : rows[k].addr = a}
Changed(c) == ~(pair[c] # 0 /\ Unchanged(pair[c], c))

\* The rows of the address at work are those of its items so far.
RowsSound ==
    \A k \in RowsOf(addr) :
        \/ /\ rows[k].c \in DOMAIN C /\ Emitted(rows[k].c)
           /\ Changed(rows[k].c) /\ rows[k].b = pair[rows[k].c]
        \/ /\ rows[k].c = 0 /\ phase = "removed"
           /\ rows[k].b \in DOMAIN B \ used /\ rows[k].b < i
RowsOnce ==
    \A k, l \in RowsOf(addr) : rows[k].c = rows[l].c /\ rows[k].b = rows[l].b => k = l
RowsAll ==
    /\ \A c \in DOMAIN C : Emitted(c) /\ Changed(c)
                              => \E k \in RowsOf(addr) : rows[k].c = c
    /\ phase = "removed" => \A b \in DOMAIN B \ used : b < i
                              => \E k \in RowsOf(addr) : rows[k].b = b /\ rows[k].c = 0
RowsRight == addr # None => RowsSound /\ RowsOnce /\ RowsAll

\* No rows before an address is at work, and the right ones after.
RowsElsewhere ==
    /\ \A a \in todo : RowsOf(a) = {}
    /\ \A a \in Addr \ todo : a # addr => OnceAt(a)

RowsReordered == \A a \in Addr : Reordered(a) => RowsOf(a) = {}

\* Every row stands for items there are.
RowsFit ==
    \A k \in DOMAIN rows :
        /\ rows[k].b \in {0} \cup DOMAIN base[rows[k].addr]
        /\ rows[k].c \in {0} \cup DOMAIN cur[rows[k].addr]

\* What is still to be written on either side.
LeftC == {x \in Positions(cur) : x[1] \in todo \/ (x[1] = addr /\ ~Emitted(x[2]))}
LeftB == {x \in Positions(base) : x[1] \in todo \/ (x[1] = addr /\ ~Dropped(x[2]))}

Worth(lists)   == [x \in Positions(lists) |-> Priced(lists, x[1], x[2])]
HiddenRows     == [k \in DOMAIN rows |-> Hidden(k)]

\* The rows so far and what is still to be written make up the difference.
Balance ==
    /\ total.delta + SumFunction(HiddenRows)
       + SumFunctionOnSet(Worth(cur), LeftC) - SumFunctionOnSet(Worth(base), LeftB)
       = total.proposed - total.prior

IInv == /\ TypeOK /\ Shape /\ PairingOK /\ FirstPass /\ EqualSpecsFirst
        /\ RowsRight /\ RowsElsewhere /\ RowsReordered /\ RowsFit /\ Balance

-----------------------------------------------------------------------------
(* Types.                                                                  *)

TotalType == [prior : Nat, proposed : Nat, delta : Int, notEstimated : Nat]

LEMMA ListType ==
  ASSUME NEW l \in Lists
  PROVE  /\ Len(l) \in 0..MaxItems /\ Len(l) \in Nat /\ MaxItems \in Nat
         /\ DOMAIN l = 1..Len(l)
         /\ \A n \in DOMAIN l : /\ n \in 1..MaxItems /\ l[n] \in Item
                                /\ l[n].monthly \in Nat /\ l[n].priced \in BOOLEAN
  <1>1. PICK n \in 0..MaxItems : l \in [1..n -> Item]
    BY DEF Lists
  <1>2. MaxItems \in Nat /\ n \in Nat
    BY DeltaAssumption
  <1>3. DOMAIN l = 1..n /\ Len(l) = n
    BY <1>1, <1>2
  <1>4. \A m \in 1..n : l[m] \in Item
    BY <1>1
  <1> QED  BY <1>2, <1>3, <1>4, DeltaAssumption

\* The lists of the address at work.
LEMMA WorkType ==
  ASSUME TypeOK, addr # None
  PROVE  /\ addr \in Addr /\ B \in Lists /\ C \in Lists
         /\ Len(B) \in 0..MaxItems /\ Len(B) \in Nat /\ DOMAIN B = 1..Len(B)
         /\ Len(C) \in 0..MaxItems /\ Len(C) \in Nat /\ DOMAIN C = 1..Len(C)
         /\ MaxItems \in Nat
         /\ \A n \in DOMAIN B : /\ n \in 1..MaxItems /\ B[n] \in Item
                                /\ B[n].monthly \in Nat /\ B[n].priced \in BOOLEAN
         /\ \A n \in DOMAIN C : /\ n \in 1..MaxItems /\ C[n] \in Item
                                /\ C[n].monthly \in Nat /\ C[n].priced \in BOOLEAN
  <1>1. addr \in Addr /\ B \in Lists /\ C \in Lists
    BY DEF TypeOK, B, C
  <1> QED  BY <1>1, ListType

\* What a step of the two pairing loops does.
LEMMA TakeFacts ==
  ASSUME TypeOK, Shape, addr # None, NEW S \in SUBSET DOMAIN B, Take(S)
  PROVE  \/ S \subseteq used /\ used' = used /\ pair' = pair
         \/ \E b \in S \ used : /\ used' = used \cup {b}
                                /\ pair' = [pair EXCEPT ![i] = b]
  <1>1. S \ used \in SUBSET Nat
    BY WorkType
  <1>2. CASE S \ used = {}
    BY <1>2 DEF Take
  <1>3. CASE S \ used # {}
    <2>1. Min(S \ used) \in S \ used
      BY <1>1, <1>3, MinIn
    <2> QED  BY <1>3, <2>1 DEF Take
  <1> QED  BY <1>2, <1>3

LEMMA AddRowType ==
  ASSUME TypeOK, Shape, NEW r \in RowType, AddRow(r)
  PROVE  rows' \in Seq(RowType) /\ total' \in TotalType
  <1>1. rows' \in Seq(RowType)
    BY DEF AddRow, Shape
  <1>2. total \in TotalType /\ r.delta \in Int
    BY DEF TypeOK, TotalType, RowType
  <1>3. total' \in TotalType
    BY <1>2 DEF AddRow, TotalType
  <1> QED  BY <1>1, <1>3

LEMMA RowTypes ==
  ASSUME TypeOK, Shape, addr # None
  PROVE  /\ \A c \in DOMAIN C : NewRow(c) \in RowType
         /\ \A b \in DOMAIN B : RemovedRow(b) \in RowType
         /\ \A b \in DOMAIN B, c \in DOMAIN C : RowFor(b, c) \in RowType
  BY WorkType DEF NewRow, RemovedRow, RowFor, Row, RowType, Kind

\* The loops over the items of the proposed side: same lists, next index.
LEMMA StepShape ==
  ASSUME TypeOK, Shape, addr # None, i \in 1..Len(C), Looping,
         NEW next \in {"left", "emit", "removed"}, Step(next)
  PROVE  /\ base' = base /\ cur' = cur /\ todo' = todo /\ addr' = addr
         /\ B' = B /\ C' = C
         /\ \/ phase' = phase /\ i' = i + 1 /\ i < Len(C)
            \/ phase' = next /\ i' = 1 /\ i = Len(C)
         /\ phase' \in {"equal", "left", "emit", "removed"}
         /\ i' \in 0..(MaxItems + 1)
         /\ Looping' => i' \in 1..(Len(C) + 1) /\ (i' <= Len(C) \/ Len(C) = 0)
         /\ phase' = "removed" => i' \in 1..(Len(B) + 1)
  <1>1. base' = base /\ cur' = cur /\ todo' = todo /\ addr' = addr
    BY DEF Step, input
  <1>2. B' = B /\ C' = C
    BY <1>1 DEF B, C
  <1>3. \/ phase' = phase /\ i' = i + 1 /\ i < Len(C)
        \/ phase' = next /\ i' = 1 /\ i = Len(C)
    <2>1. Len(C) \in Nat /\ i \in Nat /\ i <= Len(C)
      BY WorkType
    <2>2. IF i < Len(C) THEN phase' = phase /\ i' = i + 1 ELSE phase' = next /\ i' = 1
      BY DEF Step
    <2>3. CASE i < Len(C)
      BY <2>2, <2>3
    <2>4. CASE ~(i < Len(C))
      BY <2>1, <2>2, <2>4
    <2> QED  BY <2>3, <2>4
  <1> QED  BY <1>1, <1>2, <1>3, WorkType DEF Looping, TypeOK

LEMMA TypeStep ==
  ASSUME TypeOK, Shape, [Next]_vars
  PROVE  TypeOK' /\ Shape'
  <1>1. CASE NextAddr
    <2>1. PICK a \in todo : /\ addr' = a /\ todo' = todo \ {a}
                            /\ pair' = [c \in DOMAIN cur[a] |-> 0]
      BY <1>1 DEF NextAddr
    <2>2. /\ phase' = "equal" /\ i' = 1 /\ used' = {}
          /\ base' = base /\ cur' = cur /\ rows' = rows /\ total' = total
      BY <1>1 DEF NextAddr, input
    <2>3. a \in Addr /\ a # None /\ base[a] \in Lists /\ cur[a] \in Lists
      BY <2>1, DeltaAssumption DEF TypeOK
    <2>4. B' = base[a] /\ C' = cur[a]
      BY <2>1, <2>2 DEF B, C
    <2>5. Len(cur[a]) \in 0..MaxItems /\ DOMAIN cur[a] = 1..Len(cur[a]) /\ MaxItems \in Nat
      BY <2>3, ListType
    <2>6. TypeOK'
      BY <2>1, <2>2, <2>3, <2>5 DEF TypeOK
    <2>7. Shape'
      BY <2>1, <2>2, <2>3, <2>4, <2>5 DEF Shape, Looping
    <2> QED  BY <2>6, <2>7
  <1>2. ASSUME NEW S \in SUBSET DOMAIN B, addr # None, i \in 1..Len(C), Looping, Take(S),
               NEW next \in {"left", "emit", "removed"}, Step(next), UNCHANGED <<rows, total>>
        PROVE  TypeOK' /\ Shape'
    <2>1. \/ used' = used /\ pair' = pair
          \/ \E b \in DOMAIN B : used' = used \cup {b} /\ pair' = [pair EXCEPT ![i] = b]
      BY <1>2, TakeFacts
    <2>2. /\ pair' \in [DOMAIN C -> {0} \cup DOMAIN B]
          /\ used' \subseteq DOMAIN B
      BY <1>2, <2>1, WorkType DEF Shape
    <2>3. /\ used' \in SUBSET (1..MaxItems)
          /\ \A c \in DOMAIN pair' : pair'[c] \in 0..MaxItems
      BY <1>2, <2>2, WorkType
    <2>4. TypeOK'
      BY <1>2, <2>3, StepShape DEF TypeOK
    <2>5. Shape'
      BY <1>2, <2>2, StepShape DEF Shape
    <2> QED  BY <2>4, <2>5
  <1>3. CASE PairEqual
    <2>1. addr # None /\ Looping /\ Step("left") /\ i \in 1..Len(C) /\ UNCHANGED <<rows, total>>
      BY <1>3, WorkType DEF PairEqual, TypeOK, Shape, Looping
    <2> DEFINE S == {b \in DOMAIN B : B[b].spec = C[i].spec}
    <2>2. Take(S) /\ S \in SUBSET DOMAIN B
      BY <1>3 DEF PairEqual
    <2> HIDE DEF S
    <2> QED  BY <1>2, <2>1, <2>2
  <1>4. CASE PairLeftover
    <2>1. addr # None /\ Looping /\ Step("emit") /\ i \in 1..Len(C)
      BY <1>4, WorkType DEF PairLeftover, TypeOK, Shape, Looping
    <2>2. CASE pair[i] = 0
      BY <1>2, <1>4, <2>1, <2>2 DEF PairLeftover
    <2>3. CASE pair[i] # 0
      <3>1. UNCHANGED <<used, pair, rows, total>>
        BY <1>4, <2>3 DEF PairLeftover
      <3>2. TypeOK'
        BY <2>1, <3>1, StepShape DEF TypeOK
      <3>3. Shape'
        BY <2>1, <3>1, StepShape DEF Shape
      <3> QED  BY <3>2, <3>3
    <2> QED  BY <2>2, <2>3
  <1>5. CASE Emit
    <2>1. /\ addr # None /\ Looping /\ Step("removed") /\ i \in 1..Len(C)
          /\ used' = used /\ pair' = pair
      BY <1>5, WorkType DEF Emit, TypeOK, Shape, Looping
    <2>2. rows' \in Seq(RowType) /\ total' \in TotalType
      <3>1. pair[i] # 0 => pair[i] \in DOMAIN B
        BY <2>1, WorkType DEF Shape
      <3>2. CASE UNCHANGED <<rows, total>>
        BY <3>2 DEF TypeOK, Shape, TotalType
      <3>3. CASE AddRow(NewRow(i)) /\ pair[i] = 0
        BY <2>1, <3>3, AddRowType, RowTypes, WorkType
      <3>4. CASE AddRow(RowFor(pair[i], i)) /\ pair[i] # 0
        BY <2>1, <3>1, <3>4, AddRowType, RowTypes, WorkType
      <3> QED  BY <1>5, <3>2, <3>3, <3>4 DEF Emit
    <2>3. \A k \in DOMAIN rows' : rows'[k] \in RowType
      BY <2>2
    <2>4. TypeOK'
      BY <2>1, <2>2, <2>3, StepShape DEF TypeOK, TotalType
    <2>5. Shape'
      BY <2>1, <2>2, StepShape DEF Shape
    <2> QED  BY <2>4, <2>5
  <1>6. CASE SkipLoops
    <2>1. addr # None /\ B' = B /\ C' = C /\ addr' = addr
      BY <1>6 DEF SkipLoops, TypeOK, B, C, input
    <2> QED  BY <1>6, <2>1, WorkType DEF SkipLoops, TypeOK, Shape, input, Looping
  <1>7. CASE Removed
    <2>1. addr # None /\ B' = B /\ C' = C /\ addr' = addr /\ i \in DOMAIN B
      BY <1>7, WorkType DEF Removed, TypeOK, B, C, input, Shape
    <2>2. rows' \in Seq(RowType) /\ total' \in TotalType
      <3>1. CASE UNCHANGED <<rows, total>>
        BY <3>1 DEF TypeOK, Shape, TotalType
      <3>2. CASE AddRow(RemovedRow(i))
        BY <2>1, <3>2, AddRowType, RowTypes
      <3> QED  BY <1>7, <3>1, <3>2 DEF Removed
    <2>3. \A k \in DOMAIN rows' : rows'[k] \in RowType
      BY <2>2
    <2>4. i + 1 \in 1..(Len(B) + 1) /\ i + 1 \in 0..(MaxItems + 1)
      BY <2>1, WorkType
    <2> QED  BY <1>7, <2>1, <2>2, <2>3, <2>4 DEF Removed, TypeOK, Shape, TotalType, input, Looping
  <1>8. CASE AddrDone
    BY <1>8, DeltaAssumption DEF AddrDone, TypeOK, Shape, Looping, input
  <1>9. CASE UNCHANGED vars
    BY <1>9 DEF vars, input, TypeOK, Shape, Looping, B, C
  <1> QED  BY <1>1, <1>3, <1>4, <1>5, <1>6, <1>7, <1>8, <1>9 DEF Next


-----------------------------------------------------------------------------
(* The pairing.                                                            *)

\* What the loops over the items of the address at work leave alone.
Within == /\ addr # None /\ addr' = addr /\ todo' = todo
          /\ base' = base /\ cur' = cur /\ B' = B /\ C' = C

LEMMA PairChange ==
  ASSUME TypeOK, Shape, FirstPass, PairEqual \/ PairLeftover
  PROVE  /\ Within /\ rows' = rows /\ total' = total
         /\ i \in DOMAIN C /\ phase \in {"equal", "left"}
         /\ \/ used' = used /\ pair' = pair
            \/ /\ pair[i] = 0
               /\ \E b \in DOMAIN B \ used :
                     /\ used' = used \cup {b} /\ pair' = [pair EXCEPT ![i] = b]
                     /\ phase = "equal" => B[b].spec = C[i].spec
         /\ PairEqual => \/ pair'[i] # 0
                         \/ \A b \in DOMAIN B : B[b].spec = C[i].spec => b \in used
         /\ \/ phase' = phase /\ i' = i + 1 /\ i < Len(C)
            \/ phase' = (IF phase = "equal" THEN "left" ELSE "emit") /\ i' = 1 /\ i = Len(C)
  <1>1. addr # None /\ Looping /\ i \in 1..Len(C) /\ i \in DOMAIN C
    BY WorkType DEF PairEqual, PairLeftover, TypeOK, Shape, Looping
  <1>2. DOMAIN B \subseteq Nat \ {0} /\ DOMAIN pair = DOMAIN C
    BY <1>1, WorkType DEF Shape
  <1>3. CASE PairEqual
    <2> DEFINE S == {b \in DOMAIN B : B[b].spec = C[i].spec}
    <2>1. Take(S) /\ Step("left") /\ phase = "equal" /\ rows' = rows /\ total' = total
      BY <1>3 DEF PairEqual
    <2>2. pair[i] = 0
      BY <1>1, <1>2, <2>1, WorkType DEF FirstPass
    <2>3. S \in SUBSET DOMAIN B
      OBVIOUS
    <2>4. \/ S \subseteq used /\ used' = used /\ pair' = pair
          \/ \E b \in S \ used : used' = used \cup {b} /\ pair' = [pair EXCEPT ![i] = b]
      <3> HIDE DEF S
      <3> QED  BY <1>1, <2>1, <2>3, TakeFacts
    <2>5. /\ \/ used' = used /\ pair' = pair
             \/ \E b \in DOMAIN B \ used :
                   /\ used' = used \cup {b} /\ pair' = [pair EXCEPT ![i] = b]
                   /\ B[b].spec = C[i].spec
          /\ \/ pair'[i] # 0
             \/ \A b \in DOMAIN B : B[b].spec = C[i].spec => b \in used
      BY <1>1, <1>2, <2>4
    <2> QED  BY <1>1, <2>1, <2>2, <2>5, StepShape DEF Within
  <1>4. CASE PairLeftover
    <2>1. Step("emit") /\ phase = "left" /\ rows' = rows /\ total' = total
      BY <1>4 DEF PairLeftover
    <2>2. \/ used' = used /\ pair' = pair
          \/ /\ pair[i] = 0
             /\ \E b \in DOMAIN B \ used : used' = used \cup {b} /\ pair' = [pair EXCEPT ![i] = b]
      BY <1>1, <1>4, TakeFacts DEF PairLeftover
    <2>3. ~PairEqual
      BY <2>1 DEF PairEqual
    <2> QED  BY <1>1, <2>1, <2>2, <2>3, StepShape DEF Within
  <1> QED  BY <1>3, <1>4

\* The other steps of an address leave the pairing alone.
LEMMA PairSame ==
  ASSUME TypeOK, Shape, Emit \/ SkipLoops \/ Removed
  PROVE  Within /\ used' = used /\ pair' = pair
  <1>1. addr # None /\ used' = used /\ pair' = pair
    BY DEF Emit, SkipLoops, Removed, TypeOK
  <1>2. base' = base /\ cur' = cur /\ todo' = todo /\ addr' = addr
    BY DEF Emit, SkipLoops, Removed, Step, input
  <1> QED  BY <1>1, <1>2 DEF Within, B, C

LEMMA PairingStep ==
  ASSUME TypeOK, Shape, FirstPass, PairingOK, [Next]_vars
  PROVE  PairingOK'
  <1>1. CASE NextAddr
    BY <1>1 DEF NextAddr, PairingOK
  <1>2. CASE PairEqual \/ PairLeftover
    <2>1. Within /\ i \in DOMAIN C
      BY <1>2, PairChange
    <2>2. /\ DOMAIN pair = DOMAIN C /\ DOMAIN B \subseteq Nat \ {0}
          /\ used = {pair[c] : c \in DOMAIN pair} \ {0}
          /\ \A c, d \in DOMAIN pair : pair[c] = pair[d] /\ pair[c] # 0 => c = d
      BY <2>1, WorkType DEF Within, Shape, PairingOK
    <2>3. CASE used' = used /\ pair' = pair
      BY <2>2, <2>3 DEF PairingOK
    <2>4. ASSUME pair[i] = 0, NEW b \in DOMAIN B \ used,
                 used' = used \cup {b}, pair' = [pair EXCEPT ![i] = b]
          PROVE  PairingOK'
      <3>1. b # 0 /\ \A c \in DOMAIN pair : pair[c] # b
        BY <2>2, <2>4
      <3>2. /\ DOMAIN pair' = DOMAIN pair
            /\ \A c \in DOMAIN pair : pair'[c] = IF c = i THEN b ELSE pair[c]
        BY <2>4
      <3>3. used' = {pair'[c] : c \in DOMAIN pair'} \ {0}
        <4>1. ASSUME NEW x \in used' PROVE x \in {pair'[c] : c \in DOMAIN pair'} \ {0}
          <5>1. CASE x = b
            BY <2>1, <2>2, <3>1, <3>2, <5>1
          <5>2. CASE x \in used
            <6>1. PICK c \in DOMAIN pair : x = pair[c] /\ x # 0
              BY <2>2, <5>2
            <6>2. c # i
              BY <2>4, <6>1
            <6> QED  BY <3>2, <6>1, <6>2
          <5> QED  BY <2>4, <4>1, <5>1, <5>2
        <4>2. ASSUME NEW c \in DOMAIN pair', pair'[c] # 0 PROVE pair'[c] \in used'
          BY <2>2, <2>4, <3>2, <4>2
        <4> QED  BY <4>1, <4>2
      <3>4. \A c, d \in DOMAIN pair' : pair'[c] = pair'[d] /\ pair'[c] # 0 => c = d
        BY <2>2, <3>1, <3>2
      <3> QED  BY <3>3, <3>4 DEF PairingOK
    <2> QED  BY <1>2, <2>3, <2>4, PairChange
  <1>3. CASE Emit \/ SkipLoops \/ Removed
    BY <1>3, PairSame DEF PairingOK, Within
  <1>4. CASE AddrDone
    BY <1>4 DEF AddrDone, PairingOK
  <1>5. CASE UNCHANGED vars
    BY <1>5 DEF vars, PairingOK
  <1> QED  BY <1>1, <1>2, <1>3, <1>4, <1>5 DEF Next

\* A pairing step undoes no meeting of equal specs.
LEMMA MetStays ==
  ASSUME TypeOK, Shape, FirstPass, PairEqual \/ PairLeftover,
         NEW c \in DOMAIN C, NEW b \in DOMAIN B, Met(c, b)
  PROVE  Met(c, b)'
  <1>1. Within /\ i \in DOMAIN C
    BY PairChange
  <1>2. DOMAIN pair = DOMAIN C /\ DOMAIN B \subseteq Nat \ {0} /\ B' = B /\ C' = C
    BY <1>1, WorkType DEF Within, Shape
  <1>3. \A d \in DOMAIN C : pair[d] # 0 => pair'[d] = pair[d]
    <2>1. CASE pair' = pair
      BY <2>1
    <2>2. CASE pair[i] = 0 /\ \E e \in DOMAIN B \ used : pair' = [pair EXCEPT ![i] = e]
      BY <1>2, <2>2
    <2> QED  BY <2>1, <2>2, PairChange
  <1>4. CASE pair[c] # 0 /\ B[pair[c]].spec = C[c].spec
    BY <1>2, <1>3, <1>4 DEF Met
  <1>5. CASE \E d \in DOMAIN C : pair[d] = b /\ C[d].spec = B[b].spec
    <2>1. PICK d \in DOMAIN C : pair[d] = b /\ C[d].spec = B[b].spec
      BY <1>5
    <2>2. pair'[d] = b
      BY <1>2, <1>3, <2>1
    <2> QED  BY <1>2, <2>1, <2>2 DEF Met
  <1> QED  BY <1>4, <1>5 DEF Met

LEMMA FirstPassStep ==
  ASSUME TypeOK, Shape, FirstPass, PairingOK, EqualSpecsFirst, [Next]_vars
  PROVE  FirstPass' /\ EqualSpecsFirst'
  <1>1. CASE NextAddr
    <2>1. PICK a \in todo : addr' = a /\ pair' = [c \in DOMAIN cur[a] |-> 0]
      BY <1>1 DEF NextAddr
    <2>2. phase' = "equal" /\ i' = 1 /\ C' = cur[a] /\ cur[a] \in Lists
      BY <1>1, <2>1 DEF NextAddr, input, C, TypeOK
    <2>3. \A c \in DOMAIN C' : pair'[c] = 0 /\ ~(c < i')
      BY <2>1, <2>2, ListType
    <2> QED  BY <2>2, <2>3 DEF FirstPass, EqualSpecsFirst
  <1>2. CASE PairEqual
    <2>1. /\ Within /\ i \in DOMAIN C /\ phase = "equal"
          /\ \/ phase' = phase /\ i' = i + 1 /\ i < Len(C)
             \/ phase' = "left" /\ i' = 1 /\ i = Len(C)
      BY <1>2, PairChange DEF PairEqual
    <2>2. /\ DOMAIN pair = DOMAIN C /\ DOMAIN C = 1..Len(C) /\ Len(C) \in Nat
          /\ DOMAIN B \subseteq Nat \ {0} /\ B' = B /\ C' = C
      BY <2>1, WorkType DEF Within, Shape
    <2>3. \A c \in DOMAIN C : pair'[c] # 0 => B[pair'[c]].spec = C[c].spec
      <3>1. CASE pair' = pair
        BY <2>1, <3>1 DEF FirstPass
      <3>2. CASE \E b \in DOMAIN B \ used : /\ pair' = [pair EXCEPT ![i] = b]
                                            /\ B[b].spec = C[i].spec
        BY <2>1, <2>2, <3>2 DEF FirstPass
      <3> QED  BY <1>2, <2>1, <3>1, <3>2, PairChange
    <2>4. \A c \in DOMAIN C : c > i => pair'[c] = 0
      <3>1. \A c \in DOMAIN C : c > i => c # i /\ c >= i
        BY <2>1, <2>2
      <3>2. \A c \in DOMAIN C : c > i => pair[c] = 0
        BY <2>1, <3>1 DEF FirstPass
      <3>3. \A c \in DOMAIN C : c # i => pair'[c] = pair[c]
        BY <1>2, <2>2, PairChange
      <3> QED  BY <3>1, <3>2, <3>3
    <2>5. ASSUME NEW c \in DOMAIN C, c <= i, NEW b \in DOMAIN B, C[c].spec = B[b].spec
          PROVE  Met(c, b)'
      <3>1. CASE c < i
        BY <1>2, <2>1, <2>5, <3>1, MetStays DEF FirstPass
      <3>2. CASE c = i /\ pair'[i] # 0
        BY <2>2, <2>3, <3>2 DEF Met
      <3>3. CASE c = i /\ b \in used
        <4>1. PICK d \in DOMAIN C : pair[d] = b /\ b # 0
          BY <2>1, <2>2, <3>3 DEF PairingOK, Within
        <4>2. Met(c, b)
          BY <2>1, <4>1 DEF FirstPass, Met
        <4> QED  BY <1>2, <4>2, MetStays
      <3>4. c < i \/ c = i
        BY <2>1, <2>2, <2>5
      <3> QED  BY <1>2, <2>5, <3>1, <3>2, <3>3, <3>4, PairChange
    <2>6. CASE phase' = phase /\ i' = i + 1
      <3>1. \A c \in DOMAIN C : /\ c >= i' => c > i
                                /\ c < i' => c <= i
        BY <2>1, <2>2, <2>6
      <3>2. FirstPass'
        BY <2>2, <2>3, <2>4, <2>5, <3>1 DEF FirstPass
      <3> QED  BY <2>1, <2>6, <3>2 DEF EqualSpecsFirst
    <2>7. CASE phase' = "left" /\ i = Len(C)
      <3>1. \A c \in DOMAIN C : c <= i
        BY <2>2, <2>7
      <3>2. EqualSpecsFirst'
        BY <2>2, <2>5, <2>7, <3>1 DEF EqualSpecsFirst, Met
      <3> QED  BY <2>7, <3>2 DEF FirstPass
    <2> QED  BY <2>1, <2>6, <2>7
  <1>3. CASE PairLeftover
    <2>1. Within /\ phase = "left" /\ phase' \in {"left", "emit"}
      BY <1>3, PairChange DEF PairLeftover
    <2>2. \A c \in DOMAIN C, b \in DOMAIN B : C[c].spec = B[b].spec => Met(c, b)'
      BY <1>3, <2>1, MetStays DEF EqualSpecsFirst, Met
    <2>3. EqualSpecsFirst'
      BY <2>1, <2>2 DEF EqualSpecsFirst, Met, Within
    <2> QED  BY <2>1, <2>3 DEF FirstPass
  <1>4. CASE Emit \/ Removed
    <2>1. Within /\ pair' = pair
      BY <1>4, PairSame
    <2>2. phase \in {"emit", "removed"} /\ phase' \in {"emit", "removed"}
      BY <1>4 DEF Emit, Removed, Step
    <2> QED  BY <2>1, <2>2 DEF FirstPass, EqualSpecsFirst, Within
  <1>5. CASE SkipLoops
    <2>1. Within /\ phase' = "removed" /\ i > Len(C) /\ Looping
      BY <1>5, PairSame DEF SkipLoops, Looping
    <2>2. DOMAIN C = {}
      BY <2>1, WorkType DEF Shape, Within
    <2> QED  BY <2>1, <2>2 DEF FirstPass, EqualSpecsFirst, Within
  <1>6. CASE AddrDone
    BY <1>6 DEF AddrDone, FirstPass, EqualSpecsFirst
  <1>7. CASE UNCHANGED vars
    BY <1>7 DEF vars, input, FirstPass, EqualSpecsFirst, Met, B, C
  <1> QED  BY <1>1, <1>2, <1>3, <1>4, <1>5, <1>6, <1>7 DEF Next

-----------------------------------------------------------------------------
(* The rows.                                                               *)

\* Rows are only ever added at the end.
LEMMA AppendRows ==
  ASSUME rows \in Seq(RowType), NEW r \in RowType, rows' = Append(rows, r)
  PROVE  \E new : /\ new \notin DOMAIN rows /\ DOMAIN rows' = DOMAIN rows \cup {new}
                  /\ rows'[new] = r
                  /\ \A k \in DOMAIN rows : rows'[k] = rows[k]
  <1>1. /\ Len(rows) \in Nat /\ DOMAIN rows = 1..Len(rows)
        /\ DOMAIN rows' = 1..(Len(rows) + 1)
        /\ rows'[Len(rows) + 1] = r
        /\ \A k \in 1..Len(rows) : rows'[k] = rows[k]
    OBVIOUS
  <1>2. DOMAIN rows' = DOMAIN rows \cup {Len(rows) + 1} /\ Len(rows) + 1 \notin DOMAIN rows
    BY <1>1
  <1> QED  BY <1>1, <1>2

\* A step that writes at most the row of items b and c of the address at work.
Writes(b, c) ==
    \E r \in RowType : \E new :
       /\ r.addr = addr /\ r.b = b /\ r.c = c
       /\ new \notin DOMAIN rows /\ DOMAIN rows' = DOMAIN rows \cup {new}
       /\ rows'[new] = r
       /\ \A k \in DOMAIN rows : rows'[k] = rows[k]
       /\ total'.prior = total.prior /\ total'.proposed = total.proposed
       /\ IF r.kind = "notEstimated" THEN total'.delta = total.delta
          ELSE total'.delta = total.delta + r.delta /\ r.delta = Priced(cur, addr, c)
                                                                 - Priced(base, addr, b)

LEMMA WritesRow ==
  ASSUME TypeOK, Shape, NEW r \in RowType, r.addr = addr, AddRow(r),
         r.kind # "notEstimated" =>
            r.delta = Priced(cur, addr, r.c) - Priced(base, addr, r.b)
  PROVE  Writes(r.b, r.c)
  <1>1. PICK new : /\ new \notin DOMAIN rows /\ DOMAIN rows' = DOMAIN rows \cup {new}
                   /\ rows'[new] = r
                   /\ \A k \in DOMAIN rows : rows'[k] = rows[k]
    BY AppendRows DEF AddRow, Shape
  <1>2. total \in TotalType
    BY DEF TypeOK, TotalType
  <1>3. /\ total'.prior = total.prior /\ total'.proposed = total.proposed
        /\ IF r.kind = "notEstimated" THEN total'.delta = total.delta
           ELSE total'.delta = total.delta + r.delta
    BY <1>2 DEF AddRow, TotalType
  <1> QED  BY <1>1, <1>3 DEF Writes

\* What the loop over the proposed items and the loop over the rest write.
LEMMA EmitWrites ==
  ASSUME TypeOK, Shape, Emit
  PROVE  /\ Within /\ i \in DOMAIN C /\ phase = "emit"
         /\ \/ Changed(i) /\ Writes(pair[i], i)
            \/ ~Changed(i) /\ rows' = rows /\ total' = total
         /\ \/ phase' = "emit" /\ i' = i + 1 /\ i < Len(C)
            \/ phase' = "removed" /\ i' = 1 /\ i = Len(C)
  <1>1. Within /\ i \in 1..Len(C) /\ i \in DOMAIN C /\ phase = "emit" /\ Looping /\ Step("removed")
    BY PairSame, WorkType DEF Emit, Within, Shape, Looping
  <1>2. addr # None
    BY <1>1 DEF Within
  <1>3. C[i].monthly \in Nat /\ i # 0 /\ i \in Nat
    BY <1>1, <1>2, WorkType
  <1>4. CASE pair[i] = 0 /\ AddRow(NewRow(i))
    <2>1. NewRow(i) \in RowType
      BY <1>1, <1>2, RowTypes
    <2>2. /\ NewRow(i).addr = addr /\ NewRow(i).b = 0 /\ NewRow(i).c = i
          /\ NewRow(i).kind # "notEstimated" => C[i].priced /\ NewRow(i).delta = C[i].monthly
      BY DEF NewRow, Row
    <2>3. Priced(base, addr, 0) = 0 /\ (C[i].priced => Priced(cur, addr, i) = C[i].monthly)
      BY <1>3 DEF Priced, C
    <2>4. Writes(0, i)
      BY <1>3, <1>4, <2>1, <2>2, <2>3, WritesRow
    <2> QED  BY <1>1, <1>2, <1>4, <2>4, StepShape DEF Changed
  <1>5. ASSUME pair[i] # 0 PROVE pair[i] \in DOMAIN B
    BY <1>1, <1>2, <1>5 DEF Shape
  <1>6. CASE pair[i] # 0 /\ ~Unchanged(pair[i], i) /\ AddRow(RowFor(pair[i], i))
    <2> DEFINE r == RowFor(pair[i], i)
    <2>1. r \in RowType
      BY <1>1, <1>2, <1>5, <1>6, RowTypes
    <2>2. /\ r.addr = addr /\ r.b = pair[i] /\ r.c = i
          /\ r.kind # "notEstimated" => /\ B[pair[i]].priced /\ C[i].priced
                                        /\ r.delta = C[i].monthly - B[pair[i]].monthly
      BY DEF RowFor, Row
    <2>3. /\ B[pair[i]].priced => Priced(base, addr, pair[i]) = B[pair[i]].monthly
          /\ C[i].priced => Priced(cur, addr, i) = C[i].monthly
      BY <1>3, <1>6 DEF Priced, B, C
    <2> HIDE DEF r
    <2>4. Writes(pair[i], i)
      BY <1>6, <2>1, <2>2, <2>3, WritesRow DEF r
    <2> QED  BY <1>1, <1>2, <1>6, <2>4, StepShape DEF Changed
  <1>7. CASE pair[i] # 0 /\ Unchanged(pair[i], i) /\ UNCHANGED <<rows, total>>
    BY <1>1, <1>2, <1>7, StepShape DEF Changed
  <1> QED  BY <1>4, <1>6, <1>7 DEF Emit

LEMMA RemovedWrites ==
  ASSUME TypeOK, Shape, Removed
  PROVE  /\ Within /\ i \in DOMAIN B /\ phase = "removed" /\ phase' = "removed" /\ i' = i + 1
         /\ \/ i \notin used /\ Writes(i, 0)
            \/ i \in used /\ rows' = rows /\ total' = total
  <1>1. /\ Within /\ i \in DOMAIN B /\ phase = "removed" /\ phase' = "removed" /\ i' = i + 1
        /\ addr # None
    BY PairSame, WorkType DEF Removed, Within, Shape
  <1>2. B[i].monthly \in Nat /\ i # 0 /\ i \in Nat
    BY <1>1, WorkType
  <1>3. CASE i \notin used
    <2>1. RemovedRow(i) \in RowType
      BY <1>1, RowTypes
    <2>2. /\ RemovedRow(i).addr = addr /\ RemovedRow(i).b = i /\ RemovedRow(i).c = 0
          /\ RemovedRow(i).kind # "notEstimated"
                => B[i].priced /\ RemovedRow(i).delta = -B[i].monthly
      BY DEF RemovedRow, Row
    <2>3. Priced(cur, addr, 0) = 0 /\ (B[i].priced => Priced(base, addr, i) = B[i].monthly)
      BY <1>2 DEF Priced, B
    <2>4. Writes(i, 0)
      BY <1>2, <1>3, <2>1, <2>2, <2>3, WritesRow DEF Removed
    <2> QED  BY <1>1, <1>3, <2>4
  <1>4. CASE i \in used
    BY <1>1, <1>4 DEF Removed
  <1> QED  BY <1>3, <1>4

\* A row of the address at work is in no other address's rows.
LEMMA OtherRows ==
  ASSUME TypeOK, Shape, Within, NEW b, NEW c, Writes(b, c) \/ rows' = rows,
         NEW a, a # addr
  PROVE  /\ RowsOf(a)' = RowsOf(a)
         /\ OnceAt(a)' <=> OnceAt(a)
  <1>1. /\ \A n : InRow("b", a, n)' = InRow("b", a, n)
        /\ \A n : InRow("c", a, n)' = InRow("c", a, n)
        /\ RowsOf(a)' = RowsOf(a)
    BY DEF Writes, InRow, RowsOf
  <1>2. base' = base /\ cur' = cur
    BY DEF Within
  <1>3. Silent("b", base, a)' = Silent("b", base, a) /\ Silent("c", cur, a)' = Silent("c", cur, a)
    BY <1>1, <1>2 DEF Silent
  <1> QED  BY <1>1, <1>2, <1>3 DEF OnceAt

LEMMA RowsRightStep ==
  ASSUME TypeOK, Shape, FirstPass, PairingOK, RowsRight, RowsElsewhere, [Next]_vars
  PROVE  RowsRight'
  <1>1. CASE NextAddr
    <2>1. addr' \in todo /\ rows' = rows /\ phase' = "equal"
      BY <1>1 DEF NextAddr
    <2>2. RowsOf(addr)' = {}
      BY <2>1 DEF RowsElsewhere, RowsOf
    <2> QED  BY <2>1, <2>2 DEF RowsRight, RowsSound, RowsOnce, RowsAll, Emitted
  <1>2. CASE PairEqual \/ PairLeftover
    <2>1. /\ Within /\ rows' = rows /\ phase \in {"equal", "left"} /\ addr # None
          /\ phase' \in {"equal", "left"} \/ (phase' = "emit" /\ i' = 1)
      BY <1>2, PairChange DEF Within
    <2>2. RowsOf(addr) = {}
      BY <2>1 DEF RowsRight, RowsSound, Emitted
    <2>3. RowsOf(addr)' = {}
      BY <2>1, <2>2 DEF RowsOf, Within
    <2>4. \A c \in DOMAIN C' : ~Emitted(c)'
      BY <2>1, WorkType DEF Emitted, Within
    <2> QED  BY <2>1, <2>3, <2>4 DEF RowsRight, RowsSound, RowsOnce, RowsAll
  <1>3. CASE Emit
    <2>1. /\ Within /\ i \in DOMAIN C /\ phase = "emit" /\ addr # None /\ pair' = pair
          /\ used' = used
          /\ \/ phase' = "emit" /\ i' = i + 1 /\ i < Len(C)
             \/ phase' = "removed" /\ i' = 1 /\ i = Len(C)
      BY <1>3, EmitWrites, PairSame DEF Within
    <2>2. DOMAIN C = 1..Len(C) /\ Len(C) \in Nat /\ DOMAIN B = 1..Len(B) /\ i \in Nat /\ i # 0
      BY <2>1, WorkType
    <2>3. \A c \in DOMAIN C : /\ Emitted(c) <=> c < i
                              /\ Emitted(c)' <=> c <= i
      BY <2>1, <2>2 DEF Emitted
    <2>4. \A c \in DOMAIN C : Changed(c)' <=> Changed(c)
      BY <2>1 DEF Changed, Unchanged, Within
    <2>5. \A k \in RowsOf(addr) : /\ rows[k].c \in DOMAIN C /\ rows[k].c < i
                                  /\ Changed(rows[k].c) /\ rows[k].b = pair[rows[k].c]
      BY <2>1, <2>3 DEF RowsRight, RowsSound
    <2>6. ~(phase' = "removed" /\ \E b \in DOMAIN B : b < i')
      BY <2>1, <2>2
    <2>7. CASE ~Changed(i) /\ rows' = rows
      <3>1. RowsOf(addr)' = RowsOf(addr)
        BY <2>1, <2>7 DEF RowsOf, Within
      <3>2. RowsSound'
        BY <2>1, <2>2, <2>3, <2>4, <2>5, <2>7, <3>1 DEF RowsSound, Within
      <3>3. RowsOnce'
        BY <2>1, <2>7, <3>1 DEF RowsRight, RowsOnce
      <3>4. \A c \in DOMAIN C' : Emitted(c)' /\ Changed(c)' => Emitted(c) /\ Changed(c)
        BY <2>1, <2>2, <2>3, <2>4, <2>7 DEF Within
      <3>5. RowsAll'
        BY <2>1, <2>6, <2>7, <3>1, <3>4 DEF RowsRight, RowsAll, Within
      <3> QED  BY <3>2, <3>3, <3>5 DEF RowsRight
    <2>8. CASE Changed(i) /\ Writes(pair[i], i)
      <3>1. PICK new : /\ new \notin DOMAIN rows /\ DOMAIN rows' = DOMAIN rows \cup {new}
                       /\ rows'[new].addr = addr /\ rows'[new].b = pair[i] /\ rows'[new].c = i
                       /\ \A k \in DOMAIN rows : rows'[k] = rows[k]
        BY <2>8 DEF Writes
      <3>2. RowsOf(addr)' = RowsOf(addr) \cup {new} /\ new \notin RowsOf(addr)
        BY <2>1, <3>1 DEF RowsOf, Within
      <3>3. \A k \in RowsOf(addr) : rows'[k] = rows[k]
        BY <3>1 DEF RowsOf
      <3>4. RowsSound'
        BY <2>1, <2>2, <2>3, <2>4, <2>5, <2>8, <3>1, <3>2, <3>3 DEF RowsSound, Within
      <3>5. RowsOnce'
        <4>1. \A k \in RowsOf(addr) : rows'[k].c # rows'[new].c
          BY <2>2, <2>5, <3>1, <3>3
        <4> QED  BY <2>1, <3>2, <3>3, <4>1 DEF RowsRight, RowsOnce
      <3>6. RowsAll'
        <4>1. ASSUME NEW c \in DOMAIN C, c <= i, Changed(c)
              PROVE  \E k \in RowsOf(addr)' : rows'[k].c = c
          <5>1. CASE c < i
            BY <2>1, <2>3, <3>2, <3>3, <4>1, <5>1 DEF RowsRight, RowsAll
          <5>2. CASE c = i
            BY <3>1, <3>2, <5>2
          <5> QED  BY <2>2, <4>1, <5>1, <5>2
        <4> QED  BY <2>1, <2>3, <2>4, <2>6, <4>1 DEF RowsAll, Within
      <3> QED  BY <3>4, <3>5, <3>6 DEF RowsRight
    <2> QED  BY <1>3, <2>7, <2>8, EmitWrites
  <1>4. CASE SkipLoops
    <2>1. /\ Within /\ rows' = rows /\ phase' = "removed" /\ i' = 1 /\ i > Len(C) /\ Looping
          /\ addr # None /\ phase # "removed"
      BY <1>4, PairSame DEF SkipLoops, Looping, Within
    <2>2. DOMAIN C = {} /\ DOMAIN B = 1..Len(B) /\ Len(B) \in Nat
      BY <2>1, WorkType DEF Shape
    <2>3. RowsOf(addr) = {}
      BY <2>1, <2>2 DEF RowsRight, RowsSound
    <2>4. RowsOf(addr)' = {}
      BY <2>1, <2>3 DEF RowsOf, Within
    <2>5. \A b \in DOMAIN B : ~(b < i')
      BY <2>1, <2>2
    <2> QED  BY <2>1, <2>2, <2>4, <2>5 DEF RowsRight, RowsSound, RowsOnce, RowsAll, Within
  <1>5. CASE Removed
    <2>1. /\ Within /\ i \in DOMAIN B /\ phase = "removed" /\ phase' = "removed" /\ i' = i + 1
          /\ addr # None /\ pair' = pair /\ used' = used
      BY <1>5, RemovedWrites, PairSame DEF Within
    <2>2. DOMAIN C = 1..Len(C) /\ DOMAIN B = 1..Len(B) /\ Len(B) \in Nat /\ i \in Nat /\ i # 0
      BY <2>1, WorkType
    <2>3. \A c \in DOMAIN C : Emitted(c) /\ Emitted(c)'
      BY <2>1 DEF Emitted
    <2>4. \A c \in DOMAIN C : Changed(c)' <=> Changed(c)
      BY <2>1 DEF Changed, Unchanged, Within
    <2>5. \A b \in DOMAIN B : b < i' <=> b < i \/ b = i
      BY <2>1, <2>2
    <2>6. CASE i \in used /\ rows' = rows
      <3>1. RowsOf(addr)' = RowsOf(addr)
        BY <2>1, <2>6 DEF RowsOf, Within
      <3>2. RowsSound'
        BY <2>1, <2>3, <2>4, <2>5, <2>6, <3>1 DEF RowsRight, RowsSound, Within
      <3>3. RowsOnce'
        BY <2>1, <2>6, <3>1 DEF RowsRight, RowsOnce
      <3>4. RowsAll'
        BY <2>1, <2>3, <2>4, <2>5, <2>6, <3>1 DEF RowsRight, RowsAll, Within
      <3> QED  BY <3>2, <3>3, <3>4 DEF RowsRight
    <2>7. CASE i \notin used /\ Writes(i, 0)
      <3>1. PICK new : /\ new \notin DOMAIN rows /\ DOMAIN rows' = DOMAIN rows \cup {new}
                       /\ rows'[new].addr = addr /\ rows'[new].b = i /\ rows'[new].c = 0
                       /\ \A k \in DOMAIN rows : rows'[k] = rows[k]
        BY <2>7 DEF Writes
      <3>2. RowsOf(addr)' = RowsOf(addr) \cup {new} /\ new \notin RowsOf(addr)
        BY <2>1, <3>1 DEF RowsOf, Within
      <3>3. \A k \in RowsOf(addr) : rows'[k] = rows[k]
        BY <3>1 DEF RowsOf
      <3>4. \A k \in RowsOf(addr) :
               \/ /\ rows'[k].c \in DOMAIN C
                  /\ Changed(rows'[k].c) /\ rows'[k].b = pair[rows'[k].c]
               \/ /\ rows'[k].c = 0 /\ rows'[k].b \in DOMAIN B \ used /\ rows'[k].b < i
        BY <2>1, <3>3 DEF RowsRight, RowsSound
      <3>5. RowsSound'
        BY <2>1, <2>3, <2>4, <2>5, <2>7, <3>1, <3>2, <3>4 DEF RowsSound, Within
      <3>6. RowsOnce'
        <4>1. \A k \in RowsOf(addr) : ~(rows'[k].c = rows'[new].c /\ rows'[k].b = rows'[new].b)
          BY <2>2, <3>1, <3>4
        <4> QED  BY <2>1, <3>2, <3>3, <4>1 DEF RowsRight, RowsOnce
      <3>7. RowsAll'
        <4>1. \A c \in DOMAIN C : Changed(c) => \E k \in RowsOf(addr)' : rows'[k].c = c
          BY <2>1, <2>3, <3>2, <3>3 DEF RowsRight, RowsAll
        <4>2. \A b \in DOMAIN B \ used : b < i => \E k \in RowsOf(addr)' :
                                                     rows'[k].b = b /\ rows'[k].c = 0
          BY <2>1, <3>2, <3>3 DEF RowsRight, RowsAll
        <4>3. \E k \in RowsOf(addr)' : rows'[k].b = i /\ rows'[k].c = 0
          BY <3>1, <3>2
        <4> QED  BY <2>1, <2>3, <2>4, <2>5, <4>1, <4>2, <4>3 DEF RowsAll, Within
      <3> QED  BY <3>5, <3>6, <3>7 DEF RowsRight
    <2> QED  BY <1>5, <2>6, <2>7, RemovedWrites
  <1>6. CASE AddrDone
    BY <1>6 DEF AddrDone, RowsRight
  <1>7. CASE UNCHANGED vars
    BY <1>7 DEF vars, input, RowsRight, RowsSound, RowsOnce, RowsAll, RowsOf, Emitted,
                Changed, Unchanged, B, C
  <1> QED  BY <1>1, <1>2, <1>3, <1>4, <1>5, <1>6, <1>7 DEF Next

\* Two items that cancel out are the same item.
LEMMA UnchangedSame ==
  ASSUME TypeOK, addr # None, NEW b \in DOMAIN B, NEW c \in DOMAIN C, Unchanged(b, c)
  PROVE  B[b] = C[c] /\ B[b].priced
  <1>1. B[b] \in Item /\ C[c] \in Item /\ B[b].priced \in BOOLEAN /\ C[c].priced \in BOOLEAN
    BY WorkType
  <1>2. B[b].priced = C[c].priced
    BY <1>1 DEF Unchanged
  <1> QED  BY <1>1, <1>2, DeltaAssumption DEF Unchanged

\* A set whose members are all equal has at most one.
LEMMA AtMostOne ==
  ASSUME NEW S, \A x, y \in S : x = y
  PROVE  IsFiniteSet(S) /\ Cardinality(S) <= 1
  <1>1. CASE S = {}
    BY <1>1, FS_EmptySet
  <1>2. CASE S # {}
    <2>1. PICK x \in S : TRUE
      BY <1>2
    <2>2. S = {x}
      BY <2>1
    <2>3. IsFiniteSet({x}) /\ Cardinality({x}) = 1
      BY FS_Singleton
    <2> QED  BY <2>2, <2>3
  <1> QED  BY <1>1, <1>2

\* When the address is done, each of its items is in one row, or cancels out.
LEMMA AddrDoneOnce ==
  ASSUME TypeOK, Shape, PairingOK, RowsRight, phase = "removed", i > Len(B)
  PROVE  OnceAt(addr)
  <1>1. addr # None /\ B = base[addr] /\ C = cur[addr]
    BY DEF TypeOK, B, C
  <1>2. /\ DOMAIN C = 1..Len(C) /\ DOMAIN B = 1..Len(B) /\ Len(B) \in Nat /\ i \in Nat
        /\ 0 \notin DOMAIN B /\ 0 \notin DOMAIN C
    BY <1>1, WorkType DEF TypeOK
  <1>3. /\ pair \in [DOMAIN C -> {0} \cup DOMAIN B]
        /\ used = {pair[c] : c \in DOMAIN C} \ {0}
        /\ \A c, d \in DOMAIN C : pair[c] = pair[d] /\ pair[c] # 0 => c = d
    BY <1>1 DEF Shape, PairingOK
  <1>4. \A k \in RowsOf(addr) :
           \/ rows[k].c \in DOMAIN C /\ Changed(rows[k].c) /\ rows[k].b = pair[rows[k].c]
           \/ rows[k].c = 0 /\ rows[k].b \in DOMAIN B \ used
    BY <1>1 DEF RowsRight, RowsSound
  <1>5. \A k, l \in RowsOf(addr) : rows[k].c = rows[l].c /\ rows[k].b = rows[l].b => k = l
    BY <1>1 DEF RowsRight, RowsOnce
  <1>6. \A c \in DOMAIN C : Changed(c) => \E k \in RowsOf(addr) : rows[k].c = c
    BY <1>1 DEF RowsRight, RowsAll, Emitted
  <1>7. \A b \in DOMAIN B \ used : \E k \in RowsOf(addr) : rows[k].b = b /\ rows[k].c = 0
    <2>1. \A b \in DOMAIN B : b < i
      BY <1>2
    <2> QED  BY <1>1, <2>1 DEF RowsRight, RowsAll
  <1>8. /\ \A n : InRow("b", addr, n) = {k \in RowsOf(addr) : rows[k].b = n}
        /\ \A n : InRow("c", addr, n) = {k \in RowsOf(addr) : rows[k].c = n}
    BY DEF InRow, RowsOf
  <1>9. \A n \in DOMAIN C : Cardinality(InRow("c", addr, n)) <= 1
    <2>1. ASSUME NEW n \in DOMAIN C, NEW k \in InRow("c", addr, n), NEW l \in InRow("c", addr, n)
          PROVE  k = l
      BY <1>2, <1>4, <1>5, <1>8
    <2> QED  BY <2>1, AtMostOne
  <1>10. \A n \in DOMAIN B : Cardinality(InRow("b", addr, n)) <= 1
    <2>1. ASSUME NEW n \in DOMAIN B, NEW k \in InRow("b", addr, n), NEW l \in InRow("b", addr, n)
          PROVE  k = l
      <3>1. rows[k].b = n /\ rows[l].b = n /\ k \in RowsOf(addr) /\ l \in RowsOf(addr)
        BY <1>8, <2>1
      <3>2. CASE n \in used
        BY <1>2, <1>3, <1>4, <1>5, <3>1, <3>2
      <3>3. CASE n \notin used
        <4>1. \A c \in DOMAIN C : pair[c] # n
          BY <1>2, <1>3, <3>3
        <4> QED  BY <1>4, <1>5, <3>1, <4>1
      <3> QED  BY <3>2, <3>3
    <2> QED  BY <2>1, AtMostOne
  <1> DEFINE sb == Silent("b", base, addr)
             sc == Silent("c", cur, addr)
  <1>11. sc = {c \in DOMAIN C : ~Changed(c)}
    <2>1. ASSUME NEW c \in DOMAIN C, ~Changed(c), NEW k \in InRow("c", addr, c) PROVE FALSE
      BY <1>2, <1>4, <1>8, <2>1
    <2>2. ASSUME NEW c \in DOMAIN C, Changed(c) PROVE InRow("c", addr, c) # {}
      BY <1>6, <1>8, <2>2
    <2> QED  BY <1>1, <2>1, <2>2 DEF Silent
  <1>12. \A c \in sc : /\ pair[c] \in DOMAIN B /\ B[pair[c]] = C[c] /\ B[pair[c]].priced
                       /\ pair[c] \in sb
    <2> SUFFICES ASSUME NEW c \in DOMAIN C, ~Changed(c)
                 PROVE  /\ pair[c] \in DOMAIN B /\ B[pair[c]] = C[c] /\ B[pair[c]].priced
                        /\ InRow("b", addr, pair[c]) = {}
      BY <1>1, <1>11 DEF Silent
    <2>1. pair[c] \in DOMAIN B /\ Unchanged(pair[c], c)
      BY <1>3 DEF Changed
    <2>2. ASSUME NEW k \in InRow("b", addr, pair[c]) PROVE FALSE
      <3>1. k \in RowsOf(addr) /\ rows[k].b = pair[c]
        BY <1>8, <2>2
      <3>2. CASE rows[k].c \in DOMAIN C /\ Changed(rows[k].c) /\ rows[k].b = pair[rows[k].c]
        BY <1>2, <1>3, <2>1, <3>1, <3>2
      <3>3. CASE rows[k].b \in DOMAIN B \ used
        BY <1>2, <1>3, <2>1, <3>1, <3>3
      <3> QED  BY <1>4, <3>1, <3>2, <3>3
    <2> QED  BY <1>1, <2>1, <2>2, UnchangedSame
  <1>13. \A b \in sb : \E c \in sc : b = pair[c]
    <2> SUFFICES ASSUME NEW b \in DOMAIN B, InRow("b", addr, b) = {}
                 PROVE  \E c \in DOMAIN C : ~Changed(c) /\ b = pair[c]
      BY <1>1, <1>11 DEF Silent
    <2>1. b \in used
      BY <1>7, <1>8
    <2>2. PICK c \in DOMAIN C : b = pair[c]
      BY <1>3, <2>1
    <2>3. ~Changed(c)
      <3>1. ASSUME Changed(c) PROVE FALSE
        <4>1. PICK k \in RowsOf(addr) : rows[k].c = c
          BY <1>6, <3>1
        <4>2. rows[k].b = b
          BY <1>2, <1>4, <2>2, <4>1
        <4> QED  BY <1>8, <4>1, <4>2
      <3> QED  BY <3>1
    <2> QED  BY <2>2, <2>3
  <1>14. sb \subseteq DOMAIN B /\ sc \subseteq DOMAIN C
    BY <1>1 DEF Silent
  <1> HIDE DEF sb, sc
  <1>15. ASSUME NEW it \in Item
         PROVE  Cardinality({n \in sb : B[n] = it}) = Cardinality({n \in sc : C[n] = it})
    <2> DEFINE S == {n \in sc : C[n] = it}
               T == {n \in sb : B[n] = it}
               f == [c \in S |-> pair[c]]
    <2>1. f \in Bijection(S, T)
      <3>1. f \in [S -> T]
        BY <1>12
      <3>2. \A c, d \in S : f[c] = f[d] => c = d
        BY <1>2, <1>3, <1>12, <1>14
      <3>3. \A b \in T : \E c \in S : f[c] = b
        <4>1. ASSUME NEW b \in T PROVE \E c \in S : f[c] = b
          <5>1. PICK c \in sc : b = pair[c]
            BY <1>13
          <5>2. c \in S
            BY <1>12, <5>1
          <5> QED  BY <5>1, <5>2
        <4> QED  BY <4>1
      <3> HIDE DEF S, T, f
      <3> QED  BY <3>1, <3>2, <3>3 DEF Bijection, Injection, Surjection, IsInjective
    <2>2. IsFiniteSet(S)
      <3>1. IsFiniteSet(DOMAIN C) /\ S \in SUBSET DOMAIN C
        BY <1>1, <1>14, WorkType, FS_Interval
      <3> QED  BY <3>1, FS_Subset
    <2> HIDE DEF S, T, f
    <2>3. Cardinality(T) = Cardinality(S)
      BY <2>1, <2>2, FS_Bijection DEF ExistsBijection
    <2> QED  BY <2>3 DEF S, T
  <1> QED  BY <1>1, <1>9, <1>10, <1>12, <1>13, <1>15 DEF OnceAt, sb, sc

LEMMA RowsElsewhereStep ==
  ASSUME TypeOK, Shape, FirstPass, PairingOK, RowsRight, RowsElsewhere, [Next]_vars
  PROVE  RowsElsewhere'
  <1>1. ASSUME rows' = rows, base' = base, cur' = cur
        PROVE  \A a : RowsOf(a)' = RowsOf(a) /\ (OnceAt(a)' <=> OnceAt(a))
    BY <1>1 DEF RowsOf, OnceAt, Silent, InRow
  <1>2. CASE NextAddr
    <2>1. /\ addr' \in todo /\ todo' = todo \ {addr'} /\ addr = None
          /\ rows' = rows /\ base' = base /\ cur' = cur
      BY <1>2 DEF NextAddr, TypeOK, input
    <2>2. \A a \in Addr \ todo' : a # addr' => a \in Addr \ todo /\ a # addr
      BY <2>1, DeltaAssumption
    <2> QED  BY <1>1, <2>1, <2>2 DEF RowsElsewhere
  <1>3. CASE PairEqual \/ PairLeftover \/ SkipLoops
    <2>1. rows' = rows /\ Within
      BY <1>3, PairChange, PairSame DEF SkipLoops
    <2> QED  BY <1>1, <2>1 DEF RowsElsewhere, Within
  <1>4. CASE Emit \/ Removed
    <2>1. /\ Within /\ addr \notin todo
          /\ \E b, c : Writes(b, c) \/ rows' = rows
      BY <1>4, EmitWrites, RemovedWrites DEF Shape
    <2>2. \A a : a # addr => RowsOf(a)' = RowsOf(a) /\ (OnceAt(a)' <=> OnceAt(a))
      BY <2>1, OtherRows
    <2> QED  BY <2>1, <2>2 DEF RowsElsewhere, Within
  <1>5. CASE AddrDone
    <2>1. OnceAt(addr)
      BY <1>5, AddrDoneOnce DEF AddrDone
    <2>2. rows' = rows /\ base' = base /\ cur' = cur /\ todo' = todo
      BY <1>5 DEF AddrDone, input
    <2> QED  BY <1>1, <2>1, <2>2 DEF RowsElsewhere
  <1>6. CASE UNCHANGED vars
    BY <1>1, <1>6 DEF vars, input, RowsElsewhere
  <1> QED  BY <1>2, <1>3, <1>4, <1>5, <1>6 DEF Next

\* If one side is the other in some order, the first pass pairs every item
\* with its equal.
LEMMA ReorderedPairs ==
  ASSUME TypeOK, Shape, PairingOK, EqualSpecsFirst, addr # None, Reordered(addr),
         phase \in {"emit", "removed"}
  PROVE  /\ \A c \in DOMAIN C : ~Changed(c)
         /\ DOMAIN B \subseteq used
  <1>1. /\ DOMAIN C = 1..Len(C) /\ DOMAIN B = 1..Len(B) /\ Len(B) \in Nat /\ Len(C) \in Nat
        /\ 0 \notin DOMAIN B /\ 0 \notin DOMAIN C
    BY WorkType
  <1>2. /\ pair \in [DOMAIN C -> {0} \cup DOMAIN B]
        /\ used = {pair[c] : c \in DOMAIN C} \ {0}
        /\ \A c, d \in DOMAIN C : pair[c] = pair[d] /\ pair[c] # 0 => c = d
    BY DEF Shape, PairingOK
  <1> DEFINE its == {B[n] : n \in DOMAIN B}
  <1>3. /\ \A n, m \in DOMAIN B : B[n].spec = B[m].spec => n = m
        /\ Len(B) = Len(C) /\ its = {C[n] : n \in DOMAIN C}
        /\ \A n \in DOMAIN B : B[n].priced
    BY DEF Reordered, B, C
  <1>4. \A n, m \in DOMAIN C : C[n] = C[m] => n = m
    <2> DEFINE fb == [n \in DOMAIN B |-> B[n]]
               fc == [n \in DOMAIN C |-> C[n]]
    <2>1. fb \in Bijection(DOMAIN B, its)
      <3>1. fb \in [DOMAIN B -> its] /\ \A t \in its : \E s \in DOMAIN B : fb[s] = t
        OBVIOUS
      <3>2. \A n, m \in DOMAIN B : fb[n] = fb[m] => n = m
        BY <1>3
      <3> HIDE DEF fb, its
      <3> QED  BY <3>1, <3>2 DEF Bijection, Injection, Surjection, IsInjective
    <2>2. fc \in Surjection(DOMAIN C, its)
      <3>1. fc \in [DOMAIN C -> its] /\ \A t \in its : \E s \in DOMAIN C : fc[s] = t
        BY <1>3
      <3> HIDE DEF fc, its
      <3> QED  BY <3>1 DEF Surjection
    <2>3. IsFiniteSet(DOMAIN B) /\ DOMAIN C = DOMAIN B
      <3>1. IsFiniteSet(1..Len(B))
        BY <1>1, FS_Interval
      <3> QED  BY <1>1, <1>3, <3>1
    <2> HIDE DEF its, fb
    <2>4. Cardinality(its) = Cardinality(DOMAIN B)
      BY <2>1, <2>3, FS_Bijection DEF ExistsBijection
    <2>5. fc \in Injection(DOMAIN C, its)
      <3> HIDE DEF fc
      <3> QED  BY <2>2, <2>3, <2>4, FS_SurjSameCardinalityImpliesInj
    <2> QED  BY <2>5 DEF Injection, IsInjective
  <1>5. ASSUME NEW c \in DOMAIN C PROVE pair[c] \in DOMAIN B /\ C[c] = B[pair[c]]
    <2>1. PICK b \in DOMAIN B : C[c] = B[b]
      BY <1>3
    <2>2. CASE pair[c] # 0 /\ B[pair[c]].spec = C[c].spec
      <3>1. pair[c] \in DOMAIN B /\ pair[c] = b
        BY <1>2, <1>3, <2>1, <2>2
      <3> QED  BY <2>1, <3>1
    <2>3. CASE \E d \in DOMAIN C : pair[d] = b /\ C[d].spec = B[b].spec
      <3>1. PICK d \in DOMAIN C : pair[d] = b /\ C[d].spec = B[b].spec
        BY <2>3
      <3>2. PICK e \in DOMAIN B : C[d] = B[e]
        BY <1>3
      <3>3. e = b
        BY <1>3, <3>1, <3>2
      <3>4. d = c
        BY <1>4, <2>1, <3>2, <3>3
      <3> QED  BY <2>1, <3>1, <3>4
    <2> QED  BY <2>1, <2>2, <2>3 DEF EqualSpecsFirst
  <1>6. \A c \in DOMAIN C : ~Changed(c)
    BY <1>1, <1>3, <1>5 DEF Changed, Unchanged
  <1>7. ASSUME NEW b \in DOMAIN B PROVE b \in used
    <2>1. PICK c \in DOMAIN C : C[c] = B[b]
      BY <1>3
    <2>2. pair[c] = b
      BY <1>3, <1>5, <2>1
    <2> QED  BY <1>1, <1>2, <2>2
  <1> QED  BY <1>6, <1>7

LEMMA RowsReorderedStep ==
  ASSUME TypeOK, Shape, FirstPass, PairingOK, EqualSpecsFirst, RowsReordered, [Next]_vars
  PROVE  RowsReordered'
  <1>1. CASE rows' = rows /\ base' = base /\ cur' = cur
    <2>1. \A a : (Reordered(a)' <=> Reordered(a)) /\ RowsOf(a)' = RowsOf(a)
      BY <1>1 DEF Reordered, RowsOf
    <2> QED  BY <2>1 DEF RowsReordered
  <1>2. CASE Emit \/ Removed
    <2>1. Within /\ addr # None /\ phase \in {"emit", "removed"}
      BY <1>2, EmitWrites, RemovedWrites DEF Within
    <2>2. Reordered(addr) => rows' = rows
      BY <1>2, <2>1, EmitWrites, RemovedWrites, ReorderedPairs
    <2>3. \E b, c : Writes(b, c) \/ rows' = rows
      BY <1>2, EmitWrites, RemovedWrites
    <2>4. \A a : a # addr => RowsOf(a)' = RowsOf(a)
      BY <2>1, <2>3, OtherRows
    <2>5. \A a : Reordered(a)' <=> Reordered(a)
      BY <2>1 DEF Reordered, Within
    <2>6. \A a : a = addr /\ Reordered(a) => RowsOf(a)' = RowsOf(a)
      BY <2>2 DEF RowsOf
    <2>7. ASSUME NEW a \in Addr, Reordered(a) PROVE RowsOf(a)' = {}
      <3>1. RowsOf(a) = {}
        BY <2>7 DEF RowsReordered
      <3> QED  BY <2>4, <2>6, <2>7, <3>1
    <2> QED  BY <2>5, <2>7 DEF RowsReordered
  <1>3. CASE PairEqual \/ PairLeftover
    BY <1>1, <1>3, PairChange DEF Within
  <1>4. CASE NextAddr \/ SkipLoops \/ AddrDone \/ UNCHANGED vars
    BY <1>1, <1>4 DEF NextAddr, SkipLoops, AddrDone, vars, input
  <1> QED  BY <1>2, <1>3, <1>4 DEF Next

-----------------------------------------------------------------------------
(* The money.                                                              *)

LEMMA RowsFitStep ==
  ASSUME TypeOK, Shape, FirstPass, RowsFit, [Next]_vars
  PROVE  RowsFit'
  <1>1. CASE rows' = rows /\ base' = base /\ cur' = cur
    BY <1>1 DEF RowsFit
  <1>2. ASSUME Within, NEW b \in {0} \cup DOMAIN B, NEW c \in {0} \cup DOMAIN C, Writes(b, c)
        PROVE  RowsFit'
    BY <1>2 DEF Within, Writes, RowsFit, B, C
  <1>3. CASE Emit
    <2>1. Within /\ addr # None /\ i \in DOMAIN C
      BY <1>3, EmitWrites DEF Within
    <2>2. pair[i] \in {0} \cup DOMAIN B
      BY <2>1 DEF Shape
    <2> QED  BY <1>1, <1>2, <1>3, <2>1, <2>2, EmitWrites DEF Within
  <1>4. CASE Removed
    BY <1>1, <1>2, <1>4, RemovedWrites DEF Within
  <1>5. CASE PairEqual \/ PairLeftover
    BY <1>1, <1>5, PairChange DEF Within
  <1>6. CASE NextAddr \/ SkipLoops \/ AddrDone \/ UNCHANGED vars
    BY <1>1, <1>6 DEF NextAddr, SkipLoops, AddrDone, vars, input
  <1> QED  BY <1>3, <1>4, <1>5, <1>6 DEF Next

\* The items of an analysis are finitely many, and each costs something or 0.
LEMMA WorthType ==
  ASSUME NEW lists \in [Addr -> Lists]
  PROVE  /\ IsFiniteSet(Positions(lists))
         /\ \A x \in Positions(lists) : Worth(lists)[x] \in Nat
         /\ \A a \in Addr : \A n \in {0} \cup DOMAIN lists[a] : Priced(lists, a, n) \in Nat
         /\ \A a \in Addr : \A n \in DOMAIN lists[a] :
               /\ <<a, n>> \in Positions(lists) /\ n # 0
               /\ Worth(lists)[<<a, n>>] = Priced(lists, a, n)
         /\ \A x \in Positions(lists) : /\ x[1] \in Addr /\ x[2] \in DOMAIN lists[x[1]]
                                        /\ x = <<x[1], x[2]>>
  <1>1. \A a \in Addr : \A n \in DOMAIN lists[a] :
           n \in 1..MaxItems /\ n # 0 /\ lists[a][n].monthly \in Nat
    BY ListType, DeltaAssumption
  <1>2. \A a \in Addr : \A n \in {0} \cup DOMAIN lists[a] : Priced(lists, a, n) \in Nat
    BY <1>1 DEF Priced
  <1>3. \A x \in Positions(lists) : /\ x[1] \in Addr /\ x[2] \in DOMAIN lists[x[1]]
                                    /\ x = <<x[1], x[2]>>
    BY DEF Positions
  <1>4. IsFiniteSet(Positions(lists))
    <2>1. IsFiniteSet(1..MaxItems)
      BY DeltaAssumption, FS_Interval
    <2>2. IsFiniteSet(Addr \X (1..MaxItems))
      BY <2>1, DeltaAssumption, FS_Product
    <2>3. Positions(lists) \in SUBSET (Addr \X (1..MaxItems))
      BY DEF Positions
    <2> QED  BY <2>2, <2>3, FS_Subset
  <1>5. \A a \in Addr : \A n \in DOMAIN lists[a] : <<a, n>> \in Positions(lists)
    BY <1>1 DEF Positions
  <1>6. \A x \in Positions(lists) : Worth(lists)[x] = Priced(lists, x[1], x[2])
    BY DEF Worth
  <1>7. \A x \in Positions(lists) : Worth(lists)[x] \in Nat
    BY <1>2, <1>3, <1>6
  <1>8. \A a \in Addr : \A n \in DOMAIN lists[a] : Worth(lists)[<<a, n>>] = Priced(lists, a, n)
    BY <1>5, <1>6
  <1> QED  BY <1>1, <1>2, <1>3, <1>4, <1>5, <1>7, <1>8

LEMMA LeftInt ==
  ASSUME NEW lists \in [Addr -> Lists], NEW X \in SUBSET Positions(lists)
  PROVE  IsFiniteSet(X) /\ SumFunctionOnSet(Worth(lists), X) \in Int
  <1>1. /\ IsFiniteSet(Positions(lists))
        /\ \A x \in X : Worth(lists)[x] \in Int
    BY WorthType
  <1>2. IsFiniteSet(X)
    BY <1>1, FS_Subset
  <1> QED  BY <1>1, <1>2, SumInt

\* What is left loses the item that is written, or nothing.
LEMMA LeftTake ==
  ASSUME NEW lists \in [Addr -> Lists], NEW X \in SUBSET Positions(lists), NEW Y,
         NEW a \in Addr, NEW n \in {0} \cup DOMAIN lists[a],
         \/ n = 0 /\ Y = X
         \/ <<a, n>> \in X /\ Y = X \ {<<a, n>>}
  PROVE  /\ SumFunctionOnSet(Worth(lists), X)
            = Priced(lists, a, n) + SumFunctionOnSet(Worth(lists), Y)
         /\ Priced(lists, a, n) \in Int
         /\ SumFunctionOnSet(Worth(lists), Y) \in Int
  <1>1. Priced(lists, a, n) \in Int
    BY WorthType
  <1>2. Y \in SUBSET Positions(lists)
    OBVIOUS
  <1>3. /\ IsFiniteSet(X) /\ SumFunctionOnSet(Worth(lists), X) \in Int
        /\ SumFunctionOnSet(Worth(lists), Y) \in Int
    BY <1>2, LeftInt
  <1>4. CASE n = 0 /\ Y = X
    <2>1. Priced(lists, a, n) = 0
      BY <1>4 DEF Priced
    <2> QED  BY <1>1, <1>3, <1>4, <2>1
  <1>5. CASE <<a, n>> \in X /\ Y = X \ {<<a, n>>}
    <2>1. /\ \A x \in X : Worth(lists)[x] \in Int
          /\ n \in DOMAIN lists[a]
          /\ Worth(lists)[<<a, n>>] = Priced(lists, a, n)
      BY <1>5, WorthType
    <2>2. SumFunctionOnSet(Worth(lists), X)
          = Worth(lists)[<<a, n>>] + SumFunctionOnSet(Worth(lists), X \ {<<a, n>>})
      <3> DEFINE W == Worth(lists)
                 e == <<a, n>>
      <3>1. e \in X /\ \A x \in X : W[x] \in Int
        BY <1>5, <2>1
      <3> HIDE DEF W, e
      <3>2. SumFunctionOnSet(W, X) = W[e] + SumFunctionOnSet(W, X \ {e})
        BY <1>3, <3>1, SumRemove
      <3> QED  BY <3>2 DEF W, e
    <2> QED  BY <1>1, <1>3, <1>5, <2>1, <2>2
  <1> QED  BY <1>4, <1>5

\* What the rows hide is a sum of integers.
HiddenOK ==
    /\ IsFiniteSet(DOMAIN rows)
    /\ \A k \in DOMAIN rows : HiddenRows[k] = Hidden(k) /\ Hidden(k) \in Int
    /\ SumFunction(HiddenRows) = SumFunctionOnSet(HiddenRows, DOMAIN rows)
    /\ SumFunction(HiddenRows) \in Int

LEMMA HiddenInt == TypeOK /\ Shape /\ RowsFit => HiddenOK
  <1> SUFFICES ASSUME TypeOK, Shape, RowsFit PROVE HiddenOK
    OBVIOUS
  <1>1. IsFiniteSet(DOMAIN rows)
    <2>1. DOMAIN rows = 1..Len(rows) /\ Len(rows) \in Int
      BY DEF Shape
    <2>2. IsFiniteSet(1..Len(rows))
      BY <2>1, FS_Interval
    <2> QED  BY <2>1, <2>2
  <1>2. DOMAIN HiddenRows = DOMAIN rows /\ \A k \in DOMAIN rows : HiddenRows[k] = Hidden(k)
    BY DEF HiddenRows
  <1>3. ASSUME NEW k \in DOMAIN rows PROVE Hidden(k) \in Int
    <2>1. rows[k].addr \in Addr
      BY DEF TypeOK, RowType
    <2>2. /\ Priced(cur, rows[k].addr, rows[k].c) \in Nat
          /\ Priced(base, rows[k].addr, rows[k].b) \in Nat
      BY <2>1, WorthType DEF TypeOK, RowsFit
    <2> QED  BY <2>2 DEF Hidden
  <1>4. SumFunction(HiddenRows) = SumFunctionOnSet(HiddenRows, DOMAIN rows)
    BY <1>2 DEF SumFunction
  <1>5. SumFunctionOnSet(HiddenRows, DOMAIN rows) \in Int
    <2>1. \A k \in DOMAIN rows : HiddenRows[k] \in Int
      BY <1>2, <1>3
    <2> HIDE DEF HiddenRows
    <2> QED  BY <1>1, <2>1, SumInt
  <1> QED  BY <1>1, <1>2, <1>3, <1>4, <1>5 DEF HiddenOK

LEMMA HiddenIntNext == (TypeOK /\ Shape /\ RowsFit)' => HiddenOK'
  BY HiddenInt, PTL

\* Writing a row, or none for two items that cancel out, books their difference.
LEMMA Booked ==
  ASSUME TypeOK, Shape, RowsFit, (TypeOK /\ Shape /\ RowsFit)', Within,
         NEW b \in {0} \cup DOMAIN B, NEW c \in {0} \cup DOMAIN C,
         \/ Writes(b, c)
         \/ rows' = rows /\ total' = total /\ Priced(cur, addr, c) = Priced(base, addr, b)
  PROVE  /\ total'.prior = total.prior /\ total'.proposed = total.proposed
         /\ total'.delta + SumFunction(HiddenRows')
            = total.delta + SumFunction(HiddenRows)
              + (Priced(cur, addr, c) - Priced(base, addr, b))
  <1>1. addr \in Addr /\ base \in [Addr -> Lists] /\ cur \in [Addr -> Lists]
    BY WorkType DEF Within, TypeOK
  <1>2. Priced(cur, addr, c) \in Int /\ Priced(base, addr, b) \in Int
    BY <1>1, WorthType DEF B, C
  <1>3. total.delta \in Int /\ SumFunction(HiddenRows) \in Int
    BY HiddenInt DEF TypeOK, HiddenOK
  <1> DEFINE old == SumFunction(HiddenRows)
             new == SumFunction(HiddenRows')
             p   == Priced(cur, addr, c)
             q   == Priced(base, addr, b)
  <1>4. CASE rows' = rows /\ total' = total /\ p = q
    <2>1. HiddenRows' = HiddenRows
      BY <1>4 DEF HiddenRows, Hidden, Within
    <2> QED  BY <1>2, <1>3, <1>4, <2>1
  <1>5. CASE Writes(b, c)
    <2>1. PICK r, k :
             /\ r \in RowType
             /\ r.addr = addr /\ r.b = b /\ r.c = c
             /\ k \notin DOMAIN rows /\ DOMAIN rows' = DOMAIN rows \cup {k}
             /\ rows'[k] = r
             /\ \A l \in DOMAIN rows : rows'[l] = rows[l]
             /\ total'.prior = total.prior /\ total'.proposed = total.proposed
             /\ IF r.kind = "notEstimated" THEN total'.delta = total.delta
                ELSE total'.delta = total.delta + r.delta /\ r.delta = p - q
      BY <1>5 DEF Writes
    <2>2. /\ IsFiniteSet(DOMAIN rows') /\ IsFiniteSet(DOMAIN rows)
          /\ \A l \in DOMAIN rows' : HiddenRows'[l] = Hidden(l)' /\ Hidden(l)' \in Int
          /\ \A l \in DOMAIN rows : HiddenRows[l] = Hidden(l)
          /\ new = SumFunctionOnSet(HiddenRows', DOMAIN rows')
          /\ old = SumFunctionOnSet(HiddenRows, DOMAIN rows)
      BY HiddenInt, HiddenIntNext DEF HiddenOK
    <2>3. Hidden(k)' = IF r.kind # "notEstimated" THEN 0 ELSE p - q
      BY <2>1 DEF Hidden, Within
    <2>4. \A l \in DOMAIN rows : Hidden(l)' = Hidden(l)
      BY <2>1 DEF Hidden, Within
    <2>5. new = HiddenRows'[k] + SumFunctionOnSet(HiddenRows', DOMAIN rows)
      <3> DEFINE F == HiddenRows'
                 S == DOMAIN rows'
      <3>1. IsFiniteSet(S) /\ k \in S /\ (\A l \in S : F[l] \in Int) /\ S \ {k} = DOMAIN rows
        BY <2>1, <2>2
      <3> HIDE DEF F, S
      <3>2. SumFunctionOnSet(F, S) = F[k] + SumFunctionOnSet(F, S \ {k})
        BY <3>1, SumRemove
      <3> QED  BY <2>2, <3>1, <3>2 DEF F, S
    <2>6. SumFunctionOnSet(HiddenRows', DOMAIN rows) = old
      <3> DEFINE F == HiddenRows'
                 G == HiddenRows
                 S == DOMAIN rows
      <3>1. IsFiniteSet(S) /\ \A l \in S : F[l] = G[l]
        BY <2>1, <2>2, <2>4
      <3> HIDE DEF F, G, S
      <3>2. SumFunctionOnSet(F, S) = SumFunctionOnSet(G, S)
        BY <3>1, SumSame
      <3> QED  BY <2>2, <3>2 DEF F, G, S
    <2>7. new = (IF r.kind # "notEstimated" THEN 0 ELSE p - q) + old
      BY <2>1, <2>2, <2>3, <2>5, <2>6
    <2>8. p \in Int /\ q \in Int /\ old \in Int /\ total.delta \in Int
      BY <1>2, <1>3
    <2> HIDE DEF p, q, old, new
    <2>9. total'.delta + new = total.delta + old + (p - q)
      BY <2>1, <2>7, <2>8
    <2> QED  BY <2>1, <2>9 DEF p, q, old, new
  <1> QED  BY <1>4, <1>5

\* What is left does not change when neither the items nor their standing do.
LEMMA BalanceSame ==
  ASSUME Balance, rows' = rows, total' = total, base' = base, cur' = cur,
         \A x \in Positions(cur) :
            (x[1] \in todo' \/ (x[1] = addr' /\ ~Emitted(x[2])'))
            <=> (x[1] \in todo \/ (x[1] = addr /\ ~Emitted(x[2]))),
         \A x \in Positions(base) :
            (x[1] \in todo' \/ (x[1] = addr' /\ ~Dropped(x[2])'))
            <=> (x[1] \in todo \/ (x[1] = addr /\ ~Dropped(x[2])))
  PROVE  Balance'
  <1>1. /\ Worth(cur)' = Worth(cur) /\ Worth(base)' = Worth(base)
        /\ Positions(cur)' = Positions(cur) /\ Positions(base)' = Positions(base)
        /\ HiddenRows' = HiddenRows
    BY DEF Worth, Positions, Priced, HiddenRows, Hidden
  <1>2. LeftC' = LeftC /\ LeftB' = LeftB
    BY <1>1 DEF LeftC, LeftB
  <1> QED  BY <1>1, <1>2 DEF Balance

\* Writing items b and c takes them from what is left.
LEMMA BalanceBooked ==
  ASSUME TypeOK, Shape, RowsFit, (TypeOK /\ Shape /\ RowsFit)', Within, Balance,
         NEW b \in {0} \cup DOMAIN B, NEW c \in {0} \cup DOMAIN C,
         \/ Writes(b, c)
         \/ rows' = rows /\ total' = total /\ Priced(cur, addr, c) = Priced(base, addr, b),
         \/ c = 0 /\ LeftC' = LeftC
         \/ <<addr, c>> \in LeftC /\ LeftC' = LeftC \ {<<addr, c>>},
         \/ b = 0 /\ LeftB' = LeftB
         \/ <<addr, b>> \in LeftB /\ LeftB' = LeftB \ {<<addr, b>>}
  PROVE  Balance'
  <1>1. /\ addr \in Addr /\ base \in [Addr -> Lists] /\ cur \in [Addr -> Lists]
        /\ B = base[addr] /\ C = cur[addr]
    BY WorkType DEF Within, TypeOK, B, C
  <1>2. LeftC \in SUBSET Positions(cur) /\ LeftB \in SUBSET Positions(base)
    BY DEF LeftC, LeftB
  <1> DEFINE p  == Priced(cur, addr, c)
             q  == Priced(base, addr, b)
             lc == SumFunctionOnSet(Worth(cur), LeftC)
             lb == SumFunctionOnSet(Worth(base), LeftB)
             nc == SumFunctionOnSet(Worth(cur), LeftC')
             nb == SumFunctionOnSet(Worth(base), LeftB')
             h  == SumFunction(HiddenRows)
             g  == SumFunction(HiddenRows')
  <1>3. lc = p + nc /\ p \in Int /\ nc \in Int
    <2> DEFINE X == LeftC
               Y == LeftC'
    <2>1. /\ X \in SUBSET Positions(cur) /\ c \in {0} \cup DOMAIN cur[addr]
          /\ \/ c = 0 /\ Y = X
             \/ <<addr, c>> \in X /\ Y = X \ {<<addr, c>>}
      BY <1>1, <1>2
    <2> HIDE DEF X, Y
    <2>2. /\ SumFunctionOnSet(Worth(cur), X)
             = Priced(cur, addr, c) + SumFunctionOnSet(Worth(cur), Y)
          /\ Priced(cur, addr, c) \in Int /\ SumFunctionOnSet(Worth(cur), Y) \in Int
      BY <1>1, <2>1, LeftTake
    <2> QED  BY <2>2 DEF X, Y
  <1>4. lb = q + nb /\ q \in Int /\ nb \in Int
    <2> DEFINE X == LeftB
               Y == LeftB'
    <2>1. /\ X \in SUBSET Positions(base) /\ b \in {0} \cup DOMAIN base[addr]
          /\ \/ b = 0 /\ Y = X
             \/ <<addr, b>> \in X /\ Y = X \ {<<addr, b>>}
      BY <1>1, <1>2
    <2> HIDE DEF X, Y
    <2>2. /\ SumFunctionOnSet(Worth(base), X)
             = Priced(base, addr, b) + SumFunctionOnSet(Worth(base), Y)
          /\ Priced(base, addr, b) \in Int /\ SumFunctionOnSet(Worth(base), Y) \in Int
      BY <1>1, <2>1, LeftTake
    <2> QED  BY <2>2 DEF X, Y
  <1>5. /\ total'.prior = total.prior /\ total'.proposed = total.proposed
        /\ total'.delta + g = total.delta + h + (p - q)
    BY Booked
  <1>6. /\ total.delta \in Int /\ h \in Int /\ g \in Int /\ total'.delta \in Int
        /\ total.prior \in Int /\ total.proposed \in Int
    BY HiddenInt, HiddenIntNext DEF HiddenOK, TypeOK
  <1>7. total.delta + h + lc - lb = total.proposed - total.prior
    BY DEF Balance
  <1>8. Worth(cur)' = Worth(cur) /\ Worth(base)' = Worth(base)
    BY DEF Worth, Positions, Priced, Within
  <1> HIDE DEF p, q, lc, lb, nc, nb, h, g
  <1>9. total'.delta + g + nc - nb = total'.proposed - total'.prior
    BY <1>3, <1>4, <1>5, <1>6, <1>7
  <1> QED  BY <1>8, <1>9 DEF Balance, nc, nb, g

LEMMA BalanceStep ==
  ASSUME IInv, (TypeOK /\ Shape /\ RowsFit)', [Next]_vars
  PROVE  Balance'
  <1>0. /\ TypeOK /\ Shape /\ FirstPass /\ PairingOK /\ RowsFit /\ Balance
        /\ base \in [Addr -> Lists] /\ cur \in [Addr -> Lists]
    BY DEF IInv, TypeOK
  <1>p. /\ \A x \in Positions(cur) : /\ x[1] \in Addr /\ x[2] \in DOMAIN cur[x[1]]
                                     /\ x = <<x[1], x[2]>>
        /\ \A x \in Positions(base) : /\ x[1] \in Addr /\ x[2] \in DOMAIN base[x[1]]
                                      /\ x = <<x[1], x[2]>>
    BY <1>0, WorthType
  <1>1. CASE NextAddr
    <2>1. /\ addr' \in todo /\ todo' = todo \ {addr'} /\ addr = None /\ phase' = "equal"
          /\ rows' = rows /\ base' = base /\ cur' = cur /\ total' = total
      BY <1>0, <1>1 DEF NextAddr, TypeOK, input
    <2>2. \A n : ~Emitted(n)' /\ ~Dropped(n)'
      BY <2>1 DEF Emitted, Dropped
    <2>3. \A a \in Addr : a # addr
      BY <2>1, DeltaAssumption
    <2> QED  BY <1>0, <1>p, <2>1, <2>2, <2>3, BalanceSame
  <1>2. CASE PairEqual \/ PairLeftover
    <2>1. /\ Within /\ rows' = rows /\ total' = total /\ phase \in {"equal", "left"}
          /\ phase' \in {"equal", "left"} \/ (phase' = "emit" /\ i' = 1)
      BY <1>0, <1>2, PairChange
    <2>2. DOMAIN C = 1..Len(C) /\ DOMAIN pair' \subseteq DOMAIN C
      BY <1>0, <1>2, PairChange, WorkType DEF Within, Shape
    <2>3. \A n : ~Emitted(n) /\ ~Dropped(n)
      BY <2>1 DEF Emitted, Dropped
    <2>4. \A n \in DOMAIN C : ~Emitted(n)'
      BY <2>1, <2>2 DEF Emitted
    <2>5. \A n : ~Dropped(n)'
      BY <2>1, <2>2, <2>4 DEF Dropped
    <2>6. \A x \in Positions(cur) : x[1] = addr => x[2] \in DOMAIN C
      BY <1>p DEF C
    <2> QED  BY <1>0, <2>1, <2>3, <2>4, <2>5, <2>6, BalanceSame DEF Within
  <1>3. CASE SkipLoops
    <2>1. /\ Within /\ rows' = rows /\ total' = total /\ phase' = "removed" /\ i' = 1
          /\ phase # "removed" /\ i > Len(C) /\ Looping /\ pair' = pair
      BY <1>0, <1>3, PairSame DEF SkipLoops, Looping
    <2>2. DOMAIN C = {} /\ DOMAIN B = 1..Len(B) /\ DOMAIN pair = {}
      BY <1>0, <2>1, WorkType DEF Shape, Within
    <2>3. \A n \in DOMAIN B : ~Dropped(n) /\ ~Dropped(n)'
      BY <2>1, <2>2 DEF Dropped
    <2>4. /\ \A x \in Positions(cur) : x[1] = addr => x[2] \in DOMAIN C
          /\ \A x \in Positions(base) : x[1] = addr => x[2] \in DOMAIN B
      BY <1>p DEF B, C
    <2> QED  BY <1>0, <2>1, <2>2, <2>3, <2>4, BalanceSame DEF Within
  <1>4. CASE Emit
    <2>1. /\ Within /\ i \in DOMAIN C /\ phase = "emit" /\ addr # None /\ pair' = pair
          /\ used' = used
          /\ \/ phase' = "emit" /\ i' = i + 1 /\ i < Len(C)
             \/ phase' = "removed" /\ i' = 1 /\ i = Len(C)
      BY <1>0, <1>4, EmitWrites, PairSame DEF Within
    <2>2. /\ DOMAIN C = 1..Len(C) /\ Len(C) \in Nat /\ DOMAIN B = 1..Len(B) /\ i # 0
          /\ DOMAIN pair = DOMAIN C /\ pair[i] \in {0} \cup DOMAIN B
          /\ addr \in Addr /\ B = base[addr] /\ C = cur[addr] /\ addr \notin todo
      BY <1>0, <2>1, WorkType DEF Shape, B, C
    <2>3. \A c \in DOMAIN C : /\ Emitted(c) <=> c < i
                              /\ Emitted(c)' <=> Emitted(c) \/ c = i
      BY <2>1, <2>2 DEF Emitted
    <2>4. \A b \in DOMAIN B : Dropped(b)' <=> Dropped(b) \/ b = pair[i]
      <3>1. \A b \in DOMAIN B : Dropped(b) <=> \E c \in DOMAIN C : Emitted(c) /\ pair[c] = b
        BY <2>1, <2>2 DEF Dropped
      <3>2. \A b \in DOMAIN B : ~(phase' = "removed" /\ b < i')
        BY <2>1, <2>2
      <3>3. \A b \in DOMAIN B : Dropped(b)' <=> \E c \in DOMAIN C : Emitted(c)' /\ pair[c] = b
        BY <2>1, <2>2, <3>2 DEF Dropped
      <3> QED  BY <2>1, <2>3, <3>1, <3>3
    <2>5. pair[i] # 0 => ~Dropped(pair[i])
      <3> SUFFICES ASSUME pair[i] # 0, Dropped(pair[i]) PROVE FALSE
        OBVIOUS
      <3>1. PICK c \in DOMAIN C : Emitted(c) /\ pair[c] = pair[i]
        BY <2>1, <2>2 DEF Dropped
      <3>2. c = i
        BY <1>0, <2>1, <2>2, <3>1 DEF PairingOK
      <3> QED  BY <2>1, <2>2, <2>3, <3>1, <3>2
    <2>6. <<addr, i>> \in LeftC /\ LeftC' = LeftC \ {<<addr, i>>}
      <3>1. Positions(cur)' = Positions(cur) /\ <<addr, i>> \in Positions(cur)
        BY <1>0, <2>1, <2>2, WorthType DEF Positions, Within
      <3>2. ~Emitted(i)
        BY <2>1, <2>2, <2>3
      <3>3. \A x \in Positions(cur) : x[1] = addr => x[2] \in DOMAIN C
        BY <1>p, <2>2
      <3>4. \A x \in Positions(cur) : x \in LeftC' <=> x \in LeftC /\ x # <<addr, i>>
        <4>1. \A x \in Positions(cur) : x = <<addr, i>> <=> x[1] = addr /\ x[2] = i
          BY <1>p
        <4> QED  BY <2>1, <2>2, <2>3, <3>1, <3>3, <4>1 DEF LeftC, Within
      <3> QED  BY <3>1, <3>2, <3>4 DEF LeftC
    <2>7. \/ pair[i] = 0 /\ LeftB' = LeftB
          \/ <<addr, pair[i]>> \in LeftB /\ LeftB' = LeftB \ {<<addr, pair[i]>>}
      <3>1. Positions(base)' = Positions(base)
        BY <2>1 DEF Positions, Within
      <3>2. \A x \in Positions(base) : x[1] = addr => x[2] \in DOMAIN B
        BY <1>p, <2>2
      <3>3. \A x \in Positions(base) : x \in LeftB'
               <=> x \in LeftB /\ ~(x[1] = addr /\ x[2] = pair[i])
        BY <2>1, <2>2, <2>4, <3>1, <3>2 DEF LeftB, Within
      <3>4. \A x \in LeftB : x \in Positions(base)
        BY DEF LeftB
      <3>5. \A x \in LeftB' : x \in Positions(base)
        BY <3>1 DEF LeftB
      <3>6. CASE pair[i] = 0
        <4>1. \A x \in Positions(base) : ~(x[1] = addr /\ x[2] = pair[i])
          BY <2>2, <3>2, <3>6
        <4> QED  BY <3>3, <3>4, <3>5, <3>6, <4>1
      <3>7. CASE pair[i] # 0
        <4>1. <<addr, pair[i]>> \in Positions(base)
          BY <1>0, <2>2, <3>7, WorthType
        <4>2. <<addr, pair[i]>> \in LeftB
          BY <2>5, <3>7, <4>1 DEF LeftB
        <4>3. \A x \in Positions(base) : x = <<addr, pair[i]>> <=> x[1] = addr /\ x[2] = pair[i]
          BY <1>p
        <4> QED  BY <3>3, <3>4, <3>5, <4>2, <4>3
      <3> QED  BY <3>6, <3>7
    <2>8. \/ Writes(pair[i], i)
          \/ /\ rows' = rows /\ total' = total
             /\ Priced(cur, addr, i) = Priced(base, addr, pair[i])
      <3>1. ASSUME ~Changed(i) PROVE Priced(cur, addr, i) = Priced(base, addr, pair[i])
        BY <2>2, <3>1 DEF Changed, Unchanged, Priced
      <3> QED  BY <1>0, <1>4, <3>1, EmitWrites
    <2> QED  BY <1>0, <2>1, <2>2, <2>6, <2>7, <2>8, BalanceBooked
  <1>5. CASE Removed
    <2>1. /\ Within /\ i \in DOMAIN B /\ phase = "removed" /\ phase' = "removed" /\ i' = i + 1
          /\ addr # None /\ pair' = pair /\ used' = used
      BY <1>0, <1>5, RemovedWrites, PairSame DEF Within
    <2>2. /\ DOMAIN C = 1..Len(C) /\ DOMAIN B = 1..Len(B) /\ Len(B) \in Nat /\ i # 0
          /\ DOMAIN pair = DOMAIN C
          /\ addr \in Addr /\ B = base[addr] /\ C = cur[addr] /\ addr \notin todo
      BY <1>0, <2>1, WorkType DEF Shape, B, C
    <2>3. \A n : Emitted(n) /\ Emitted(n)'
      BY <2>1 DEF Emitted
    <2>4. \A b \in DOMAIN B : Dropped(b)' <=> Dropped(b) \/ (b = i /\ i \notin used)
      <3>1. \A b \in DOMAIN B : b < i' <=> b < i \/ b = i
        BY <2>1, <2>2
      <3> QED  BY <2>1, <2>3, <3>1 DEF Dropped
    <2>5. LeftC' = LeftC
      BY <2>1, <2>3 DEF LeftC, Positions, Within
    <2>6. Positions(base)' = Positions(base)
      BY <2>1 DEF Positions, Within
    <2>7. \A x \in Positions(base) : x[1] = addr => x[2] \in DOMAIN B
      BY <1>p, <2>2
    <2>8. \A x \in Positions(base) : x \in LeftB'
             <=> x \in LeftB /\ ~(x[1] = addr /\ x[2] = i /\ i \notin used)
      BY <2>1, <2>2, <2>4, <2>6, <2>7 DEF LeftB, Within
    <2>9. LeftB \subseteq Positions(base) /\ LeftB' \subseteq Positions(base)
      BY <2>6 DEF LeftB
    <2>10. CASE i \in used /\ rows' = rows /\ total' = total
      <3>1. LeftB' = LeftB
        BY <2>8, <2>9, <2>10
      <3>2. Priced(cur, addr, 0) = Priced(base, addr, 0)
        BY DEF Priced
      <3> QED  BY <1>0, <2>1, <2>5, <2>10, <3>1, <3>2, BalanceBooked
    <2>11. CASE i \notin used /\ Writes(i, 0)
      <3>1. <<addr, i>> \in Positions(base)
        BY <1>0, <2>1, <2>2, WorthType
      <3>2. ~Dropped(i)
        <4>1. \A c \in DOMAIN pair : pair[c] # i
          BY <1>0, <2>1, <2>2, <2>11 DEF PairingOK
        <4> QED  BY <2>1, <2>2, <4>1 DEF Dropped
      <3>3. <<addr, i>> \in LeftB
        BY <3>1, <3>2 DEF LeftB
      <3>4. \A x \in Positions(base) : x = <<addr, i>> <=> x[1] = addr /\ x[2] = i
        BY <1>p
      <3>5. LeftB' = LeftB \ {<<addr, i>>}
        BY <2>8, <2>9, <2>11, <3>4
      <3> QED  BY <1>0, <2>1, <2>5, <2>11, <3>3, <3>5, BalanceBooked
    <2> QED  BY <1>0, <1>5, <2>10, <2>11, RemovedWrites
  <1>6. CASE AddrDone
    <2>1. /\ phase = "removed" /\ i > Len(B) /\ addr # None /\ addr' = None /\ todo' = todo
          /\ rows' = rows /\ base' = base /\ cur' = cur /\ total' = total
      BY <1>0, <1>6 DEF AddrDone, TypeOK, input
    <2>2. /\ DOMAIN B = 1..Len(B) /\ Len(B) \in Nat /\ i \in Nat /\ B = base[addr]
          /\ DOMAIN pair = DOMAIN C
      BY <1>0, <2>1, WorkType DEF Shape, TypeOK, B
    <2>3. \A n : Emitted(n)
      BY <2>1 DEF Emitted
    <2>4. \A b \in DOMAIN B : Dropped(b)
      <3>1. \A b \in DOMAIN B : b < i
        BY <2>1, <2>2
      <3>2. \A b \in used : \E c \in DOMAIN pair : pair[c] = b
        BY <1>0, <2>1 DEF PairingOK
      <3> QED  BY <2>1, <2>3, <3>1, <3>2 DEF Dropped
    <2>5. \A x \in Positions(base) : x[1] = addr => Dropped(x[2])
      BY <1>p, <2>2, <2>4
    <2>6. \A x \in Positions(cur) : x[1] # addr'
      BY <1>p, <2>1, DeltaAssumption
    <2>7. \A x \in Positions(base) : x[1] # addr'
      BY <1>p, <2>1, DeltaAssumption
    <2> QED  BY <1>0, <2>1, <2>3, <2>5, <2>6, <2>7, BalanceSame
  <1>7. CASE UNCHANGED vars
    BY <1>0, <1>7, BalanceSame DEF vars, input, Emitted, Dropped
  <1> QED  BY <1>1, <1>2, <1>3, <1>4, <1>5, <1>6, <1>7 DEF Next

-----------------------------------------------------------------------------
(* The theorems.                                                           *)

LEMMA InitHolds ==
  ASSUME Init
  PROVE  IInv
  <1>1. /\ base \in [Addr -> Lists] /\ cur \in [Addr -> Lists]
        /\ todo = {a \in Addr : Len(base[a]) + Len(cur[a]) > 0}
        /\ addr = None /\ phase = "next" /\ i = 0 /\ used = {} /\ pair = <<>> /\ rows = <<>>
        /\ total = [prior |-> SumCosts(base), proposed |-> SumCosts(cur),
                    delta |-> 0, notEstimated |-> 0]
    BY DeltaAssumption DEF Init
  <1>2. DOMAIN pair = {} /\ DOMAIN rows = {}
    BY <1>1
  <1>3. \A a \in Addr \ todo : DOMAIN base[a] = {} /\ DOMAIN cur[a] = {}
    <2>1. \A a \in Addr : /\ Len(base[a]) \in Nat /\ DOMAIN base[a] = 1..Len(base[a])
                          /\ Len(cur[a]) \in Nat /\ DOMAIN cur[a] = 1..Len(cur[a])
      BY <1>1, ListType
    <2>2. \A a \in Addr \ todo : Len(base[a]) = 0 /\ Len(cur[a]) = 0
      BY <1>1, <2>1
    <2> QED  BY <2>1, <2>2
  <1>4. /\ SumCosts(cur) = SumFunctionOnSet(Worth(cur), Positions(cur))
        /\ SumCosts(base) = SumFunctionOnSet(Worth(base), Positions(base))
    BY DEF SumCosts, SumFunction, Worth
  <1>5. SumCosts(cur) \in Nat /\ SumCosts(base) \in Nat
    <2>1. ASSUME NEW lists \in [Addr -> Lists]
          PROVE  SumFunctionOnSet(Worth(lists), Positions(lists)) \in Nat
      <3>1. IsFiniteSet(Positions(lists)) /\ \A x \in Positions(lists) : Worth(lists)[x] \in Nat
        BY WorthType
      <3> QED  BY <3>1, SumNat
    <2> QED  BY <1>1, <1>4, <2>1
  <1>6. TypeOK
    BY <1>1, <1>2, <1>5, DeltaAssumption DEF TypeOK
  <1>7. Shape
    <2>1. rows \in Seq(RowType)
      BY <1>1
    <2>2. addr \notin todo
      BY <1>1, DeltaAssumption
    <2> QED  BY <1>1, <1>2, <2>1, <2>2 DEF Shape
  <1>8. PairingOK /\ FirstPass /\ EqualSpecsFirst /\ RowsRight
    BY <1>1 DEF PairingOK, FirstPass, EqualSpecsFirst, RowsRight
  <1>9. \A a \in Addr : RowsOf(a) = {}
    BY <1>2 DEF RowsOf
  <1>10. ASSUME NEW a \in Addr \ todo PROVE OnceAt(a)
    <2>1. Silent("b", base, a) = {} /\ Silent("c", cur, a) = {}
      BY <1>3 DEF Silent
    <2> QED  BY <1>3, <2>1 DEF OnceAt
  <1>11. RowsElsewhere /\ RowsReordered /\ RowsFit
    BY <1>1, <1>2, <1>9, <1>10 DEF RowsElsewhere, RowsReordered, RowsFit
  <1>12. Balance
    <2>1. SumFunction(HiddenRows) = 0
      <3>1. DOMAIN HiddenRows = {}
        BY <1>2 DEF HiddenRows
      <3>2. SumFunctionOnSet(HiddenRows, {}) = 0
        BY FS_EmptySet, SumStep
      <3> QED  BY <3>1, <3>2 DEF SumFunction
    <2>2. /\ \A x \in Positions(cur) : x[1] \in Addr /\ x[2] \in DOMAIN cur[x[1]]
          /\ \A x \in Positions(base) : x[1] \in Addr /\ x[2] \in DOMAIN base[x[1]]
      BY DEF Positions
    <2>3. LeftC = Positions(cur) /\ LeftB = Positions(base)
      BY <1>3, <2>2 DEF LeftC, LeftB
    <2>4. /\ total.delta = 0 /\ total.prior = SumCosts(base) /\ total.proposed = SumCosts(cur)
      BY <1>1
    <2> QED  BY <1>4, <1>5, <2>1, <2>3, <2>4 DEF Balance
  <1> QED  BY <1>6, <1>7, <1>8, <1>11, <1>12 DEF IInv

LEMMA NextHolds ==
  ASSUME IInv, [Next]_vars
  PROVE  IInv'
  <1>1. TypeOK' /\ Shape'
    BY TypeStep DEF IInv
  <1>2. PairingOK' /\ FirstPass' /\ EqualSpecsFirst'
    BY PairingStep, FirstPassStep DEF IInv
  <1>3. RowsRight' /\ RowsElsewhere' /\ RowsReordered' /\ RowsFit'
    BY RowsRightStep, RowsElsewhereStep, RowsReorderedStep, RowsFitStep DEF IInv
  <1>4. Balance'
    BY <1>1, <1>3, BalanceStep
  <1> QED  BY <1>1, <1>2, <1>3, <1>4 DEF IInv

LEMMA Inductive == Spec => []IInv
  BY InitHolds, NextHolds, PTL DEF Spec

\* The variables keep their types.
THEOREM TypeCorrect == Spec => []TypeOK
  <1>1. IInv => TypeOK
    BY DEF IInv
  <1> QED  BY <1>1, Inductive, PTL

\* cPair and bUsed agree at every point of the loops.
THEOREM PairingAgrees == Spec => []PairingOK
  <1>1. IInv => PairingOK
    BY DEF IInv
  <1> QED  BY <1>1, Inductive, PTL

\* Identical specs pair first, whatever the lists.
THEOREM EqualSpecsPairFirst == Spec => []EqualSpecsFirst
  <1>1. IInv => EqualSpecsFirst
    BY DEF IInv
  <1> QED  BY <1>1, Inductive, PTL

\* No item is dropped or written twice: each is in one row, or cancels out
\* with an equal priced item of the other side.
THEOREM NothingDropped == Spec => []EachItemOnce
  <1>1. IInv => EachItemOnce
    BY DeltaAssumption DEF IInv, EachItemOnce, Done, RowsElsewhere, TypeOK
  <1> QED  BY <1>1, Inductive, PTL

\* A reordering of the components of an address writes no row for it.
THEOREM ReorderingSilent == Spec => []ReorderedSilent
  <1>1. IInv => ReorderedSilent
    BY DEF IInv, ReorderedSilent, RowsReordered, RowsOf
  <1> QED  BY <1>1, Inductive, PTL

\* Delta is Proposed minus Prior, up to what the rows not estimated hide, for
\* any number of addresses and items.
THEOREM HeadlineAddsUp == Spec => []DeltaAddsUp
  <1>1. ASSUME IInv, Done
        PROVE  total.delta + SumFunction(HiddenRows) = total.proposed - total.prior
    <2>1. /\ TypeOK /\ Shape /\ RowsFit /\ Balance /\ todo = {} /\ addr = None
          /\ base \in [Addr -> Lists] /\ cur \in [Addr -> Lists]
      BY <1>1 DEF IInv, Done, TypeOK
    <2>2. LeftC = {} /\ LeftB = {}
      BY <2>1, DeltaAssumption DEF LeftC, LeftB, Positions
    <2>3. SumFunctionOnSet(Worth(cur), {}) = 0 /\ SumFunctionOnSet(Worth(base), {}) = 0
      BY FS_EmptySet, SumStep
    <2>4. total.delta \in Int /\ SumFunction(HiddenRows) \in Int
      BY <2>1, HiddenInt DEF HiddenOK, TypeOK
    <2> DEFINE h == SumFunction(HiddenRows)
    <2>5. total.delta + h + 0 - 0 = total.proposed - total.prior
      BY <2>1, <2>2, <2>3 DEF Balance
    <2> HIDE DEF h
    <2>6. total.delta + h = total.proposed - total.prior
      BY <2>4, <2>5 DEF h
    <2> QED  BY <2>6 DEF h
  <1>2. IInv => DeltaAddsUp
    BY <1>1 DEF DeltaAddsUp, HiddenRows
  <1> QED  BY <1>2, Inductive, PTL
=============================================================================
