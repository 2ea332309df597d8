--------------------------- MODULE SQIVarMapProofs ---------------------------
(***************************************************************************)
(* What SQIVarMap promises for every number of threads, names, TVariables  *)
(* and values, and every depth of nested calls.                            *)
(*                                                                         *)
(* REF of a value is the number of TVariables that hold it (Holders) plus  *)
(* what each call in progress counts of it (Weight); a value that has been *)
(* deleted has no references.  A step changes one call, so the sum over    *)
(* the calls (Protected) changes by the weight of that call before and     *)
(* after.                                                                  *)
(* Two facts carry the induction: a TVariable a call remembers is, if it   *)
(* still exists, the one its name leads to (FramesGood), and a call that   *)
(* has looked its name up under the lock is the last one of the lock's     *)
(* owner, so that nobody changes the table before it does (Exclusive).     *)
(* That nothing is used after its deletion needs more (CallsSafe): as long *)
(* as scripts do nothing that marks remembers, what a call remembers of    *)
(* its TVariable is still so.                                              *)
(*                                                                         *)
(* The last part is about SQIBinding, the slots of one variable.           *)
(***************************************************************************)
EXTENDS SQIVarMap, SQIBinding, FiniteSetTheorems, TLAPS

-----------------------------------------------------------------------------
(* The calls in progress.                                                  *)

CallsType == call \in [Threads -> Seq(Frame)] /\ \A t \in Threads : Len(call[t]) <= MaxDepth

LEMMA Depth == MaxDepth \in Nat /\ MaxDepth > 0
BY ParameterAssumption

LEMMA FrontOf ==
  ASSUME NEW F, NEW s \in Seq(F), s # <<>>
  PROVE  /\ Len(s) \in Nat \ {0} /\ s[Len(s)] \in F
         /\ Front(s) \in Seq(F) /\ Len(Front(s)) = Len(s) - 1
         /\ \A i \in 1..Len(s) - 1 : Front(s)[i] = s[i]
<1> DEFINE n == Len(s)
<1>1. n \in Nat \ {0} /\ s \in [1..n -> F]
  OBVIOUS
<1>2. Front(s) = [i \in 1..n - 1 |-> s[i]]
  BY <1>1 DEF Front
<1>3. [i \in 1..n - 1 |-> s[i]] \in [1..n - 1 -> F]
  BY <1>1
<1>4. Front(s) \in Seq(F) /\ Len(Front(s)) = n - 1
  BY <1>1, <1>2, <1>3
<1> QED BY <1>1, <1>2, <1>4

LEMMA FramesAre ==
  ASSUME CallsType
  PROVE  /\ \A c \in InProgress : Frm(c) \in Frame
         /\ IsFiniteSet(InProgress)
<1>1. ASSUME NEW c \in InProgress PROVE Frm(c) \in Frame
  <2>1. c[1] \in Threads /\ c[2] \in 1..Len(call[c[1]])
    BY Depth DEF InProgress, CallsType
  <2> QED BY <2>1 DEF CallsType, Frm
<1>2. IsFiniteSet(Threads) /\ IsFiniteSet(1..MaxDepth)
  BY ParameterAssumption, Depth, FS_Interval
<1>3. IsFiniteSet(Threads \X (1..MaxDepth))
  BY <1>2, FS_Product
<1>4. IsFiniteSet(InProgress)
  BY <1>3, FS_Subset DEF InProgress
<1> QED BY <1>1, <1>4

LEMMA TopIs ==
  ASSUME CallsType, NEW t \in Threads, call[t] # <<>>
  PROVE  /\ Len(call[t]) \in 1..MaxDepth
         /\ <<t, Len(call[t])>> \in InProgress
         /\ Frm(<<t, Len(call[t])>>) = Top(t) /\ Top(t) \in Frame
BY Depth, FrontOf DEF CallsType, InProgress, Frm, Top

\* A call is entered; the last one is replaced.
Pushes(t, f)  == call' = [call EXCEPT ![t] = Append(@, f)]
Replace(t, f) == call' = [call EXCEPT ![t] = Append(Front(@), f)]

\* The call d is entered, goes on and returns, and no other call changes.
Grows(d, f) ==
  /\ d \notin InProgress /\ InProgress' = InProgress \cup {d}
  /\ \A c \in InProgress : Frm(c)' = Frm(c)
  /\ Frm(d)' = f

Changes(d, f) ==
  /\ d \in InProgress /\ InProgress' = InProgress
  /\ \A c \in InProgress : c # d => Frm(c)' = Frm(c)
  /\ Frm(d)' = f

Shrinks(d) ==
  /\ d \in InProgress /\ InProgress' = InProgress \ {d}
  /\ \A c \in InProgress' : Frm(c)' = Frm(c)

LEMMA Pushed ==
  ASSUME CallsType, NEW t \in Threads, NEW f \in Frame, Len(call[t]) < MaxDepth, Pushes(t, f)
  PROVE  /\ CallsType'
         /\ \E d : d = <<t, Len(call[t]) + 1>> /\ Grows(d, f)
<1> PICK n : n = Len(call[t]) + 1
  OBVIOUS
<1> USE DEF Pushes
<1>1. n \in 1..MaxDepth /\ call[t] \in Seq(Frame)
  BY Depth DEF CallsType
<1>2. /\ Append(call[t], f) \in Seq(Frame) /\ Len(Append(call[t], f)) = n
      /\ Append(call[t], f)[n] = f
      /\ \A i \in 1..Len(call[t]) : Append(call[t], f)[i] = call[t][i]
  BY <1>1
<1>3. \A u \in Threads : u # t => call'[u] = call[u]
  BY DEF CallsType
<1>4. call'[t] = Append(call[t], f)
  BY DEF CallsType
<1>5. CallsType'
  BY <1>1, <1>2, <1>3, <1>4 DEF CallsType
<1>6. <<t, n>> \notin InProgress
  BY <1>1 DEF InProgress
<1>7. \A u \in Threads, i \in 1..MaxDepth :
        <<u, i>> \in InProgress' <=> <<u, i>> \in InProgress \/ <<u, i>> = <<t, n>>
  BY <1>1, <1>2, <1>3, <1>4 DEF InProgress, CallsType
<1>8. InProgress' = InProgress \cup {<<t, n>>}
  <2>1. InProgress \subseteq Threads \X (1..MaxDepth) /\ InProgress' \subseteq Threads \X (1..MaxDepth)
        /\ <<t, n>> \in Threads \X (1..MaxDepth)
    BY <1>1 DEF InProgress
  <2> QED BY <1>7, <2>1
<1>9. ASSUME NEW c \in InProgress PROVE Frm(c)' = Frm(c)
  <2>1. c[1] \in Threads /\ c[2] \in 1..Len(call[c[1]])
    BY Depth DEF InProgress, CallsType
  <2> QED BY <1>2, <1>3, <1>4, <2>1 DEF Frm
<1>10. Frm(<<t, n>>)' = f
  BY <1>2, <1>4 DEF Frm
<1>11. Grows(<<t, n>>, f)
  BY <1>6, <1>8, <1>9, <1>10 DEF Grows
<1> QED BY <1>5, <1>11

LEMMA Replaced ==
  ASSUME CallsType, NEW t \in Threads, call[t] # <<>>, NEW f \in Frame, Replace(t, f)
  PROVE  /\ CallsType'
         /\ \E d : d = <<t, Len(call[t])>> /\ Frm(d) = Top(t) /\ Changes(d, f)
         /\ Len(call'[t]) = Len(call[t])
<1> PICK n : n = Len(call[t])
  OBVIOUS
<1> DEFINE s == Append(Front(call[t]), f)
<1> USE DEF Replace
<1>1. n \in 1..MaxDepth /\ call[t] \in Seq(Frame) /\ n > 0
  BY Depth, TopIs DEF CallsType
<1>2. /\ s \in Seq(Frame) /\ Len(s) = n
      /\ s[n] = f
      /\ \A i \in 1..n : i # n => s[i] = call[t][i]
  <2> DEFINE r == Front(call[t])
  <2>1. r \in Seq(Frame) /\ Len(r) = n - 1 /\ \A i \in 1..n - 1 : r[i] = call[t][i]
    BY <1>1, FrontOf
  <2> HIDE DEF r
  <2>2. Append(r, f) \in Seq(Frame) /\ Len(Append(r, f)) = n /\ Append(r, f)[n] = f
        /\ \A i \in 1..n - 1 : Append(r, f)[i] = r[i]
    BY <1>1, <2>1
  <2> QED BY <1>1, <2>1, <2>2 DEF r
<1> HIDE DEF s
<1>3. \A u \in Threads : u # t => call'[u] = call[u]
  BY DEF CallsType
<1>4. call'[t] = s
  BY DEF CallsType, s
<1>5. CallsType'
  BY <1>1, <1>2, <1>3, <1>4 DEF CallsType, s
<1>6. \A u \in Threads : Len(call'[u]) = Len(call[u])
  BY <1>2, <1>3, <1>4
<1>7. InProgress' = InProgress
  BY <1>6 DEF InProgress
<1>8. ASSUME NEW c \in InProgress, c # <<t, n>> PROVE Frm(c)' = Frm(c)
  <2>1. c[1] \in Threads /\ c[2] \in 1..Len(call[c[1]]) /\ c = <<c[1], c[2]>>
    BY Depth DEF InProgress, CallsType
  <2> QED BY <1>2, <1>3, <1>4, <1>8, <2>1 DEF Frm
<1>9. Frm(<<t, n>>)' = f
  BY <1>2, <1>4 DEF Frm
<1>10. <<t, n>> \in InProgress /\ Frm(<<t, n>>) = Top(t)
  BY TopIs
<1>11. Changes(<<t, n>>, f)
  BY <1>7, <1>8, <1>9, <1>10 DEF Changes
<1> QED BY <1>5, <1>6, <1>10, <1>11

LEMMA Popped ==
  ASSUME CallsType, NEW t \in Threads, call[t] # <<>>,
         call' = [call EXCEPT ![t] = Front(@)]
  PROVE  /\ CallsType'
         /\ \E d : d = <<t, Len(call[t])>> /\ Frm(d) = Top(t) /\ Shrinks(d)
         /\ Len(call'[t]) = Len(call[t]) - 1
<1> PICK n : n = Len(call[t])
  OBVIOUS
<1> DEFINE s == Front(call[t])
<1>1. n \in 1..MaxDepth /\ call[t] \in Seq(Frame) /\ n > 0
  BY Depth, TopIs DEF CallsType
<1>2. s \in Seq(Frame) /\ Len(s) = n - 1 /\ \A i \in 1..n - 1 : s[i] = call[t][i]
  BY <1>1, FrontOf
<1> HIDE DEF s
<1>3. \A u \in Threads : u # t => call'[u] = call[u]
  BY DEF CallsType
<1>4. call'[t] = s
  BY DEF CallsType, s
<1>5. CallsType'
  <2>1. call' \in [Threads -> Seq(Frame)]
    BY <1>2 DEF CallsType, s
  <2>2. \A u \in Threads : Len(call'[u]) <= MaxDepth
    BY <1>1, <1>2, <1>3, <1>4, Depth DEF CallsType
  <2> QED BY <2>1, <2>2 DEF CallsType
<1>6. \A u \in Threads, i \in 1..MaxDepth :
        <<u, i>> \in InProgress' <=> <<u, i>> \in InProgress /\ <<u, i>> # <<t, n>>
  BY <1>1, <1>2, <1>3, <1>4 DEF InProgress, CallsType
<1>7. InProgress' = InProgress \ {<<t, n>>}
  <2>1. InProgress \subseteq Threads \X (1..MaxDepth) /\ InProgress' \subseteq Threads \X (1..MaxDepth)
    BY DEF InProgress
  <2> QED BY <1>6, <2>1
<1>8. ASSUME NEW c \in InProgress' PROVE Frm(c)' = Frm(c)
  <2>1. c[1] \in Threads /\ c[2] \in 1..Len(call[c[1]]) /\ c = <<c[1], c[2]>> /\ c # <<t, n>>
    BY <1>7, Depth DEF InProgress, CallsType
  <2> QED BY <1>1, <1>2, <1>3, <1>4, <2>1 DEF Frm
<1>9. <<t, n>> \in InProgress /\ Frm(<<t, n>>) = Top(t)
  BY TopIs
<1>10. Shrinks(<<t, n>>)
  BY <1>7, <1>8, <1>9 DEF Shrinks
<1> QED BY <1>2, <1>4, <1>5, <1>9, <1>10

-----------------------------------------------------------------------------
(* The references of the calls in progress, when a call is entered, goes on *)
(* or returns.                                                             *)

FramesIn(F) == {c \in InProgress : Frm(c) \in F}

HoldingF(o) == {f \in Frame : f.obj = o /\ (f.op = "set" \/ f.pc = "done")}
OldF(o)     == {f \in Frame : f.old = o /\ f.pc = "bound"}
NewF(o)     == {f \in Frame : f.new = o /\ f.pc = "bound"}

Is(f, F) == IF f \in F THEN 1 ELSE 0

\* The references of one call.
Weight(f, o) == Is(f, HoldingF(o)) + Is(f, OldF(o)) + Is(f, NewF(o))

LEMMA CardAdd ==
  ASSUME NEW S, IsFiniteSet(S), NEW x, x \notin S
  PROVE  IsFiniteSet(S \cup {x}) /\ Cardinality(S \cup {x}) = Cardinality(S) + 1
BY FS_AddElement

LEMMA CardDel ==
  ASSUME NEW S, IsFiniteSet(S), NEW x \in S
  PROVE  /\ IsFiniteSet(S \ {x}) /\ Cardinality(S \ {x}) = Cardinality(S) - 1
         /\ Cardinality(S) \in Nat /\ Cardinality(S) > 0
<1>1. IsFiniteSet(S \ {x}) /\ Cardinality(S \ {x}) = Cardinality(S) - 1
  BY FS_RemoveElement
<1>2. Cardinality(S) \in Nat /\ Cardinality(S \ {x}) \in Nat
  BY <1>1, FS_CardinalityType
<1> QED BY <1>1, <1>2

LEMMA InType ==
  ASSUME CallsType, NEW F
  PROVE  /\ IsFiniteSet(FramesIn(F)) /\ Cardinality(FramesIn(F)) \in Nat
         /\ FramesIn(F) = {} => Cardinality(FramesIn(F)) = 0
         /\ Cardinality(FramesIn(F)) = 0 => FramesIn(F) = {}
<1>1. IsFiniteSet(FramesIn(F))
  BY FramesAre, FS_Subset DEF FramesIn
<1> QED BY <1>1, FS_CardinalityType, FS_EmptySet

LEMMA ProtectedIs ==
  ASSUME CallsType, NEW o
  PROVE  Protected(o) = Cardinality(FramesIn(HoldingF(o))) + Cardinality(FramesIn(OldF(o)))
                        + Cardinality(FramesIn(NewF(o)))
<1>1. Holding(o) = FramesIn(HoldingF(o))
  BY FramesAre DEF Holding, FramesIn, HoldingF
<1>2. OldInput(o) = FramesIn(OldF(o))
  BY FramesAre DEF OldInput, FramesIn, OldF
<1>3. NewInput(o) = FramesIn(NewF(o))
  BY FramesAre DEF NewInput, FramesIn, NewF
<1> QED BY <1>1, <1>2, <1>3 DEF Protected

ProtectedSum ==
  \A o : Protected(o) = Cardinality(FramesIn(HoldingF(o))) + Cardinality(FramesIn(OldF(o)))
                        + Cardinality(FramesIn(NewF(o)))

LEMMA ProtectedSums == CallsType => ProtectedSum
BY ProtectedIs DEF ProtectedSum

LEMMA ProtectedSumsNext == CallsType' => ProtectedSum'
BY ProtectedSums, PTL

LEMMA CountsAtLeast ==
  ASSUME CallsType, NEW F, NEW c \in InProgress
  PROVE  Cardinality(FramesIn(F)) >= Is(Frm(c), F) /\ Is(Frm(c), F) \in {0, 1}
<1>1. CASE Frm(c) \in F
  <2>1. c \in FramesIn(F)
    BY <1>1 DEF FramesIn
  <2> QED BY <1>1, <2>1, InType DEF Is
<1>2. CASE Frm(c) \notin F
  BY <1>2, InType DEF Is
<1> QED BY <1>1, <1>2

LEMMA ProtectedType ==
  ASSUME CallsType, NEW o
  PROVE  /\ Protected(o) \in Nat
         /\ \A c \in InProgress : Weight(Frm(c), o) \in Nat /\ Protected(o) >= Weight(Frm(c), o)
<1> DEFINE n(F) == Cardinality(FramesIn(F))
<1>1. \A F : n(F) \in Nat
  BY InType
<1>2. \A c \in InProgress : \A F : n(F) >= Is(Frm(c), F) /\ Is(Frm(c), F) \in {0, 1}
  BY CountsAtLeast
<1>3. Protected(o) = n(HoldingF(o)) + n(OldF(o)) + n(NewF(o))
  BY ProtectedIs
<1> HIDE DEF n
<1> QED BY <1>1, <1>2, <1>3 DEF Weight

LEMMA CountPushed ==
  ASSUME CallsType, NEW F, NEW d, NEW f, Grows(d, f)
  PROVE  Cardinality(FramesIn(F))' = Cardinality(FramesIn(F)) + Is(f, F)
<1> USE DEF Grows
<1>1. d \notin FramesIn(F) /\ IsFiniteSet(FramesIn(F)) /\ Cardinality(FramesIn(F)) \in Nat
  BY InType DEF FramesIn
<1>2. CASE f \in F
  <2>1. FramesIn(F)' = FramesIn(F) \cup {d}
    BY <1>2 DEF FramesIn
  <2> QED BY <1>1, <1>2, <2>1, CardAdd DEF Is
<1>3. CASE f \notin F
  <2>1. FramesIn(F)' = FramesIn(F)
    BY <1>3 DEF FramesIn
  <2> QED BY <1>1, <1>3, <2>1 DEF Is
<1> QED BY <1>2, <1>3

LEMMA CountPopped ==
  ASSUME CallsType, NEW F, NEW d, Shrinks(d)
  PROVE  Cardinality(FramesIn(F))' = Cardinality(FramesIn(F)) - Is(Frm(d), F)
<1> USE DEF Shrinks
<1>1. FramesIn(F)' = FramesIn(F) \ {d}
  BY DEF FramesIn
<1>2. IsFiniteSet(FramesIn(F)) /\ Cardinality(FramesIn(F)) \in Nat
  BY InType
<1>3. CASE Frm(d) \in F
  <2>1. d \in FramesIn(F)
    BY <1>3 DEF FramesIn
  <2> QED BY <1>1, <1>2, <1>3, <2>1, CardDel DEF Is
<1>4. CASE Frm(d) \notin F
  <2>1. FramesIn(F)' = FramesIn(F)
    BY <1>1, <1>4 DEF FramesIn
  <2> QED BY <1>2, <1>4, <2>1 DEF Is
<1> QED BY <1>3, <1>4

LEMMA CountReplaced ==
  ASSUME CallsType, NEW F, NEW d, NEW f, Changes(d, f)
  PROVE  Cardinality(FramesIn(F))' = Cardinality(FramesIn(F)) - Is(Frm(d), F) + Is(f, F)
<1> USE DEF Changes
<1>1. IsFiniteSet(FramesIn(F)) /\ Cardinality(FramesIn(F)) \in Nat
  BY InType
<1>2. CASE Frm(d) \in F /\ f \notin F
  <2>1. d \in FramesIn(F) /\ FramesIn(F)' = FramesIn(F) \ {d}
    BY <1>2 DEF FramesIn
  <2> QED BY <1>1, <1>2, <2>1, CardDel DEF Is
<1>3. CASE Frm(d) \notin F /\ f \in F
  <2>1. d \notin FramesIn(F) /\ FramesIn(F)' = FramesIn(F) \cup {d}
    BY <1>3 DEF FramesIn
  <2> QED BY <1>1, <1>3, <2>1, CardAdd DEF Is
<1>4. CASE Frm(d) \in F <=> f \in F
  <2>1. FramesIn(F)' = FramesIn(F)
    BY <1>4 DEF FramesIn
  <2> QED BY <1>1, <1>4, <2>1 DEF Is
<1> QED BY <1>2, <1>3, <1>4

LEMMA ProtectedPushed ==
  ASSUME CallsType, CallsType', NEW o, NEW d, NEW f, Grows(d, f)
  PROVE  Protected(o)' = Protected(o) + Weight(f, o)
<1> DEFINE n(F) == Cardinality(FramesIn(F))
<1>1. /\ n(HoldingF(o))' = n(HoldingF(o)) + Is(f, HoldingF(o))
      /\ n(OldF(o))' = n(OldF(o)) + Is(f, OldF(o))
      /\ n(NewF(o))' = n(NewF(o)) + Is(f, NewF(o))
  BY CountPushed
<1>2. Protected(o) = n(HoldingF(o)) + n(OldF(o)) + n(NewF(o))
  BY ProtectedIs
<1>3. Protected(o)' = n(HoldingF(o))' + n(OldF(o))' + n(NewF(o))'
  BY ProtectedSumsNext DEF ProtectedSum
<1>4. \A F : n(F) \in Nat /\ Is(f, F) \in {0, 1}
  BY InType DEF Is
<1> HIDE DEF n
<1> QED BY <1>1, <1>2, <1>3, <1>4 DEF Weight

LEMMA ProtectedPopped ==
  ASSUME CallsType, CallsType', NEW o, NEW d, Shrinks(d)
  PROVE  Protected(o)' = Protected(o) - Weight(Frm(d), o)
<1> DEFINE n(F) == Cardinality(FramesIn(F))
<1>1. /\ n(HoldingF(o))' = n(HoldingF(o)) - Is(Frm(d), HoldingF(o))
      /\ n(OldF(o))' = n(OldF(o)) - Is(Frm(d), OldF(o))
      /\ n(NewF(o))' = n(NewF(o)) - Is(Frm(d), NewF(o))
  BY CountPopped
<1>2. Protected(o) = n(HoldingF(o)) + n(OldF(o)) + n(NewF(o))
  BY ProtectedIs
<1>3. Protected(o)' = n(HoldingF(o))' + n(OldF(o))' + n(NewF(o))'
  BY ProtectedSumsNext DEF ProtectedSum
<1>4. \A F : n(F) \in Nat /\ Is(Frm(d), F) \in {0, 1}
  BY InType DEF Is
<1> HIDE DEF n
<1> QED BY <1>1, <1>2, <1>3, <1>4 DEF Weight

LEMMA ProtectedReplaced ==
  ASSUME CallsType, CallsType', NEW o, NEW d, NEW f, Changes(d, f)
  PROVE  Protected(o)' = Protected(o) - Weight(Frm(d), o) + Weight(f, o)
<1> DEFINE n(F) == Cardinality(FramesIn(F))
<1>1. /\ n(HoldingF(o))' = n(HoldingF(o)) - Is(Frm(d), HoldingF(o)) + Is(f, HoldingF(o))
      /\ n(OldF(o))' = n(OldF(o)) - Is(Frm(d), OldF(o)) + Is(f, OldF(o))
      /\ n(NewF(o))' = n(NewF(o)) - Is(Frm(d), NewF(o)) + Is(f, NewF(o))
  BY CountReplaced
<1>2. Protected(o) = n(HoldingF(o)) + n(OldF(o)) + n(NewF(o))
  BY ProtectedIs
<1>3. Protected(o)' = n(HoldingF(o))' + n(OldF(o))' + n(NewF(o))'
  BY ProtectedSumsNext DEF ProtectedSum
<1>4. \A F : n(F) \in Nat /\ Is(Frm(d), F) \in {0, 1} /\ Is(f, F) \in {0, 1}
  BY InType DEF Is
<1> HIDE DEF n
<1> QED BY <1>1, <1>2, <1>3, <1>4 DEF Weight

Eq(x, y) == IF x = y THEN 1 ELSE 0

(* What a call weighs, from its fields. *)
LEMMA Weighs ==
  ASSUME NEW f \in Frame, NEW o
  PROVE  /\ Weight(f, o) \in Nat
         /\ f.op # "set" /\ f.pc \notin {"done", "bound"} => Weight(f, o) = 0
         /\ f.op # "set" /\ f.pc = "bound" => Weight(f, o) = Eq(f.old, o) + Eq(f.new, o)
         /\ f.op = "set" /\ f.pc = "bound" => Weight(f, o) = Eq(f.obj, o) + Eq(f.old, o) + Eq(f.new, o)
         /\ (f.op = "set" \/ f.pc = "done") /\ f.pc # "bound" => Weight(f, o) = Eq(f.obj, o)
<1>1. /\ Is(f, HoldingF(o)) = (IF f.op = "set" \/ f.pc = "done" THEN Eq(f.obj, o) ELSE 0)
      /\ Is(f, OldF(o)) = (IF f.pc = "bound" THEN Eq(f.old, o) ELSE 0)
      /\ Is(f, NewF(o)) = (IF f.pc = "bound" THEN Eq(f.new, o) ELSE 0)
  BY DEF Is, HoldingF, OldF, NewF, Eq
<1>2. \A x, y : Eq(x, y) \in {0, 1}
  BY DEF Eq
<1> QED BY <1>1, <1>2 DEF Weight

-----------------------------------------------------------------------------
(* The variables that hold a value.                                        *)

VarRec == [object : Values \cup {NULL}, bound : SUBSET Events, update : SUBSET Threads]

VarsType == alloc \in SUBSET Vars /\ var \in [Vars -> VarRec]

Holders(o) == {v \in alloc : var[v].object = o}

LEMMA HoldersType ==
  ASSUME VarsType, NEW o
  PROVE  /\ IsFiniteSet(Holders(o)) /\ Cardinality(Holders(o)) \in Nat
         /\ Cardinality(Holders(o)) = 0 <=> Holders(o) = {}
<1>1. IsFiniteSet(Holders(o))
  BY ParameterAssumption, FS_Subset DEF VarsType, Holders
<1> QED BY <1>1, FS_CardinalityType, FS_EmptySet

LEMMA HoldersAssigned ==
  ASSUME VarsType, NEW o, NEW v \in alloc, alloc' = alloc,
         \A w \in alloc : w # v => var'[w].object = var[w].object
  PROVE  Cardinality(Holders(o))' = Cardinality(Holders(o)) - Eq(var[v].object, o)
                                    + Eq(var'[v].object, o)
<1>1. IsFiniteSet(Holders(o)) /\ Cardinality(Holders(o)) \in Nat
  BY HoldersType
<1>2. CASE var[v].object = o /\ var'[v].object # o
  <2>1. v \in Holders(o) /\ Holders(o)' = Holders(o) \ {v}
    BY <1>2 DEF Holders
  <2> QED BY <1>1, <1>2, <2>1, CardDel DEF Eq
<1>3. CASE var[v].object # o /\ var'[v].object = o
  <2>1. v \notin Holders(o) /\ Holders(o)' = Holders(o) \cup {v}
    BY <1>3 DEF Holders
  <2> QED BY <1>1, <1>3, <2>1, CardAdd DEF Eq
<1>4. CASE var[v].object = o <=> var'[v].object = o
  <2>1. Holders(o)' = Holders(o)
    BY <1>4 DEF Holders
  <2> QED BY <1>1, <1>4, <2>1 DEF Eq
<1> QED BY <1>2, <1>3, <1>4

LEMMA HoldersMade ==
  ASSUME VarsType, NEW o, NEW v, v \notin alloc, alloc' = alloc \cup {v},
         \A w \in alloc : var'[w].object = var[w].object
  PROVE  Cardinality(Holders(o))' = Cardinality(Holders(o)) + Eq(var'[v].object, o)
<1>1. v \notin Holders(o) /\ IsFiniteSet(Holders(o)) /\ Cardinality(Holders(o)) \in Nat
  BY HoldersType DEF Holders
<1>2. CASE var'[v].object = o
  <2>1. Holders(o)' = Holders(o) \cup {v}
    BY <1>2 DEF Holders
  <2> QED BY <1>1, <1>2, <2>1, CardAdd DEF Eq
<1>3. CASE var'[v].object # o
  <2>1. Holders(o)' = Holders(o)
    BY <1>3 DEF Holders
  <2> QED BY <1>1, <1>3, <2>1 DEF Eq
<1> QED BY <1>2, <1>3

LEMMA HoldersDeleted ==
  ASSUME VarsType, NEW o, NEW v \in alloc, alloc' = alloc \ {v},
         \A w \in alloc' : var'[w].object = var[w].object
  PROVE  Cardinality(Holders(o))' = Cardinality(Holders(o)) - Eq(var[v].object, o)
<1>1. IsFiniteSet(Holders(o)) /\ Cardinality(Holders(o)) \in Nat
  BY HoldersType
<1>2. CASE var[v].object = o
  <2>1. v \in Holders(o) /\ Holders(o)' = Holders(o) \ {v}
    BY <1>2 DEF Holders
  <2> QED BY <1>1, <1>2, <2>1, CardDel DEF Eq
<1>3. CASE var[v].object # o
  <2>1. Holders(o)' = Holders(o)
    BY <1>3 DEF Holders
  <2> QED BY <1>1, <1>3, <2>1 DEF Eq
<1> QED BY <1>2, <1>3


-----------------------------------------------------------------------------
(* The fields of a call.                                                   *)

Ops  == {"value", "get", "set", "erase", "bind", "wait"}
Pcs  == {"found", "give", "given", "bound", "back", "value", "done", "asleep"}
Some == Values \cup {NULL}

LEMMA FrameFields ==
  ASSUME NEW f \in Frame
  PROVE  /\ f.op \in Ops /\ f.pc \in Pcs /\ f.key \in Keys \cup {NULL} /\ f.var \in Vars \cup {NULL}
         /\ f.obj \in Some /\ f.old \in Some /\ f.new \in Some /\ f.ret \in Some
BY DEF Frame, Ops, Pcs, Some

\* g is f but for pc; but for old, new and ret.
SameBut(f, g) == /\ g.op = f.op /\ g.key = f.key /\ g.var = f.var /\ g.obj = f.obj
                 /\ g.old = f.old /\ g.new = f.new /\ g.ret = f.ret
SameCall(f, g) == g.op = f.op /\ g.pc = f.pc /\ g.key = f.key /\ g.var = f.var /\ g.obj = f.obj

LEMMA SetPc ==
  ASSUME NEW f \in Frame, NEW pc \in Pcs
  PROVE  \E g \in Frame : g = [f EXCEPT !.pc = pc] /\ g.pc = pc /\ SameBut(f, g)
<1> DEFINE h == [f EXCEPT !.pc = pc]
<1>1. h \in Frame /\ h.pc = pc /\ SameBut(f, h)
  BY DEF Frame, Pcs, SameBut
<1> USE <1>1
<1> WITNESS h \in Frame
<1> QED OBVIOUS

LEMMA SetOld ==
  ASSUME NEW f \in Frame, NEW x \in Some
  PROVE  \E g \in Frame : /\ g = [f EXCEPT !.old = x] /\ SameCall(f, g)
                          /\ g.old = x /\ g.new = f.new /\ g.ret = f.ret
<1> DEFINE h == [f EXCEPT !.old = x]
<1>1. h \in Frame /\ SameCall(f, h) /\ h.old = x /\ h.new = f.new /\ h.ret = f.ret
  BY DEF Frame, Some, SameCall
<1> USE <1>1
<1> WITNESS h \in Frame
<1> QED OBVIOUS

WithInputs(f, x, y) == [f EXCEPT !.old = x, !.new = y]
WithOutput(f, r)    == [f EXCEPT !.old = NULL, !.new = NULL, !.ret = r]

LEMMA SetInputs ==
  ASSUME NEW f \in Frame, NEW x \in Some, NEW y \in Some
  PROVE  \E g \in Frame : /\ g = WithInputs(f, x, y) /\ SameCall(f, g)
                          /\ g.old = x /\ g.new = y /\ g.ret = f.ret
<1> DEFINE h == WithInputs(f, x, y)
<1>1. h \in Frame /\ SameCall(f, h) /\ h.old = x /\ h.new = y /\ h.ret = f.ret
  BY DEF Frame, Some, SameCall, WithInputs
<1> USE <1>1
<1> WITNESS h \in Frame
<1> QED OBVIOUS

LEMMA SetBack ==
  ASSUME NEW f \in Frame, NEW r \in Some
  PROVE  \E g \in Frame : /\ g = WithOutput(f, r) /\ SameCall(f, g)
                          /\ g.old = NULL /\ g.new = NULL /\ g.ret = r
<1> DEFINE h == WithOutput(f, r)
<1>1. h \in Frame /\ SameCall(f, h) /\ h.old = NULL /\ h.new = NULL /\ h.ret = r
  BY DEF Frame, Some, SameCall, WithOutput
<1> USE <1>1
<1> WITNESS h \in Frame
<1> QED OBVIOUS

LEMMA EnteredIs ==
  ASSUME NEW op \in Ops, NEW pc \in Pcs, NEW k \in Keys \cup {NULL}, NEW v \in Vars \cup {NULL},
         NEW o \in Some
  PROVE  \E f \in Frame : /\ f = Entered(op, pc, k, v, o)
                          /\ f.op = op /\ f.pc = pc /\ f.key = k /\ f.var = v /\ f.obj = o
                          /\ f.old = NULL /\ f.new = NULL /\ f.ret = NULL
<1> DEFINE h == Entered(op, pc, k, v, o)
<1>1. /\ h.op = op /\ h.pc = pc /\ h.key = k /\ h.var = v /\ h.obj = o
      /\ h.old = NULL /\ h.new = NULL /\ h.ret = NULL
  BY DEF Entered
<1>2. h \in Frame
  BY DEF Entered, Frame, Ops, Pcs, Some
<1> HIDE DEF h
<1> USE <1>1, <1>2
<1> WITNESS h \in Frame
<1> QED BY DEF h

-----------------------------------------------------------------------------
(* A step of the call d of thread t, after which it is g, if it is not over. *)

Moves(t, d, g) ==
  /\ \A u \in Threads : u # t => call'[u] = call[u]
  /\ d[1] = t /\ InProgress \ {d} = InProgress' \ {d}
  /\ \A c \in InProgress : c # d => Frm(c)' = Frm(c)
  /\ d \in InProgress' => Frm(d)' = g /\ d = <<t, Len(call'[t])>>

LEMMA Enters ==
  ASSUME CallsType, NEW t \in Threads, Len(call[t]) < MaxDepth, NEW f \in Frame, Pushes(t, f)
  PROVE  /\ CallsType'
         /\ \E d : /\ d \notin InProgress /\ d \in InProgress' /\ Moves(t, d, f)
                   /\ d = <<t, Len(call[t]) + 1>>
         /\ \A x : Protected(x)' = Protected(x) + Weight(f, x)
         /\ Len(call'[t]) = Len(call[t]) + 1
<1>1. CallsType'
  BY Pushed
<1>2. PICK d : d = <<t, Len(call[t]) + 1>> /\ Grows(d, f)
  BY Pushed
<1>3. Len(call'[t]) = Len(call[t]) + 1 /\ \A u \in Threads : u # t => call'[u] = call[u]
  BY DEF CallsType, Pushes
<1>4. Moves(t, d, f) /\ d \notin InProgress /\ d \in InProgress'
  BY <1>2, <1>3 DEF Grows, Moves
<1>5. \A x : Protected(x)' = Protected(x) + Weight(f, x)
  BY <1>1, <1>2, ProtectedPushed
<1> QED BY <1>1, <1>2, <1>3, <1>4, <1>5

LEMMA GoesOn ==
  ASSUME CallsType, NEW t \in Threads, call[t] # <<>>, NEW f \in Frame, NEW pc \in Pcs, Go(t, pc, f)
  PROVE  /\ CallsType'
         /\ \E g \in Frame, d \in InProgress :
              /\ g.pc = pc /\ SameBut(f, g)
              /\ d = <<t, Len(call[t])>> /\ Frm(d) = Top(t) /\ d \in InProgress' /\ Moves(t, d, g)
              /\ \A x : Protected(x)' = Protected(x) - Weight(Top(t), x) + Weight(g, x)
<1>1. PICK g \in Frame : g = [f EXCEPT !.pc = pc] /\ g.pc = pc /\ SameBut(f, g)
  BY SetPc
<1>2. Replace(t, g)
  BY <1>1 DEF Go, Replace
<1>3. CallsType' /\ Len(call'[t]) = Len(call[t])
  BY <1>2, Replaced
<1>4. PICK d : d = <<t, Len(call[t])>> /\ Frm(d) = Top(t) /\ Changes(d, g)
  BY <1>2, Replaced
<1>5. \A u \in Threads : u # t => call'[u] = call[u]
  BY <1>2 DEF Replace, CallsType
<1>6. d \in InProgress /\ d \in InProgress' /\ Moves(t, d, g)
  BY <1>3, <1>4, <1>5 DEF Changes, Moves
<1>7. \A x : Protected(x)' = Protected(x) - Weight(Frm(d), x) + Weight(g, x)
  BY <1>3, <1>4, ProtectedReplaced
<1>8. \A x : Protected(x)' = Protected(x) - Weight(Top(t), x) + Weight(g, x)
  BY <1>4, <1>7
<1> QED BY <1>1, <1>3, <1>4, <1>6, <1>8

LEMMA Returns ==
  ASSUME CallsType, NEW t \in Threads, call[t] # <<>>, Return(t)
  PROVE  /\ CallsType'
         /\ \E d \in InProgress :
              /\ d = <<t, Len(call[t])>> /\ Frm(d) = Top(t) /\ d \notin InProgress'
              /\ \A g : Moves(t, d, g)
         /\ \A x : Protected(x)' = Protected(x) - Weight(Top(t), x)
         /\ Len(call'[t]) = Len(call[t]) - 1
<1>1. CallsType' /\ Len(call'[t]) = Len(call[t]) - 1
  BY Popped DEF Return
<1>2. PICK d : d = <<t, Len(call[t])>> /\ Frm(d) = Top(t) /\ Shrinks(d)
  BY Popped DEF Return
<1>3. \A u \in Threads : u # t => call'[u] = call[u]
  BY DEF Return, CallsType
<1>4. d \in InProgress /\ d \notin InProgress' /\ \A g : Moves(t, d, g)
  BY <1>2, <1>3 DEF Shrinks, Moves
<1>5. \A x : Protected(x)' = Protected(x) - Weight(Frm(d), x)
  BY <1>1, <1>2, ProtectedPopped
<1>6. \A x : Protected(x)' = Protected(x) - Weight(Top(t), x)
  BY <1>2, <1>5
<1> QED BY <1>1, <1>2, <1>4, <1>6

LEMMA CallsSame ==
  ASSUME call' = call
  PROVE  /\ CallsType => CallsType'
         /\ InProgress' = InProgress /\ \A c : Frm(c)' = Frm(c)
         /\ \A x : Protected(x)' = Protected(x)
<1>1. InProgress' = InProgress /\ \A c : Frm(c)' = Frm(c)
  BY DEF InProgress, Frm
<1>2. ASSUME NEW x PROVE Protected(x)' = Protected(x)
  <2>1. Holding(x)' = Holding(x) /\ OldInput(x)' = OldInput(x) /\ NewInput(x)' = NewInput(x)
    BY <1>1 DEF Holding, OldInput, NewInput
  <2> QED BY <2>1 DEF Protected
<1>3. CallsType => CallsType'
  BY DEF CallsType
<1> QED BY <1>1, <1>2, <1>3

LEMMA HoldersSame ==
  ASSUME alloc' = alloc, \A w \in alloc : var'[w].object = var[w].object
  PROVE  \A x : Cardinality(Holders(x))' = Cardinality(Holders(x))
<1>1. \A x : Holders(x)' = Holders(x)
  BY DEF Holders
<1> QED BY <1>1

LEMMA MayCalls ==
  ASSUME CallsType, NEW t \in Threads, MayCall(t)
  PROVE  /\ Len(call[t]) < MaxDepth /\ fault = "none" /\ t \notin asleep
         /\ call[t] # <<>> => Top(t).pc \in {"bound", "done"}
<1>1. call[t] = <<>> => Len(call[t]) = 0
  OBVIOUS
<1> QED BY <1>1, Depth DEF MayCall

LEMMA FreshIs ==
  ASSUME CallsType
  PROVE  /\ \A o : FreshObj(o) => o \notin live
         /\ \A v : FreshVar(v) => v \notin alloc /\ \A c \in InProgress : Frm(c).var # v
BY Depth DEF FreshObj, FreshVar, InProgress, Frm, CallsType

-----------------------------------------------------------------------------
(* The invariant.                                                          *)

LockRec == [owner : Threads \cup {NULL}, count : Nat]

Plain ==
  /\ lock \in LockRec
  /\ entry \in [Keys -> Vars \cup {NULL}]
  /\ REF \in [Objs -> Nat] /\ live \subseteq Objs
  /\ asleep \subseteq Threads
  /\ marks \subseteq {"overlap", "reentry", "old", "get"}
  /\ fault \in {"none", "variable", "binding", "value", "unbound"}

ArgsType == args \in [Vars \X Events -> Given \cup {NULL}]

\* What a call knows at each of its points.
GoodFrame(f) ==
  /\ f.pc \in {"give", "given", "bound", "back"} =>
       f.op \in {"get", "set", "erase"} /\ f.key \in Keys /\ f.var \in Vars
  /\ f.pc = "found" => /\ f.op # "value" /\ f.key \in Keys /\ f.ret = NULL
                       /\ f.op # "set" => f.var \in Vars
  /\ f.var \in Vars => f.key \in Keys
  /\ f.pc = "give" => f.old \in Values
  /\ f.op = "set" => f.obj \in Values /\ f.pc # "done"

Linked(f) == f.var \in alloc => entry[f.key] = f.var

FramesGood == \A c \in InProgress : GoodFrame(Frm(c)) /\ Linked(Frm(c))

\* A call between the search for a name and what it does with the TVariable.
Locks(f) == f.op \in {"set", "erase"} /\ f.pc = "found"

Exclusive ==
  \A c \in InProgress : Locks(Frm(c)) =>
    /\ lock.owner \in Threads /\ c = <<lock.owner, Len(call[lock.owner])>>
    /\ entry[Frm(c).key] = Frm(c).var

\* The lock is taken only there, until a bound get returns.
LockExact ==
  "get" \notin marks =>
    IF lock.owner = NULL THEN lock.count = 0
    ELSE lock.count = 1 /\ call[lock.owner] # <<>> /\ Locks(Top(lock.owner))

LocksInv ==
  /\ lock.owner # NULL => lock.count > 0
  /\ Exclusive
  /\ LockExact

HasValue == \A v \in alloc : var[v].object \in Values

Total(o) == Cardinality(Holders(o)) + Protected(o)
Counts   == \A o \in Objs : REF[o] = Total(o) /\ (o \notin live => REF[o] = 0)

IInv == /\ Plain /\ VarsType /\ ArgsType /\ CallsType
        /\ EntriesExact /\ FramesGood /\ LocksInv /\ HasValue /\ Counts

LEMMA Constants == /\ Objs \subseteq Values /\ True \in Values /\ True \notin Objs /\ NULL \notin Values
                   /\ NULL \notin Vars /\ NULL \notin Threads /\ NULL \notin Keys
BY ParameterAssumption DEF Values

LEMMA InvInit == Init => IInv
<1> SUFFICES ASSUME Init PROVE IInv
  OBVIOUS
<1>1. call \in [Threads -> Seq(Frame)] /\ \A t \in Threads : Len(call[t]) = 0
  BY DEF Init
<1>2. CallsType
  BY <1>1, Depth DEF CallsType
<1>3. InProgress = {}
  BY <1>1, Depth DEF InProgress
<1>4. alloc = {} /\ VarsType
  <2>1. NoVar \in VarRec
    BY DEF NoVar, VarRec
  <2> QED BY <2>1 DEF Init, VarsType
<1>5. \A o : Holders(o) = {} /\ Holding(o) = {} /\ OldInput(o) = {} /\ NewInput(o) = {}
  BY <1>3, <1>4 DEF Holders, Holding, OldInput, NewInput
<1>6. \A o : Total(o) = 0
  BY <1>5, FS_EmptySet DEF Total, Protected
<1>7. EntriesExact
  BY DEF Init, EntriesExact
<1>8. LocksInv
  BY <1>3 DEF Init, LocksInv, Exclusive, LockExact
<1>9. Plain /\ ArgsType
  BY DEF Init, Plain, ArgsType, LockRec
<1> QED BY <1>2, <1>3, <1>4, <1>6, <1>7, <1>8, <1>9
        DEF Init, IInv, FramesGood, HasValue, Counts

-----------------------------------------------------------------------------
(* The counts.                                                             *)

(* What is held by a variable or counted by a call is alive, and has as many
   references as that. *)
LEMMA Alive ==
  ASSUME VarsType, CallsType, Counts, Plain
  PROVE  /\ \A o : Total(o) \in Nat /\ Cardinality(Holders(o)) \in Nat /\ Protected(o) \in Nat
         /\ \A v \in alloc : var[v].object \in Objs => var[v].object \in live /\ REF[var[v].object] > 0
         /\ \A o \in Objs : REF[o] \in Nat /\ REF[o] = Total(o)
         /\ \A o \in Objs, c \in InProgress :
              /\ Weight(Frm(c), o) \in Nat
              /\ Weight(Frm(c), o) > 0 => o \in live
              /\ REF[o] >= Weight(Frm(c), o)
              /\ \A v \in alloc : var[v].object = o => REF[o] >= Weight(Frm(c), o) + 1
<1>1. \A o : Total(o) \in Nat /\ Cardinality(Holders(o)) \in Nat /\ Protected(o) \in Nat
  BY HoldersType, ProtectedType DEF Total
<1>2. ASSUME NEW v \in alloc PROVE Cardinality(Holders(var[v].object)) > 0
  <2>1. v \in Holders(var[v].object)
    BY DEF Holders
  <2> QED BY <2>1, HoldersType
<1>3. ASSUME NEW v \in alloc, var[v].object \in Objs
      PROVE  var[v].object \in live /\ REF[var[v].object] > 0
  BY <1>1, <1>2, <1>3 DEF Counts, Total
<1>4. \A o \in Objs : REF[o] \in Nat /\ REF[o] = Total(o)
  BY <1>1 DEF Counts
<1>5. ASSUME NEW o \in Objs, NEW c \in InProgress
      PROVE  /\ Weight(Frm(c), o) \in Nat
             /\ Weight(Frm(c), o) > 0 => o \in live
             /\ REF[o] >= Weight(Frm(c), o)
             /\ \A v \in alloc : var[v].object = o => REF[o] >= Weight(Frm(c), o) + 1
  <2>1. Weight(Frm(c), o) \in Nat /\ Protected(o) >= Weight(Frm(c), o)
    BY ProtectedType
  <2>2. REF[o] >= Weight(Frm(c), o)
    BY <1>1, <1>4, <2>1 DEF Total
  <2>3. ASSUME NEW v \in alloc, var[v].object = o PROVE REF[o] >= Weight(Frm(c), o) + 1
    BY <1>1, <1>2, <1>4, <2>1, <2>3 DEF Total
  <2>4. Weight(Frm(c), o) > 0 => o \in live
    BY <2>1, <2>2 DEF Counts
  <2> QED BY <2>1, <2>2, <2>3, <2>4
<1> QED BY <1>1, <1>3, <1>4, <1>5

LEMMA AddRefIs ==
  ASSUME NEW R \in [Objs -> Nat], NEW o
  PROVE  AddRef(o, R) \in [Objs -> Nat] /\ \A x \in Objs : AddRef(o, R)[x] = R[x] + Eq(o, x)
BY DEF AddRef, Eq

LEMMA RemRefIs ==
  ASSUME NEW R \in [Objs -> Nat], NEW o
  PROVE  /\ RemRef(o, R) \in [Objs -> Nat]
         /\ \A x \in Objs : RemRef(o, R)[x] = IF o = x THEN Less1(R[x]) ELSE R[x]
         /\ \A x \in Objs : R[x] >= Eq(o, x) => RemRef(o, R)[x] = R[x] - Eq(o, x)
<1>1. \A n \in Nat : Less1(n) \in Nat /\ (n >= 1 => Less1(n) = n - 1)
  BY DEF Less1
<1>2. /\ RemRef(o, R) \in [Objs -> Nat]
      /\ \A x \in Objs : RemRef(o, R)[x] = IF o = x THEN Less1(R[x]) ELSE R[x]
  BY <1>1 DEF RemRef
<1> QED BY <1>1, <1>2 DEF Eq

LEMMA Assigned ==
  ASSUME VarsType, NEW v \in alloc, NEW new \in Values, NEW R \in [Objs -> Nat], Assign(v, new, R),
         alloc' = alloc
  PROVE  \E old :
         /\ old = var[v].object
         /\ VarsType' /\ REF' \in [Objs -> Nat]
         /\ var'[v].object = new
         /\ \A w \in alloc : w # v => var'[w] = var[w]
         /\ asleep' = asleep \ var[v].update
         /\ \A x \in Objs : R[x] >= Eq(old, x) => REF'[x] = R[x] - Eq(old, x)
         /\ live' = IF old \in Objs /\ REF'[old] = 0 THEN live \ {old} ELSE live
         /\ \A x : Cardinality(Holders(x))' = Cardinality(Holders(x)) - Eq(old, x) + Eq(new, x)
<1>1. PICK old : old = var[v].object
  OBVIOUS
<1>2. /\ live' = Survivors(old, REF')
      /\ REF' = RemRef(old, R)
      /\ var' = [var EXCEPT ![v].object = new, ![v].update = {}]
      /\ asleep' = asleep \ var[v].update
  BY <1>1 DEF Assign
<1>3. v \in Vars /\ var[v] \in VarRec
  BY DEF VarsType
<1>4. PICK r \in VarRec : r = [var[v] EXCEPT !.object = new, !.update = {}] /\ r.object = new
  <2> DEFINE q == [var[v] EXCEPT !.object = new, !.update = {}]
  <2>1. q \in VarRec /\ q.object = new
    BY <1>3 DEF VarRec
  <2> QED BY <2>1
<1>5. var' = [var EXCEPT ![v] = r]
  BY <1>2, <1>3, <1>4 DEF VarsType
<1>6. VarsType' /\ var'[v] = r /\ \A w \in alloc : w # v => var'[w] = var[w]
  BY <1>3, <1>5 DEF VarsType
<1>7. REF' \in [Objs -> Nat] /\ \A x \in Objs : R[x] >= Eq(old, x) => REF'[x] = R[x] - Eq(old, x)
  BY <1>2, RemRefIs
<1>8. live' = IF old \in Objs /\ REF'[old] = 0 THEN live \ {old} ELSE live
  BY <1>2 DEF Survivors
<1>9. \A x : Cardinality(Holders(x))' = Cardinality(Holders(x)) - Eq(old, x) + Eq(new, x)
  BY <1>1, <1>4, <1>6, HoldersAssigned
<1> QED BY <1>1, <1>2, <1>4, <1>6, <1>7, <1>8, <1>9

(* A deleted TVariable. *)
LEMMA Deleted ==
  ASSUME IInv, NEW v \in alloc, NEW k \in Keys, entry[k] = v, Delete(k, v)
  PROVE  /\ VarsType' /\ ArgsType' /\ EntriesExact' /\ HasValue'
         /\ REF' \in [Objs -> Nat] /\ live' \subseteq live
         /\ alloc' = alloc \ {v}
         /\ entry' \in [Keys -> Vars \cup {NULL}] /\ \A j \in Keys : j # k => entry'[j] = entry[j]
         /\ \A x \in Objs : REF'[x] = REF[x] - Eq(var[v].object, x)
         /\ \A x \in live : x \notin live' => REF'[x] = 0
         /\ \A x : Cardinality(Holders(x))' = Cardinality(Holders(x)) - Eq(var[v].object, x)
<1> USE DEF IInv
<1>1. PICK old : old = var[v].object
  OBVIOUS
<1>2. /\ REF' = RemRef(old, REF) /\ live' = Survivors(old, REF')
      /\ alloc' = alloc \ {v} /\ var' = [var EXCEPT ![v] = NoVar]
      /\ args' = [n \in Vars \X Events |-> IF n[1] = v THEN NULL ELSE args[n]]
      /\ entry' = [entry EXCEPT ![k] = NULL]
  BY <1>1 DEF Delete
<1>3. v \in Vars /\ NoVar \in VarRec
  BY DEF VarsType, NoVar, VarRec
<1>4. VarsType' /\ \A w \in alloc' : var'[w] = var[w]
  BY <1>2, <1>3 DEF VarsType
<1>5. ArgsType'
  BY <1>2 DEF ArgsType
<1>6. entry' \in [Keys -> Vars \cup {NULL}] /\ entry'[k] = NULL
      /\ \A j \in Keys : j # k => entry'[j] = entry[j]
  BY <1>2 DEF Plain
<1>7. EntriesExact'
  BY <1>2, <1>3, <1>6, Constants DEF EntriesExact
<1>8. HasValue'
  BY <1>2, <1>4 DEF HasValue
<1>9. REF' \in [Objs -> Nat] /\ \A x \in Objs : REF[x] >= Eq(old, x) => REF'[x] = REF[x] - Eq(old, x)
  BY <1>2, RemRefIs DEF Plain
<1>10. \A x \in Objs : REF[x] >= Eq(old, x)
  BY <1>1, Alive DEF Eq
<1>11. live' \subseteq live /\ \A x \in live : x \notin live' => REF'[x] = 0
  BY <1>2 DEF Survivors
<1>12. \A x : Cardinality(Holders(x))' = Cardinality(Holders(x)) - Eq(var[v].object, x)
  BY <1>2, <1>4, HoldersDeleted
<1> QED BY <1>1, <1>2, <1>4, <1>5, <1>6, <1>7, <1>8, <1>9, <1>10, <1>11, <1>12

-----------------------------------------------------------------------------
(* What a step of a call keeps.                                            *)

LEMMA TopGood ==
  ASSUME CallsType, FramesGood, NEW t \in Threads, call[t] # <<>>
  PROVE  \E f \in Frame, c \in InProgress :
           f = Top(t) /\ c = <<t, Len(call[t])>> /\ Frm(c) = f /\ GoodFrame(f) /\ Linked(f)
BY TopIs DEF FramesGood

LEMMA FramesMoved ==
  ASSUME FramesGood, NEW t, NEW d, NEW g, Moves(t, d, g),
         d \in InProgress' => GoodFrame(g) /\ (g.var \in alloc' => entry'[g.key] = g.var),
         \A c \in InProgress : c # d /\ Frm(c).var \in alloc' =>
           Frm(c).var \in alloc /\ entry'[Frm(c).key] = entry[Frm(c).key]
  PROVE  FramesGood'
<1>1. ASSUME NEW c \in InProgress', c # d PROVE (GoodFrame(Frm(c)) /\ Linked(Frm(c)))'
  <2>1. c \in InProgress /\ Frm(c)' = Frm(c)
    BY <1>1 DEF Moves
  <2>2. GoodFrame(Frm(c)) /\ Linked(Frm(c))
    BY <2>1 DEF FramesGood
  <2>3. Linked(Frm(c))'
    BY <1>1, <2>1, <2>2 DEF Linked
  <2> QED BY <2>1, <2>2, <2>3 DEF GoodFrame
<1>2. ASSUME d \in InProgress' PROVE (GoodFrame(Frm(d)) /\ Linked(Frm(d)))'
  BY <1>2 DEF Moves, Linked, GoodFrame
<1> QED BY <1>1, <1>2 DEF FramesGood

\* The thread t is not between a search and what follows it.
Outside(t) == call[t] = <<>> \/ ~Locks(Top(t))

LEMMA OnlyTopsLock ==
  ASSUME CallsType, Exclusive, NEW c \in InProgress, Locks(Frm(c))
  PROVE  lock.owner = c[1] /\ c[1] \in Threads /\ ~Outside(c[1]) /\ c = <<c[1], Len(call[c[1]])>>
<1>1. lock.owner \in Threads /\ c = <<lock.owner, Len(call[lock.owner])>>
  BY DEF Exclusive
<1>2. c[1] = lock.owner /\ call[c[1]] # <<>>
  BY <1>1, Depth DEF InProgress, CallsType
<1>3. Frm(c) = Top(c[1])
  BY <1>1, <1>2, TopIs
<1> QED BY <1>1, <1>2, <1>3 DEF Outside

(* Who can take the lock while it is outside is alone in the map. *)
LEMMA Alone ==
  ASSUME CallsType, Exclusive, NEW t \in Threads, CanLock(t), Outside(t)
  PROVE  \A c \in InProgress : ~Locks(Frm(c))
<1> SUFFICES ASSUME NEW c \in InProgress, Locks(Frm(c)) PROVE FALSE
  OBVIOUS
<1> QED BY OnlyTopsLock, Constants DEF CanLock

(* And so is who is between a search and what follows it. *)
LEMMA Mine ==
  ASSUME CallsType, Exclusive, NEW t \in Threads, ~Outside(t)
  PROVE  /\ lock.owner = t /\ entry[Top(t).key] = Top(t).var
         /\ \A c \in InProgress : c # <<t, Len(call[t])>> => ~Locks(Frm(c))
<1>1. /\ <<t, Len(call[t])>> \in InProgress /\ Frm(<<t, Len(call[t])>>) = Top(t) /\ Locks(Top(t))
  BY TopIs DEF Outside
<1>2. lock.owner = t /\ entry[Top(t).key] = Top(t).var
  BY <1>1, OnlyTopsLock DEF Exclusive
<1>3. \A c \in InProgress : Locks(Frm(c)) => c = <<t, Len(call[t])>>
  BY <1>2, OnlyTopsLock
<1> QED BY <1>2, <1>3

LEMMA ExactStays ==
  ASSUME LockExact, lock' = lock, marks \subseteq marks', NEW t \in Threads, Outside(t), Plain,
         \A u \in Threads : u # t => call'[u] = call[u]
  PROVE  LockExact'
<1> SUFFICES ASSUME "get" \notin marks', lock.owner # NULL
             PROVE  (lock.count = 1 /\ call[lock.owner] # <<>> /\ Locks(Top(lock.owner)))'
  BY DEF LockExact
<1>1. lock.count = 1 /\ call[lock.owner] # <<>> /\ Locks(Top(lock.owner))
  BY DEF LockExact
<1>2. lock.owner \in Threads /\ lock.owner # t
  BY <1>1 DEF Plain, LockRec, Outside
<1> QED BY <1>1, <1>2 DEF Top, Locks

LEMMA LockKept ==
  ASSUME IInv, CallsType', NEW t \in Threads, NEW d, NEW g, Moves(t, d, g),
         d \in InProgress' => ~Locks(g), Outside(t),
         UNCHANGED <<lock, entry>>, marks \subseteq marks'
  PROVE  LocksInv'
<1> USE DEF IInv, LocksInv
<1>1. LockExact'
  BY ExactStays DEF Moves
<1>2. ASSUME NEW c \in InProgress', Locks(Frm(c))'
      PROVE  (/\ lock.owner \in Threads /\ c = <<lock.owner, Len(call[lock.owner])>>
              /\ entry[Frm(c).key] = Frm(c).var)'
  <2>1. c \in InProgress /\ Frm(c)' = Frm(c)
    BY <1>2 DEF Moves, Locks
  <2>2. Locks(Frm(c))
    BY <1>2, <2>1 DEF Locks
  <2>3. lock.owner \in Threads /\ c = <<lock.owner, Len(call[lock.owner])>>
        /\ entry[Frm(c).key] = Frm(c).var
    BY <2>1, <2>2 DEF Exclusive
  <2>4. lock.owner # t
    BY <2>1, <2>2, <2>3, OnlyTopsLock
  <2> QED BY <2>1, <2>3, <2>4 DEF Moves
<1>3. Exclusive'
  BY <1>2 DEF Exclusive
<1> QED BY <1>1, <1>3

(* Nobody is between a search and what follows it after the step: the lock may be
   kept, be given up or be taken once more by a bound get. *)
LEMMA LockLeft ==
  ASSUME IInv, CallsType', NEW t \in Threads, NEW d, NEW g, Moves(t, d, g),
         d \in InProgress' => ~Locks(g),
         \A c \in InProgress : c # d => ~Locks(Frm(c)),
         marks \subseteq marks', lock' \in LockRec, lock'.owner # NULL => lock'.count > 0,
         "get" \in marks' \/ (lock' = lock /\ Outside(t)) \/ lock' = [owner |-> NULL, count |-> 0]
  PROVE  LocksInv'
<1> USE DEF IInv, LocksInv
<1>1. \A c \in InProgress' : ~Locks(Frm(c))'
  <2> TAKE c \in InProgress'
  <2>1. CASE c = d
    BY <2>1 DEF Moves, Locks
  <2>2. CASE c # d
    BY <2>2 DEF Moves, Locks
  <2> QED BY <2>1, <2>2
<1>2. Exclusive'
  BY <1>1 DEF Exclusive
<1>3. LockExact'
  <2>1. CASE "get" \in marks'
    BY <2>1 DEF LockExact
  <2>2. CASE lock' = lock /\ Outside(t)
    BY <2>2, ExactStays DEF Moves
  <2>3. CASE lock' = [owner |-> NULL, count |-> 0]
    BY <2>3 DEF LockExact
  <2> QED BY <2>1, <2>2, <2>3
<1> QED BY <1>2, <1>3

LEMMA LockTaken ==
  ASSUME IInv, CallsType', NEW t \in Threads, NEW d, NEW g, Moves(t, d, g),
         d \in InProgress', Locks(g), entry[g.key] = g.var, entry' = entry,
         CanLock(t), Outside(t), lock' = Locked(t), marks \subseteq marks'
  PROVE  LocksInv' /\ lock' \in LockRec
<1> USE DEF IInv, LocksInv
<1>1. lock.owner \in Threads \cup {NULL} /\ lock.count \in Nat
  BY DEF Plain, LockRec
<1>2. lock' \in LockRec /\ lock'.owner = t /\ lock'.count = lock.count + 1
  BY <1>1 DEF Locked, LockRec
<1>3. d = <<t, Len(call'[t])>> /\ Frm(d)' = g
  BY DEF Moves
<1>4. \A c \in InProgress' : c # d => ~Locks(Frm(c))'
  <2>1. \A c \in InProgress : ~Locks(Frm(c))
    BY Alone
  <2> QED BY <2>1 DEF Moves, Locks
<1>5. Exclusive'
  BY <1>2, <1>3, <1>4 DEF Exclusive
<1>6. CASE "get" \in marks'
  BY <1>1, <1>2, <1>5, <1>6 DEF LockExact
<1>7. CASE "get" \notin marks'
  <2>1. lock.owner # t
    BY <1>7, Constants DEF LockExact, Outside
  <2>2. lock.owner = NULL /\ lock.count = 0
    BY <1>7, <2>1 DEF CanLock, LockExact
  <2>3. call'[t] # <<>> /\ Top(t)' = g
    <3>1. Len(call'[t]) > 0
      BY <1>3, Depth DEF InProgress, CallsType
    <3>2. Frm(d)' = Top(t)'
      BY <1>3 DEF Frm, Top
    <3>3. call'[t] # <<>>
      BY <3>1
    <3> QED BY <1>3, <3>2, <3>3
  <2>4. LockExact'
    <3>1. lock'.count = 1 /\ lock'.owner # NULL
      BY <1>2, <2>2, Constants
    <3>2. call'[lock'.owner] # <<>> /\ Top(lock.owner)' = g
      BY <1>2, <2>3 DEF Top
    <3>3. Locks(Top(lock.owner))'
      BY <3>2 DEF Locks
    <3> QED BY <3>1, <3>2, <3>3 DEF LockExact
  <2> QED BY <1>1, <1>2, <1>5, <2>4
<1> QED BY <1>6, <1>7

(* What follows the search gives the lock up. *)
LEMMA LockGiven ==
  ASSUME IInv, CallsType', NEW t \in Threads, NEW d, NEW g, Moves(t, d, g), ~Outside(t),
         d = <<t, Len(call[t])>>, d \in InProgress' => ~Locks(g),
         lock' = Unlocked(t), marks \subseteq marks'
  PROVE  LocksInv' /\ lock' \in LockRec
<1> USE DEF IInv, LocksInv
<1>1. lock.owner = t /\ \A c \in InProgress : c # d => ~Locks(Frm(c))
  BY Mine
<1>2. lock.count \in Nat /\ lock.count > 0 /\ ("get" \notin marks => lock.count = 1)
  BY <1>1, Constants DEF Plain, LockRec, LockExact
<1>3. lock' \in LockRec /\ (lock'.owner # NULL => lock'.count > 0)
      /\ ("get" \notin marks => lock' = [owner |-> NULL, count |-> 0])
  BY <1>1, <1>2 DEF Unlocked, LockRec
<1>4. "get" \in marks' \/ lock' = [owner |-> NULL, count |-> 0]
  BY <1>3
<1> QED BY <1>1, <1>3, <1>4, LockLeft

(* ExecBinding's Unlock under Get. *)
LEMMA LockDropped ==
  ASSUME IInv, CallsType', NEW t \in Threads, NEW d, NEW g, Moves(t, d, g), Outside(t),
         d \in InProgress' => ~Locks(g),
         lock' = Unlocked(t), entry' = entry, marks \subseteq marks'
  PROVE  LocksInv' /\ lock' \in LockRec
<1> USE DEF IInv, LocksInv
<1>1. CASE lock.owner # t
  <2>1. lock' = lock
    BY <1>1 DEF Unlocked
  <2> QED BY <2>1, LockKept DEF Plain
<1>2. CASE lock.owner = t
  <2>1. \A c \in InProgress : ~Locks(Frm(c))
    BY <1>2, Alone DEF CanLock
  <2>2. lock.count \in Nat /\ lock.count > 0 /\ "get" \in marks
    BY <1>2, Constants DEF Plain, LockRec, LockExact, Outside
  <2>3. lock' \in LockRec /\ (lock'.owner # NULL => lock'.count > 0)
    BY <1>2, <2>2 DEF Unlocked, LockRec
  <2> QED BY <2>1, <2>2, <2>3, LockLeft
<1> QED BY <1>1, <1>2

\* The names, the TVariables and their values stay.
Steady == /\ UNCHANGED <<entry, alloc>> /\ VarsType'
          /\ \A v \in alloc : var'[v].object = var[v].object

LEMMA VarsSame == IInv /\ UNCHANGED <<entry, var, alloc>> => Steady
BY DEF IInv, VarsType, Steady

LEMMA SteadyKeeps ==
  ASSUME IInv, Steady
  PROVE  VarsType' /\ EntriesExact' /\ HasValue' /\ \A x : Cardinality(Holders(x))' = Cardinality(Holders(x))
<1> USE DEF Steady
<1>1. VarsType' /\ HasValue'
  BY DEF IInv, HasValue
<1>2. EntriesExact'
  BY DEF IInv, EntriesExact
<1>3. \A x : Cardinality(Holders(x))' = Cardinality(Holders(x))
  BY HoldersSame
<1> QED BY <1>1, <1>2, <1>3

ProtectedNatural == \A o : Protected(o) \in Nat

LEMMA ProtectedNaturals == CallsType => ProtectedNatural
BY ProtectedType DEF ProtectedNatural

LEMMA ProtectedNaturalNext == CallsType' => ProtectedNatural'
BY ProtectedNaturals, PTL

HoldersNatural == \A o : Cardinality(Holders(o)) \in Nat

LEMMA HoldersNaturals == VarsType => HoldersNatural
BY HoldersType DEF HoldersNatural

LEMMA HoldersNaturalNext == VarsType' => HoldersNatural'
BY HoldersNaturals, PTL

(* A step that changes no name and no variable: the counts follow the call. *)
LEMMA CallStep ==
  ASSUME IInv, Steady, Plain', ArgsType', LocksInv', CallsType',
         NEW t, NEW d, NEW g, Moves(t, d, g),
         d \in InProgress' => GoodFrame(g) /\ (g.var \in alloc => entry[g.key] = g.var),
         \A x \in Objs : REF'[x] - REF[x] = Protected(x)' - Protected(x),
         \A x \in Objs : x \notin live' => REF'[x] = 0
  PROVE  IInv'
<1>1. VarsType' /\ EntriesExact' /\ HasValue' /\ \A x : Cardinality(Holders(x))' = Cardinality(Holders(x))
  BY SteadyKeeps
<1>2. FramesGood'
  BY FramesMoved DEF IInv, Steady
<1>3. ASSUME NEW x \in Objs PROVE (REF[x] = Total(x) /\ (x \notin live => REF[x] = 0))'
  <2>1. Total(x) = Cardinality(Holders(x)) + Protected(x) /\ Total(x)' = Cardinality(Holders(x))' + Protected(x)'
    BY DEF Total
  <2>2. REF[x] = Total(x) /\ REF[x] \in Nat /\ Cardinality(Holders(x)) \in Nat /\ Protected(x) \in Nat
    BY Alive DEF IInv
  <2>3. Protected(x)' \in Nat /\ REF'[x] \in Nat
    BY ProtectedNaturalNext DEF ProtectedNatural, Plain
  <2> QED BY <1>1, <2>1, <2>2, <2>3
<1>4. Counts'
  BY <1>3 DEF Counts
<1> QED BY <1>1, <1>2, <1>4 DEF IInv

\* What a step does to the lock, when it enters no search.
LockUse(t) ==
  \/ lock' = lock /\ Outside(t)
  \/ lock' = Unlocked(t)
  \/ lock' = Locked(t) /\ CanLock(t) /\ Outside(t) /\ "get" \in marks'

LEMMA LockMoves ==
  ASSUME IInv, CallsType', NEW t \in Threads, NEW d, NEW g, Moves(t, d, g),
         d = <<t, Len(call[t])>>, d \in InProgress' => ~Locks(g),
         LockUse(t), entry' = entry, marks \subseteq marks'
  PROVE  LocksInv' /\ lock' \in LockRec
<1>1. CASE lock' = lock /\ Outside(t)
  BY <1>1, LockKept DEF IInv, Plain
<1>2. CASE lock' = Unlocked(t)
  BY <1>2, LockGiven, LockDropped
<1>3. CASE lock' = Locked(t) /\ CanLock(t) /\ Outside(t) /\ "get" \in marks'
  <2>1. \A c \in InProgress : ~Locks(Frm(c))
    BY <1>3, Alone DEF IInv, LocksInv
  <2>2. lock' \in LockRec /\ lock'.count > 0
    BY <1>3 DEF IInv, Plain, LockRec, Locked
  <2> QED BY <1>3, <2>1, <2>2, LockLeft
<1> QED BY <1>1, <1>2, <1>3 DEF LockUse

\* The types of what is left.
Typed ==
  /\ REF' \in [Objs -> Nat] /\ live' \subseteq Objs
  /\ asleep' \subseteq Threads
  /\ marks \subseteq marks' /\ marks' \subseteq {"overlap", "reentry", "old", "get"}
  /\ fault' \in {"none", "variable", "binding", "value", "unbound"}
  /\ ArgsType'

LEMMA GoStep ==
  ASSUME IInv, NEW t \in Threads, call[t] # <<>>, NEW f \in Frame, NEW pc \in Pcs \ {"found"},
         Go(t, pc, f), Steady, Typed, LockUse(t),
         \A g \in Frame : g.pc = pc /\ SameBut(f, g) =>
           /\ GoodFrame(g) /\ Linked(g)
           /\ \A x \in Objs : REF'[x] = REF[x] - Weight(Top(t), x) + Weight(g, x),
         \A x \in Objs : x \notin live' => REF'[x] = 0
  PROVE  IInv'
<1>1. CallsType' /\ \E g \in Frame, d \in InProgress :
        /\ g.pc = pc /\ SameBut(f, g)
        /\ d = <<t, Len(call[t])>> /\ Frm(d) = Top(t) /\ d \in InProgress' /\ Moves(t, d, g)
        /\ \A x : Protected(x)' = Protected(x) - Weight(Top(t), x) + Weight(g, x)
  BY GoesOn DEF IInv
<1>2. PICK g \in Frame, d \in InProgress :
        /\ g.pc = pc /\ SameBut(f, g)
        /\ d = <<t, Len(call[t])>> /\ Frm(d) = Top(t) /\ d \in InProgress' /\ Moves(t, d, g)
        /\ \A x : Protected(x)' = Protected(x) - Weight(Top(t), x) + Weight(g, x)
  BY <1>1
<1>3. /\ GoodFrame(g) /\ Linked(g)
      /\ \A x \in Objs : REF'[x] = REF[x] - Weight(Top(t), x) + Weight(g, x)
  BY <1>2
<1>4. LocksInv' /\ lock' \in LockRec
  BY <1>1, <1>2, LockMoves DEF Steady, Typed, Locks
<1>5. Plain' /\ ArgsType'
  BY <1>4 DEF IInv, Plain, Typed, Steady
<1>6. ASSUME NEW x \in Objs PROVE REF'[x] - REF[x] = Protected(x)' - Protected(x)
  <2>1. REF[x] \in Nat /\ Protected(x) \in Nat
    BY Alive DEF IInv
  <2>2. Weight(Top(t), x) \in Nat /\ Weight(g, x) \in Nat
    BY Weighs, TopIs DEF IInv
  <2>3. Protected(x)' = Protected(x) - Weight(Top(t), x) + Weight(g, x)
    BY <1>2
  <2> QED BY <1>3, <2>1, <2>2, <2>3
<1> QED BY <1>1, <1>2, <1>3, <1>4, <1>5, <1>6, CallStep DEF Linked

LEMMA ReturnStep ==
  ASSUME IInv, NEW t \in Threads, call[t] # <<>>, Return(t), Steady, Typed, LockUse(t),
         \A x \in Objs : REF'[x] = REF[x] - Weight(Top(t), x),
         \A x \in Objs : x \notin live' => REF'[x] = 0
  PROVE  IInv'
<1>1. CallsType' /\ \A x : Protected(x)' = Protected(x) - Weight(Top(t), x)
  BY Returns DEF IInv
<1>2. PICK d \in InProgress :
        d = <<t, Len(call[t])>> /\ Frm(d) = Top(t) /\ d \notin InProgress' /\ \A g : Moves(t, d, g)
  BY Returns DEF IInv
<1>3. PICK g : g = Top(t)
  OBVIOUS
<1>4. LocksInv' /\ lock' \in LockRec
  BY <1>1, <1>2, <1>3, LockMoves DEF Steady, Typed
<1>5. Plain' /\ ArgsType'
  BY <1>4 DEF IInv, Plain, Typed, Steady
<1>6. ASSUME NEW x \in Objs PROVE REF'[x] - REF[x] = Protected(x)' - Protected(x)
  <2>1. REF[x] \in Nat /\ Protected(x) \in Nat
    BY Alive DEF IInv
  <2>2. Weight(Top(t), x) \in Nat
    BY Weighs, TopIs DEF IInv
  <2>3. Protected(x)' = Protected(x) - Weight(Top(t), x)
    BY <1>1
  <2> QED BY <2>1, <2>2, <2>3
<1>7. Moves(t, d, g)
  BY <1>2
<1> QED BY <1>1, <1>2, <1>4, <1>5, <1>6, <1>7, CallStep

LEMMA EnterStep ==
  ASSUME IInv, NEW t \in Threads, MayCall(t), NEW f \in Frame, Push(t, f), Steady, Typed,
         GoodFrame(f), Linked(f),
         \/ lock' = lock /\ ~Locks(f)
         \/ lock' = Locked(t) /\ CanLock(t) /\ Locks(f) /\ entry[f.key] = f.var,
         \A x \in Objs : REF'[x] = REF[x] + Weight(f, x),
         \A x \in Objs : x \notin live' => REF'[x] = 0
  PROVE  IInv'
<1>1. Len(call[t]) < MaxDepth /\ Outside(t)
  BY MayCalls DEF IInv, Outside, Locks
<1>2. CallsType' /\ \A x : Protected(x)' = Protected(x) + Weight(f, x)
  BY <1>1, Enters DEF IInv, Push, Pushes
<1>3. PICK d : /\ d \notin InProgress /\ d \in InProgress' /\ Moves(t, d, f)
               /\ d = <<t, Len(call[t]) + 1>>
  BY <1>1, Enters DEF IInv, Push, Pushes
<1>4. LocksInv' /\ lock' \in LockRec
  <2>1. CASE lock' = lock /\ ~Locks(f)
    BY <1>1, <1>2, <1>3, <2>1, LockKept DEF Steady, Typed, IInv, Plain
  <2>2. CASE lock' = Locked(t) /\ CanLock(t) /\ Locks(f) /\ entry[f.key] = f.var
    BY <1>1, <1>2, <1>3, <2>2, LockTaken DEF Steady, Typed
  <2> QED BY <2>1, <2>2
<1>5. Plain' /\ ArgsType'
  BY <1>4 DEF IInv, Plain, Typed, Steady
<1>6. ASSUME NEW x \in Objs PROVE REF'[x] - REF[x] = Protected(x)' - Protected(x)
  <2>1. REF[x] \in Nat /\ Protected(x) \in Nat
    BY Alive DEF IInv
  <2>2. Weight(f, x) \in Nat
    BY Weighs
  <2>3. Protected(x)' = Protected(x) + Weight(f, x)
    BY <1>2
  <2> QED BY <2>1, <2>2, <2>3
<1> QED BY <1>2, <1>3, <1>4, <1>5, <1>6, CallStep DEF Linked

LEMMA FaultInv ==
  ASSUME IInv, NEW what \in {"variable", "binding", "value", "unbound"}, Fault(what)
  PROVE  IInv'
<1> USE DEF IInv
<1>1. UNCHANGED <<lock, entry, var, alloc, args, REF, live, call, asleep, marks>> /\ fault' = what
  BY DEF Fault
<1>2. /\ CallsType' /\ InProgress' = InProgress /\ \A c : Frm(c)' = Frm(c)
      /\ \A x : Protected(x)' = Protected(x)
  BY <1>1, CallsSame
<1>3. Plain' /\ ArgsType'
  BY <1>1 DEF Plain, ArgsType
<1>4. VarsType' /\ EntriesExact' /\ HasValue' /\ \A x : Cardinality(Holders(x))' = Cardinality(Holders(x))
  BY <1>1, VarsSame, SteadyKeeps
<1>5. FramesGood'
  BY <1>1, <1>2 DEF FramesGood, GoodFrame, Linked
<1>6. LocksInv'
  BY <1>1, <1>2 DEF LocksInv, Exclusive, LockExact, Locks, Top
<1>7. Counts'
  BY <1>1, <1>2, <1>4 DEF Counts, Total
<1> QED BY <1>2, <1>3, <1>4, <1>5, <1>6, <1>7

-----------------------------------------------------------------------------
(* A statement: its values, what it looks up, and its end.                 *)

LEMMA PushIs ==
  ASSUME IInv, NEW t \in Threads, NEW f, Push(t, f)
  PROVE  marks \subseteq marks' /\ marks' \subseteq {"overlap", "reentry", "old", "get"}
BY DEF IInv, Plain, Push, MarkIf

LEMMA ComputeInv ==
  ASSUME IInv, NEW t \in Threads, NEW o \in Objs, Compute(t, o)
  PROVE  IInv'
<1> USE DEF IInv
<1>1. /\ MayCall(t) /\ FreshObj(o) /\ Push(t, Entered("value", "done", NULL, NULL, o))
      /\ REF' = AddRef(o, REF) /\ live' = live \cup {o}
      /\ UNCHANGED <<lock, entry, var, alloc, args, asleep, fault>>
  BY DEF Compute
<1>2. PICK f \in Frame : /\ f = Entered("value", "done", NULL, NULL, o)
                         /\ f.op = "value" /\ f.pc = "done" /\ f.key = NULL /\ f.var = NULL /\ f.obj = o
                         /\ f.old = NULL /\ f.new = NULL /\ f.ret = NULL
  BY EnteredIs, Constants DEF Ops, Pcs, Some
<1>3. Push(t, f)
  BY <1>1, <1>2
<1>4. REF' \in [Objs -> Nat] /\ \A x \in Objs : REF'[x] = REF[x] + Eq(o, x)
  BY <1>1, AddRefIs DEF Plain
<1>5. \A x \in Objs : x \notin live' => REF'[x] = 0
  BY <1>1, <1>4 DEF Counts, Eq
<1>6. \A x \in Objs : REF'[x] = REF[x] + Weight(f, x)
  BY <1>2, <1>4, Weighs
<1>7. GoodFrame(f) /\ Linked(f) /\ ~Locks(f)
  BY <1>2, Constants DEF GoodFrame, Linked, Locks, VarsType
<1>8. Steady
  BY <1>1, VarsSame
<1>9. Typed
  BY <1>1, <1>3, <1>4, PushIs DEF Typed, Plain, ArgsType
<1> QED BY <1>1, <1>3, <1>5, <1>6, <1>7, <1>8, <1>9, EnterStep

LEMMA LooksUp ==
  ASSUME IInv, NEW t \in Threads, NEW k \in Keys, MayCall(t), entry[k] # NULL,
         NEW op \in {"get", "erase", "bind", "wait"}, Enter(t, op, "found", k, NULL),
         UNCHANGED <<entry, var, alloc, args, REF, live, asleep, fault>>,
         IF op = "erase" THEN CanLock(t) /\ lock' = Locked(t) ELSE lock' = lock
  PROVE  IInv'
<1> USE DEF IInv
<1>1. entry[k] \in Vars
  BY DEF Plain
<1>2. PICK f \in Frame : /\ f = Entered(op, "found", k, entry[k], NULL)
                         /\ f.op = op /\ f.pc = "found" /\ f.key = k /\ f.var = entry[k] /\ f.obj = NULL
                         /\ f.old = NULL /\ f.new = NULL /\ f.ret = NULL
  BY <1>1, EnteredIs DEF Ops, Pcs, Some
<1>3. Push(t, f)
  BY <1>2 DEF Enter
<1>4. \A x \in Objs : REF'[x] = REF[x] + Weight(f, x)
  <2>1. \A x : Weight(f, x) = 0
    BY <1>2, Weighs
  <2> QED BY <2>1 DEF Plain
<1>5. \A x \in Objs : x \notin live' => REF'[x] = 0
  BY DEF Counts
<1>6. GoodFrame(f) /\ Linked(f) /\ (Locks(f) <=> op = "erase") /\ entry[f.key] = f.var
  BY <1>1, <1>2 DEF GoodFrame, Linked, Locks
<1>7. Steady
  BY VarsSame
<1>8. Typed
  BY <1>3, PushIs DEF Typed, Plain, ArgsType
<1> QED BY <1>3, <1>4, <1>5, <1>6, <1>7, <1>8, EnterStep

LEMMA EnterSetInv ==
  ASSUME IInv, NEW t \in Threads, NEW k \in Keys, EnterSet(t, k)
  PROVE  IInv'
<1> USE DEF IInv
<1>1. PICK o : o = Top(t).obj
  OBVIOUS
<1>2. /\ MayCall(t) /\ CanLock(t) /\ call[t] # <<>> /\ Top(t).pc = "done" /\ o # NULL
      /\ lock' = Locked(t) /\ REF' = AddRef(o, REF) /\ Enter(t, "set", "found", k, o)
      /\ UNCHANGED <<entry, var, alloc, args, live, asleep, fault>>
  BY <1>1 DEF EnterSet
<1>3. PICK c \in InProgress : Frm(c) = Top(t) /\ Top(t) \in Frame
  BY <1>2, TopIs
<1>4. o \in Values /\ (o \in Objs => o \in live)
  <2>1. o \in Values
    BY <1>1, <1>2, <1>3, FrameFields DEF Some
  <2>2. ASSUME o \in Objs PROVE o \in live
    <3>1. Weight(Top(t), o) = 1
      BY <1>1, <1>2, <1>3, Weighs DEF Eq
    <3> QED BY <1>3, <2>2, <3>1, Alive
  <2> QED BY <2>1, <2>2
<1>5. entry[k] \in Vars \cup {NULL}
  BY DEF Plain
<1>6. PICK f \in Frame : /\ f = Entered("set", "found", k, entry[k], o)
                         /\ f.op = "set" /\ f.pc = "found" /\ f.key = k /\ f.var = entry[k] /\ f.obj = o
                         /\ f.old = NULL /\ f.new = NULL /\ f.ret = NULL
  BY <1>4, <1>5, EnteredIs DEF Ops, Pcs, Some
<1>7. Push(t, f)
  BY <1>2, <1>6 DEF Enter
<1>8. REF' \in [Objs -> Nat] /\ \A x \in Objs : REF'[x] = REF[x] + Eq(o, x)
  BY <1>2, AddRefIs DEF Plain
<1>9. \A x \in Objs : REF'[x] = REF[x] + Weight(f, x)
  BY <1>6, <1>8, Weighs
<1>10. \A x \in Objs : x \notin live' => REF'[x] = 0
  BY <1>2, <1>4, <1>8 DEF Counts, Eq
<1>11. GoodFrame(f) /\ Linked(f) /\ Locks(f) /\ entry[f.key] = f.var
  BY <1>4, <1>6 DEF GoodFrame, Linked, Locks
<1>12. Steady
  BY <1>2, VarsSame
<1>13. Typed
  BY <1>2, <1>7, <1>8, PushIs DEF Typed, Plain, ArgsType
<1> QED BY <1>2, <1>7, <1>9, <1>10, <1>11, <1>12, <1>13, EnterStep

LEMMA ArgsDoneInv ==
  ASSUME IInv, NEW t \in Threads, ArgsDone(t)
  PROVE  IInv'
<1> USE DEF IInv
<1>1. /\ call[t] # <<>> /\ REF' = RemRef(Top(t).obj, REF) /\ live' = Survivors(Top(t).obj, REF')
      /\ Return(t) /\ UNCHANGED <<lock, entry, var, alloc, args, asleep, marks, fault>>
      /\ Top(t).pc = "done"
  BY DEF ArgsDone
<1>2. PICK f \in Frame, c \in InProgress : f = Top(t) /\ Frm(c) = f
  BY <1>1, TopIs
<1>3. \A x : Weight(f, x) = Eq(f.obj, x)
  BY <1>1, <1>2, Weighs
<1>4. \A x \in Objs : REF[x] >= Eq(f.obj, x)
  BY <1>2, <1>3, Alive
<1>5. REF' \in [Objs -> Nat] /\ \A x \in Objs : REF'[x] = REF[x] - Eq(f.obj, x)
  BY <1>1, <1>2, <1>4, RemRefIs DEF Plain
<1>6. \A x \in Objs : REF'[x] = REF[x] - Weight(Top(t), x)
  BY <1>2, <1>3, <1>5
<1>7. live' \subseteq live
  BY <1>1 DEF Survivors
<1>8. ASSUME NEW x \in Objs, x \notin live' PROVE REF'[x] = 0
  <2>1. CASE x \in live
    BY <1>1, <1>8, <2>1 DEF Survivors
  <2>2. CASE x \notin live
    BY <1>4, <1>5, <2>2 DEF Counts, Eq
  <2> QED BY <2>1, <2>2
<1>9. Steady
  BY <1>1, VarsSame
<1>10. Typed
  BY <1>1, <1>5, <1>7 DEF Typed, Plain, ArgsType
<1>11. LockUse(t)
  BY <1>1 DEF LockUse, Outside, Locks
<1> QED BY <1>1, <1>6, <1>8, <1>9, <1>10, <1>11, ReturnStep

-----------------------------------------------------------------------------
(* The bound functions.                                                    *)

LEMMA GiveInv ==
  ASSUME IInv, NEW t \in Threads, Give(t)
  PROVE  IInv'
<1> USE DEF IInv
<1>1. CASE Fault("binding")
  BY <1>1, FaultInv
<1>2. CASE ~Fault("binding")
  <2>1. call[t] # <<>> /\ Top(t).pc = "give"
    BY DEF Give
  <2>2. PICK f \in Frame, c \in InProgress : f = Top(t) /\ GoodFrame(f) /\ Linked(f)
    BY <2>1, TopGood
  <2>3. /\ f.pc = "give" /\ Go(t, "given", WithInputs(f, NULL, NULL))
        /\ args' = [args EXCEPT ![<<f.var, f.op>>] = [old |-> f.old, new |-> f.new]]
        /\ UNCHANGED <<lock, entry, var, alloc, REF, live, asleep, marks, fault>>
    BY <1>2, <2>2 DEF Give, WithInputs
  <2>4. PICK h \in Frame : /\ h = WithInputs(f, NULL, NULL) /\ SameCall(f, h)
                           /\ h.old = NULL /\ h.new = NULL /\ h.ret = f.ret
    <3>1. NULL \in Some
      BY DEF Some
    <3> QED BY <3>1, SetInputs
  <2>5. ASSUME NEW g \in Frame, g.pc = "given", SameBut(h, g)
        PROVE  /\ GoodFrame(g) /\ Linked(g)
               /\ \A x \in Objs : REF'[x] = REF[x] - Weight(Top(t), x) + Weight(g, x)
    <3>1. g.op = f.op /\ g.key = f.key /\ g.var = f.var /\ g.obj = f.obj
      BY <2>4, <2>5 DEF SameBut, SameCall
    <3>2. GoodFrame(g) /\ Linked(g)
      BY <2>2, <2>3, <2>5, <3>1 DEF GoodFrame, Linked
    <3>3. \A x : Weight(f, x) = Weight(g, x) /\ Weight(f, x) \in Nat
      BY <2>3, <2>5, <3>1, Weighs
    <3>4. \A x \in Objs : REF'[x] = REF[x] - Weight(Top(t), x) + Weight(g, x)
      BY <2>2, <2>3, <3>3 DEF Plain
    <3> QED BY <3>2, <3>4
  <2>6. ArgsType'
    <3>1. [old |-> f.old, new |-> f.new] \in Given
      BY <2>2, <2>3, FrameFields DEF GoodFrame, Given, Some
    <3> QED BY <2>3, <3>1 DEF ArgsType
  <2>7. Typed
    BY <2>3, <2>6 DEF Typed, Plain
  <2>8. Steady
    BY <2>3, VarsSame
  <2>9. LockUse(t)
    BY <2>1, <2>3 DEF LockUse, Outside, Locks
  <2>10. \A x \in Objs : x \notin live' => REF'[x] = 0
    BY <2>3 DEF Counts
  <2>11. Go(t, "given", h) /\ "given" \in Pcs \ {"found"}
    BY <2>3, <2>4 DEF Pcs
  <2> QED BY <2>1, <2>5, <2>7, <2>8, <2>9, <2>10, <2>11, GoStep
<1> QED BY <1>1, <1>2

LEMMA StartInv ==
  ASSUME IInv, NEW t \in Threads, Start(t)
  PROVE  IInv'
<1> USE DEF IInv
<1>1. CASE \E what \in {"binding", "value"} : Fault(what)
  BY <1>1, FaultInv
<1>2. CASE ~\E what \in {"binding", "value"} : Fault(what)
  <2>1. call[t] # <<>> /\ Top(t).pc = "given"
    BY DEF Start
  <2>2. PICK f \in Frame, c \in InProgress : f = Top(t) /\ GoodFrame(f) /\ Linked(f)
    BY <2>1, TopGood
  <2>3. PICK a : a = args[<<f.var, f.op>>]
    OBVIOUS
  <2>4. /\ f.pc = "given" /\ Bound(f)
        /\ UNCHANGED <<lock, entry, var, alloc, args, live, asleep, marks, fault>>
        /\ \/ a = NULL /\ Go(t, "back", f) /\ REF' = REF
           \/ /\ a # NULL /\ ~Dead(a.old) /\ ~Dead(a.new)
              /\ REF' = AddRef(a.old, AddRef(a.new, REF))
              /\ Go(t, "bound", WithInputs(f, a.old, a.new))
    BY <1>2, <2>2, <2>3 DEF Start, WithInputs
  <2>5. Steady
    BY <2>4, VarsSame
  <2>6. LockUse(t)
    BY <2>1, <2>4 DEF LockUse, Outside, Locks
  <2>7. CASE a = NULL
    <3>1. ASSUME NEW g \in Frame, g.pc = "back", SameBut(f, g)
          PROVE  /\ GoodFrame(g) /\ Linked(g)
                 /\ \A x \in Objs : REF'[x] = REF[x] - Weight(Top(t), x) + Weight(g, x)
      <4>1. g.op = f.op /\ g.key = f.key /\ g.var = f.var /\ g.obj = f.obj
        BY <3>1 DEF SameBut
      <4>2. GoodFrame(g) /\ Linked(g)
        BY <2>2, <2>4, <3>1, <4>1 DEF GoodFrame, Linked
      <4>3. \A x : Weight(f, x) = Weight(g, x) /\ Weight(f, x) \in Nat
        BY <2>4, <3>1, <4>1, Weighs
      <4>4. \A x \in Objs : REF'[x] = REF[x] - Weight(Top(t), x) + Weight(g, x)
        BY <2>2, <2>4, <2>7, <4>3 DEF Plain
      <4> QED BY <4>2, <4>4
    <3>2. Typed
      BY <2>4, <2>7 DEF Typed, Plain, ArgsType
    <3>3. \A x \in Objs : x \notin live' => REF'[x] = 0
      BY <2>4, <2>7 DEF Counts
    <3>4. Go(t, "back", f) /\ "back" \in Pcs \ {"found"}
      BY <2>4, <2>7 DEF Pcs
    <3> QED BY <2>1, <2>5, <2>6, <3>1, <3>2, <3>3, <3>4, GoStep
  <2>8. CASE a # NULL
    <3>1. a \in Given
      <4>1. f.var \in Vars /\ f.op \in Events
        BY <2>4 DEF Bound, VarsType, VarRec
      <4> QED BY <2>3, <2>8, <4>1 DEF ArgsType
    <3>2. PICK x0, y0 : x0 = a.old /\ y0 = a.new
      OBVIOUS
    <3>3. x0 \in Some /\ y0 \in Some
      BY <3>1, <3>2 DEF Given, Some
    <3>4. PICK h \in Frame : /\ h = WithInputs(f, x0, y0) /\ SameCall(f, h)
                             /\ h.old = x0 /\ h.new = y0 /\ h.ret = f.ret
      BY <3>3, SetInputs
    <3>5. REF' \in [Objs -> Nat] /\ \A x \in Objs : REF'[x] = REF[x] + Eq(y0, x) + Eq(x0, x)
      <4>1. PICK R : R = AddRef(y0, REF)
        OBVIOUS
      <4>2. R \in [Objs -> Nat] /\ \A x \in Objs : R[x] = REF[x] + Eq(y0, x)
        BY <4>1, AddRefIs DEF Plain
      <4>3. REF' = AddRef(x0, R)
        BY <2>4, <2>8, <3>2, <4>1
      <4>4. REF' \in [Objs -> Nat] /\ \A x \in Objs : REF'[x] = R[x] + Eq(x0, x)
        BY <4>2, <4>3, AddRefIs
      <4> QED BY <4>2, <4>4
    <3>6. ASSUME NEW g \in Frame, g.pc = "bound", SameBut(h, g)
          PROVE  /\ GoodFrame(g) /\ Linked(g)
                 /\ \A x \in Objs : REF'[x] = REF[x] - Weight(Top(t), x) + Weight(g, x)
      <4>1. g.op = f.op /\ g.key = f.key /\ g.var = f.var /\ g.obj = f.obj /\ g.old = x0 /\ g.new = y0
        BY <3>4, <3>6 DEF SameBut, SameCall
      <4>2. GoodFrame(g) /\ Linked(g)
        BY <2>2, <2>4, <3>6, <4>1 DEF GoodFrame, Linked
      <4>3. ASSUME NEW x \in Objs PROVE REF'[x] = REF[x] - Weight(Top(t), x) + Weight(g, x)
        <5>1. REF'[x] = REF[x] + Eq(y0, x) + Eq(x0, x) /\ REF[x] \in Nat
          BY <3>5 DEF Plain
        <5>2. Eq(y0, x) \in Nat /\ Eq(x0, x) \in Nat /\ Eq(f.obj, x) \in Nat
          BY DEF Eq
        <5>3. Weight(f, x) = IF f.op = "set" THEN Eq(f.obj, x) ELSE 0
          BY <2>4, Weighs
        <5>4. Weight(g, x) = (IF f.op = "set" THEN Eq(f.obj, x) ELSE 0) + Eq(x0, x) + Eq(y0, x)
          <6>1. CASE f.op = "set"
            BY <3>6, <4>1, <6>1, Weighs
          <6>2. CASE f.op # "set"
            <7>1. Weight(g, x) = Eq(x0, x) + Eq(y0, x)
              BY <3>6, <4>1, <6>2, Weighs
            <7> QED BY <5>2, <6>2, <7>1
          <6> QED BY <6>1, <6>2
        <5> QED BY <2>2, <5>1, <5>2, <5>3, <5>4
      <4> QED BY <4>2, <4>3
    <3>7. \A x \in Objs : x \notin live' => REF'[x] = 0
      <4>1. \A x \in Objs : x \notin live => x # x0 /\ x # y0
        BY <2>4, <2>8, <3>2 DEF Dead
      <4> QED BY <2>4, <3>5, <4>1 DEF Counts, Eq
    <3>8. Typed
      BY <2>4, <3>5 DEF Typed, Plain, ArgsType
    <3>9. Go(t, "bound", h) /\ "bound" \in Pcs \ {"found"}
      BY <2>4, <2>8, <3>2, <3>4 DEF Pcs
    <3> QED BY <2>1, <2>5, <2>6, <3>6, <3>7, <3>8, <3>9, GoStep
  <2> QED BY <2>7, <2>8
<1> QED BY <1>1, <1>2

LEMMA BoundReturnsInv ==
  ASSUME IInv, NEW t \in Threads, NEW what \in Outputs, BoundReturns(t, what)
  PROVE  IInv'
<1> USE DEF IInv
<1>1. CASE Fault("binding")
  BY <1>1, FaultInv
<1>2. CASE ~Fault("binding")
  <2>1. call[t] # <<>> /\ Top(t).pc = "bound"
    BY DEF BoundReturns
  <2>2. PICK f \in Frame, c \in InProgress : f = Top(t) /\ Frm(c) = f /\ GoodFrame(f) /\ Linked(f)
    BY <2>1, TopGood
  <2>3. PICK ret : ret = CASE what = "nothing" -> NULL
                           [] what = "true"    -> True
                           [] what = "old"     -> f.old
                           [] what = "new"     -> f.new
    OBVIOUS
  <2>4. ret \in Some
    <3>1. what \in {"nothing", "true", "old", "new"}
      BY ParameterAssumption
    <3> QED BY <2>3, <3>1, FrameFields, Constants DEF Some
  <2>5. PICK R1, R : R1 = RemRef(f.new, REF) /\ R = RemRef(f.old, R1)
    OBVIOUS
  <2>6. /\ f.pc = "bound" /\ Go(t, "back", WithOutput(f, ret))
        /\ args' = [args EXCEPT ![<<f.var, f.op>>] = NULL]
        /\ REF' = R /\ live' = {o \in live : o = ret \/ R[o] > 0 \/ o \notin {f.old, f.new}}
        /\ marks' = marks \cup MarkIf("old", f.op = "set" /\ what = "old")
        /\ UNCHANGED <<lock, entry, var, alloc, asleep, fault>>
    BY <1>2, <2>2, <2>3, <2>5 DEF BoundReturns, WithOutput
  <2>7. PICK h \in Frame : h = WithOutput(f, ret) /\ SameCall(f, h)
    BY <2>4, SetBack
  <2> DEFINE w(x) == IF f.op = "set" THEN Eq(f.obj, x) ELSE 0
  <2>8. \A x \in Objs : w(x) \in Nat /\ Weight(f, x) = w(x) + Eq(f.old, x) + Eq(f.new, x)
                        /\ Eq(f.old, x) \in Nat /\ Eq(f.new, x) \in Nat
    <3> TAKE x \in Objs
    <3>1. Eq(f.obj, x) \in Nat /\ Eq(f.old, x) \in Nat /\ Eq(f.new, x) \in Nat
      BY DEF Eq
    <3>2. CASE f.op = "set"
      BY <2>6, <3>1, <3>2, Weighs
    <3>3. CASE f.op # "set"
      <4>1. Weight(f, x) = Eq(f.old, x) + Eq(f.new, x)
        BY <2>6, <3>3, Weighs
      <4> QED BY <3>1, <3>3, <4>1
    <3> QED BY <3>2, <3>3
  <2>9. \A x \in Objs : REF[x] \in Nat /\ REF[x] >= Weight(f, x)
    BY <2>2, Alive
  <2>10. REF' \in [Objs -> Nat] /\ \A x \in Objs : REF'[x] = REF[x] - Eq(f.new, x) - Eq(f.old, x)
    <3>1. \A x \in Objs : REF[x] >= Eq(f.new, x) /\ REF[x] - Eq(f.new, x) >= Eq(f.old, x)
      BY <2>8, <2>9
    <3>2. R1 \in [Objs -> Nat] /\ \A x \in Objs : R1[x] = REF[x] - Eq(f.new, x)
      BY <2>5, <3>1, RemRefIs DEF Plain
    <3>3. R \in [Objs -> Nat] /\ \A x \in Objs : R[x] = R1[x] - Eq(f.old, x)
      BY <2>5, <3>1, <3>2, RemRefIs
    <3> QED BY <2>6, <3>2, <3>3
  <2>11. ASSUME NEW g \in Frame, g.pc = "back", SameBut(h, g)
         PROVE  /\ GoodFrame(g) /\ Linked(g)
                /\ \A x \in Objs : REF'[x] = REF[x] - Weight(Top(t), x) + Weight(g, x)
    <3>1. g.op = f.op /\ g.key = f.key /\ g.var = f.var /\ g.obj = f.obj
      BY <2>7, <2>11 DEF SameBut, SameCall
    <3>2. GoodFrame(g) /\ Linked(g)
      BY <2>2, <2>6, <2>11, <3>1 DEF GoodFrame, Linked
    <3>3. \A x : Weight(g, x) = w(x)
      BY <2>11, <3>1, Weighs
    <3> QED BY <2>2, <2>8, <2>9, <2>10, <3>2, <3>3
  <2>12. \A x \in Objs : x \notin live' => REF'[x] = 0
    <3> SUFFICES ASSUME NEW x \in Objs, x \notin live' PROVE REF'[x] = 0
      OBVIOUS
    <3>1. CASE x \in live
      BY <2>6, <2>10, <3>1
    <3>2. CASE x \notin live
      <4>1. REF[x] = 0
        BY <3>2 DEF Counts
      <4> QED BY <2>8, <2>9, <2>10, <4>1
    <3> QED BY <3>1, <3>2
  <2>13. Typed
    <3>1. ArgsType'
      BY <2>6 DEF ArgsType
    <3> QED BY <2>6, <2>10, <3>1 DEF Typed, Plain, MarkIf
  <2>14. Steady
    BY <2>6, VarsSame
  <2>15. LockUse(t)
    BY <2>1, <2>6 DEF LockUse, Outside, Locks
  <2>16. Go(t, "back", h) /\ "back" \in Pcs \ {"found"}
    BY <2>6, <2>7 DEF Pcs
  <2> QED BY <2>1, <2>11, <2>12, <2>13, <2>14, <2>15, <2>16, GoStep
<1> QED BY <1>1, <1>2

-----------------------------------------------------------------------------
(* Set.                                                                    *)

(* A call that ends by changing a variable. *)
LEMMA ReturnChanges ==
  ASSUME IInv, NEW t \in Threads, call[t] # <<>>, Return(t), Typed,
         VarsType', EntriesExact', HasValue', entry' \in [Keys -> Vars \cup {NULL}],
         \/ ~Outside(t) /\ lock' = Unlocked(t)
         \/ Outside(t) /\ CanLock(t) /\ lock' = lock,
         \A c \in InProgress : c # <<t, Len(call[t])>> /\ Frm(c).var \in alloc' =>
           Frm(c).var \in alloc /\ entry'[Frm(c).key] = entry[Frm(c).key],
         \A x \in Objs : REF'[x] = REF[x] + Cardinality(Holders(x))' - Cardinality(Holders(x))
                                   - Weight(Top(t), x),
         \A x \in Objs : x \notin live' => REF'[x] = 0
  PROVE  IInv'
<1> USE DEF IInv
<1>1. CallsType' /\ \A x : Protected(x)' = Protected(x) - Weight(Top(t), x)
  BY Returns
<1>2. PICK d \in InProgress :
        d = <<t, Len(call[t])>> /\ Frm(d) = Top(t) /\ d \notin InProgress' /\ \A g : Moves(t, d, g)
  BY Returns
<1>3. PICK g : g = Top(t)
  OBVIOUS
<1>4. Moves(t, d, g)
  BY <1>2
<1>5. LocksInv' /\ lock' \in LockRec
  <2>1. CASE ~Outside(t) /\ lock' = Unlocked(t)
    BY <1>1, <1>2, <1>4, <2>1, LockGiven DEF Typed
  <2>2. CASE Outside(t) /\ CanLock(t) /\ lock' = lock
    <3>1. \A c \in InProgress : ~Locks(Frm(c))
      BY <2>2, Alone DEF LocksInv
    <3>2. lock' \in LockRec /\ (lock'.owner # NULL => lock'.count > 0)
      BY <2>2 DEF Plain, LocksInv
    <3> QED BY <1>1, <1>2, <1>4, <2>2, <3>1, <3>2, LockLeft DEF Typed
  <2> QED BY <2>1, <2>2
<1>6. Plain' /\ ArgsType'
  BY <1>5 DEF Plain, Typed
<1>7. FramesGood'
  BY <1>2, <1>4, FramesMoved
<1>8. ASSUME NEW x \in Objs PROVE (REF[x] = Total(x) /\ (x \notin live => REF[x] = 0))'
  <2>1. Total(x)' = Cardinality(Holders(x))' + Protected(x)'
    BY DEF Total
  <2>2. REF[x] = Cardinality(Holders(x)) + Protected(x)
        /\ REF[x] \in Nat /\ Cardinality(Holders(x)) \in Nat /\ Protected(x) \in Nat
    BY Alive DEF Total
  <2>3. Weight(Top(t), x) \in Nat
    BY <1>2, Alive
  <2>4. Cardinality(Holders(x))' \in Nat
    BY HoldersNaturalNext DEF HoldersNatural
  <2>5. REF'[x] = REF[x] + Cardinality(Holders(x))' - Cardinality(Holders(x)) - Weight(Top(t), x)
        /\ Protected(x)' = Protected(x) - Weight(Top(t), x)
    BY <1>1
  <2>6. REF'[x] = Cardinality(Holders(x))' + Protected(x)'
    BY <2>2, <2>3, <2>4, <2>5
  <2> QED BY <2>1, <2>6
<1> QED BY <1>1, <1>5, <1>6, <1>7, <1>8 DEF Counts

LEMMA SetNewInv ==
  ASSUME IInv, NEW t \in Threads, NEW v \in Vars, SetNew(t, v)
  PROVE  IInv'
<1> USE DEF IInv
<1>1. call[t] # <<>> /\ Top(t).op = "set" /\ Top(t).pc = "found" /\ ~Outside(t)
  BY DEF SetNew, At, Outside, Locks
<1>2. PICK f \in Frame, c \in InProgress :
        f = Top(t) /\ c = <<t, Len(call[t])>> /\ Frm(c) = f /\ GoodFrame(f) /\ Linked(f)
  BY <1>1, TopGood
<1>3. PICK k, o : k = f.key /\ o = f.obj
  OBVIOUS
<1>4. PICK r : r = [NoVar EXCEPT !.object = o]
  OBVIOUS
<1>5. /\ FreshVar(v) /\ f.var = NULL /\ Return(t)
      /\ entry' = [entry EXCEPT ![k] = v] /\ alloc' = alloc \cup {v} /\ var' = [var EXCEPT ![v] = r]
      /\ lock' = Unlocked(t)
      /\ UNCHANGED <<args, REF, live, asleep, marks, fault>>
  BY <1>2, <1>3, <1>4 DEF SetNew
<1>6. k \in Keys /\ o \in Values /\ entry[k] = NULL
  <2>1. entry[f.key] = f.var
    BY <1>1, <1>2, Mine DEF LocksInv
  <2> QED BY <1>1, <1>2, <1>3, <1>5, <2>1 DEF GoodFrame
<1>7. r \in VarRec /\ r.object = o
  BY <1>4, <1>6 DEF NoVar, VarRec
<1>8. v \notin alloc /\ \A e \in InProgress : Frm(e).var # v
  BY <1>5, FreshIs
<1>9. VarsType' /\ var'[v].object = o /\ \A w \in alloc : var'[w] = var[w]
  BY <1>5, <1>7, <1>8 DEF VarsType
<1>10. EntriesExact' /\ HasValue' /\ entry' \in [Keys -> Vars \cup {NULL}]
  <2>1. EntriesExact'
    BY <1>5, <1>6, <1>8, Constants DEF EntriesExact, Plain
  <2>2. HasValue'
    BY <1>5, <1>6, <1>9 DEF HasValue
  <2> QED BY <1>5, <2>1, <2>2 DEF Plain
<1>11. ASSUME NEW e \in InProgress, Frm(e).var \in alloc'
       PROVE  Frm(e).var \in alloc /\ entry'[Frm(e).key] = entry[Frm(e).key]
  <2>1. Frm(e).var \in alloc
    BY <1>5, <1>8, <1>11
  <2>2. Frm(e).key \in Keys /\ entry[Frm(e).key] = Frm(e).var
    BY <2>1 DEF FramesGood, GoodFrame, Linked, VarsType
  <2>3. Frm(e).key # k
    BY <1>6, <2>1, <2>2, Constants DEF VarsType
  <2> QED BY <1>5, <2>1, <2>2, <2>3 DEF Plain
<1>12. ASSUME NEW x \in Objs
       PROVE  REF'[x] = REF[x] + Cardinality(Holders(x))' - Cardinality(Holders(x)) - Weight(Top(t), x)
  <2>1. Cardinality(Holders(x))' = Cardinality(Holders(x)) + Eq(o, x)
    BY <1>5, <1>8, <1>9, HoldersMade
  <2>2. Weight(Top(t), x) = Eq(o, x)
    BY <1>1, <1>2, <1>3, Weighs
  <2>3. Eq(o, x) \in Nat /\ Cardinality(Holders(x)) \in Nat /\ REF[x] \in Nat
    BY Alive DEF Eq
  <2> QED BY <1>5, <2>1, <2>2, <2>3
<1>13. \A x \in Objs : x \notin live' => REF'[x] = 0
  BY <1>5 DEF Counts
<1>14. Typed
  BY <1>5 DEF Typed, Plain, ArgsType
<1> QED BY <1>1, <1>5, <1>9, <1>10, <1>11, <1>12, <1>13, <1>14, ReturnChanges

(* Set ends with new as the value of v: R are the counts with the reference that v
   will have, and without those the call gives up. *)
LEMMA SetEndsInv ==
  ASSUME IInv, NEW t \in Threads, call[t] # <<>>, Top(t).op = "set", Top(t).pc \in {"found", "back"},
         NEW v \in alloc, NEW new \in Values, ~Dead(new), NEW R \in [Objs -> Nat],
         Assign(v, new, R), Return(t), UNCHANGED <<entry, alloc, args, marks, fault>>,
         \/ ~Outside(t) /\ lock' = Unlocked(t)
         \/ Outside(t) /\ CanLock(t) /\ lock' = lock,
         \A x \in Objs : R[x] = REF[x] - Eq(Top(t).obj, x) + Eq(new, x)
  PROVE  IInv'
<1> USE DEF IInv
<1>1. PICK c \in InProgress : Frm(c) = Top(t) /\ Top(t) \in Frame
  BY TopIs
<1>2. PICK old :
      /\ old = var[v].object
      /\ VarsType' /\ REF' \in [Objs -> Nat]
      /\ var'[v].object = new
      /\ \A w \in alloc : w # v => var'[w] = var[w]
      /\ asleep' = asleep \ var[v].update
      /\ \A x \in Objs : R[x] >= Eq(old, x) => REF'[x] = R[x] - Eq(old, x)
      /\ live' = IF old \in Objs /\ REF'[old] = 0 THEN live \ {old} ELSE live
      /\ \A x : Cardinality(Holders(x))' = Cardinality(Holders(x)) - Eq(old, x) + Eq(new, x)
  BY Assigned
<1>3. \A x : Weight(Top(t), x) = Eq(Top(t).obj, x)
  BY <1>1, Weighs
<1>4. ASSUME NEW x \in Objs
      PROVE  /\ REF[x] \in Nat /\ Eq(old, x) \in Nat /\ Eq(new, x) \in Nat /\ Eq(Top(t).obj, x) \in Nat
             /\ REF[x] >= Eq(Top(t).obj, x) + Eq(old, x) /\ R[x] >= Eq(old, x)
  <2>1. REF[x] \in Nat /\ REF[x] >= Eq(Top(t).obj, x)
    BY <1>1, <1>3, Alive
  <2>2. old = x => REF[x] >= Eq(Top(t).obj, x) + 1
    BY <1>1, <1>3, <1>2, Alive
  <2>3. Eq(old, x) \in Nat /\ Eq(new, x) \in Nat /\ Eq(Top(t).obj, x) \in Nat
    BY DEF Eq
  <2>4. REF[x] >= Eq(Top(t).obj, x) + Eq(old, x)
    BY <2>1, <2>2, <2>3 DEF Eq
  <2> QED BY <2>1, <2>3, <2>4
<1>5. ASSUME NEW x \in Objs
      PROVE  REF'[x] = REF[x] + Cardinality(Holders(x))' - Cardinality(Holders(x)) - Weight(Top(t), x)
  <2>1. REF'[x] = REF[x] - Eq(Top(t).obj, x) + Eq(new, x) - Eq(old, x)
    BY <1>4, <1>2
  <2>2. Cardinality(Holders(x)) \in Nat /\ Weight(Top(t), x) = Eq(Top(t).obj, x)
    BY <1>3, Alive
  <2>3. Cardinality(Holders(x))' = Cardinality(Holders(x)) - Eq(old, x) + Eq(new, x)
    BY <1>2
  <2>4. REF[x] \in Nat /\ Eq(old, x) \in Nat /\ Eq(new, x) \in Nat /\ Eq(Top(t).obj, x) \in Nat
    BY <1>4
  <2> QED BY <2>1, <2>2, <2>3, <2>4
<1>6. ASSUME NEW x \in Objs, x \notin live' PROVE REF'[x] = 0
  <2>1. CASE x \in live
    BY <1>2, <1>6, <2>1
  <2>2. CASE x \notin live
    <3>1. REF[x] = 0 /\ Eq(new, x) = 0
      BY <2>2 DEF Counts, Dead, Eq
    <3>2. REF'[x] = REF[x] - Eq(Top(t).obj, x) + Eq(new, x) - Eq(old, x)
      BY <1>4, <1>2
    <3> QED BY <1>4, <3>1, <3>2
  <2> QED BY <2>1, <2>2
<1>7. Typed
  BY <1>2 DEF Typed, Plain, ArgsType
<1>8. EntriesExact' /\ HasValue' /\ entry' \in [Keys -> Vars \cup {NULL}]
  <2>1. EntriesExact'
    BY DEF EntriesExact
  <2>2. HasValue'
    BY <1>2 DEF HasValue
  <2> QED BY <2>1, <2>2 DEF Plain
<1> QED BY <1>2, <1>5, <1>6, <1>7, <1>8, ReturnChanges

LEMMA SetReplaceInv ==
  ASSUME IInv, NEW t \in Threads, SetReplace(t)
  PROVE  IInv'
<1> USE DEF IInv
<1>1. call[t] # <<>> /\ Top(t).op = "set" /\ Top(t).pc = "found" /\ ~Outside(t)
  BY DEF SetReplace, At, Outside, Locks
<1>2. PICK f \in Frame, c \in InProgress : f = Top(t) /\ Frm(c) = f /\ GoodFrame(f)
  BY <1>1, TopGood
<1>3. f.var # NULL /\ Assign(f.var, f.obj, REF) /\ Return(t) /\ lock' = Unlocked(t)
      /\ UNCHANGED <<entry, alloc, args, marks, fault>>
  BY <1>2 DEF SetReplace
<1>4. f.var \in alloc
  BY <1>1, <1>2, <1>3, Mine DEF LocksInv, GoodFrame, EntriesExact
<1>5. f.obj \in Values /\ ~Dead(f.obj)
  <2>1. f.obj \in Objs => Weight(f, f.obj) = 1
    BY <1>1, <1>2, Weighs DEF Eq
  <2> QED BY <1>1, <1>2, <2>1, Alive DEF GoodFrame, Dead
<1>6. \A x \in Objs : REF[x] = REF[x] - Eq(f.obj, x) + Eq(f.obj, x)
  BY DEF Eq, Plain
<1>7. REF \in [Objs -> Nat]
  BY DEF Plain
<1> QED BY <1>1, <1>2, <1>3, <1>4, <1>5, <1>6, <1>7, SetEndsInv

LEMMA SetResumeInv ==
  ASSUME IInv, NEW t \in Threads, SetResume(t)
  PROVE  IInv'
<1> USE DEF IInv
<1>1. CASE \E what \in {"variable", "value"} : Fault(what)
  BY <1>1, FaultInv
<1>2. CASE ~\E what \in {"variable", "value"} : Fault(what)
  <2>1. call[t] # <<>> /\ Top(t).op = "set" /\ Top(t).pc = "back" /\ Outside(t) /\ CanLock(t)
    BY DEF SetResume, Back, At, Outside, Locks
  <2>2. PICK f \in Frame, c \in InProgress : f = Top(t) /\ Frm(c) = f /\ GoodFrame(f)
    BY <2>1, TopGood
  <2>3. PICK R : R = RemRef(f.obj, REF)
    OBVIOUS
  <2>4. /\ f.var \in alloc /\ Return(t) /\ UNCHANGED <<lock, entry, alloc, args, marks, fault>>
        /\ \/ f.ret = NULL /\ Assign(f.var, f.obj, REF)
           \/ f.ret # NULL /\ ~Dead(f.ret) /\ Assign(f.var, f.ret, AddRef(f.ret, R))
    BY <1>2, <2>2, <2>3 DEF SetResume
  <2>5. f.obj \in Values /\ ~Dead(f.obj)
    <3>1. f.obj \in Objs => Weight(f, f.obj) = 1
      BY <2>1, <2>2, Weighs DEF Eq
    <3> QED BY <2>1, <2>2, <3>1, Alive DEF GoodFrame, Dead
  <2>6. CASE f.ret = NULL
    <3>1. \A x \in Objs : REF[x] = REF[x] - Eq(f.obj, x) + Eq(f.obj, x)
      BY DEF Eq, Plain
    <3>2. REF \in [Objs -> Nat]
      BY DEF Plain
    <3> QED BY <2>1, <2>2, <2>4, <2>5, <2>6, <3>1, <3>2, SetEndsInv
  <2>7. CASE f.ret # NULL
    <3>1. f.ret \in Values
      BY <2>7, FrameFields DEF Some
    <3>2. PICK S : S = AddRef(f.ret, R)
      OBVIOUS
    <3>3. \A x \in Objs : REF[x] >= Eq(f.obj, x)
      <4>1. \A x : Weight(f, x) = Eq(f.obj, x)
        BY <2>1, <2>2, Weighs
      <4> QED BY <2>2, <4>1, Alive
    <3>4. R \in [Objs -> Nat] /\ \A x \in Objs : R[x] = REF[x] - Eq(f.obj, x)
      BY <2>3, <3>3, RemRefIs DEF Plain
    <3>5. S \in [Objs -> Nat] /\ \A x \in Objs : S[x] = R[x] + Eq(f.ret, x)
      BY <3>2, <3>4, AddRefIs
    <3>6. \A x \in Objs : S[x] = REF[x] - Eq(f.obj, x) + Eq(f.ret, x)
      BY <3>4, <3>5
    <3>7. ~Dead(f.ret) /\ Assign(f.var, f.ret, S)
      BY <2>4, <2>7, <3>2
    <3> QED BY <2>1, <2>2, <2>4, <3>1, <3>5, <3>6, <3>7, SetEndsInv
  <2> QED BY <2>6, <2>7
<1> QED BY <1>1, <1>2

(* The function bound to an event is given the value of the variable, and for set
   the new one: ExecBinding is entered with the lock as the caller has it. *)
LEMMA GivesInv ==
  ASSUME IInv, NEW t \in Threads, call[t] # <<>>, NEW f \in Frame, NEW c \in InProgress, f = Top(t),
         GoodFrame(f), Linked(f), f.pc = "found", f.op \in {"get", "set", "erase"}, f.var \in alloc,
         NEW h \in Frame, SameCall(f, h), h.old = var[f.var].object, Go(t, "give", h),
         lock' = Unlocked(t),
         UNCHANGED <<entry, var, alloc, args, REF, live, asleep, marks, fault>>
  PROVE  IInv'
<1> USE DEF IInv
<1>1. ASSUME NEW g \in Frame, g.pc = "give", SameBut(h, g)
      PROVE  /\ GoodFrame(g) /\ Linked(g)
             /\ \A x \in Objs : REF'[x] = REF[x] - Weight(Top(t), x) + Weight(g, x)
  <2>1. g.op = f.op /\ g.key = f.key /\ g.var = f.var /\ g.obj = f.obj /\ g.old = var[f.var].object
    BY <1>1 DEF SameBut, SameCall
  <2>2. GoodFrame(g) /\ Linked(g)
    BY <1>1, <2>1 DEF GoodFrame, Linked, HasValue, VarsType
  <2>3. \A x : Weight(f, x) = Weight(g, x) /\ Weight(f, x) \in Nat
    BY <1>1, <2>1, Weighs
  <2>4. \A x \in Objs : REF'[x] = REF[x] - Weight(Top(t), x) + Weight(g, x)
    BY <2>3 DEF Plain
  <2> QED BY <2>2, <2>4
<1>2. Steady
  BY VarsSame
<1>3. Typed
  BY DEF Typed, Plain, ArgsType
<1>4. LockUse(t)
  BY DEF LockUse
<1>5. \A x \in Objs : x \notin live' => REF'[x] = 0
  BY DEF Counts
<1>6. "give" \in Pcs \ {"found"}
  BY DEF Pcs
<1> QED BY <1>1, <1>2, <1>3, <1>4, <1>5, <1>6, GoStep

LEMMA SetBoundInv ==
  ASSUME IInv, NEW t \in Threads, SetBound(t)
  PROVE  IInv'
<1> USE DEF IInv
<1>1. call[t] # <<>> /\ Top(t).op = "set" /\ Top(t).pc = "found" /\ ~Outside(t)
  BY DEF SetBound, At, Outside, Locks
<1>2. PICK f \in Frame, c \in InProgress : f = Top(t) /\ Frm(c) = f /\ GoodFrame(f) /\ Linked(f)
  BY <1>1, TopGood
<1>3. /\ f.var # NULL /\ lock' = Unlocked(t)
      /\ Go(t, "give", WithInputs(f, var[f.var].object, f.obj))
      /\ UNCHANGED <<entry, var, alloc, args, REF, live, asleep, marks, fault>>
  BY <1>2 DEF SetBound, WithInputs
<1>4. f.var \in alloc
  BY <1>1, <1>2, <1>3, Mine DEF LocksInv, GoodFrame, EntriesExact
<1>5. PICK old : old = var[f.var].object
  OBVIOUS
<1>6. old \in Some /\ f.obj \in Some
  BY <1>2, <1>4, <1>5, FrameFields DEF HasValue, Some
<1>7. PICK h \in Frame : h = WithInputs(f, old, f.obj) /\ SameCall(f, h) /\ h.old = old
  BY <1>6, SetInputs
<1>8. Go(t, "give", h)
  BY <1>3, <1>5, <1>7
<1> QED BY <1>1, <1>2, <1>3, <1>4, <1>5, <1>7, <1>8, GivesInv

-----------------------------------------------------------------------------
(* Get.                                                                    *)

LEMMA GetReadInv ==
  ASSUME IInv, NEW t \in Threads, GetRead(t)
  PROVE  IInv'
<1> USE DEF IInv
<1>1. CASE Fault("variable")
  BY <1>1, FaultInv
<1>2. CASE ~Fault("variable")
  <2>1. call[t] # <<>> /\ Top(t).op = "get" /\ Top(t).pc = "found" /\ Outside(t)
    BY DEF GetRead, At, Outside, Locks
  <2>2. PICK f \in Frame, c \in InProgress : f = Top(t) /\ Frm(c) = f /\ GoodFrame(f) /\ Linked(f)
    BY <2>1, TopGood
  <2>3. PICK o : o = var[f.var].object
    OBVIOUS
  <2>4. /\ f.var \in alloc /\ UNCHANGED <<entry, var, alloc, args, REF, live, asleep, marks, fault>>
        /\ \/ lock' = Unlocked(t) /\ Go(t, "give", [f EXCEPT !.old = o])
           \/ lock' = lock /\ Go(t, "value", Entered("get", "value", NULL, NULL, o))
    BY <1>2, <2>2, <2>3 DEF GetRead
  <2>5. o \in Some
    BY <2>3, <2>4 DEF HasValue, Some
  <2>6. CASE lock' = Unlocked(t) /\ Go(t, "give", [f EXCEPT !.old = o])
    <3>1. PICK h \in Frame : h = [f EXCEPT !.old = o] /\ SameCall(f, h) /\ h.old = o
      BY <2>5, SetOld
    <3>2. Go(t, "give", h)
      BY <2>6, <3>1
    <3> QED BY <2>1, <2>2, <2>3, <2>4, <2>6, <3>1, <3>2, GivesInv
  <2>7. CASE lock' = lock /\ Go(t, "value", Entered("get", "value", NULL, NULL, o))
    <3>1. PICK h \in Frame : /\ h = Entered("get", "value", NULL, NULL, o)
                             /\ h.op = "get" /\ h.pc = "value" /\ h.key = NULL /\ h.var = NULL
      BY <2>5, EnteredIs DEF Ops, Pcs
    <3>2. Go(t, "value", h)
      BY <2>7, <3>1
    <3>3. ASSUME NEW g \in Frame, g.pc = "value", SameBut(h, g)
          PROVE  /\ GoodFrame(g) /\ Linked(g)
                 /\ \A x \in Objs : REF'[x] = REF[x] - Weight(Top(t), x) + Weight(g, x)
      <4>1. GoodFrame(g) /\ Linked(g)
        BY <3>1, <3>3, Constants DEF GoodFrame, Linked, SameBut, VarsType
      <4>2. \A x : Weight(f, x) = 0 /\ Weight(g, x) = 0
        BY <2>1, <2>2, <3>1, <3>3, Weighs DEF SameBut
      <4>3. \A x \in Objs : REF'[x] = REF[x] - Weight(Top(t), x) + Weight(g, x)
        BY <2>2, <2>4, <4>2 DEF Plain
      <4> QED BY <4>1, <4>3
    <3>4. Steady
      BY <2>4, VarsSame
    <3>5. Typed
      BY <2>4 DEF Typed, Plain, ArgsType
    <3>6. LockUse(t)
      BY <2>1, <2>7 DEF LockUse
    <3>7. \A x \in Objs : x \notin live' => REF'[x] = 0
      BY <2>4 DEF Counts
    <3>8. "value" \in Pcs \ {"found"}
      BY DEF Pcs
    <3> QED BY <2>1, <3>2, <3>3, <3>4, <3>5, <3>6, <3>7, <3>8, GoStep
  <2> QED BY <2>4, <2>6, <2>7
<1> QED BY <1>1, <1>2

LEMMA GetResumeInv ==
  ASSUME IInv, NEW t \in Threads, GetResume(t)
  PROVE  IInv'
<1> USE DEF IInv
<1>1. CASE Fault("variable")
  BY <1>1, FaultInv
<1>2. CASE ~Fault("variable")
  <2>1. call[t] # <<>> /\ Top(t).op = "get" /\ Top(t).pc = "back" /\ Outside(t) /\ CanLock(t)
    BY DEF GetResume, Back, At, Outside, Locks
  <2>2. PICK f \in Frame, c \in InProgress : f = Top(t) /\ Frm(c) = f
    BY <2>1, TopGood
  <2>3. PICK o : o = IF f.ret = NULL THEN var[f.var].object ELSE f.ret
    OBVIOUS
  <2>4. /\ f.ret = NULL => f.var \in alloc
        /\ lock' = Locked(t) /\ marks' = marks \cup {"get"}
        /\ Go(t, "value", Entered("get", "value", NULL, NULL, o))
        /\ UNCHANGED <<entry, var, alloc, args, REF, live, asleep, fault>>
    BY <1>2, <2>2, <2>3 DEF GetResume
  <2>5. o \in Some
    BY <2>2, <2>3, <2>4, FrameFields DEF HasValue, Some
  <2>6. PICK h \in Frame : /\ h = Entered("get", "value", NULL, NULL, o)
                           /\ h.op = "get" /\ h.pc = "value" /\ h.key = NULL /\ h.var = NULL
    BY <2>5, EnteredIs DEF Ops, Pcs
  <2>7. Go(t, "value", h)
    BY <2>4, <2>6
  <2>8. ASSUME NEW g \in Frame, g.pc = "value", SameBut(h, g)
        PROVE  /\ GoodFrame(g) /\ Linked(g)
               /\ \A x \in Objs : REF'[x] = REF[x] - Weight(Top(t), x) + Weight(g, x)
    <3>1. GoodFrame(g) /\ Linked(g)
      BY <2>6, <2>8, Constants DEF GoodFrame, Linked, SameBut, VarsType
    <3>2. \A x : Weight(f, x) = 0 /\ Weight(g, x) = 0
      BY <2>1, <2>2, <2>6, <2>8, Weighs DEF SameBut
    <3>3. \A x \in Objs : REF'[x] = REF[x] - Weight(Top(t), x) + Weight(g, x)
      BY <2>2, <2>4, <3>2 DEF Plain
    <3> QED BY <3>1, <3>3
  <2>9. Steady
    BY <2>4, VarsSame
  <2>10. Typed
    BY <2>4 DEF Typed, Plain, ArgsType
  <2>11. LockUse(t)
    BY <2>1, <2>4 DEF LockUse
  <2>12. \A x \in Objs : x \notin live' => REF'[x] = 0
    BY <2>4 DEF Counts
  <2>13. "value" \in Pcs \ {"found"}
    BY DEF Pcs
  <2> QED BY <2>1, <2>7, <2>8, <2>9, <2>10, <2>11, <2>12, <2>13, GoStep
<1> QED BY <1>1, <1>2

LEMMA GetUseInv ==
  ASSUME IInv, NEW t \in Threads, GetUse(t)
  PROVE  IInv'
<1> USE DEF IInv
<1>1. CASE Fault("value")
  BY <1>1, FaultInv
<1>2. CASE ~Fault("value")
  <2>1. call[t] # <<>> /\ Top(t).op = "get" /\ Top(t).pc = "value" /\ Outside(t)
    BY DEF GetUse, At, Outside, Locks
  <2>2. PICK f \in Frame, c \in InProgress : f = Top(t) /\ Frm(c) = f
    BY <2>1, TopGood
  <2>3. PICK o : o = f.obj
    OBVIOUS
  <2>4. /\ ~Dead(o) /\ REF' = AddRef(o, REF) /\ Go(t, "done", Entered("value", "done", NULL, NULL, o))
        /\ UNCHANGED <<lock, entry, var, alloc, args, live, asleep, marks, fault>>
    BY <1>2, <2>2, <2>3 DEF GetUse
  <2>5. o \in Some
    BY <2>2, <2>3, FrameFields
  <2>6. PICK h \in Frame : /\ h = Entered("value", "done", NULL, NULL, o)
                           /\ h.op = "value" /\ h.pc = "done" /\ h.key = NULL /\ h.var = NULL /\ h.obj = o
    BY <2>5, EnteredIs DEF Ops, Pcs
  <2>7. Go(t, "done", h)
    BY <2>4, <2>6
  <2>8. REF' \in [Objs -> Nat] /\ \A x \in Objs : REF'[x] = REF[x] + Eq(o, x)
    BY <2>4, AddRefIs DEF Plain
  <2>9. ASSUME NEW g \in Frame, g.pc = "done", SameBut(h, g)
        PROVE  /\ GoodFrame(g) /\ Linked(g)
               /\ \A x \in Objs : REF'[x] = REF[x] - Weight(Top(t), x) + Weight(g, x)
    <3>1. GoodFrame(g) /\ Linked(g)
      BY <2>6, <2>9, Constants DEF GoodFrame, Linked, SameBut, VarsType
    <3>2. \A x : Weight(f, x) = 0 /\ Weight(g, x) = Eq(o, x)
      BY <2>1, <2>2, <2>6, <2>9, Weighs DEF SameBut
    <3>3. \A x \in Objs : REF'[x] = REF[x] - Weight(Top(t), x) + Weight(g, x)
      BY <2>2, <2>8, <3>2 DEF Plain
    <3> QED BY <3>1, <3>3
  <2>10. Steady
    BY <2>4, VarsSame
  <2>11. Typed
    BY <2>4, <2>8 DEF Typed, Plain, ArgsType
  <2>12. LockUse(t)
    BY <2>1, <2>4 DEF LockUse
  <2>13. \A x \in Objs : x \notin live' => REF'[x] = 0
    BY <2>4, <2>8 DEF Counts, Dead, Eq
  <2>14. "done" \in Pcs \ {"found"}
    BY DEF Pcs
  <2> QED BY <2>1, <2>7, <2>9, <2>10, <2>11, <2>12, <2>13, <2>14, GoStep
<1> QED BY <1>1, <1>2

-----------------------------------------------------------------------------
(* Remove.                                                                 *)

LEMMA DeleteInv ==
  ASSUME IInv, NEW t \in Threads, call[t] # <<>>, Top(t).op = "erase", Top(t).pc \in {"found", "back"},
         NEW v \in alloc, NEW k \in Keys, entry[k] = v, Delete(k, v), Return(t),
         UNCHANGED <<asleep, marks, fault>>,
         \/ ~Outside(t) /\ lock' = Unlocked(t)
         \/ Outside(t) /\ CanLock(t) /\ lock' = lock
  PROVE  IInv'
<1> USE DEF IInv
<1>1. /\ VarsType' /\ ArgsType' /\ EntriesExact' /\ HasValue'
      /\ REF' \in [Objs -> Nat] /\ live' \subseteq live
      /\ alloc' = alloc \ {v}
      /\ entry' \in [Keys -> Vars \cup {NULL}] /\ \A j \in Keys : j # k => entry'[j] = entry[j]
      /\ \A x \in Objs : REF'[x] = REF[x] - Eq(var[v].object, x)
      /\ \A x \in live : x \notin live' => REF'[x] = 0
      /\ \A x : Cardinality(Holders(x))' = Cardinality(Holders(x)) - Eq(var[v].object, x)
  BY Deleted
<1>2. Typed
  BY <1>1 DEF Typed, Plain
<1>3. ASSUME NEW e \in InProgress, Frm(e).var \in alloc'
      PROVE  Frm(e).var \in alloc /\ entry'[Frm(e).key] = entry[Frm(e).key]
  <2>1. Frm(e).var \in alloc /\ Frm(e).var # v
    BY <1>1, <1>3
  <2>2. Frm(e).key \in Keys /\ entry[Frm(e).key] = Frm(e).var
    BY <2>1 DEF FramesGood, GoodFrame, Linked, VarsType
  <2> QED BY <1>1, <2>1, <2>2
<1>4. ASSUME NEW x \in Objs
      PROVE  REF'[x] = REF[x] + Cardinality(Holders(x))' - Cardinality(Holders(x)) - Weight(Top(t), x)
  <2>1. Weight(Top(t), x) = 0
    BY TopIs, Weighs
  <2>2. Eq(var[v].object, x) \in Nat /\ Cardinality(Holders(x)) \in Nat /\ REF[x] \in Nat
    BY Alive DEF Eq
  <2> QED BY <1>1, <2>1, <2>2
<1>5. ASSUME NEW x \in Objs, x \notin live' PROVE REF'[x] = 0
  <2>1. CASE x \in live
    BY <1>1, <1>5, <2>1
  <2>2. CASE x \notin live
    <3>1. REF[x] = 0 /\ REF'[x] \in Nat
      BY <1>1, <2>2 DEF Counts
    <3> QED BY <1>1, <3>1 DEF Eq
  <2> QED BY <2>1, <2>2
<1> QED BY <1>1, <1>2, <1>3, <1>4, <1>5, ReturnChanges

LEMMA RemovePlainInv ==
  ASSUME IInv, NEW t \in Threads, RemovePlain(t)
  PROVE  IInv'
<1> USE DEF IInv
<1>1. call[t] # <<>> /\ Top(t).op = "erase" /\ Top(t).pc = "found" /\ ~Outside(t)
  BY DEF RemovePlain, At, Outside, Locks
<1>2. PICK f \in Frame, c \in InProgress : f = Top(t) /\ Frm(c) = f /\ GoodFrame(f)
  BY <1>1, TopGood
<1>3. Delete(f.key, f.var) /\ Return(t) /\ lock' = Unlocked(t) /\ UNCHANGED <<asleep, marks, fault>>
  BY <1>2 DEF RemovePlain
<1>4. entry[f.key] = f.var /\ f.var \in alloc /\ f.key \in Keys
  BY <1>1, <1>2, Mine, Constants DEF LocksInv, GoodFrame, EntriesExact
<1> QED BY <1>1, <1>2, <1>3, <1>4, DeleteInv

LEMMA RemoveBoundInv ==
  ASSUME IInv, NEW t \in Threads, RemoveBound(t)
  PROVE  IInv'
<1> USE DEF IInv
<1>1. call[t] # <<>> /\ Top(t).op = "erase" /\ Top(t).pc = "found" /\ ~Outside(t)
  BY DEF RemoveBound, At, Outside, Locks
<1>2. PICK f \in Frame, c \in InProgress : f = Top(t) /\ Frm(c) = f /\ GoodFrame(f) /\ Linked(f)
  BY <1>1, TopGood
<1>3. PICK o : o = var[f.var].object
  OBVIOUS
<1>4. /\ lock' = Unlocked(t) /\ Go(t, "give", [f EXCEPT !.old = o])
      /\ UNCHANGED <<entry, var, alloc, args, REF, live, asleep, marks, fault>>
  BY <1>2, <1>3 DEF RemoveBound
<1>5. f.var \in alloc
  BY <1>1, <1>2, Mine, Constants DEF LocksInv, GoodFrame, EntriesExact
<1>6. o \in Some
  BY <1>3, <1>5 DEF HasValue, Some
<1>7. PICK h \in Frame : h = [f EXCEPT !.old = o] /\ SameCall(f, h) /\ h.old = o
  BY <1>6, SetOld
<1>8. Go(t, "give", h)
  BY <1>4, <1>7
<1> QED BY <1>1, <1>2, <1>3, <1>4, <1>5, <1>7, <1>8, GivesInv

LEMMA RemoveResumeInv ==
  ASSUME IInv, NEW t \in Threads, RemoveResume(t)
  PROVE  IInv'
<1> USE DEF IInv
<1>1. CASE \E what \in {"variable", "value"} : Fault(what)
  BY <1>1, FaultInv
<1>2. CASE ~\E what \in {"variable", "value"} : Fault(what)
  <2>1. call[t] # <<>> /\ Top(t).op = "erase" /\ Top(t).pc = "back" /\ Outside(t) /\ CanLock(t)
    BY DEF RemoveResume, Back, At, Outside, Locks
  <2>2. PICK f \in Frame, c \in InProgress : f = Top(t) /\ Frm(c) = f /\ GoodFrame(f) /\ Linked(f)
    BY <2>1, TopGood
  <2>3. /\ Return(t) /\ UNCHANGED <<lock, asleep, marks, fault>>
        /\ \/ f.var \in alloc /\ Delete(f.key, f.var)
           \/ UNCHANGED <<entry, var, alloc, args, REF, live>>
    BY <1>2, <2>2 DEF RemoveResume
  <2>4. CASE f.var \in alloc /\ Delete(f.key, f.var)
    <3>1. entry[f.key] = f.var /\ f.key \in Keys
      BY <2>1, <2>2, <2>4 DEF Linked, GoodFrame
    <3> QED BY <2>1, <2>3, <2>4, <3>1, DeleteInv
  <2>5. CASE UNCHANGED <<entry, var, alloc, args, REF, live>>
    <3>1. Steady
      BY <2>5, VarsSame
    <3>2. Typed
      BY <2>3, <2>5 DEF Typed, Plain, ArgsType
    <3>3. LockUse(t)
      BY <2>1, <2>3 DEF LockUse
    <3>4. \A x \in Objs : REF'[x] = REF[x] - Weight(Top(t), x)
      <4>1. \A x : Weight(f, x) = 0
        BY <2>1, <2>2, Weighs
      <4> QED BY <2>2, <2>5, <4>1 DEF Plain
    <3>5. \A x \in Objs : x \notin live' => REF'[x] = 0
      BY <2>5 DEF Counts
    <3> QED BY <2>1, <2>3, <3>1, <3>2, <3>3, <3>4, <3>5, ReturnStep
  <2> QED BY <2>3, <2>4, <2>5
<1> QED BY <1>1, <1>2

-----------------------------------------------------------------------------
(* bind, Wait, the collection, and every step.                             *)

LEMMA RebindInv ==
  ASSUME IInv, NEW t \in Threads, call[t] # <<>>, Top(t).op = "bind", Top(t).pc = "found",
         NEW e \in Events, NEW b \in SUBSET Events, Top(t).var \in alloc, Rebind(t, e, b)
  PROVE  IInv'
<1> USE DEF IInv
<1>1. PICK v : v = Top(t).var
  OBVIOUS
<1>2. /\ var' = [var EXCEPT ![v].bound = b] /\ args' = [args EXCEPT ![<<v, e>>] = NULL]
      /\ Return(t) /\ UNCHANGED <<lock, entry, alloc, REF, live, asleep, marks, fault>>
  BY <1>1 DEF Rebind
<1>3. v \in alloc /\ v \in Vars /\ var[v] \in VarRec
  BY <1>1 DEF VarsType
<1>4. PICK r \in VarRec : r = [var[v] EXCEPT !.bound = b] /\ r.object = var[v].object
  <2> DEFINE q == [var[v] EXCEPT !.bound = b]
  <2>1. q \in VarRec /\ q.object = var[v].object
    BY <1>3 DEF VarRec
  <2> QED BY <2>1
<1>5. var' = [var EXCEPT ![v] = r]
  BY <1>2, <1>3, <1>4 DEF VarsType
<1>6. VarsType' /\ \A w \in alloc : var'[w].object = var[w].object
  BY <1>2, <1>3, <1>4, <1>5 DEF VarsType
<1>7. Steady
  BY <1>2, <1>6 DEF Steady
<1>8. Typed
  <2>1. ArgsType'
    BY <1>2 DEF ArgsType
  <2> QED BY <1>2, <2>1 DEF Typed, Plain
<1>9. LockUse(t)
  BY <1>2 DEF LockUse, Outside, Locks
<1>10. \A x \in Objs : REF'[x] = REF[x] - Weight(Top(t), x)
  <2>1. \A x : Weight(Top(t), x) = 0
    BY TopIs, Weighs
  <2> QED BY <1>2, <2>1 DEF Plain
<1>11. \A x \in Objs : x \notin live' => REF'[x] = 0
  BY <1>2 DEF Counts
<1> QED BY <1>2, <1>7, <1>8, <1>9, <1>10, <1>11, ReturnStep

LEMMA BindInv ==
  ASSUME IInv, NEW t \in Threads, NEW e \in Events, Bind(t, e) \/ UnBind(t, e)
  PROVE  IInv'
<1>1. CASE \E what \in {"variable", "unbound"} : Fault(what)
  BY <1>1, FaultInv
<1>2. CASE ~\E what \in {"variable", "unbound"} : Fault(what)
  <2>1. call[t] # <<>> /\ Top(t).op = "bind" /\ Top(t).pc = "found"
    BY DEF Bind, UnBind, At
  <2>2. PICK v : v = Top(t).var
    OBVIOUS
  <2>3. v \in alloc /\ (Rebind(t, e, var[v].bound \cup {e}) \/ Rebind(t, e, var[v].bound \ {e}))
    BY <1>2, <2>2 DEF Bind, UnBind
  <2>4. var[v].bound \subseteq Events
    BY <2>3 DEF IInv, VarsType, VarRec
  <2>5. PICK b \in SUBSET Events : Rebind(t, e, b)
    <3>1. var[v].bound \cup {e} \in SUBSET Events /\ var[v].bound \ {e} \in SUBSET Events
      BY <2>4
    <3> QED BY <2>3, <3>1
  <2> QED BY <2>1, <2>2, <2>3, <2>5, RebindInv
<1> QED BY <1>1, <1>2

LEMMA AddWaitingInv ==
  ASSUME IInv, NEW t \in Threads, AddWaiting(t)
  PROVE  IInv'
<1> USE DEF IInv
<1>1. CASE Fault("variable")
  BY <1>1, FaultInv
<1>2. CASE ~Fault("variable")
  <2>1. call[t] # <<>> /\ Top(t).op = "wait" /\ Top(t).pc = "found" /\ Outside(t)
    BY DEF AddWaiting, At, Outside, Locks
  <2>2. PICK f \in Frame, c \in InProgress : f = Top(t) /\ Frm(c) = f
    BY <2>1, TopGood
  <2>3. PICK v : v = f.var
    OBVIOUS
  <2>4. PICK u : u = var[v].update \cup {t}
    OBVIOUS
  <2>5. /\ v \in alloc /\ var' = [var EXCEPT ![v].update = u]
        /\ Go(t, "value", Entered("wait", "value", NULL, NULL, NULL))
        /\ UNCHANGED <<lock, entry, alloc, args, REF, live, asleep, marks, fault>>
    BY <1>2, <2>2, <2>3, <2>4 DEF AddWaiting
  <2>6. v \in Vars /\ var[v] \in VarRec /\ u \in SUBSET Threads
    BY <2>4, <2>5 DEF VarsType, VarRec
  <2>7. PICK r \in VarRec : r = [var[v] EXCEPT !.update = u] /\ r.object = var[v].object
    <3> DEFINE q == [var[v] EXCEPT !.update = u]
    <3>1. q \in VarRec /\ q.object = var[v].object
      BY <2>6 DEF VarRec
    <3> QED BY <3>1
  <2>8. var' = [var EXCEPT ![v] = r]
    BY <2>5, <2>6, <2>7 DEF VarsType
  <2>9. VarsType' /\ \A w \in alloc : var'[w].object = var[w].object
    BY <2>5, <2>6, <2>7, <2>8 DEF VarsType
  <2>10. Steady
    BY <2>5, <2>9 DEF Steady
  <2>11. Typed
    BY <2>5 DEF Typed, Plain, ArgsType
  <2>12. NULL \in Some
    BY DEF Some
  <2>13. PICK h \in Frame : /\ h = Entered("wait", "value", NULL, NULL, NULL)
                            /\ h.op = "wait" /\ h.pc = "value" /\ h.key = NULL /\ h.var = NULL
    BY <2>12, EnteredIs DEF Ops, Pcs
  <2>14. Go(t, "value", h)
    BY <2>5, <2>13
  <2>15. ASSUME NEW g \in Frame, g.pc = "value", SameBut(h, g)
         PROVE  /\ GoodFrame(g) /\ Linked(g)
                /\ \A x \in Objs : REF'[x] = REF[x] - Weight(Top(t), x) + Weight(g, x)
    <3>1. GoodFrame(g) /\ Linked(g)
      BY <2>13, <2>15, Constants DEF GoodFrame, Linked, SameBut, VarsType
    <3>2. \A x : Weight(f, x) = 0 /\ Weight(g, x) = 0
      BY <2>1, <2>2, <2>13, <2>15, Weighs DEF SameBut
    <3>3. \A x \in Objs : REF'[x] = REF[x] - Weight(Top(t), x) + Weight(g, x)
      BY <2>2, <2>5, <3>2 DEF Plain
    <3> QED BY <3>1, <3>3
  <2>16. LockUse(t)
    BY <2>1, <2>5 DEF LockUse
  <2>17. \A x \in Objs : x \notin live' => REF'[x] = 0
    BY <2>5 DEF Counts
  <2>18. "value" \in Pcs \ {"found"}
    BY DEF Pcs
  <2> QED BY <2>1, <2>10, <2>11, <2>14, <2>15, <2>16, <2>17, <2>18, GoStep
<1> QED BY <1>1, <1>2

LEMMA SuspendInv ==
  ASSUME IInv, NEW t \in Threads, Suspend(t)
  PROVE  IInv'
<1> USE DEF IInv
<1>1. call[t] # <<>> /\ Top(t).op = "wait" /\ Top(t).pc = "value" /\ Outside(t)
  BY DEF Suspend, At, Outside, Locks
<1>2. PICK f \in Frame, c \in InProgress : f = Top(t) /\ Frm(c) = f /\ GoodFrame(f) /\ Linked(f)
  BY <1>1, TopGood
<1>3. /\ Go(t, "asleep", f) /\ asleep' = asleep \cup {t}
      /\ UNCHANGED <<lock, entry, var, alloc, args, REF, live, marks, fault>>
  BY <1>2 DEF Suspend
<1>4. ASSUME NEW g \in Frame, g.pc = "asleep", SameBut(f, g)
      PROVE  /\ GoodFrame(g) /\ Linked(g)
             /\ \A x \in Objs : REF'[x] = REF[x] - Weight(Top(t), x) + Weight(g, x)
  <2>1. GoodFrame(g) /\ Linked(g)
    BY <1>1, <1>2, <1>4 DEF GoodFrame, Linked, SameBut
  <2>2. \A x : Weight(f, x) = 0 /\ Weight(g, x) = 0
    BY <1>1, <1>2, <1>4, Weighs DEF SameBut
  <2>3. \A x \in Objs : REF'[x] = REF[x] - Weight(Top(t), x) + Weight(g, x)
    BY <1>2, <1>3, <2>2 DEF Plain
  <2> QED BY <2>1, <2>3
<1>5. Steady
  BY <1>3, VarsSame
<1>6. Typed
  BY <1>3 DEF Typed, Plain, ArgsType
<1>7. LockUse(t)
  BY <1>1, <1>3 DEF LockUse
<1>8. \A x \in Objs : x \notin live' => REF'[x] = 0
  BY <1>3 DEF Counts
<1>9. "asleep" \in Pcs \ {"found"}
  BY DEF Pcs
<1> QED BY <1>1, <1>3, <1>4, <1>5, <1>6, <1>7, <1>8, <1>9, GoStep

LEMMA WaitDoneInv ==
  ASSUME IInv, NEW t \in Threads, WaitDone(t)
  PROVE  IInv'
<1> USE DEF IInv
<1>1. call[t] # <<>> /\ Top(t).op = "wait" /\ Top(t).pc = "asleep" /\ Outside(t)
  BY DEF WaitDone, At, Outside, Locks
<1>2. Return(t) /\ UNCHANGED <<lock, entry, var, alloc, args, REF, live, asleep, marks, fault>>
  BY DEF WaitDone
<1>3. Steady
  BY <1>2, VarsSame
<1>4. Typed
  BY <1>2 DEF Typed, Plain, ArgsType
<1>5. LockUse(t)
  BY <1>1, <1>2 DEF LockUse
<1>6. \A x \in Objs : REF'[x] = REF[x] - Weight(Top(t), x)
  <2>1. \A x : Weight(Top(t), x) = 0
    BY <1>1, TopIs, Weighs
  <2> QED BY <1>2, <2>1 DEF Plain
<1>7. \A x \in Objs : x \notin live' => REF'[x] = 0
  BY <1>2 DEF Counts
<1> QED BY <1>1, <1>2, <1>3, <1>4, <1>5, <1>6, <1>7, ReturnStep

(* What stays when no call goes on: what is collected has no reference. *)
LEMMA IdleInv ==
  ASSUME IInv, UNCHANGED <<lock, entry, var, alloc, args, REF, call, asleep, marks>>,
         live' \subseteq live, \A o \in live \ live' : o \in Objs /\ REF[o] = 0,
         fault' \in {"none", "variable", "binding", "value", "unbound"}
  PROVE  IInv'
<1> USE DEF IInv
<1>1. /\ CallsType' /\ InProgress' = InProgress /\ \A c : Frm(c)' = Frm(c)
      /\ \A x : Protected(x)' = Protected(x)
  BY CallsSame
<1>2. Plain' /\ ArgsType'
  BY DEF Plain, ArgsType
<1>3. VarsType' /\ EntriesExact' /\ HasValue' /\ \A x : Cardinality(Holders(x))' = Cardinality(Holders(x))
  BY VarsSame, SteadyKeeps
<1>4. FramesGood'
  BY <1>1 DEF FramesGood, GoodFrame, Linked
<1>5. LocksInv'
  BY <1>1 DEF LocksInv, Exclusive, LockExact, Locks, Top
<1>6. Counts'
  BY <1>1, <1>3 DEF Counts, Total
<1> QED BY <1>1, <1>2, <1>3, <1>4, <1>5, <1>6

LEMMA CallInv ==
  ASSUME IInv, NEW t \in Threads, Call(t)
  PROVE  IInv'
<1>1. ASSUME NEW o \in Objs, Compute(t, o) PROVE IInv'
  BY <1>1, ComputeInv
<1>2. ASSUME NEW k \in Keys, EnterSet(t, k) PROVE IInv'
  BY <1>2, EnterSetInv
<1>3. ASSUME NEW k \in Keys, GetLookup(t, k) PROVE IInv'
  BY <1>3, LooksUp DEF GetLookup
<1>4. ASSUME NEW k \in Keys, EnterErase(t, k) PROVE IInv'
  BY <1>4, LooksUp DEF EnterErase
<1>5. ASSUME NEW k \in Keys, BindLookup(t, k) PROVE IInv'
  BY <1>5, LooksUp DEF BindLookup
<1>6. ASSUME NEW k \in Keys, WaitLookup(t, k) PROVE IInv'
  BY <1>6, LooksUp DEF WaitLookup
<1> QED BY <1>1, <1>2, <1>3, <1>4, <1>5, <1>6 DEF Call

LEMMA MapStepInv ==
  ASSUME IInv, NEW t \in Threads, MapStep(t)
  PROVE  IInv'
BY SetNewInv, SetReplaceInv, SetBoundInv, SetResumeInv, GetReadInv, GetResumeInv,
   RemovePlainInv, RemoveBoundInv, RemoveResumeInv, GiveInv, StartInv DEF MapStep

LEMMA ResumeInv ==
  ASSUME IInv, NEW t \in Threads, Resume(t)
  PROVE  IInv'
BY MapStepInv, BoundReturnsInv, GetUseInv, ArgsDoneInv, BindInv, AddWaitingInv, SuspendInv, WaitDoneInv
   DEF Resume

LEMMA InvNext == IInv /\ [Next]_vars => IInv'
<1> SUFFICES ASSUME IInv, [Next]_vars PROVE IInv'
  OBVIOUS
<1>1. CASE \E t \in Threads : Call(t) \/ Resume(t)
  BY <1>1, CallInv, ResumeInv
<1>2. CASE \E o \in Objs : GC(o)
  BY <1>2, IdleInv DEF GC, IInv, Plain
<1>3. CASE Over \/ UNCHANGED vars
  BY <1>3, IdleInv DEF Over, vars, IInv, Plain
<1> QED BY <1>1, <1>2, <1>3 DEF Next

THEOREM InvHolds == Spec => []IInv
BY InvInit, InvNext, PTL DEF Spec

(* The types. *)
THEOREM TypeCorrect == Spec => []TypeOK
<1>1. IInv => TypeOK
  <2> SUFFICES ASSUME IInv PROVE TypeOK
    OBVIOUS
  <2>1. var \in [Vars -> [object : Values \cup {NULL}, bound : SUBSET Events, update : SUBSET Threads]]
        /\ alloc \in SUBSET Vars
    BY DEF IInv, VarsType, VarRec
  <2>2. ASSUME NEW t \in Threads PROVE Len(call[t]) <= MaxDepth /\ Range(call[t]) \subseteq Frame
    <3>1. call[t] \in Seq(Frame) /\ Len(call[t]) <= MaxDepth
      BY DEF IInv, CallsType
    <3> QED BY <3>1 DEF Range
  <2> QED BY <2>1, <2>2 DEF IInv, Plain, LockRec, ArgsType, TypeOK
<1>2. Spec => []IInv
  BY InvHolds
<1> QED BY <1>1, <1>2, PTL

(* Table, TVariables and values agree, however many threads call the map, however
   their calls and those of bound functions nest, whatever those output, and
   however many variables and statements share a value. *)
THEOREM MapStaysExact == Spec => []MapExact
<1>1. IInv => MapExact
  <2> SUFFICES ASSUME IInv PROVE MapExact
    OBVIOUS
  <2>1. \A o \in live : REF[o] = Cardinality({v \in alloc : var[v].object = o}) + Protected(o)
    BY DEF IInv, Counts, Plain, Total, Holders
  <2>2. \A v \in alloc : var[v].object \in live \cup {True}
    BY Alive DEF IInv, HasValue, Values
  <2> QED BY <2>1, <2>2 DEF IInv, MapExact, ValuesCounted
<1>2. Spec => []IInv
  BY InvHolds
<1> QED BY <1>1, <1>2, PTL

(* The map's lock is held only by a thread between the search of its Set or Remove
   and what follows the search, and once: from the first bound get on, whose Unlock
   has nothing to give back, it may be held for ever. *)
LockReleased ==
  "get" \in marks \/ lock.owner = NULL \/
  (lock.count = 1 /\ \E t \in Threads : lock.owner = t /\ call[t] # <<>> /\ Locks(Top(t)))

THEOREM LockIsReleased == Spec => []LockReleased
<1>1. IInv => LockReleased
  BY DEF IInv, LocksInv, LockExact, Plain, LockRec, LockReleased
<1>2. Spec => []IInv
  BY InvHolds
<1> QED BY <1>1, <1>2, PTL

-----------------------------------------------------------------------------
(* Who wakes the threads asleep in Wait.                                   *)

ResumesByUpdate ==
  /\ \A t \in asleep \ asleep' : \E u \in Threads :
       /\ SetEnds(u) /\ Top(u).var \in alloc \cap alloc' /\ t \in var[Top(u).var].update
       /\ var'[Top(u).var].object = IF Top(u).ret = NULL THEN Top(u).obj ELSE Top(u).ret
  /\ \A u \in Threads : SetEnds(u) /\ Top(u).var # NULL =>
       asleep' \cap var[Top(u).var].update = {}

LEMMA LengthEnds ==
  ASSUME CallsType, NEW t \in Threads
  PROVE  /\ \A f : Push(t, f) => ~SetEnds(t)
         /\ \A f, pc : call[t] # <<>> /\ Go(t, pc, f) => ~SetEnds(t)
         /\ call'[t] = call[t] => ~SetEnds(t)
<1>1. call[t] \in Seq(Frame)
  BY DEF CallsType
<1>2. call[t] # <<>> => Len(call[t]) \in Nat \ {0} /\ Len(Front(call[t])) = Len(call[t]) - 1
                        /\ Front(call[t]) \in Seq(Frame)
  BY <1>1, FrontOf
<1>3. \A s \in Seq(Frame) : \A f : Len(Append(s, f)) = Len(s) + 1
  OBVIOUS
<1>4. ASSUME NEW f, Push(t, f) PROVE ~SetEnds(t)
  <2>1. call'[t] = Append(call[t], f)
    BY <1>4 DEF Push, CallsType
  <2>2. Len(Append(call[t], f)) = Len(call[t]) + 1
    BY <1>1, <1>3
  <2> QED BY <1>2, <2>1, <2>2 DEF SetEnds
<1>5. ASSUME NEW f, NEW pc, call[t] # <<>>, Go(t, pc, f) PROVE ~SetEnds(t)
  <2>1. PICK g : g = [f EXCEPT !.pc = pc]
    OBVIOUS
  <2>2. call'[t] = Append(Front(call[t]), g)
    BY <1>5, <2>1 DEF Go, CallsType
  <2>3. Len(Append(Front(call[t]), g)) = Len(Front(call[t])) + 1
    BY <1>2, <1>3, <1>5
  <2> QED BY <1>2, <2>2, <2>3 DEF SetEnds
<1>6. call'[t] = call[t] => ~SetEnds(t)
  BY <1>2 DEF SetEnds
<1> QED BY <1>4, <1>5, <1>6

\* What a step of t is, seen from the calls and the threads asleep.
StepKind(t) ==
  \/ \E v \in Vars : SetNew(t, v)
  \/ SetReplace(t)
  \/ SetResume(t) /\ Return(t)
  \/ asleep \subseteq asleep' /\ \E f : Push(t, f)
  \/ asleep \subseteq asleep' /\ call[t] # <<>> /\ \E f, pc : Go(t, pc, f)
  \/ asleep \subseteq asleep' /\ call[t] # <<>> /\ Return(t) /\ (Top(t).op # "set" \/ Top(t).pc = "done")
  \/ asleep \subseteq asleep' /\ call' = call

LEMMA CallKinds ==
  ASSUME NEW t \in Threads, Call(t)
  PROVE  StepKind(t)
BY DEF Call, StepKind, Compute, EnterSet, GetLookup, EnterErase, BindLookup, WaitLookup, Enter

LEMMA FaultKind == \A what, t : Fault(what) => StepKind(t)
BY DEF Fault, StepKind

LEMMA ResumeKinds ==
  ASSUME NEW t \in Threads, Resume(t)
  PROVE  StepKind(t)
<1>1. CASE \E what : Fault(what)
  BY <1>1, FaultKind
<1>2. CASE ~\E what : Fault(what)
  <2>1. CASE (\E v \in Vars : SetNew(t, v)) \/ SetReplace(t)
    BY <2>1 DEF StepKind
  <2>2. CASE SetBound(t)
    BY <2>2 DEF SetBound, At, StepKind
  <2>3. CASE SetResume(t)
    BY <1>2, <2>3 DEF SetResume, StepKind
  <2>4. CASE GetRead(t)
    BY <1>2, <2>4 DEF GetRead, At, StepKind
  <2>5. CASE GetResume(t)
    BY <1>2, <2>5 DEF GetResume, Back, At, StepKind
  <2>6. CASE RemovePlain(t)
    BY <2>6 DEF RemovePlain, At, StepKind
  <2>7. CASE RemoveBound(t)
    BY <2>7 DEF RemoveBound, At, StepKind
  <2>8. CASE RemoveResume(t)
    <3>1. asleep' = asleep /\ Return(t) /\ call[t] # <<>> /\ Top(t).op = "erase"
      BY <1>2, <2>8 DEF RemoveResume, Back, At
    <3> QED BY <3>1 DEF StepKind
  <2>9. CASE Give(t)
    BY <1>2, <2>9 DEF Give, StepKind
  <2>10. CASE Start(t)
    BY <1>2, <2>10 DEF Start, StepKind
  <2>11. ASSUME NEW what \in Outputs, BoundReturns(t, what) PROVE StepKind(t)
    <3>1. PICK f : Go(t, "back", f)
      BY <1>2, <2>11 DEF BoundReturns
    <3>2. asleep' = asleep /\ call[t] # <<>>
      BY <1>2, <2>11 DEF BoundReturns
    <3> QED BY <3>1, <3>2 DEF StepKind
  <2>12. CASE GetUse(t)
    BY <1>2, <2>12 DEF GetUse, At, StepKind
  <2>13. CASE ArgsDone(t)
    BY <2>13 DEF ArgsDone, StepKind
  <2>14. ASSUME NEW e \in Events, Bind(t, e) \/ UnBind(t, e) PROVE StepKind(t)
    <3>1. Return(t) /\ asleep' = asleep /\ call[t] # <<>> /\ Top(t).op = "bind"
      BY <1>2, <2>14 DEF Bind, UnBind, Rebind, At
    <3> QED BY <3>1 DEF StepKind
  <2>15. CASE AddWaiting(t)
    BY <1>2, <2>15 DEF AddWaiting, At, StepKind
  <2>16. CASE Suspend(t)
    BY <2>16 DEF Suspend, At, StepKind
  <2>17. CASE WaitDone(t)
    BY <2>17 DEF WaitDone, At, StepKind
  <2> QED BY <2>1, <2>2, <2>3, <2>4, <2>5, <2>6, <2>7, <2>8, <2>9, <2>10, <2>11, <2>12, <2>13,
             <2>14, <2>15, <2>16, <2>17 DEF Resume, MapStep
<1> QED BY <1>1, <1>2

(* A step of one thread leaves the calls of the others. *)
LEMMA OthersStay ==
  ASSUME CallsType, NEW t \in Threads, StepKind(t), NEW u \in Threads, u # t
  PROVE  call'[u] = call[u]
<1>1. \A f : Push(t, f) => call'[u] = call[u]
  BY DEF Push, CallsType
<1>2. \A f, pc : Go(t, pc, f) => call'[u] = call[u]
  BY DEF Go, CallsType
<1>3. Return(t) => call'[u] = call[u]
  BY DEF Return, CallsType
<1>4. (\E v \in Vars : SetNew(t, v)) \/ SetReplace(t) => Return(t)
  BY DEF SetNew, SetReplace
<1> QED BY <1>1, <1>2, <1>3, <1>4 DEF StepKind

LEMMA AssignWakes ==
  ASSUME IInv, NEW t \in Threads, SetEnds(t), \A u \in Threads : u # t => ~SetEnds(u),
         Top(t).var \in alloc, alloc' = alloc, NEW R,
         Assign(Top(t).var, IF Top(t).ret = NULL THEN Top(t).obj ELSE Top(t).ret, R)
  PROVE  ResumesByUpdate
<1>1. PICK v, new : v = Top(t).var /\ new = IF Top(t).ret = NULL THEN Top(t).obj ELSE Top(t).ret
  OBVIOUS
<1>2. /\ var' = [var EXCEPT ![v].object = new, ![v].update = {}]
      /\ asleep' = asleep \ var[v].update
  BY <1>1 DEF Assign
<1>3. v \in Vars /\ var[v] \in VarRec
  BY <1>1 DEF IInv, VarsType
<1>4. var'[v].object = new
  <2>1. var'[v] = [var[v] EXCEPT !.object = new, !.update = {}]
    BY <1>2, <1>3 DEF IInv, VarsType
  <2> QED BY <1>3, <2>1 DEF VarRec
<1> QED BY <1>1, <1>2, <1>4 DEF ResumesByUpdate

LEMMA KindWakes ==
  ASSUME IInv, NEW t \in Threads, StepKind(t)
  PROVE  ResumesByUpdate
<1> USE DEF IInv
<1>1. \A u \in Threads : u # t => ~SetEnds(u)
  BY OthersStay, LengthEnds
<1>2. asleep \subseteq asleep' /\ ~SetEnds(t) => ResumesByUpdate
  BY <1>1 DEF ResumesByUpdate
<1>3. ASSUME NEW v \in Vars, SetNew(t, v) PROVE ResumesByUpdate
  <2>1. asleep' = asleep /\ Top(t).var = NULL
    BY <1>3 DEF SetNew
  <2> QED BY <1>1, <2>1 DEF ResumesByUpdate
<1>4. CASE SetReplace(t)
  <2>1. call[t] # <<>> /\ ~Outside(t) /\ Top(t).op = "set" /\ Top(t).pc = "found"
    BY <1>4 DEF SetReplace, At, Outside, Locks
  <2>2. PICK f \in Frame, c \in InProgress : f = Top(t) /\ GoodFrame(f)
    BY <2>1, TopGood
  <2>3. f.var \in alloc /\ f.ret = NULL
    BY <1>4, <2>1, <2>2, Mine DEF LocksInv, GoodFrame, EntriesExact, SetReplace
  <2>4. Assign(Top(t).var, IF Top(t).ret = NULL THEN Top(t).obj ELSE Top(t).ret, REF)
    BY <1>4, <2>2, <2>3 DEF SetReplace
  <2>5. SetEnds(t) /\ alloc' = alloc
    BY <1>4, <2>1 DEF SetReplace, SetEnds, Return, CallsType
  <2> QED BY <1>1, <2>2, <2>3, <2>4, <2>5, AssignWakes
<1>5. CASE SetResume(t) /\ Return(t)
  <2>1. call[t] # <<>> /\ Top(t).op = "set"
    BY <1>5 DEF SetResume, Back, At
  <2>2. SetEnds(t)
    BY <1>5, <2>1 DEF SetEnds, Return, CallsType
  <2>3. ~\E what : Fault(what)
    BY <2>2, LengthEnds DEF Fault
  <2>4. PICK R : R = RemRef(Top(t).obj, REF)
    OBVIOUS
  <2>5. /\ Top(t).var \in alloc /\ alloc' = alloc
        /\ \/ Top(t).ret = NULL /\ Assign(Top(t).var, Top(t).obj, REF)
           \/ Top(t).ret # NULL /\ Assign(Top(t).var, Top(t).ret, AddRef(Top(t).ret, R))
    BY <1>5, <2>3, <2>4 DEF SetResume
  <2>6. PICK S : Assign(Top(t).var, IF Top(t).ret = NULL THEN Top(t).obj ELSE Top(t).ret, S)
    BY <2>5
  <2> QED BY <1>1, <2>2, <2>5, <2>6, AssignWakes
<1>6. ASSUME asleep \subseteq asleep', NEW f, Push(t, f) PROVE ResumesByUpdate
  BY <1>2, <1>6, LengthEnds
<1>7. ASSUME asleep \subseteq asleep', call[t] # <<>>, NEW f, NEW pc, Go(t, pc, f) PROVE ResumesByUpdate
  BY <1>2, <1>7, LengthEnds
<1>8. CASE asleep \subseteq asleep' /\ call[t] # <<>> /\ (Top(t).op # "set" \/ Top(t).pc = "done")
  <2>1. PICK f \in Frame, c \in InProgress : f = Top(t) /\ GoodFrame(f)
    BY <1>8, TopGood
  <2>2. ~SetEnds(t)
    BY <1>8, <2>1 DEF GoodFrame, SetEnds
  <2> QED BY <1>2, <1>8, <2>2
<1>9. CASE asleep \subseteq asleep' /\ call' = call
  BY <1>2, <1>9, LengthEnds
<1> QED BY <1>3, <1>4, <1>5, <1>6, <1>7, <1>8, <1>9 DEF StepKind

(* A thread asleep in Wait is resumed by the end of a Set of the variable it waits
   for, with the value that Set gives it in place: not while the function bound to
   set still runs, not by an erase.  And the end of a Set resumes all who wait. *)
THEOREM WaitEndsByUpdate == Spec => ResumedByUpdate
<1>1. IInv /\ [Next]_vars => [ResumesByUpdate]_vars
  <2> SUFFICES ASSUME IInv, Next PROVE ResumesByUpdate \/ UNCHANGED vars
    OBVIOUS
  <2>1. ASSUME NEW t \in Threads, Call(t) \/ Resume(t) PROVE ResumesByUpdate
    BY <2>1, CallKinds, ResumeKinds, KindWakes
  <2>2. ASSUME NEW o \in Objs, GC(o) PROVE ResumesByUpdate
    <3>1. asleep' = asleep /\ \A u \in Threads : ~SetEnds(u)
      BY <2>2, LengthEnds DEF GC, IInv
    <3> QED BY <3>1 DEF ResumesByUpdate
  <2> QED BY <2>1, <2>2 DEF Next, Over
<1>2. Spec => []IInv
  BY InvHolds
<1> QED BY <1>1, <1>2, PTL DEF Spec, ResumedByUpdate, ResumesByUpdate

-----------------------------------------------------------------------------
(* Nothing is used after its deletion, while scripts do none of what marks   *)
(* remembers: then one thread calls the map at a time, its calls below the   *)
(* last one are statements and bound functions, and a bound function's       *)
(* variable is left alone by the calls above it.                             *)

Clean == marks \cap {"overlap", "reentry", "old"} = {}

OneCaller == \A c, d \in InProgress : c[1] = d[1]
Stacked   == \A c, d \in InProgress : c[2] < d[2] => Frm(c).pc \in {"bound", "done"}
OwnKeys   == \A c, d \in InProgress : c[2] < d[2] /\ Frm(c).pc = "bound" => Frm(c).key # Frm(d).key

\* The value given to Set is one of the SQI_Args of the statement.
Backed(f, c) == f.op = "set" =>
  \E d \in InProgress : d[2] < c[2] /\ Frm(d).pc = "done" /\ Frm(d).obj = f.obj
AllBacked == \A c \in InProgress : Backed(Frm(c), c)

\* What the function bound to the event of f has as its second input.
NewOf(f) == IF f.op = "set" THEN f.obj ELSE NULL

\* What the call f remembers agrees with the TVariables: A, those allocated, V, what
\* they hold, and G, the inputs of the functions bound.
Current(f, A, V, G) ==
  /\ f.pc = "done" => f.var = NULL
  /\ f.var \in Vars => f.var \in A
  /\ f.pc = "found" => f.new = NULL
  /\ f.pc \in {"give", "given"} => f.ret = NULL
  /\ f.pc \in {"give", "given", "bound", "back"} => f.op \in V[f.var].bound
  /\ f.pc \in {"give", "bound"} => f.old = V[f.var].object /\ f.new = NewOf(f)
  /\ f.pc = "given" => \/ G[<<f.var, f.op>>] = NULL
                       \/ /\ G[<<f.var, f.op>>].old = V[f.var].object
                          /\ G[<<f.var, f.op>>].new = NewOf(f)
  /\ f.pc = "back" => f.ret \in {NULL, True, IF f.op = "set" THEN f.obj ELSE V[f.var].object}
  /\ f.op = "get" /\ f.pc = "value" => f.obj = True \/ \E v \in A : V[v].object = f.obj

FramesCurrent == \A c \in InProgress : Current(Frm(c), alloc, var, args)

CallsSafe == OneCaller /\ Stacked /\ OwnKeys /\ AllBacked /\ FramesCurrent

\* A step touches no TVariable but v.
OnlyTouches(v) ==
  \A w \in alloc : w # v =>
    w \in alloc' /\ var'[w].object = var[w].object /\ var'[w].bound = var[w].bound

\* The calls below d are what d was entered from.
Under(t, d, k) ==
  \A c \in InProgress : c # d =>
    /\ c[1] = t /\ c[2] < d[2] /\ Frm(c).pc \in {"bound", "done"}
    /\ Frm(c).pc = "bound" => Frm(c).key # k

LEMMA TopIsLast ==
  ASSUME IInv, CallsSafe, NEW t \in Threads, call[t] # <<>>
  PROVE  Under(t, <<t, Len(call[t])>>, Top(t).key)
<1> PICK d : d = <<t, Len(call[t])>>
  OBVIOUS
<1>1. d \in InProgress /\ Frm(d) = Top(t) /\ Len(call[t]) \in Nat /\ d[1] = t /\ d[2] = Len(call[t])
  BY TopIs, Depth DEF IInv, CallsType
<1>2. ASSUME NEW c \in InProgress, c # d
      PROVE  /\ c[1] = t /\ c[2] < d[2] /\ Frm(c).pc \in {"bound", "done"}
             /\ Frm(c).pc = "bound" => Frm(c).key # Top(t).key
  <2>1. c = <<c[1], c[2]>> /\ c[2] \in Nat /\ c[2] <= Len(call[c[1]])
    BY Depth DEF InProgress
  <2>2. c[1] = t
    BY <1>1 DEF CallsSafe, OneCaller
  <2>3. c[2] < d[2]
    BY <1>1, <1>2, <2>1, <2>2
  <2> QED BY <1>1, <2>2, <2>3 DEF CallsSafe, Stacked, OwnKeys
<1> QED BY <1>2 DEF Under

LEMMA EntersLast ==
  ASSUME IInv, CallsSafe, NEW t \in Threads, MayCall(t), NEW f, Push(t, f), Clean'
  PROVE  Under(t, <<t, Len(call[t]) + 1>>, f.key)
<1> PICK d : d = <<t, Len(call[t]) + 1>>
  OBVIOUS
<1>1. ~Overlaps(t) /\ ~Reenters(t, f.key)
  BY DEF Push, MarkIf, Clean
<1>2. Len(call[t]) \in Nat /\ d[2] = Len(call[t]) + 1
  BY DEF IInv, CallsType
<1>3. ASSUME NEW c \in InProgress
      PROVE  c[1] \in Threads /\ c = <<c[1], c[2]>> /\ c[2] \in 1..Len(call[c[1]]) /\ call[c[1]] # <<>>
  BY Depth DEF InProgress, IInv, CallsType
<1>4. CASE call[t] = <<>>
  <2>1. \A u \in Threads : call[u] = <<>>
    BY <1>1, <1>4 DEF Overlaps
  <2> QED BY <1>3, <2>1 DEF Under
<1>5. CASE call[t] # <<>>
  <2>1. Under(t, <<t, Len(call[t])>>, Top(t).key) /\ Top(t).pc \in {"bound", "done"}
    BY <1>5, TopIsLast DEF MayCall
  <2>2. Frm(<<t, Len(call[t])>>) = Top(t)
    BY <1>5, TopIs DEF IInv
  <2>3. ASSUME NEW c \in InProgress
        PROVE  /\ c[1] = t /\ c[2] < d[2] /\ Frm(c).pc \in {"bound", "done"}
               /\ Frm(c).pc = "bound" => Frm(c).key # f.key
    <3>1. c[1] = t /\ Frm(c).pc \in {"bound", "done"}
      BY <2>1, <2>2 DEF Under
    <3>2. c[2] \in 1..Len(call[t]) /\ Frm(c) = call[t][c[2]]
      BY <1>3, <3>1 DEF Frm
    <3>3. Frm(c).pc = "bound" => Frm(c).key # f.key
      BY <1>1, <3>2 DEF Reenters
    <3> QED BY <1>2, <3>1, <3>2, <3>3
  <2> QED BY <2>3 DEF Under
<1> QED BY <1>4, <1>5

\* A TVariable a call remembers is the one of its name.
LEMMA VarsOf ==
  ASSUME IInv, CallsSafe, NEW c \in InProgress
  PROVE  /\ GoodFrame(Frm(c)) /\ Current(Frm(c), alloc, var, args)
         /\ Frm(c).var \in Vars => /\ Frm(c).var \in alloc /\ Frm(c).key \in Keys
                                   /\ entry[Frm(c).key] = Frm(c).var
<1>1. GoodFrame(Frm(c)) /\ Linked(Frm(c))
  BY DEF IInv, FramesGood
<1>2. Current(Frm(c), alloc, var, args)
  BY DEF CallsSafe, FramesCurrent
<1> QED BY <1>1, <1>2 DEF GoodFrame, Linked, Current

\* A call below, whose function does not run for v, is as before.
LEMMA StaysCurrent ==
  ASSUME IInv, CallsSafe, NEW v, OnlyTouches(v), NEW c \in InProgress,
         Frm(c).pc \in {"bound", "done"}, Frm(c).pc = "bound" => Frm(c).var # v
  PROVE  Current(Frm(c), alloc', var', args')
<1> PICK f : f = Frm(c)
  OBVIOUS
<1>1. GoodFrame(f) /\ Current(f, alloc, var, args)
  BY VarsOf
<1>2. CASE f.pc = "bound"
  <2>1. f.var \in alloc /\ f.var # v
    BY <1>1, <1>2 DEF GoodFrame, Current
  <2> QED BY <1>1, <1>2, <2>1 DEF Current, OnlyTouches
<1>3. CASE f.pc = "done"
  BY <1>1, <1>3, Constants DEF Current
<1> QED BY <1>2, <1>3

LEMMA BelowTop ==
  ASSUME IInv, CallsSafe, NEW t \in Threads, call[t] # <<>>, NEW c \in InProgress,
         c # <<t, Len(call[t])>>
  PROVE  Frm(c).pc \in {"bound", "done"} /\ (Frm(c).pc = "bound" => Frm(c).var # Top(t).var)
<1> PICK d : d = <<t, Len(call[t])>>
  OBVIOUS
<1>1. d \in InProgress /\ Frm(d) = Top(t)
  BY TopIs DEF IInv
<1>2. Frm(c).pc \in {"bound", "done"} /\ (Frm(c).pc = "bound" => Frm(c).key # Frm(d).key)
  BY <1>1, TopIsLast DEF Under
<1>3. Frm(c).pc = "bound" => Frm(c).var \in Vars
  BY VarsOf DEF GoodFrame
<1>4. ASSUME Frm(c).pc = "bound", Frm(c).var = Frm(d).var PROVE FALSE
  <2>1. Frm(c).var \in Vars /\ Frm(d).var \in Vars
    BY <1>3, <1>4
  <2>2. /\ Frm(c).key \in Keys /\ entry[Frm(c).key] = Frm(c).var
        /\ Frm(d).key \in Keys /\ entry[Frm(d).key] = Frm(d).var
    BY <1>1, <2>1, VarsOf
  <2> QED BY <1>2, <1>4, <2>1, <2>2, Constants DEF IInv, EntriesExact
<1> QED BY <1>1, <1>2, <1>4

(* The last call moves: it is entered, goes on as g, or returns. *)
LEMMA SafeMoves ==
  ASSUME IInv, CallsSafe, NEW t, NEW d, NEW g, Moves(t, d, g), NEW k, Under(t, d, k),
         \A c \in InProgress : c # d => Current(Frm(c), alloc', var', args'),
         d \in InProgress' => /\ g.key \in {k, NULL} /\ Current(g, alloc', var', args')
                              /\ Backed(g, d)
  PROVE  CallsSafe'
<1>1. \A c \in InProgress' : c # d =>
        /\ c \in InProgress /\ Frm(c)' = Frm(c) /\ c[1] = t /\ c[2] < d[2] /\ d[1] = t
        /\ Frm(c).pc \in {"bound", "done"} /\ (Frm(c).pc = "bound" => Frm(c).key # k)
        /\ Current(Frm(c), alloc', var', args')
  BY DEF Moves, Under
<1>2. d \in InProgress' => Frm(d)' = g
  BY DEF Moves
<1>3. \A c \in InProgress' : c[1] = t /\ c[2] \in Int
  BY <1>1 DEF Moves, InProgress
<1>4. OneCaller'
  BY <1>3 DEF OneCaller
<1>5. \A c, e \in InProgress' : c[2] < e[2] => c # d
  BY <1>1, <1>3
<1>6. Stacked'
  BY <1>1, <1>5 DEF Stacked
<1>7. \A c \in InProgress : Frm(c).pc = "bound" => Frm(c).key \in Keys
  BY VarsOf DEF GoodFrame
<1>8. OwnKeys'
  <2> SUFFICES ASSUME NEW c \in InProgress', NEW e \in InProgress', c[2] < e[2], Frm(c)'.pc = "bound"
               PROVE  Frm(c)'.key # Frm(e)'.key
    BY DEF OwnKeys
  <2>1. c # d /\ c \in InProgress /\ Frm(c)' = Frm(c)
    BY <1>1, <1>5
  <2>2. CASE e = d
    BY <1>1, <1>2, <1>7, <2>1, <2>2, Constants
  <2>3. CASE e # d
    BY <1>1, <2>1, <2>3 DEF CallsSafe, OwnKeys
  <2> QED BY <2>2, <2>3
<1>9. AllBacked'
  <2> SUFFICES ASSUME NEW c \in InProgress', Frm(c)'.op = "set"
               PROVE  \E e \in InProgress' : e[2] < c[2] /\ Frm(e)'.pc = "done" /\ Frm(e)'.obj = Frm(c)'.obj
    BY DEF AllBacked, Backed
  <2>1. CASE c = d
    <3>1. PICK e \in InProgress : e[2] < d[2] /\ Frm(e).pc = "done" /\ Frm(e).obj = g.obj
      BY <1>2, <2>1 DEF Backed
    <3>2. d[2] \in Int
      BY <1>3, <2>1
    <3>3. e # d
      BY <3>1, <3>2
    <3>4. e \in InProgress' /\ Frm(e)' = Frm(e)
      BY <3>3 DEF Moves
    <3> QED BY <1>2, <2>1, <3>1, <3>4
  <2>2. CASE c # d
    <3>1. c \in InProgress /\ Frm(c)' = Frm(c) /\ c[2] < d[2]
      BY <1>1, <2>2
    <3>2. PICK e \in InProgress : e[2] < c[2] /\ Frm(e).pc = "done" /\ Frm(e).obj = Frm(c).obj
      BY <3>1 DEF CallsSafe, AllBacked, Backed
    <3>3. c[2] \in Int /\ e[2] \in Int
      BY <1>3, <3>2 DEF InProgress
    <3>4. e # d
      BY <3>1, <3>2, <3>3
    <3>5. e \in InProgress' /\ Frm(e)' = Frm(e)
      BY <3>4 DEF Moves
    <3> QED BY <3>1, <3>2, <3>5
  <2> QED BY <2>1, <2>2
<1>10. FramesCurrent'
  BY <1>1, <1>2 DEF FramesCurrent
<1> QED BY <1>4, <1>6, <1>8, <1>9, <1>10 DEF CallsSafe

LEMMA SafeEnters ==
  ASSUME IInv, CallsSafe, NEW t \in Threads, MayCall(t), NEW f \in Frame, Push(t, f), Clean',
         UNCHANGED <<alloc, var, args>>, Current(f, alloc, var, args),
         f.op = "set" => call[t] # <<>> /\ Top(t).pc = "done" /\ Top(t).obj = f.obj
  PROVE  CallsSafe'
<1>1. PICK d : d = <<t, Len(call[t]) + 1>> /\ Moves(t, d, f)
  BY MayCalls, Enters DEF IInv, Push, Pushes
<1>2. Under(t, d, f.key)
  BY <1>1, EntersLast
<1>3. Backed(f, d)
  <2> SUFFICES ASSUME f.op = "set"
               PROVE  \E e \in InProgress : e[2] < d[2] /\ Frm(e).pc = "done" /\ Frm(e).obj = f.obj
    BY DEF Backed
  <2>1. <<t, Len(call[t])>> \in InProgress /\ Frm(<<t, Len(call[t])>>) = Top(t) /\ Len(call[t]) \in Nat
    BY TopIs, Depth DEF IInv, CallsType
  <2> QED BY <1>1, <2>1
<1>4. \A c \in InProgress : Current(Frm(c), alloc', var', args')
  BY DEF CallsSafe, FramesCurrent
<1> QED BY <1>1, <1>2, <1>3, <1>4, SafeMoves

LEMMA SafeGoes ==
  ASSUME IInv, CallsSafe, NEW t \in Threads, call[t] # <<>>, NEW f \in Frame, NEW pc \in Pcs,
         Go(t, pc, f), f.key \in {Top(t).key, NULL},
         f.op = "set" => Top(t).op = "set" /\ Top(t).obj = f.obj,
         OnlyTouches(Top(t).var),
         \A g \in Frame : g.pc = pc /\ SameBut(f, g) => Current(g, alloc', var', args')
  PROVE  CallsSafe'
<1>1. PICK g \in Frame, d \in InProgress :
        /\ g.pc = pc /\ SameBut(f, g)
        /\ d = <<t, Len(call[t])>> /\ Frm(d) = Top(t) /\ d \in InProgress' /\ Moves(t, d, g)
  BY GoesOn DEF IInv
<1>2. Under(t, d, Top(t).key)
  BY <1>1, TopIsLast
<1>3. Backed(g, d)
  <2>1. Backed(Frm(d), d)
    BY DEF CallsSafe, AllBacked
  <2>2. g.op = f.op /\ g.obj = f.obj
    BY <1>1 DEF SameBut
  <2> QED BY <1>1, <2>1, <2>2 DEF Backed
<1>4. \A c \in InProgress : c # d => Current(Frm(c), alloc', var', args')
  BY <1>1, BelowTop, StaysCurrent
<1>5. g.key \in {Top(t).key, NULL} /\ Current(g, alloc', var', args')
  BY <1>1 DEF SameBut
<1> QED BY <1>1, <1>2, <1>3, <1>4, <1>5, SafeMoves

LEMMA SafeReturns ==
  ASSUME IInv, CallsSafe, NEW t \in Threads, call[t] # <<>>, Return(t), OnlyTouches(Top(t).var)
  PROVE  CallsSafe'
<1>1. PICK d \in InProgress :
        d = <<t, Len(call[t])>> /\ Frm(d) = Top(t) /\ d \notin InProgress' /\ \A g : Moves(t, d, g)
  BY Returns DEF IInv
<1>2. Under(t, d, Top(t).key)
  BY <1>1, TopIsLast
<1>3. \A c \in InProgress : c # d => Current(Frm(c), alloc', var', args')
  BY <1>1, BelowTop, StaysCurrent
<1>4. Moves(t, d, Top(t))
  BY <1>1
<1> QED BY <1>1, <1>2, <1>3, <1>4, SafeMoves

LEMMA SafeSame ==
  ASSUME CallsSafe, UNCHANGED <<alloc, var, args, call>>
  PROVE  CallsSafe'
<1>1. InProgress' = InProgress /\ \A c : Frm(c)' = Frm(c)
  BY CallsSame
<1>2. OneCaller' /\ Stacked' /\ OwnKeys'
  BY <1>1 DEF CallsSafe, OneCaller, Stacked, OwnKeys
<1>3. AllBacked'
  BY <1>1 DEF CallsSafe, AllBacked, Backed
<1>4. FramesCurrent'
  BY <1>1 DEF CallsSafe, FramesCurrent
<1> QED BY <1>2, <1>3, <1>4 DEF CallsSafe

LEMMA NothingTouched ==
  ASSUME NEW v, UNCHANGED <<alloc, var>>
  PROVE  OnlyTouches(v)
BY DEF OnlyTouches

LEMMA TopSafe ==
  ASSUME IInv, CallsSafe, NEW t \in Threads, call[t] # <<>>
  PROVE  \E f \in Frame, c \in InProgress :
           /\ f = Top(t) /\ c = <<t, Len(call[t])>> /\ Frm(c) = f
           /\ GoodFrame(f) /\ Current(f, alloc, var, args)
           /\ f.var \in Vars => f.var \in alloc /\ f.key \in Keys /\ entry[f.key] = f.var
BY TopIs, VarsOf DEF IInv

\* What a TVariable has, and what Set was given, is not deleted.
LEMMA HeldLive ==
  ASSUME IInv
  PROVE  /\ \A v \in alloc : ~Dead(var[v].object)
         /\ \A f \in Frame, c \in InProgress : Frm(c) = f /\ GoodFrame(f) /\ f.op = "set" => ~Dead(f.obj)
         /\ ~Dead(NULL) /\ ~Dead(True)
<1>1. ASSUME NEW v \in alloc PROVE ~Dead(var[v].object)
  BY Alive DEF IInv, Dead
<1>2. ASSUME NEW f \in Frame, NEW c \in InProgress, Frm(c) = f, GoodFrame(f), f.op = "set"
      PROVE  ~Dead(f.obj)
  <2>1. f.pc # "done"
    BY <1>2 DEF GoodFrame
  <2>2. f.obj \in Objs => Weight(f, f.obj) > 0
    BY <1>2, <2>1, Weighs DEF Eq
  <2> QED BY <1>2, <2>2, Alive DEF IInv, Dead
<1>3. ~Dead(NULL) /\ ~Dead(True)
  BY ParameterAssumption DEF Dead
<1> QED BY <1>1, <1>2, <1>3

(* What a statement or a bound function begins. *)
LEMMA SafeCall ==
  ASSUME IInv, CallsSafe, Clean', NEW t \in Threads, Call(t)
  PROVE  CallsSafe' /\ fault' = fault
<1>1. ASSUME NEW o \in Objs, Compute(t, o) PROVE CallsSafe' /\ fault' = fault
  <2>1. PICK f \in Frame : /\ f = Entered("value", "done", NULL, NULL, o)
                           /\ f.op = "value" /\ f.pc = "done" /\ f.var = NULL
    BY EnteredIs, Constants DEF Ops, Pcs, Some
  <2>2. MayCall(t) /\ Push(t, f) /\ UNCHANGED <<alloc, var, args, fault>>
    BY <1>1, <2>1 DEF Compute
  <2>3. Current(f, alloc, var, args)
    BY <2>1, Constants DEF Current
  <2> QED BY <2>1, <2>2, <2>3, SafeEnters
<1>2. ASSUME NEW op \in {"set", "get", "erase", "bind", "wait"}, NEW k \in Keys, NEW o \in Some,
             MayCall(t), Enter(t, op, "found", k, o), UNCHANGED <<alloc, var, args>>,
             op = "set" => call[t] # <<>> /\ Top(t).pc = "done" /\ Top(t).obj = o
      PROVE  CallsSafe'
  <2>1. entry[k] \in Vars \cup {NULL} /\ (entry[k] \in Vars => entry[k] \in alloc)
    BY Constants DEF IInv, Plain, EntriesExact
  <2>2. PICK f \in Frame : /\ f = Entered(op, "found", k, entry[k], o)
                           /\ f.op = op /\ f.pc = "found" /\ f.var = entry[k] /\ f.obj = o /\ f.new = NULL
    BY <2>1, EnteredIs DEF Ops, Pcs
  <2>3. Push(t, f)
    BY <1>2, <2>2 DEF Enter
  <2>4. Current(f, alloc, var, args)
    BY <2>1, <2>2 DEF Current
  <2> QED BY <1>2, <2>2, <2>3, <2>4, SafeEnters
<1>3. ASSUME NEW k \in Keys, EnterSet(t, k) PROVE CallsSafe' /\ fault' = fault
  <2>1. PICK o : o = Top(t).obj
    OBVIOUS
  <2>2. /\ MayCall(t) /\ call[t] # <<>> /\ Top(t).pc = "done" /\ Enter(t, "set", "found", k, o)
        /\ UNCHANGED <<alloc, var, args, fault>>
    BY <1>3, <2>1 DEF EnterSet
  <2>3. o \in Some
    BY <2>1, <2>2, TopSafe, FrameFields
  <2> QED BY <1>2, <2>1, <2>2, <2>3
<1>4. NULL \in Some
  BY DEF Some
<1>5. ASSUME NEW k \in Keys, GetLookup(t, k) PROVE CallsSafe' /\ fault' = fault
  BY <1>2, <1>4, <1>5 DEF GetLookup
<1>6. ASSUME NEW k \in Keys, EnterErase(t, k) PROVE CallsSafe' /\ fault' = fault
  BY <1>2, <1>4, <1>6 DEF EnterErase
<1>7. ASSUME NEW k \in Keys, BindLookup(t, k) PROVE CallsSafe' /\ fault' = fault
  BY <1>2, <1>4, <1>7 DEF BindLookup
<1>8. ASSUME NEW k \in Keys, WaitLookup(t, k) PROVE CallsSafe' /\ fault' = fault
  BY <1>2, <1>4, <1>8 DEF WaitLookup
<1> QED BY <1>1, <1>3, <1>5, <1>6, <1>7, <1>8 DEF Call

(* The bound functions. *)
LEMMA SafeBound ==
  ASSUME IInv, NEW t \in Threads, NEW f \in Frame, GoodFrame(f), Current(f, alloc, var, args),
         f.pc \in {"give", "given", "bound", "back"}
  PROVE  Bound(f) /\ f.var \in alloc /\ f.var \in Vars /\ f.op \in Events /\ f.op \in var[f.var].bound
BY DEF IInv, VarsType, VarRec, GoodFrame, Current, Bound

LEMMA SafeGive ==
  ASSUME IInv, CallsSafe, NEW t \in Threads, Give(t)
  PROVE  CallsSafe' /\ fault' = fault
<1>1. call[t] # <<>> /\ Top(t).pc = "give"
  BY DEF Give
<1>2. PICK f \in Frame, c \in InProgress :
        f = Top(t) /\ Frm(c) = f /\ GoodFrame(f) /\ Current(f, alloc, var, args)
  BY <1>1, TopSafe
<1>3. Bound(f) /\ f.var \in alloc /\ f.var \in Vars /\ f.op \in Events /\ f.op \in var[f.var].bound
  BY <1>1, <1>2, SafeBound
<1>4. /\ args' = [args EXCEPT ![<<f.var, f.op>>] = [old |-> f.old, new |-> f.new]]
      /\ Go(t, "given", WithInputs(f, NULL, NULL)) /\ UNCHANGED <<alloc, var, fault>>
  BY <1>2, <1>3 DEF Give, WithInputs
<1>5. PICK h \in Frame : h = WithInputs(f, NULL, NULL) /\ SameCall(f, h) /\ h.ret = f.ret
  <2>1. NULL \in Some
    BY DEF Some
  <2> QED BY <2>1, SetInputs
<1>6. args'[<<f.var, f.op>>].old = f.old /\ args'[<<f.var, f.op>>].new = f.new
  BY <1>3, <1>4 DEF IInv, ArgsType
<1>7. f.old = var[f.var].object /\ f.new = NewOf(f) /\ f.ret = NULL
  BY <1>1, <1>2 DEF Current
<1>8. ASSUME NEW g \in Frame, g.pc = "given", SameBut(h, g) PROVE Current(g, alloc', var', args')
  <2>1. g.op = f.op /\ g.var = f.var /\ g.obj = f.obj /\ g.ret = f.ret
    BY <1>5, <1>8 DEF SameBut, SameCall
  <2> QED BY <1>3, <1>4, <1>6, <1>7, <1>8, <2>1 DEF Current, NewOf
<1>9. Go(t, "given", h) /\ h.key = Top(t).key /\ h.op = Top(t).op /\ h.obj = Top(t).obj
      /\ "given" \in Pcs
  BY <1>2, <1>4, <1>5 DEF SameCall, Pcs
<1>10. CallsSafe'
  BY <1>1, <1>4, <1>8, <1>9, NothingTouched, SafeGoes
<1> QED BY <1>4, <1>10

LEMMA SafeStart ==
  ASSUME IInv, CallsSafe, NEW t \in Threads, Start(t)
  PROVE  CallsSafe' /\ fault' = fault
<1>1. call[t] # <<>> /\ Top(t).pc = "given"
  BY DEF Start
<1>2. PICK f \in Frame, c \in InProgress :
        f = Top(t) /\ Frm(c) = f /\ GoodFrame(f) /\ Current(f, alloc, var, args)
  BY <1>1, TopSafe
<1>3. Bound(f) /\ f.var \in alloc /\ f.var \in Vars /\ f.op \in Events /\ f.op \in var[f.var].bound
  BY <1>1, <1>2, SafeBound
<1>4. PICK a : a = args[<<f.var, f.op>>]
  OBVIOUS
<1>5. a = NULL \/ (a.old = var[f.var].object /\ a.new = NewOf(f))
  BY <1>1, <1>2, <1>4 DEF Current
<1>6. CASE a = NULL
  <2>1. Go(t, "back", f) /\ UNCHANGED <<alloc, var, args, fault>>
    BY <1>2, <1>3, <1>4, <1>6 DEF Start
  <2>2. f.ret = NULL
    BY <1>1, <1>2 DEF Current
  <2>3. ASSUME NEW g \in Frame, g.pc = "back", SameBut(f, g) PROVE Current(g, alloc', var', args')
    <3>1. g.op = f.op /\ g.var = f.var /\ g.obj = f.obj /\ g.ret = f.ret
      BY <2>3 DEF SameBut
    <3> QED BY <1>3, <2>1, <2>2, <2>3, <3>1 DEF Current
  <2>4. "back" \in Pcs
    BY DEF Pcs
  <2>5. CallsSafe'
    BY <1>1, <1>2, <2>1, <2>3, <2>4, NothingTouched, SafeGoes
  <2> QED BY <2>1, <2>5
<1>7. CASE a # NULL
  <2>1. a \in Given
    BY <1>3, <1>4, <1>7 DEF IInv, ArgsType
  <2>2. PICK x0, y0 : x0 = a.old /\ y0 = a.new
    OBVIOUS
  <2>3. x0 \in Some /\ y0 \in Some
    BY <2>1, <2>2 DEF Given, Some
  <2>4. ~Dead(x0) /\ ~Dead(y0)
    BY <1>2, <1>3, <1>5, <1>7, <2>2, HeldLive DEF NewOf
  <2>5. Go(t, "bound", WithInputs(f, x0, y0)) /\ UNCHANGED <<alloc, var, args, fault>>
    BY <1>2, <1>3, <1>4, <1>7, <2>2, <2>4 DEF Start, WithInputs
  <2>6. PICK h \in Frame : h = WithInputs(f, x0, y0) /\ SameCall(f, h) /\ h.old = x0 /\ h.new = y0
    BY <2>3, SetInputs
  <2>7. ASSUME NEW g \in Frame, g.pc = "bound", SameBut(h, g) PROVE Current(g, alloc', var', args')
    <3>1. g.op = f.op /\ g.var = f.var /\ g.obj = f.obj /\ g.old = x0 /\ g.new = y0
      BY <2>6, <2>7 DEF SameBut, SameCall
    <3> QED BY <1>3, <1>5, <1>7, <2>2, <2>5, <2>7, <3>1 DEF Current, NewOf
  <2>8. Go(t, "bound", h) /\ h.key = Top(t).key /\ h.op = Top(t).op /\ h.obj = Top(t).obj
        /\ "bound" \in Pcs
    BY <1>2, <2>5, <2>6 DEF SameCall, Pcs
  <2>9. CallsSafe'
    BY <1>1, <2>5, <2>7, <2>8, NothingTouched, SafeGoes
  <2> QED BY <2>5, <2>9
<1> QED BY <1>6, <1>7

LEMMA SafeBoundReturns ==
  ASSUME IInv, CallsSafe, Clean', NEW t \in Threads, NEW what \in Outputs, BoundReturns(t, what)
  PROVE  CallsSafe' /\ fault' = fault
<1>1. call[t] # <<>> /\ Top(t).pc = "bound"
  BY DEF BoundReturns
<1>2. PICK f \in Frame, c \in InProgress :
        f = Top(t) /\ Frm(c) = f /\ GoodFrame(f) /\ Current(f, alloc, var, args)
  BY <1>1, TopSafe
<1>3. Bound(f) /\ f.var \in alloc /\ f.var \in Vars /\ f.op \in Events /\ f.op \in var[f.var].bound
  BY <1>1, <1>2, SafeBound
<1>4. PICK ret : ret = CASE what = "nothing" -> NULL
                         [] what = "true"    -> True
                         [] what = "old"     -> f.old
                         [] what = "new"     -> f.new
  OBVIOUS
<1>5. /\ Go(t, "back", WithOutput(f, ret)) /\ UNCHANGED <<alloc, var, fault>>
      /\ marks' = marks \cup MarkIf("old", f.op = "set" /\ what = "old")
  BY <1>2, <1>3, <1>4 DEF BoundReturns, WithOutput
<1>6. ret \in {NULL, True, IF f.op = "set" THEN f.obj ELSE var[f.var].object}
  <2>1. ~(f.op = "set" /\ what = "old")
    BY <1>5 DEF Clean, MarkIf
  <2>2. f.old = var[f.var].object /\ f.new = NewOf(f)
    BY <1>1, <1>2 DEF Current
  <2>3. what \in {"nothing", "true", "old", "new"}
    BY ParameterAssumption
  <2> QED BY <1>4, <2>1, <2>2, <2>3 DEF NewOf
<1>7. ret \in Some
  BY <1>2, <1>3, <1>6, FrameFields, Constants DEF IInv, HasValue, Some
<1>8. PICK h \in Frame : h = WithOutput(f, ret) /\ SameCall(f, h) /\ h.ret = ret
  BY <1>7, SetBack
<1>9. ASSUME NEW g \in Frame, g.pc = "back", SameBut(h, g) PROVE Current(g, alloc', var', args')
  <2>1. g.op = f.op /\ g.var = f.var /\ g.obj = f.obj /\ g.ret = ret
    BY <1>8, <1>9 DEF SameBut, SameCall
  <2> QED BY <1>3, <1>5, <1>6, <1>9, <2>1 DEF Current
<1>10. Go(t, "back", h) /\ h.key = Top(t).key /\ h.op = Top(t).op /\ h.obj = Top(t).obj
       /\ "back" \in Pcs
  BY <1>2, <1>5, <1>8 DEF SameCall, Pcs
<1>11. CallsSafe'
  BY <1>1, <1>5, <1>9, <1>10, NothingTouched, SafeGoes
<1> QED BY <1>5, <1>11

(* What the steps of the map's own code use. *)
LEMMA SafeGiven ==
  ASSUME IInv, CallsSafe, NEW t \in Threads, call[t] # <<>>, NEW f \in Frame, f = Top(t),
         f.var \in alloc, f.op \in var[f.var].bound, NEW h \in Frame, SameCall(f, h),
         h.old = var[f.var].object, h.new = NewOf(f), h.ret = NULL, Go(t, "give", h),
         UNCHANGED <<var, alloc, args>>
  PROVE  CallsSafe'
<1>1. ASSUME NEW g \in Frame, g.pc = "give", SameBut(h, g) PROVE Current(g, alloc', var', args')
  <2>1. /\ g.op = f.op /\ g.var = f.var /\ g.obj = f.obj /\ g.old = var[f.var].object
        /\ g.new = NewOf(f) /\ g.ret = NULL
    BY <1>1 DEF SameBut, SameCall
  <2> QED BY <1>1, <2>1 DEF Current, NewOf
<1>2. h.key = Top(t).key /\ h.op = Top(t).op /\ h.obj = Top(t).obj /\ "give" \in Pcs
  BY DEF SameCall, Pcs
<1> QED BY <1>1, <1>2, NothingTouched, SafeGoes

LEMMA SafeSets ==
  ASSUME IInv, CallsSafe, NEW t \in Threads, SetBound(t) \/ SetReplace(t)
  PROVE  CallsSafe' /\ fault' = fault
<1>1. call[t] # <<>> /\ Top(t).op = "set" /\ Top(t).pc = "found" /\ Top(t).var # NULL
  BY DEF SetBound, SetReplace, At
<1>2. PICK f \in Frame, c \in InProgress :
        /\ f = Top(t) /\ Frm(c) = f /\ GoodFrame(f) /\ Current(f, alloc, var, args)
        /\ f.var \in Vars => f.var \in alloc
  BY <1>1, TopSafe
<1>3. f.var \in alloc
  BY <1>1, <1>2, FrameFields
<1>4. CASE SetReplace(t)
  <2>1. PICK v : v = f.var
    OBVIOUS
  <2>2. Assign(v, f.obj, REF) /\ Return(t) /\ UNCHANGED <<alloc, fault>>
    BY <1>2, <1>4, <2>1 DEF SetReplace
  <2>3. OnlyTouches(v)
    BY <2>2 DEF Assign, OnlyTouches, IInv, VarsType
  <2> QED BY <1>1, <1>2, <2>1, <2>2, <2>3, SafeReturns
<1>5. CASE SetBound(t)
  <2>1. PICK old : old = var[f.var].object
    OBVIOUS
  <2>2. /\ Go(t, "give", WithInputs(f, old, f.obj)) /\ UNCHANGED <<alloc, var, args, fault>>
        /\ f.op \in var[f.var].bound
    BY <1>1, <1>2, <1>5, <2>1 DEF SetBound, WithInputs
  <2>3. old \in Some /\ f.obj \in Some
    BY <1>3, <2>1, FrameFields DEF IInv, HasValue, Some
  <2>4. PICK h \in Frame : /\ h = WithInputs(f, old, f.obj) /\ SameCall(f, h)
                           /\ h.old = old /\ h.new = f.obj /\ h.ret = f.ret
    BY <2>3, SetInputs
  <2>5. f.ret = NULL /\ f.obj = NewOf(f)
    BY <1>1, <1>2 DEF GoodFrame, NewOf
  <2> QED BY <1>1, <1>2, <1>3, <2>1, <2>2, <2>4, <2>5, SafeGiven
<1> QED BY <1>4, <1>5

LEMMA SafeSetNew ==
  ASSUME IInv, CallsSafe, NEW t \in Threads, NEW v \in Vars, SetNew(t, v)
  PROVE  CallsSafe' /\ fault' = fault
<1>1. call[t] # <<>> /\ Return(t) /\ fault' = fault
  BY DEF SetNew, At
<1>2. OnlyTouches(Top(t).var)
  BY FreshIs DEF SetNew, OnlyTouches, IInv, VarsType
<1> QED BY <1>1, <1>2, SafeReturns

\* The value Set was given is counted by Set, by the statement, and by each variable
\* that has it.
LEMMA CountedTwice ==
  ASSUME IInv, CallsSafe, NEW c \in InProgress, Frm(c).op = "set", NEW o \in Objs, o = Frm(c).obj,
         NEW v \in alloc, var[v].object = o
  PROVE  REF[o] >= 3
<1> DEFINE S == FramesIn(HoldingF(o))
<1> USE DEF IInv
<1>1. PICK e \in InProgress : e[2] < c[2] /\ Frm(e).pc = "done" /\ Frm(e).obj = o
  BY DEF CallsSafe, AllBacked, Backed
<1>2. Frm(c) \in Frame /\ GoodFrame(Frm(c)) /\ Frm(e) \in Frame
  BY FramesAre DEF FramesGood
<1>3. c # e
  BY <1>1, <1>2 DEF GoodFrame
<1>4. c \in S /\ e \in S
  BY <1>1, <1>2 DEF FramesIn, HoldingF
<1>5. IsFiniteSet(S) /\ Cardinality(S) \in Nat
  BY InType
<1> HIDE DEF S
<1>6. IsFiniteSet(S \ {c}) /\ Cardinality(S \ {c}) = Cardinality(S) - 1
  BY <1>4, <1>5, CardDel
<1>7. Cardinality(S \ {c}) > 0 /\ Cardinality(S \ {c}) \in Nat
  BY <1>3, <1>4, <1>6, CardDel
<1>8. Protected(o) >= 2
  <2>1. Protected(o) = Cardinality(S) + Cardinality(FramesIn(OldF(o))) + Cardinality(FramesIn(NewF(o)))
    BY ProtectedIs DEF S
  <2>2. Cardinality(FramesIn(OldF(o))) \in Nat /\ Cardinality(FramesIn(NewF(o))) \in Nat
    BY InType
  <2> QED BY <1>5, <1>6, <1>7, <2>1, <2>2
<1>9. Cardinality(Holders(o)) > 0
  <2>1. v \in Holders(o)
    BY DEF Holders
  <2> QED BY <2>1, HoldersType
<1> QED BY <1>8, <1>9, Alive DEF Total

LEMMA SafeSetResume ==
  ASSUME IInv, CallsSafe, NEW t \in Threads, SetResume(t)
  PROVE  CallsSafe' /\ fault' = fault
<1>1. call[t] # <<>> /\ Top(t).op = "set" /\ Top(t).pc = "back"
  BY DEF SetResume, Back, At
<1>2. PICK f \in Frame, c \in InProgress :
        f = Top(t) /\ Frm(c) = f /\ GoodFrame(f) /\ Current(f, alloc, var, args)
  BY <1>1, TopSafe
<1>3. f.var \in alloc
  BY <1>1, <1>2, SafeBound
<1>4. f.ret \in {NULL, True, f.obj}
  BY <1>1, <1>2 DEF Current
<1>5. ~Dead(f.ret)
  BY <1>1, <1>2, <1>4, HeldLive
<1>6. PICK R : R = RemRef(f.obj, REF)
  OBVIOUS
<1>7. ~(f.ret \in Objs /\ f.ret = var[f.var].object /\ R[f.ret] <= 1)
  <2> SUFFICES ASSUME f.ret \in Objs, f.ret = var[f.var].object, R[f.ret] <= 1 PROVE FALSE
    OBVIOUS
  <2>1. f.ret = f.obj
    BY <1>4, ParameterAssumption, Constants DEF Values
  <2>2. REF[f.obj] >= 3 /\ REF[f.obj] \in Nat
    BY <1>1, <1>2, <1>3, <2>1, CountedTwice DEF IInv, Plain
  <2>3. R[f.obj] = Less1(REF[f.obj])
    BY <1>6, <2>1, RemRefIs DEF IInv, Plain
  <2> QED BY <2>1, <2>2, <2>3 DEF Less1
<1>8. PICK v : v = f.var
  OBVIOUS
<1>9. Return(t) /\ UNCHANGED <<alloc, fault>> /\ \E new, S : Assign(v, new, S)
  BY <1>2, <1>3, <1>5, <1>6, <1>7, <1>8 DEF SetResume
<1>10. OnlyTouches(v)
  BY <1>9 DEF Assign, OnlyTouches, IInv, VarsType
<1> QED BY <1>1, <1>2, <1>8, <1>9, <1>10, SafeReturns

LEMMA SafeGot ==
  ASSUME IInv, CallsSafe, NEW t \in Threads, call[t] # <<>>, NEW op \in {"get", "wait", "value"},
         NEW pc \in {"value", "done"}, NEW o \in Some, Go(t, pc, Entered(op, pc, NULL, NULL, o)),
         OnlyTouches(Top(t).var), alloc' = alloc,
         op = "get" => pc = "value" /\ (o = True \/ \E v \in alloc : var'[v].object = o)
  PROVE  CallsSafe'
<1>1. PICK h \in Frame : /\ h = Entered(op, pc, NULL, NULL, o)
                         /\ h.op = op /\ h.pc = pc /\ h.key = NULL /\ h.var = NULL /\ h.obj = o
  BY EnteredIs DEF Ops, Pcs
<1>2. ASSUME NEW g \in Frame, g.pc = pc, SameBut(h, g) PROVE Current(g, alloc', var', args')
  <2>1. g.op = op /\ g.var = NULL /\ g.obj = o
    BY <1>1, <1>2 DEF SameBut
  <2> QED BY <1>2, <2>1, Constants DEF Current
<1>3. Go(t, pc, h) /\ pc \in Pcs /\ h.key \in {Top(t).key, NULL} /\ h.op # "set"
  BY <1>1 DEF Pcs
<1> QED BY <1>1, <1>2, <1>3, SafeGoes

LEMMA SafeGets ==
  ASSUME IInv, CallsSafe, NEW t \in Threads, GetRead(t) \/ GetResume(t) \/ GetUse(t)
  PROVE  CallsSafe' /\ fault' = fault
<1>1. call[t] # <<>> /\ Top(t).op = "get"
  BY DEF GetRead, GetResume, GetUse, Back, At
<1>2. PICK f \in Frame, c \in InProgress :
        /\ f = Top(t) /\ Frm(c) = f /\ GoodFrame(f) /\ Current(f, alloc, var, args)
        /\ f.var \in Vars => f.var \in alloc
  BY <1>1, TopSafe
<1>3. CASE GetRead(t)
  <2>1. f.pc = "found" /\ f.var \in alloc /\ f.new = NULL /\ f.ret = NULL
    BY <1>1, <1>2, <1>3 DEF GetRead, At, GoodFrame, Current
  <2>2. PICK o : o = var[f.var].object
    OBVIOUS
  <2>3. o \in Some
    BY <2>1, <2>2 DEF IInv, HasValue, Some
  <2>4. /\ UNCHANGED <<alloc, var, args, fault>>
        /\ \/ "get" \in var[f.var].bound /\ Go(t, "give", [f EXCEPT !.old = o])
           \/ Go(t, "value", Entered("get", "value", NULL, NULL, o))
    BY <1>2, <1>3, <2>1, <2>2 DEF GetRead
  <2>5. CASE "get" \in var[f.var].bound /\ Go(t, "give", [f EXCEPT !.old = o])
    <3>1. PICK h \in Frame : /\ h = [f EXCEPT !.old = o] /\ SameCall(f, h)
                             /\ h.old = o /\ h.new = f.new /\ h.ret = f.ret
      BY <2>3, SetOld
    <3>2. Go(t, "give", h) /\ h.new = NewOf(f)
      BY <1>1, <1>2, <2>1, <2>5, <3>1 DEF NewOf
    <3> QED BY <1>1, <1>2, <2>1, <2>2, <2>4, <2>5, <3>1, <3>2, SafeGiven
  <2>6. CASE Go(t, "value", Entered("get", "value", NULL, NULL, o))
    BY <1>1, <2>1, <2>2, <2>3, <2>4, <2>6, NothingTouched, SafeGot
  <2> QED BY <2>4, <2>5, <2>6
<1>4. CASE GetResume(t)
  <2>1. f.pc = "back" /\ f.var \in alloc
    BY <1>1, <1>2, <1>4, SafeBound DEF GetResume, Back, At
  <2>2. PICK o : o = IF f.ret = NULL THEN var[f.var].object ELSE f.ret
    OBVIOUS
  <2>3. /\ Go(t, "value", Entered("get", "value", NULL, NULL, o))
        /\ UNCHANGED <<alloc, var, args, fault>>
    BY <1>2, <1>4, <2>1, <2>2 DEF GetResume
  <2>4. o \in {True, var[f.var].object}
    BY <1>1, <1>2, <2>1, <2>2 DEF Current
  <2>5. o \in Some
    BY <2>1, <2>4, Constants DEF IInv, HasValue, Some
  <2> QED BY <1>1, <2>1, <2>3, <2>4, <2>5, NothingTouched, SafeGot
<1>5. CASE GetUse(t)
  <2>1. f.pc = "value"
    BY <1>2, <1>5 DEF GetUse, At
  <2>2. ~Dead(f.obj)
    BY <1>1, <1>2, <2>1, HeldLive DEF Current
  <2>3. /\ Go(t, "done", Entered("value", "done", NULL, NULL, f.obj))
        /\ UNCHANGED <<alloc, var, args, fault>>
    BY <1>2, <1>5, <2>2 DEF GetUse
  <2>4. f.obj \in Some
    BY <1>2, FrameFields
  <2> QED BY <1>1, <2>3, <2>4, NothingTouched, SafeGot
<1> QED BY <1>3, <1>4, <1>5

LEMMA SafeRemoves ==
  ASSUME IInv, CallsSafe, NEW t \in Threads, RemovePlain(t) \/ RemoveBound(t) \/ RemoveResume(t)
  PROVE  CallsSafe' /\ fault' = fault
<1>1. call[t] # <<>> /\ Top(t).op = "erase"
  BY DEF RemovePlain, RemoveBound, RemoveResume, Back, At
<1>2. PICK f \in Frame, c \in InProgress :
        /\ f = Top(t) /\ Frm(c) = f /\ GoodFrame(f) /\ Current(f, alloc, var, args)
        /\ f.var \in Vars => f.var \in alloc
  BY <1>1, TopSafe
<1>3. \A v : Delete(f.key, v) => OnlyTouches(v)
  BY DEF Delete, OnlyTouches, IInv, VarsType
<1>4. CASE RemovePlain(t)
  <2>1. Delete(f.key, f.var) /\ Return(t) /\ fault' = fault
    BY <1>2, <1>4 DEF RemovePlain
  <2> QED BY <1>1, <1>2, <1>3, <2>1, SafeReturns
<1>5. CASE RemoveBound(t)
  <2>1. f.pc = "found" /\ f.var \in alloc /\ f.new = NULL /\ f.ret = NULL
    BY <1>1, <1>2, <1>5 DEF RemoveBound, At, GoodFrame, Current
  <2>2. PICK o : o = var[f.var].object
    OBVIOUS
  <2>3. o \in Some
    BY <2>1, <2>2 DEF IInv, HasValue, Some
  <2>4. /\ UNCHANGED <<alloc, var, args, fault>>
        /\ f.op \in var[f.var].bound /\ Go(t, "give", [f EXCEPT !.old = o])
    BY <1>1, <1>2, <1>5, <2>2 DEF RemoveBound
  <2>5. PICK h \in Frame : /\ h = [f EXCEPT !.old = o] /\ SameCall(f, h)
                           /\ h.old = o /\ h.new = f.new /\ h.ret = f.ret
    BY <2>3, SetOld
  <2>6. Go(t, "give", h) /\ h.new = NewOf(f)
    BY <1>1, <1>2, <2>1, <2>4, <2>5 DEF NewOf
  <2> QED BY <1>1, <1>2, <2>1, <2>2, <2>4, <2>5, <2>6, SafeGiven
<1>6. CASE RemoveResume(t)
  <2>1. f.pc = "back" /\ f.var \in alloc
    BY <1>1, <1>2, <1>6, SafeBound DEF RemoveResume, Back, At
  <2>2. ~Dead(f.ret)
    BY <1>1, <1>2, <2>1, HeldLive DEF Current
  <2>3. Return(t) /\ fault' = fault
        /\ (Delete(f.key, f.var) \/ UNCHANGED <<entry, var, alloc, args, REF, live>>)
    BY <1>2, <1>6, <2>1, <2>2 DEF RemoveResume
  <2>4. OnlyTouches(f.var)
    BY <1>3, <2>3, NothingTouched
  <2> QED BY <1>1, <1>2, <2>3, <2>4, SafeReturns
<1> QED BY <1>4, <1>5, <1>6

(* The other steps, and every step. *)
LEMMA SafeOthers ==
  ASSUME IInv, CallsSafe, NEW t \in Threads, ArgsDone(t) \/ AddWaiting(t) \/ Suspend(t) \/ WaitDone(t)
  PROVE  CallsSafe' /\ fault' = fault
<1>1. call[t] # <<>>
  BY DEF ArgsDone, AddWaiting, Suspend, WaitDone, At
<1>2. PICK f \in Frame, c \in InProgress :
        /\ f = Top(t) /\ Frm(c) = f /\ GoodFrame(f) /\ Current(f, alloc, var, args)
        /\ f.var \in Vars => f.var \in alloc
  BY <1>1, TopSafe
<1>3. CASE ArgsDone(t) \/ WaitDone(t)
  <2>1. Return(t) /\ UNCHANGED <<alloc, var, fault>>
    BY <1>3 DEF ArgsDone, WaitDone
  <2> QED BY <1>1, <2>1, NothingTouched, SafeReturns
<1>4. CASE AddWaiting(t)
  <2>1. f.var \in alloc
    BY <1>2, <1>4 DEF AddWaiting, At, GoodFrame
  <2>2. PICK v : v = f.var
    OBVIOUS
  <2>3. PICK u : u = var[v].update \cup {t}
    OBVIOUS
  <2>4. /\ var' = [var EXCEPT ![v].update = u] /\ UNCHANGED <<alloc, fault>>
        /\ Go(t, "value", Entered("wait", "value", NULL, NULL, NULL))
    BY <1>2, <1>4, <2>1, <2>2, <2>3 DEF AddWaiting
  <2>5. OnlyTouches(v)
    BY <2>4 DEF OnlyTouches, IInv, VarsType
  <2>6. NULL \in Some
    BY DEF Some
  <2> QED BY <1>1, <1>2, <2>2, <2>4, <2>5, <2>6, SafeGot
<1>5. CASE Suspend(t)
  <2>1. f.op = "wait" /\ f.pc = "value" /\ Go(t, "asleep", f) /\ UNCHANGED <<alloc, var, args, fault>>
    BY <1>2, <1>5 DEF Suspend, At
  <2>2. ASSUME NEW g \in Frame, g.pc = "asleep", SameBut(f, g) PROVE Current(g, alloc', var', args')
    <3>1. g.op = "wait" /\ g.var = f.var
      BY <2>1, <2>2 DEF SameBut
    <3> QED BY <1>2, <2>1, <2>2, <3>1 DEF Current
  <2>3. "asleep" \in Pcs
    BY DEF Pcs
  <2> QED BY <1>1, <1>2, <2>1, <2>2, <2>3, NothingTouched, SafeGoes
<1> QED BY <1>3, <1>4, <1>5

LEMMA SafeBinds ==
  ASSUME IInv, CallsSafe, NEW t \in Threads, NEW e \in Events, Bind(t, e) \/ UnBind(t, e)
  PROVE  CallsSafe' /\ fault' \in {fault, "unbound"}
<1>1. call[t] # <<>> /\ Top(t).op = "bind" /\ Top(t).pc = "found"
  BY DEF Bind, UnBind, At
<1>2. PICK v : v = Top(t).var
  OBVIOUS
<1>3. v \in alloc
  BY <1>1, <1>2, TopSafe DEF GoodFrame
<1>4. \/ Fault("unbound")
      \/ \E b : Rebind(t, e, b)
  BY <1>2, <1>3 DEF Bind, UnBind
<1>5. CASE Fault("unbound")
  BY <1>5, SafeSame DEF Fault
<1>6. ASSUME NEW b, Rebind(t, e, b) PROVE CallsSafe' /\ fault' = fault
  <2>1. var' = [var EXCEPT ![v].bound = b] /\ Return(t) /\ UNCHANGED <<alloc, fault>>
    BY <1>2, <1>6 DEF Rebind
  <2>2. OnlyTouches(v)
    BY <2>1 DEF OnlyTouches, IInv, VarsType
  <2> QED BY <1>1, <1>2, <2>1, <2>2, SafeReturns
<1> QED BY <1>4, <1>5, <1>6

Safe == Clean => CallsSafe /\ fault \in {"none", "unbound"}

LEMMA SafeNext == IInv /\ Safe /\ [Next]_vars => Safe'
<1> SUFFICES ASSUME IInv, Safe, [Next]_vars, Clean' PROVE CallsSafe' /\ fault' \in {"none", "unbound"}
  BY DEF Safe
<1>1. CASE Over \/ UNCHANGED vars
  <2>1. UNCHANGED <<alloc, var, args, call, marks, fault>>
    BY <1>1 DEF Over, vars
  <2>2. Clean
    BY <2>1 DEF Clean
  <2> QED BY <2>1, <2>2, SafeSame DEF Safe
<1>2. ASSUME NEW o \in Objs, GC(o) PROVE CallsSafe' /\ fault' \in {"none", "unbound"}
  <2>1. UNCHANGED <<alloc, var, args, call, marks, fault>>
    BY <1>2 DEF GC
  <2>2. Clean
    BY <2>1 DEF Clean
  <2> QED BY <2>1, <2>2, SafeSame DEF Safe
<1>3. ASSUME NEW t \in Threads, Call(t) PROVE CallsSafe' /\ fault' \in {"none", "unbound"}
  <2>1. \E f : Push(t, f)
    BY <1>3 DEF Call, Compute, EnterSet, GetLookup, EnterErase, BindLookup, WaitLookup, Enter
  <2>2. Clean
    BY <2>1 DEF Push, Clean
  <2> QED BY <1>3, <2>2, SafeCall DEF Safe
<1>4. ASSUME NEW t \in Threads, Resume(t) PROVE CallsSafe' /\ fault' \in {"none", "unbound"}
  <2>1. CASE MapStep(t)
    <3>1. marks \subseteq marks'
      BY <2>1 DEF MapStep, SetNew, SetReplace, SetBound, SetResume, GetRead, GetResume, RemovePlain,
         RemoveBound, RemoveResume, Give, Start, Fault
    <3>2. CallsSafe /\ fault \in {"none", "unbound"}
      BY <3>1 DEF Clean, Safe
    <3>3. CallsSafe' /\ fault' = fault
      BY <2>1, <3>2, SafeSetNew, SafeSets, SafeSetResume, SafeGets, SafeRemoves, SafeGive, SafeStart
         DEF MapStep
    <3> QED BY <3>2, <3>3
  <2>2. ASSUME NEW what \in Outputs, BoundReturns(t, what)
        PROVE  CallsSafe' /\ fault' \in {"none", "unbound"}
    <3>1. marks \subseteq marks'
      BY <2>2 DEF BoundReturns, Fault
    <3>2. CallsSafe /\ fault \in {"none", "unbound"}
      BY <3>1 DEF Clean, Safe
    <3> QED BY <2>2, <3>2, SafeBoundReturns
  <2>3. CASE GetUse(t) \/ ArgsDone(t) \/ AddWaiting(t) \/ Suspend(t) \/ WaitDone(t)
    <3>1. marks' = marks
      BY <2>3 DEF GetUse, ArgsDone, AddWaiting, Suspend, WaitDone, Fault
    <3>2. CallsSafe /\ fault \in {"none", "unbound"}
      BY <3>1 DEF Clean, Safe
    <3> QED BY <2>3, <3>2, SafeGets, SafeOthers
  <2>4. ASSUME NEW e \in Events, Bind(t, e) \/ UnBind(t, e)
        PROVE  CallsSafe' /\ fault' \in {"none", "unbound"}
    <3>1. marks' = marks
      BY <2>4 DEF Bind, UnBind, Rebind, Fault
    <3>2. CallsSafe /\ fault \in {"none", "unbound"}
      BY <3>1 DEF Clean, Safe
    <3> QED BY <2>4, <3>2, SafeBinds
  <2> QED BY <1>4, <2>1, <2>2, <2>3, <2>4 DEF Resume
<1> QED BY <1>1, <1>2, <1>3, <1>4 DEF Next

(* No TVariable, binding or value is used after its deletion while statements of
   two threads do not overlap, no bound function calls the map about its variable,
   and none bound to set outputs the old value: whatever else bound functions do,
   and however their calls about other variables nest. *)
THEOREM OnlyMarkedIsStale == Spec => []NoStaleUse
<1>1. Init => Safe
  <2> SUFFICES ASSUME Init PROVE CallsSafe /\ fault = "none"
    BY DEF Safe
  <2>1. InProgress = {}
    BY Depth DEF Init, InProgress
  <2> QED BY <2>1 DEF Init, CallsSafe, OneCaller, Stacked, OwnKeys, AllBacked, FramesCurrent
<1>2. IInv /\ Safe /\ [Next]_vars => Safe'
  BY SafeNext
<1>3. Spec => []IInv
  BY InvHolds
<1>4. Safe => NoStaleUse
  BY DEF Safe, Clean, NoStaleUse
<1> QED BY <1>1, <1>2, <1>3, <1>4, PTL DEF Spec

-----------------------------------------------------------------------------
(***************************************************************************)
(* The bindings of one variable, which is what a slot of a TVariable holds *)
(* pointer by pointer: SQIBinding, for its own blocks and calls.  The      *)
(* types hold for every event, every kind of binding and any number of     *)
(* blocks and calls.  That the last binding runs and that every reference  *)
(* is given back holds for the event get and for functions bound with      *)
(* extra inputs: for the others the code itself goes another way, and TLC  *)
(* shows a counterexample (see the README).                                *)
(***************************************************************************)
Targets == Blocks \cup Calls
Slot    == TBind \cup {None}

-----------------------------------------------------------------------------
(* The operators.                                                          *)

LEMMA WithoutRefType ==
  ASSUME NEW R \in [Targets -> Nat], NEW o \in Targets \cup {None}
  PROVE  WithoutRef(o, R) \in [Targets -> Nat]
BY DEF WithoutRef, Fewer

LEMMA RunsType ==
  ASSUME NEW slot \in Slot
  PROVE  Runs(slot) \in Targets \cup {None}
BY DEF Runs, Slot, TBind, Targets

(* What the operations make of a TBind is a TBind, so never None. *)
LEMMA SlotEdits ==
  ASSUME NEW slot \in TBind
  PROVE  /\ [slot EXCEPT !.block = None] \in TBind
         /\ [slot EXCEPT !.function = None, !.args = FALSE] \in TBind
         /\ [slot EXCEPT !.func = TRUE] \in TBind
         /\ [slot EXCEPT !.func = FALSE] \in TBind
         /\ \A b \in Blocks :
              /\ [slot EXCEPT !.block = b] \in TBind
              /\ [slot EXCEPT !.block = b, !.function = None, !.args = FALSE] \in TBind
         /\ \A c \in Calls, extra \in BOOLEAN :
              [slot EXCEPT !.function = c, !.args = extra] \in TBind
BY DEF TBind

LEMMA NewBindType == NewBind \in TBind
BY DEF NewBind, TBind

-----------------------------------------------------------------------------
(* Type correctness.                                                       *)

BindTypes ==
  /\ bind \in [Slots -> Slot]
  /\ refs \in [Targets -> Nat]
  /\ last \in [Slots -> Targets \cup {None}]
  /\ crashed \in BOOLEAN

LEMMA BindTypesInit == BindInit => BindTypes
<1> SUFFICES ASSUME BindInit PROVE BindTypes
  OBVIOUS
<1>1. Unbound \in [Slots -> Slot] /\ Unbound \in [Slots -> Targets \cup {None}]
  BY DEF Unbound, Slot
<1> QED BY <1>1 DEF BindInit, BindTypes, Targets

LEMMA SlotsFinite == IsFiniteSet(Slots) /\ \A S \in SUBSET Slots : Cardinality(S) \in Nat
<1>1. IsFiniteSet({"get", "set", "erase"})
  <2>1. IsFiniteSet({"get"}) /\ IsFiniteSet({"set"}) /\ IsFiniteSet({"erase"})
    BY FS_Singleton
  <2>2. IsFiniteSet({"get"} \cup {"set"})
    BY <2>1, FS_Union
  <2>3. IsFiniteSet(({"get"} \cup {"set"}) \cup {"erase"})
    BY <2>1, <2>2, FS_Union
  <2>4. {"get", "set", "erase"} = ({"get"} \cup {"set"}) \cup {"erase"}
    OBVIOUS
  <2> QED BY <2>3, <2>4
<1>2. IsFiniteSet(Slots)
  BY <1>1 DEF Slots
<1> QED BY <1>2, FS_Subset, FS_CardinalityType

LEMMA BindTypesNext == BindTypes /\ [BindNext]_bindVars => BindTypes'
<1> SUFFICES ASSUME BindTypes, [BindNext]_bindVars PROVE BindTypes'
  OBVIOUS
<1> USE DEF BindTypes
<1>0. Slots = {"get", "set", "erase"} /\ Modes \subseteq Slots /\ Extras \subseteq BOOLEAN
  BY BindingAssumption DEF Slots
<1>1. ASSUME NEW e \in Modes, NEW b \in Blocks, BindBlock(e, b) PROVE BindTypes'
  <2>1. CASE crashed' = TRUE /\ UNCHANGED <<bind, refs, last>>
    BY <2>1
  <2> DEFINE slot == bind[e]
  <2>2. CASE slot = None
    <3>1. [NewBind EXCEPT !.block = b] \in TBind
      BY SlotEdits, NewBindType
    <3>2. refs' = WithRef(b, refs) /\ last' = [last EXCEPT ![e] = b] /\ crashed' = crashed
          /\ bind' = [bind EXCEPT ![IF e = "erase" THEN "get" ELSE e] = [NewBind EXCEPT !.block = b]]
      BY <1>1, <2>2 DEF BindBlock
    <3>3. WithRef(b, refs) \in [Targets -> Nat]
      BY DEF WithRef, Targets
    <3> QED BY <3>1, <3>2, <3>3, <1>0 DEF Slot, Targets
  <2>3. CASE slot # None /\ ~(crashed' = TRUE /\ UNCHANGED <<bind, refs, last>>)
    <3> DEFINE new == IF slot.block # None THEN [slot EXCEPT !.block = b]
                      ELSE [slot EXCEPT !.block = b, !.function = None, !.args = FALSE]
    <3>1. slot \in TBind
      BY <1>0, <2>3 DEF Slot
    <3>2. new \in TBind
      BY <3>1, SlotEdits
    <3>3. WithoutRef(Runs(slot), refs) \in [Targets -> Nat]
      BY <3>1, RunsType, WithoutRefType DEF Slot
    <3>4. WithRef(b, WithoutRef(Runs(slot), refs)) \in [Targets -> Nat]
      BY <3>3 DEF WithRef, Targets
    <3>5. bind' = [bind EXCEPT ![e] = new] /\ refs' = WithRef(b, WithoutRef(Runs(slot), refs))
          /\ last' = [last EXCEPT ![e] = b] /\ crashed' = crashed
      BY <1>1, <2>3 DEF BindBlock, Crash
    <3> QED BY <3>2, <3>4, <3>5, <1>0 DEF Slot, Targets
  <2> QED BY <2>1, <2>2, <2>3
<1>2. ASSUME NEW e \in Modes, NEW c \in Calls, NEW extra \in Extras, BindFunction(e, c, extra)
      PROVE BindTypes'
  <2> DEFINE slot == bind[e]
             kept == IF slot = None THEN NewBind
                     ELSE IF e = "get" THEN [slot EXCEPT !.block = None] ELSE slot
             new  == [kept EXCEPT !.function = c, !.args = extra]
             R    == WithoutRef(Runs(slot), refs)
  <2>1. kept \in TBind
    BY <1>0, SlotEdits, NewBindType DEF Slot
  <2>2. new \in TBind
    BY <2>1, <1>0, SlotEdits
  <2>3. R \in [Targets -> Nat]
    BY <1>0, RunsType, WithoutRefType
  <2>4. bind' = [bind EXCEPT ![e] = new] /\ last' = [last EXCEPT ![e] = c] /\ crashed' = crashed
        /\ refs' = [R EXCEPT ![c] = IF slot = None THEN 2 ELSE 1]
    BY <1>2 DEF BindFunction
  <2> HIDE DEF new, R
  <2> QED BY <2>2, <2>3, <2>4, <1>0 DEF Slot, Targets
<1>3. ASSUME NEW e \in Modes, Unbind(e) PROVE BindTypes'
  <2> DEFINE slot == bind[e]
             left == IF slot.block # None THEN [slot EXCEPT !.block = None]
                     ELSE [slot EXCEPT !.function = None, !.args = FALSE]
  <2>1. CASE UNCHANGED bindVars
    BY <2>1 DEF bindVars
  <2>2. CASE crashed' = TRUE /\ UNCHANGED <<bind, refs, last>>
    BY <2>2
  <2>3. CASE slot # None /\ ~(crashed' = TRUE /\ UNCHANGED <<bind, refs, last>>)
    <3>1. slot \in TBind
      BY <1>0, <2>3 DEF Slot
    <3>2. left \in TBind
      BY <3>1, SlotEdits
    <3>3. WithoutRef(Runs(slot), refs) \in [Targets -> Nat]
      BY <3>1, RunsType, WithoutRefType DEF Slot
    <3>4. bind' = [bind EXCEPT ![e] = IF slot.func THEN left ELSE None]
          /\ refs' = WithoutRef(Runs(slot), refs)
          /\ last' = [last EXCEPT ![e] = None] /\ crashed' = crashed
      BY <1>3, <2>3 DEF Unbind, Crash
    <3> QED BY <3>2, <3>3, <3>4, <1>0 DEF Slot
  <2> QED BY <1>3, <2>1, <2>2, <2>3 DEF Unbind, Crash
<1>4. ASSUME NEW e \in Modes, SetSystemFunc(e) PROVE BindTypes'
  <2> DEFINE new == [(IF bind[e] = None THEN NewBind ELSE bind[e]) EXCEPT !.func = TRUE]
  <2>1. new \in TBind
    BY <1>0, SlotEdits, NewBindType DEF Slot
  <2>2. bind' = [bind EXCEPT ![e] = new] /\ UNCHANGED <<refs, last, crashed>>
    BY <1>4 DEF SetSystemFunc
  <2> QED BY <2>1, <2>2, <1>0 DEF Slot
<1>5. ASSUME NEW e \in Modes, RemoveSystemFunc(e) PROVE BindTypes'
  <2>1. [bind[e] EXCEPT !.func = FALSE] \in TBind
    BY <1>0, <1>5, SlotEdits DEF Slot, RemoveSystemFunc
  <2>2. bind' = [bind EXCEPT ![e] = [bind[e] EXCEPT !.func = FALSE]] /\ UNCHANGED <<refs, last, crashed>>
    BY <1>5 DEF RemoveSystemFunc
  <2> QED BY <2>1, <2>2, <1>0 DEF Slot
<1>6. ASSUME DeleteBinding PROVE BindTypes'
  <2> DEFINE holds(o) == {e \in Slots : bind[e] # None /\
                            \/ bind[e].function = o
                            \/ bind[e].function = None /\ bind[e].block = o}
             less(n, m) == IF n <= m THEN 0 ELSE n - m
  <2>1. \A o \in Targets : Cardinality(holds(o)) \in Nat
    BY SlotsFinite
  <2>2. refs' = [o \in DOMAIN refs |-> less(refs[o], Cardinality(holds(o)))]
        /\ bind' = Unbound /\ last' = Unbound /\ crashed' = crashed
    BY <1>6 DEF DeleteBinding
  <2> HIDE DEF holds
  <2> QED BY <2>1, <2>2 DEF Unbound, Slot
<1>7. CASE UNCHANGED bindVars
  BY <1>7 DEF bindVars
<1> QED BY <1>1, <1>2, <1>3, <1>4, <1>5, <1>6, <1>7 DEF BindNext

(* The slots of the events hold a binding or None, and the counts stay natural
   numbers although DeleteBinding gives a block or a call back several times:
   SQIBinding's type invariant, for all its constants. *)
THEOREM BindingTypeCorrect == BindSpec => []BindTypeOK
<1>1. BindTypes => BindTypeOK
  BY DEF BindTypes, BindTypeOK, Slot, Targets
<1> QED BY <1>1, BindTypesInit, BindTypesNext, PTL DEF BindSpec

-----------------------------------------------------------------------------
(* One event: get, and functions with a list of extra inputs.              *)

OnlyGet == Modes \subseteq {"get"} /\ Extras \subseteq {TRUE}

(* What the slot of get may be: it holds a block or a call, never both, and a
   call with its list.  The slots of the other events stay empty. *)
GetSlot ==
  /\ bind["set"] = None /\ bind["erase"] = None
  /\ bind["get"] # None =>
       /\ bind["get"].block = None \/ bind["get"].function = None
       /\ bind["get"].function # None => bind["get"].args

BindCounts ==
  /\ \A b \in Blocks : refs[b] = IF bind["get"] # None /\ bind["get"].block = b THEN 1 ELSE 0
  /\ bind["get"] # None /\ bind["get"].function # None => refs[bind["get"].function] > 0

LastRuns ==
  /\ ~crashed
  /\ last["set"] = None /\ last["erase"] = None
  /\ Runs(bind["get"]) = last["get"]

BindingInv == BindTypes /\ GetSlot /\ BindCounts /\ LastRuns

LEMMA BindingInvInit == BindInit => BindingInv
<1> SUFFICES ASSUME BindInit PROVE BindingInv
  OBVIOUS
<1>1. BindTypes
  BY BindTypesInit
<1> QED BY <1>1 DEF BindInit, BindingInv, GetSlot, BindCounts, LastRuns, Unbound, Slots, Runs

LEMMA BindingInvNext == OnlyGet /\ BindingInv /\ [BindNext]_bindVars => BindingInv'
<1> SUFFICES ASSUME OnlyGet, BindingInv, [BindNext]_bindVars PROVE BindingInv'
  OBVIOUS
<1> DEFINE slot == bind["get"]
<1>a. BindTypes'
  BY BindTypesNext DEF BindingInv
<1>b. /\ bind \in [Slots -> Slot] /\ refs \in [Targets -> Nat]
      /\ last \in [Slots -> Targets \cup {None}]
      /\ Slots = {"get", "set", "erase"} /\ Blocks \cap Calls = {}
      /\ None \notin Blocks \cup Calls /\ None \notin TBind
      /\ \A t \in TBind : t.block \in Blocks \cup {None} /\ t.function \in Calls \cup {None}
  BY BindingAssumption DEF BindingInv, BindTypes, Slots, TBind
<1>c. NewBind \in TBind /\ NewBind.block = None /\ NewBind.function = None
  BY NewBindType DEF NewBind
<1>d. slot \in Slot /\ (slot # None => slot \in TBind)
  BY <1>b DEF Slot
<1>e. Runs(slot) \in Targets \cup {None} /\ WithoutRef(Runs(slot), refs) \in [Targets -> Nat]
  BY <1>b, <1>d, RunsType, WithoutRefType
(* What WithoutRef(Runs(slot), refs) leaves of the counts: no block has a reference. *)
<1>f. \A b \in Blocks : WithoutRef(Runs(slot), refs)[b] = 0
  BY <1>b, <1>d DEF BindingInv, BindCounts, GetSlot, WithoutRef, Fewer, Runs, Targets
<1>1. ASSUME NEW b \in Blocks, BindBlock("get", b) PROVE BindingInv'
  <2> DEFINE kept == IF slot = None THEN NewBind
                     ELSE IF slot.block # None THEN slot
                     ELSE [slot EXCEPT !.function = None, !.args = FALSE]
             new == IF slot = None THEN [NewBind EXCEPT !.block = b]
                    ELSE IF slot.block # None THEN [slot EXCEPT !.block = b]
                    ELSE [slot EXCEPT !.block = b, !.function = None, !.args = FALSE]
             R == WithoutRef(Runs(slot), refs)
  <2>1. new \in TBind /\ new.block = b /\ new.function = None
    BY <1>b, <1>c, <1>d, SlotEdits DEF BindingInv, GetSlot, TBind
  <2>2. /\ bind' = [bind EXCEPT !["get"] = new] /\ last' = [last EXCEPT !["get"] = b]
        /\ crashed' = crashed
        /\ refs' = [R EXCEPT ![b] = @ + 1]
    BY <1>1 DEF BindBlock, BindingInv, GetSlot, WithRef, WithoutRef, Runs
  <2>3. /\ bind'["get"] = new /\ last'["get"] = b /\ ~crashed'
        /\ bind'["set"] = None /\ bind'["erase"] = None
        /\ last'["set"] = None /\ last'["erase"] = None
    BY <1>b, <2>2 DEF BindingInv, GetSlot, LastRuns
  <2>4. \A d \in Blocks : refs'[d] = IF d = b THEN 1 ELSE 0
    <3> HIDE DEF new
    <3> QED BY <1>e, <1>f, <2>2 DEF Targets
  <2>5. new # None
    BY <2>1, <1>b
  <2> HIDE DEF new, R
  <2>6. GetSlot' /\ LastRuns'
    BY <2>1, <2>3, <2>5, <1>b DEF GetSlot, LastRuns, Runs
  <2>7. BindCounts'
    BY <2>1, <2>3, <2>4, <2>5 DEF BindCounts
  <2> QED BY <1>a, <2>6, <2>7 DEF BindingInv
<1>2. ASSUME NEW c \in Calls, BindFunction("get", c, TRUE) PROVE BindingInv'
  <2> DEFINE kept == IF slot = None THEN NewBind ELSE [slot EXCEPT !.block = None]
             new  == [kept EXCEPT !.function = c, !.args = TRUE]
             R    == WithoutRef(Runs(slot), refs)
             n    == IF slot = None THEN 2 ELSE 1
  <2>1. kept \in TBind /\ kept.block = None
    BY <1>c, <1>d, SlotEdits DEF TBind
  <2>2. new \in TBind /\ new.block = None /\ new.function = c /\ new.args
    <3> HIDE DEF kept
    <3>1. [kept EXCEPT !.function = c, !.args = TRUE] \in TBind
      BY <2>1, SlotEdits
    <3> QED BY <2>1, <3>1 DEF TBind
  <2>3. /\ bind' = [bind EXCEPT !["get"] = new] /\ last' = [last EXCEPT !["get"] = c]
        /\ crashed' = crashed
        /\ refs' = [R EXCEPT ![c] = n]
    BY <1>2 DEF BindFunction
  <2>4. new # None
    BY <2>2, <1>b
  <2> HIDE DEF new, R
  <2>5. /\ bind'["get"] = new /\ last'["get"] = c /\ ~crashed'
        /\ bind'["set"] = None /\ bind'["erase"] = None
        /\ last'["set"] = None /\ last'["erase"] = None
    BY <1>b, <2>3 DEF BindingInv, GetSlot, LastRuns
  <2>6. GetSlot' /\ LastRuns'
    BY <2>2, <2>4, <2>5, <1>b DEF GetSlot, LastRuns, Runs
  <2>7. R \in [Targets -> Nat] /\ \A d \in Blocks : R[d] = 0
    BY <1>e, <1>f DEF R
  <2>8. refs'[c] > 0 /\ \A d \in Blocks : refs'[d] = 0
    BY <1>b, <2>3, <2>7 DEF Targets
  <2>9. BindCounts'
    BY <2>2, <2>5, <2>8, <1>b DEF BindCounts
  <2> QED BY <1>a, <2>6, <2>9 DEF BindingInv
<1>3. ASSUME Unbind("get") PROVE BindingInv'
  <2>1. CASE slot = None
    BY <1>3, <2>1 DEF Unbind, bindVars, BindingInv, BindTypes, GetSlot, BindCounts, LastRuns
  <2>2. CASE slot # None
    <3> DEFINE left == IF slot.block # None THEN [slot EXCEPT !.block = None]
                       ELSE [slot EXCEPT !.function = None, !.args = FALSE]
               new  == IF slot.func THEN left ELSE None
               R    == WithoutRef(Runs(slot), refs)
    <3>1. left \in TBind /\ left.block = None /\ left.function = None
      BY <1>d, <2>2, SlotEdits DEF TBind, BindingInv, GetSlot
    <3>2. /\ bind' = [bind EXCEPT !["get"] = new] /\ last' = [last EXCEPT !["get"] = None]
          /\ crashed' = crashed /\ refs' = R
      BY <1>3, <2>2 DEF Unbind, BindingInv, GetSlot
    <3> HIDE DEF left, R
    <3>3. /\ bind'["get"] = new /\ last'["get"] = None /\ ~crashed'
          /\ bind'["set"] = None /\ bind'["erase"] = None
          /\ last'["set"] = None /\ last'["erase"] = None
      BY <1>b, <3>2 DEF BindingInv, GetSlot, LastRuns
    <3>4. GetSlot' /\ LastRuns'
      BY <3>1, <3>3, <1>b DEF GetSlot, LastRuns, Runs
    <3>5. BindCounts'
      BY <3>1, <3>2, <3>3, <1>b, <1>f DEF BindCounts, R
    <3> QED BY <1>a, <3>4, <3>5 DEF BindingInv
  <2> QED BY <2>1, <2>2
<1>4. ASSUME NEW v \in BOOLEAN,
             v \/ bind["get"] # None,
             bind' = [bind EXCEPT !["get"] =
                        [(IF bind["get"] = None THEN NewBind ELSE bind["get"]) EXCEPT !.func = v]],
             UNCHANGED <<refs, last, crashed>>
      PROVE BindingInv'
  <2> DEFINE kept == IF slot = None THEN NewBind ELSE slot
             new  == [kept EXCEPT !.func = v]
  <2>1. kept \in TBind
    BY <1>c, <1>d
  <2>2. /\ new \in TBind /\ new.block = kept.block /\ new.function = kept.function
        /\ new.args = kept.args
    <3> HIDE DEF kept
    <3> QED BY <2>1, SlotEdits DEF TBind
  <2>3. /\ bind'["get"] = new /\ bind'["set"] = None /\ bind'["erase"] = None
    BY <1>b, <1>4 DEF BindingInv, GetSlot
  <2>4. new # None
    BY <2>2, <1>b
  <2>5. /\ kept.block = None \/ kept.function = None
        /\ kept.function # None => kept.args
        /\ Runs(kept) = Runs(slot)
        /\ slot = None => kept.block = None /\ kept.function = None
        /\ slot # None => kept = slot
    BY <1>b, <1>c DEF BindingInv, GetSlot, Runs
  <2> HIDE DEF new, kept
  <2>6. GetSlot' /\ LastRuns'
    BY <2>1, <2>2, <2>3, <2>4, <2>5, <1>4, <1>b DEF GetSlot, LastRuns, Runs, BindingInv
  <2>7. BindCounts'
    BY <2>1, <2>2, <2>3, <2>4, <2>5, <1>4, <1>b DEF BindCounts, BindingInv
  <2> QED BY <1>a, <2>6, <2>7 DEF BindingInv
<1>5. ASSUME DeleteBinding PROVE BindingInv'
  <2> DEFINE holds(o) == {e \in Slots : bind[e] # None /\
                            \/ bind[e].function = o
                            \/ bind[e].function = None /\ bind[e].block = o}
             less(n, m) == IF n <= m THEN 0 ELSE n - m
  <2>1. /\ refs' = [o \in DOMAIN refs |-> less(refs[o], Cardinality(holds(o)))]
        /\ bind' = Unbound /\ last' = Unbound /\ crashed' = crashed
    BY <1>5 DEF DeleteBinding
  <2>2. ASSUME NEW b \in Blocks PROVE refs'[b] = 0
    <3>1. b \in Targets /\ refs'[b] = less(refs[b], Cardinality(holds(b)))
      BY <2>1, <1>b DEF Targets
    <3>2. CASE refs[b] = 0
      <4>1. Cardinality(holds(b)) \in Nat
        BY SlotsFinite
      <4> QED BY <3>1, <3>2, <4>1
    <3>3. CASE refs[b] # 0
      <4>1. slot # None /\ slot.block = b /\ slot.function = None /\ refs[b] = 1
        BY <3>3, <1>b DEF BindingInv, BindCounts, GetSlot
      <4>2. holds(b) = {"get"}
        BY <4>1, <1>b DEF BindingInv, GetSlot
      <4>3. Cardinality(holds(b)) = 1
        BY <4>2, FS_Singleton
      <4> QED BY <3>1, <4>1, <4>3
    <3> QED BY <3>2, <3>3
  <2>3. bind' = [e \in Slots |-> None] /\ last' = [e \in Slots |-> None] /\ ~crashed'
    BY <2>1 DEF Unbound, BindingInv, LastRuns
  <2>4. GetSlot' /\ BindCounts' /\ LastRuns'
    BY <2>2, <2>3, <1>b DEF GetSlot, BindCounts, LastRuns, Runs
  <2> QED BY <1>a, <2>4 DEF BindingInv
<1>6. CASE UNCHANGED bindVars
  BY <1>6 DEF bindVars, BindingInv, BindTypes, GetSlot, BindCounts, LastRuns
<1>7. ASSUME SetSystemFunc("get") PROVE BindingInv'
  BY <1>4, <1>7 DEF SetSystemFunc
<1>8. ASSUME RemoveSystemFunc("get") PROVE BindingInv'
  <2>1. bind["get"] # None /\ UNCHANGED <<refs, last, crashed>>
        /\ bind' = [bind EXCEPT !["get"] = [bind["get"] EXCEPT !.func = FALSE]]
    BY <1>8 DEF RemoveSystemFunc
  <2> QED BY <1>4, <2>1
<1> QED BY <1>1, <1>2, <1>3, <1>5, <1>6, <1>7, <1>8 DEF BindNext, OnlyGet

LEMMA BindingInductive == OnlyGet => (BindSpec => []BindingInv)
<1> SUFFICES ASSUME OnlyGet PROVE BindSpec => []BindingInv
  OBVIOUS
<1>1. BindingInv /\ [BindNext]_bindVars => BindingInv'
  BY BindingInvNext
<1> QED BY <1>1, BindingInvInit, PTL DEF BindSpec

(* When scripts bind the event get, to blocks and to functions with extra
   inputs, what a get of the variable runs is what was bound last, whatever was
   bound, unbound and replaced before, and no NULL pointer is followed. *)
THEOREM GetRunsTheLastBinding == OnlyGet => (BindSpec => []LastBindingRuns)
<1>1. BindingInv => LastBindingRuns
  <2> SUFFICES ASSUME BindingInv PROVE LastBindingRuns
    OBVIOUS
  <2>1. Runs(None) = None
    BY DEF Runs
  <2> QED BY <2>1 DEF BindingInv, GetSlot, LastRuns, LastBindingRuns, Slots
<1> QED BY <1>1, BindingInductive, PTL

(* A block has exactly the reference of the binding that may run it, however often
   blocks and functions take each other's place; a call has at least one as long
   as a binding may run it (bind counts a call in a new TBind twice). *)
THEOREM GetIsCounted == OnlyGet => (BindSpec => []BindingsCounted)
<1>1. BindingInv => BindingsCounted
  <2> SUFFICES ASSUME BindingInv PROVE BindingsCounted
    OBVIOUS
  <2>1. Slots = {"get", "set", "erase"} /\ bind["set"] = None /\ bind["erase"] = None
    BY DEF BindingInv, GetSlot, Slots
  <2>2. ASSUME NEW b \in Blocks
        PROVE refs[b] = Cardinality({e \in Slots : bind[e] # None /\ bind[e].block = b})
    <3>1. CASE bind["get"] # None /\ bind["get"].block = b
      <4>1. {e \in Slots : bind[e] # None /\ bind[e].block = b} = {"get"}
        BY <2>1, <3>1
      <4> QED BY <3>1, <4>1, FS_Singleton DEF BindingInv, BindCounts
    <3>2. CASE ~(bind["get"] # None /\ bind["get"].block = b)
      <4>1. {e \in Slots : bind[e] # None /\ bind[e].block = b} = {}
        BY <2>1, <3>2
      <4> QED BY <3>2, <4>1, FS_EmptySet DEF BindingInv, BindCounts
    <3> QED BY <3>1, <3>2
  <2> QED BY <2>1, <2>2 DEF BindingInv, BindCounts, BindingsCounted
<1> QED BY <1>1, BindingInductive, PTL
===============================================================================
