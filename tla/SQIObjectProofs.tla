--------------------------- MODULE SQIObjectProofs ---------------------------
(***************************************************************************)
(* Proofs about SQIObject: whatever the objects, heaps, variables and      *)
(* arguments, REF counts the references exactly, nothing the program can   *)
(* reach has been deleted, no deletion starts twice, and a literal dies    *)
(* only in a collection.                                                   *)
(***************************************************************************)
EXTENDS SQIObject, FiniteSetTheorems, SequenceTheorems, TLAPS

\* Only lists without references are being deleted; with force only under a
\* collection, and without force no eternal one.
StackOK ==
  \A k \in 1..Len(stack) :
    /\ REF[stack[k].list] = 0
    /\ stack[k].force => gc # NULL
    /\ IsEternal(stack[k].list) => stack[k].force

IInv == TypeOK /\ NoDangling /\ RefExact /\ ContainedExact /\ NoDoubleDelete /\ StackOK

-----------------------------------------------------------------------------
\* Counting the cells that hold an object.
Count(S, f, o) == Cardinality({c \in S : f[c] = o})

\* f and g differ at most at c, on S.
SameBut(S, f, g, c) == \A d \in S \ {c} : g[d] = f[d]

\* The cells are finite in number.
LEMMA CellsFinite == IsFiniteSet(Cells) /\ IsFiniteSet(ElemCells)
<1>1. IsFiniteSet(1..MaxLen) BY CellAssumption, FS_Interval
<1>2. IsFiniteSet(Lists) BY ObjAssumption, FS_Subset
<1>3. IsFiniteSet(ElemCells) BY <1>1, <1>2, FS_Product DEF ElemCells
<1>4. IsFiniteSet(ElemCells \cup Vars) BY <1>3, CellAssumption, FS_Union
<1>5. IsFiniteSet(Cells) BY <1>4, CellAssumption, FS_Union DEF Cells
<1>6. QED BY <1>3, <1>5

\* A count is a natural number, and is zero only if no cell holds the object.
LEMMA CountZero ==
  ASSUME NEW S, IsFiniteSet(S), NEW f, NEW o
  PROVE  /\ Count(S, f, o) \in Nat
         /\ Count(S, f, o) = 0 <=> \A c \in S : f[c] # o
<1> DEFINE H == {c \in S : f[c] = o}
<1>1. IsFiniteSet(H) BY FS_Subset
<1>2. Cardinality(H) \in Nat BY <1>1, FS_CardinalityType
<1>3. Cardinality(H) = 0 <=> H = {} BY <1>1, FS_EmptySet
<1>4. QED BY <1>2, <1>3 DEF Count

\* Two functions that differ in one cell c only: the object c now holds counts
\* one more, the object it held one less, every other as many.
LEMMA CountUpdate ==
  ASSUME NEW S, IsFiniteSet(S), NEW f, NEW g, NEW c \in S,
         SameBut(S, f, g, c), NEW o
  PROVE  Count(S, g, o) = IF g[c] = f[c] THEN Count(S, f, o)
                          ELSE IF o = g[c] THEN Count(S, f, o) + 1
                          ELSE IF o = f[c] THEN Count(S, f, o) - 1
                          ELSE Count(S, f, o)
<1> DEFINE F == {d \in S : f[d] = o}
           G == {d \in S : g[d] = o}
<1>1. IsFiniteSet(F) BY FS_Subset
<1>2. CASE g[c] = f[c]
  <2>1. G = F BY <1>2 DEF SameBut
  <2>2. QED BY <2>1, <1>2 DEF Count
<1>3. CASE g[c] # f[c] /\ o = g[c]
  <2>1. G = F \cup {c} /\ c \notin F BY <1>3 DEF SameBut
  <2>2. Cardinality(G) = Cardinality(F) + 1 BY <2>1, <1>1, FS_AddElement
  <2>3. QED BY <2>2, <1>3 DEF Count
<1>4. CASE g[c] # f[c] /\ o # g[c] /\ o = f[c]
  <2>1. G = F \ {c} /\ c \in F BY <1>4 DEF SameBut
  <2>2. Cardinality(G) = Cardinality(F) - 1 BY <2>1, <1>1, FS_RemoveElement
  <2>3. QED BY <2>2, <1>4 DEF Count
<1>5. CASE g[c] # f[c] /\ o # g[c] /\ o # f[c]
  <2>1. G = F BY <1>5 DEF SameBut
  <2>2. QED BY <2>1, <1>5 DEF Count
<1>6. QED BY <1>2, <1>3, <1>4, <1>5

\* The two counting invariants, with Count.
LEMMA ExactAsCount ==
  /\ RefExact <=> \A o \in live : REF[o] = Count(Cells, held, o)
  /\ ContainedExact <=> \A o \in live : contained[o] = Count(ElemCells, held, o)
BY DEF RefExact, ContainedExact, Holders, Count

LEMMA ExactAsCountPrime ==
  /\ RefExact' <=> \A o \in live' : REF'[o] = Count(Cells, held', o)
  /\ ContainedExact' <=> \A o \in live' : contained'[o] = Count(ElemCells, held', o)
BY DEF RefExact, ContainedExact, Holders, Count

-----------------------------------------------------------------------------
\* What writing one cell does to the two counts, in a step.
LEMMA CountsAfter ==
  ASSUME NEW c \in Cells, SameBut(Cells, held, held', c), NEW o
  PROVE  /\ Count(Cells, held', o) =
              IF held'[c] = held[c] THEN Count(Cells, held, o)
              ELSE IF o = held'[c] THEN Count(Cells, held, o) + 1
              ELSE IF o = held[c] THEN Count(Cells, held, o) - 1
              ELSE Count(Cells, held, o)
         /\ c \in ElemCells =>
              Count(ElemCells, held', o) =
                IF held'[c] = held[c] THEN Count(ElemCells, held, o)
                ELSE IF o = held'[c] THEN Count(ElemCells, held, o) + 1
                ELSE IF o = held[c] THEN Count(ElemCells, held, o) - 1
                ELSE Count(ElemCells, held, o)
         /\ c \notin ElemCells => Count(ElemCells, held', o) = Count(ElemCells, held, o)
<1>1. Count(Cells, held', o) =
        IF held'[c] = held[c] THEN Count(Cells, held, o)
        ELSE IF o = held'[c] THEN Count(Cells, held, o) + 1
        ELSE IF o = held[c] THEN Count(Cells, held, o) - 1
        ELSE Count(Cells, held, o)
  BY CellsFinite, CountUpdate
<1>2. SameBut(ElemCells, held, held', c) BY DEF SameBut, Cells
<1>3. ASSUME c \in ElemCells
      PROVE  Count(ElemCells, held', o) =
               IF held'[c] = held[c] THEN Count(ElemCells, held, o)
               ELSE IF o = held'[c] THEN Count(ElemCells, held, o) + 1
               ELSE IF o = held[c] THEN Count(ElemCells, held, o) - 1
               ELSE Count(ElemCells, held, o)
  BY <1>2, <1>3, CellsFinite, CountUpdate
<1>4. ASSUME c \notin ElemCells
      PROVE  Count(ElemCells, held', o) = Count(ElemCells, held, o)
  <2>1. \A d \in ElemCells : held'[d] = held[d] BY <1>2, <1>4 DEF SameBut
  <2>2. {d \in ElemCells : held'[d] = o} = {d \in ElemCells : held[d] = o} BY <2>1
  <2>3. QED BY <2>2 DEF Count
<1>5. QED BY <1>1, <1>3, <1>4

\* What Suicidal does: at most this object dies, it had no reference left, and
\* an eternal one only under force; or a list starts on its elements.
LEMMA SuicidalEffect ==
  ASSUME NEW o, NEW ref, NEW force, Suicidal(o, ref, force)
  PROVE  /\ live' \subseteq live
         /\ \A x \in live \ live' : x = o /\ ref = 0 /\ o \notin Lists /\ (IsEternal(o) => force)
         /\ \/ stack' = stack
            \/ /\ stack' = Append(stack, [list |-> o, force |-> force])
               /\ o \in Lists /\ ref = 0 /\ live' = live
               /\ IsEternal(o) => force
BY DEF Suicidal, Dies

\* If after the step the counts are exact for the objects that were alive, and
\* only objects without references died, nothing is left dangling.
LEMMA DeathIsSafe ==
  ASSUME held' \in [Cells -> Obj \cup {NULL}],
         live' \subseteq live,
         \A o \in live : REF'[o] = Count(Cells, held', o),
         \A c \in Cells : held'[c] # NULL => held'[c] \in live,
         \A o \in live \ live' : REF'[o] = 0
  PROVE  NoDangling' /\ RefExact'
<1>1. ASSUME NEW c \in Cells, held'[c] # NULL PROVE held'[c] \in live'
  <2> DEFINE o == held'[c]
  <2>1. o \in live BY <1>1
  <2>2. SUFFICES ASSUME o \notin live' PROVE FALSE OBVIOUS
  <2>3. Count(Cells, held', o) = 0 BY <2>1, <2>2
  <2>4. QED BY <2>3, CountZero, CellsFinite
<1>2. NoDangling' BY <1>1 DEF NoDangling, Cells, ElemCells
<1>3. RefExact' BY ExactAsCountPrime
<1>4. QED BY <1>2, <1>3

\* An object some cell holds is alive and has a reference.
LEMMA HeldIsCounted ==
  ASSUME IInv, NEW c \in Cells, held[c] # NULL
  PROVE  /\ held[c] \in live /\ held[c] \in Obj /\ REF[held[c]] \in Nat \ {0}
         /\ c \in ElemCells => contained[held[c]] \in Nat \ {0}
<1> DEFINE o == held[c]
<1>1. o \in live /\ o \in Obj BY DEF IInv, NoDangling, TypeOK
<1>2. REF[o] = Count(Cells, held, o) BY <1>1, ExactAsCount DEF IInv
<1>3. Count(Cells, held, o) \in Nat \ {0} BY CountZero, CellsFinite
<1>4. ASSUME c \in ElemCells PROVE contained[o] \in Nat \ {0}
  <2>1. contained[o] = Count(ElemCells, held, o) BY <1>1, ExactAsCount DEF IInv
  <2>2. Count(ElemCells, held, o) \in Nat \ {0} BY <1>4, CountZero, CellsFinite
  <2>3. QED BY <2>1, <2>2
<1>5. QED BY <1>1, <1>2, <1>3, <1>4

\* A new activation of Suicidal on top of the others.
LEMMA Push ==
  ASSUME stack \in Seq(Frame), NEW f \in Frame, stack' = Append(stack, f)
  PROVE  /\ stack' \in Seq(Frame)
         /\ Len(stack') = Len(stack) + 1
         /\ \A k \in 1..Len(stack) : stack'[k] = stack[k]
         /\ stack'[Len(stack')] = f
OBVIOUS

\* The innermost activation has returned.
LEMMA Pop ==
  ASSUME NEW s \in Seq(Frame), NEW t, Len(s) \in 1..Len(s), t = SubSeq(s, 1, Len(s) - 1)
  PROVE  t \in Seq(Frame) /\ Len(t) = Len(s) - 1 /\ \A k \in 1..(Len(s) - 1) : t[k] = s[k]
<1>1. \A k \in 1..(Len(s) - 1) : s[k] \in Frame OBVIOUS
<1>2. Len(s) - 1 \in Nat OBVIOUS
<1> DEFINE n == Len(s) - 1
<1>3. n \in Int /\ \A k \in 1..n : s[k] \in Frame BY <1>1, <1>2
<1> HIDE DEF n
<1>4. /\ SubSeq(s, 1, n) \in Seq(Frame)
      /\ Len(SubSeq(s, 1, n)) = IF 1 <= n THEN n - 1 + 1 ELSE 0
      /\ \A k \in 1..(n - 1 + 1) : SubSeq(s, 1, n)[k] = s[1 + k - 1]
  BY <1>3, SubSeqProperties
<1>5. t = SubSeq(s, 1, n) /\ n \in Nat BY <1>2 DEF n
<1>6. \A k \in 1..n : k \in 1..(n - 1 + 1) /\ 1 + k - 1 = k BY <1>5
<1>7. Len(t) = n BY <1>4, <1>5
<1>8. \A k \in 1..n : t[k] = s[k] BY <1>4, <1>5, <1>6
<1>9. QED BY <1>4, <1>5, <1>7, <1>8 DEF n

\* Suicidal of an object that no activation is deleting keeps the activations
\* in order.
LEMMA StackAfter ==
  ASSUME IInv, NEW o \in live, NEW force \in BOOLEAN, Suicidal(o, REF'[o], force),
         force => gc # NULL, gc' = gc, heap' = heap,
         \A k \in 1..Len(stack) : stack[k].list # o /\ REF'[stack[k].list] = 0
  PROVE  stack' \in Seq(Frame) /\ NoDoubleDelete' /\ StackOK'
<1> DEFINE f == [list |-> o, force |-> force]
<1>1. stack \in Seq(Frame) BY DEF IInv, TypeOK
<1>2. /\ live' \subseteq live
      /\ \A x \in live \ live' : x = o
      /\ \/ stack' = stack
         \/ /\ stack' = Append(stack, f) /\ o \in Lists /\ REF'[o] = 0 /\ live' = live
            /\ IsEternal(o) => force
  BY SuicidalEffect
<1>3. \A k \in 1..Len(stack) : stack[k].list \in live /\ stack[k].list \in live'
  BY <1>2 DEF IInv, NoDoubleDelete
<1>4. \A j, k \in 1..Len(stack) : stack[j].list = stack[k].list => j = k
  BY DEF IInv, NoDoubleDelete
<1>5. \A k \in 1..Len(stack) :
        (stack[k].force => gc # NULL) /\ (IsEternal(stack[k].list) => stack[k].force)
  BY DEF IInv, StackOK
<1>6. CASE stack' = stack
  <2>1. NoDoubleDelete' BY <1>3, <1>4, <1>6 DEF NoDoubleDelete
  <2>2. StackOK' BY <1>5, <1>6 DEF StackOK, IsEternal
  <2>3. QED BY <2>1, <2>2, <1>1, <1>6
<1>7. CASE /\ stack' = Append(stack, f) /\ o \in Lists /\ REF'[o] = 0 /\ live' = live
           /\ IsEternal(o) => force
  <2>1. f \in Frame /\ f.list = o /\ f.force = force BY <1>7 DEF Frame
  <2> HIDE DEF f
  <2>2. /\ stack' \in Seq(Frame)
        /\ Len(stack') = Len(stack) + 1
        /\ \A k \in 1..Len(stack) : stack'[k] = stack[k]
        /\ stack'[Len(stack')] = f
    BY <1>1, <1>7, <2>1, Push
  <2>3. \A k \in 1..Len(stack') : k \in 1..Len(stack) \/ k = Len(stack')
    BY <1>1, <2>2
  <2>4. NoDoubleDelete'
    BY <1>3, <1>4, <1>7, <2>1, <2>2, <2>3 DEF NoDoubleDelete
  <2>5. StackOK' BY <1>5, <1>7, <2>1, <2>2, <2>3 DEF StackOK, IsEternal
  <2>6. QED BY <2>2, <2>4, <2>5
<1>8. QED BY <1>2, <1>6, <1>7

-----------------------------------------------------------------------------
\* The initial state.
LEMMA InitInv == Init => IInv
<1> SUFFICES ASSUME Init PROVE IInv OBVIOUS
<1>1. TypeOK BY HeapAssumption DEF Init, TypeOK
<1>2. NoDangling /\ RefExact /\ ContainedExact BY DEF Init, NoDangling, RefExact, ContainedExact
<1>3. NoDoubleDelete /\ StackOK BY DEF Init, NoDoubleDelete, StackOK
<1>4. QED BY <1>1, <1>2, <1>3 DEF IInv

\* A new object has no holder: no cell refers to an address that is not alive.
LEMMA NewInv == ASSUME IInv, NEW o \in Obj, NEW h \in Heaps, New(o, h) PROVE IInv'
<1>1. TypeOK' BY DEF IInv, TypeOK, New
<1>2. NoDangling' BY DEF IInv, NoDangling, New, Cells, ElemCells
<1>3. \A c \in Cells : held[c] # o /\ held' = held
  BY ObjAssumption DEF New, IInv, NoDangling
<1>4. Count(Cells, held', o) = 0 /\ Count(ElemCells, held', o) = 0
  <2>1. \A c \in ElemCells : held[c] # o BY <1>3 DEF Cells
  <2>2. QED BY <1>3, <2>1, CellsFinite, CountZero DEF New
<1>5. RefExact'
  BY <1>4, ExactAsCount, ExactAsCountPrime DEF IInv, New, TypeOK
<1>6. ContainedExact'
  BY <1>4, ExactAsCount, ExactAsCountPrime DEF IInv, New, TypeOK
<1>7. NoDoubleDelete' /\ StackOK' BY DEF New, Idle, NoDoubleDelete, StackOK
<1>8. QED BY <1>1, <1>2, <1>5, <1>6, <1>7 DEF IInv

\* Taking a counted reference.
LEMMA HoldInv == ASSUME IInv, NEW c \in Vars \cup Args, NEW o \in Obj, Hold(c, o) PROVE IInv'
<1>1. c \in Cells /\ c \notin ElemCells BY CellAssumption DEF Cells, ElemCells
<1>2. TypeOK' BY <1>1 DEF IInv, TypeOK, Hold
<1>3. NoDangling' BY <1>1 DEF IInv, NoDangling, Hold, TypeOK, Cells, ElemCells
<1>4. SameBut(Cells, held, held', c) /\ held'[c] = o /\ held[c] = NULL /\ o # NULL
  BY <1>1, ObjAssumption DEF IInv, TypeOK, Hold, SameBut
<1>5. RefExact'
  <2>1. \A x \in live : REF'[x] = IF x = o THEN REF[x] + 1 ELSE REF[x]
    BY DEF Hold, IInv, TypeOK
  <2>2. \A x \in live : Count(Cells, held', x) =
          IF x = o THEN Count(Cells, held, x) + 1 ELSE Count(Cells, held, x)
    BY <1>1, <1>4, CountsAfter, ObjAssumption DEF IInv, TypeOK
  <2>3. QED BY <2>1, <2>2, ExactAsCount, ExactAsCountPrime DEF IInv, Hold
<1>6. ContainedExact'
  <2>1. \A x \in live : Count(ElemCells, held', x) = Count(ElemCells, held, x)
    BY <1>1, <1>4, CountsAfter
  <2>2. contained' = contained /\ live' = live BY DEF Hold
  <2>3. QED BY <2>1, <2>2, ExactAsCount, ExactAsCountPrime DEF IInv
<1>7. NoDoubleDelete' /\ StackOK' BY DEF Hold, Idle, NoDoubleDelete, StackOK
<1>8. QED BY <1>2, <1>3, <1>5, <1>6, <1>7 DEF IInv

\* Giving up a counted reference, then Suicidal without force.
LEMMA ReleaseInv == ASSUME IInv, NEW v \in Vars, Release(v) PROVE IInv'
<1> DEFINE old == held[v]
<1>1. v \in Cells /\ v \notin ElemCells BY CellAssumption DEF Cells, ElemCells
<1>2. old \in live /\ old \in Obj /\ REF[old] \in Nat \ {0}
  BY <1>1, HeldIsCounted DEF Release
<1>3. SameBut(Cells, held, held', v) /\ held'[v] = NULL /\ held[v] = old /\ old # NULL
  BY <1>1, <1>2, ObjAssumption DEF IInv, TypeOK, Release, SameBut
<1>4. REF' = [REF EXCEPT ![old] = REF[old] - 1] /\ REF'[old] = REF[old] - 1
  BY <1>2 DEF Release, Less1, IInv, TypeOK
<1>5. Suicidal(old, REF'[old], FALSE) BY <1>2, <1>4 DEF Release, Less1
<1>6. held' \in [Cells -> Obj \cup {NULL}] /\ REF' \in [Obj -> Nat]
  BY <1>1, <1>2, <1>4 DEF IInv, TypeOK, Release
<1>7. \A x \in live : REF'[x] = Count(Cells, held', x)
  <2>1. \A x \in live : REF'[x] = IF x = old THEN REF[x] - 1 ELSE REF[x]
    BY <1>2, <1>4 DEF IInv, TypeOK
  <2>2. \A x \in live : Count(Cells, held', x) =
          IF x = old THEN Count(Cells, held, x) - 1 ELSE Count(Cells, held, x)
    BY <1>1, <1>3, CountsAfter, ObjAssumption DEF IInv, TypeOK
  <2>3. QED BY <2>1, <2>2, ExactAsCount DEF IInv
<1>8. \A x \in live : contained'[x] = Count(ElemCells, held', x)
  <2>1. \A x \in live : Count(ElemCells, held', x) = Count(ElemCells, held, x)
    BY <1>1, <1>3, CountsAfter
  <2>2. contained' = contained BY DEF Release
  <2>3. QED BY <2>1, <2>2, ExactAsCount DEF IInv
<1>9. live' \subseteq live /\ \A x \in live \ live' : REF'[x] = 0
  BY <1>5, SuicidalEffect
<1>10. NoDangling' /\ RefExact'
  <2>1. \A c \in Cells : held'[c] # NULL => held'[c] \in live
    BY <1>3 DEF IInv, NoDangling, SameBut
  <2>2. QED BY <1>6, <1>7, <1>9, <2>1, DeathIsSafe
<1>11. ContainedExact' BY <1>8, <1>9, ExactAsCountPrime
<1>12. stack = <<>> /\ gc' = gc /\ heap' = heap BY DEF Release, Idle
<1>13. stack' \in Seq(Frame) /\ NoDoubleDelete' /\ StackOK'
  <2>1. \A k \in 1..Len(stack) : stack[k].list # old /\ REF'[stack[k].list] = 0 BY <1>12
  <2> HIDE DEF old
  <2>2. QED BY <1>2, <1>5, <1>12, <2>1, StackAfter
<1>14. TypeOK' BY <1>6, <1>9, <1>13 DEF IInv, TypeOK, Release
<1>15. QED BY <1>10, <1>11, <1>13, <1>14 DEF IInv

\* The new value takes a reference before the old one gives one up.
LEMMA ReplaceInv == ASSUME IInv, NEW v \in Vars, NEW o \in Obj, Replace(v, o) PROVE IInv'
<1> DEFINE old == held[v]
<1>1. v \in Cells /\ v \notin ElemCells BY CellAssumption DEF Cells, ElemCells
<1>2. old \in live /\ old \in Obj /\ REF[old] \in Nat \ {0}
  BY <1>1, HeldIsCounted DEF Replace
<1>3. SameBut(Cells, held, held', v) /\ held'[v] = o /\ held[v] = old
  BY <1>1, <1>2, ObjAssumption DEF IInv, TypeOK, Replace, SameBut
<1>4. /\ REF' \in [Obj -> Nat]
      /\ \A x \in Obj : REF'[x] = IF o = old THEN REF[x]
                                 ELSE IF x = o THEN REF[x] + 1
                                 ELSE IF x = old THEN REF[x] - 1 ELSE REF[x]
  <2> DEFINE up == [REF EXCEPT ![o] = REF[o] + 1]
  <2>1. up \in [Obj -> Nat] /\ up[old] \in Nat \ {0} BY <1>2 DEF IInv, TypeOK
  <2>2. REF' = [up EXCEPT ![old] = up[old] - 1] BY <2>1 DEF Replace, Less1
  <2>3. REF \in [Obj -> Nat] /\ \A x \in Obj : up[x] = IF x = o THEN REF[x] + 1 ELSE REF[x]
    BY DEF IInv, TypeOK
  <2> HIDE DEF up
  <2>4. REF' \in [Obj -> Nat] BY <1>2, <2>1, <2>2
  <2>5. \A x \in Obj : REF'[x] = IF x = old THEN up[x] - 1 ELSE up[x] BY <1>2, <2>1, <2>2
  <2> HIDE DEF old
  <2>6. QED BY <1>2, <2>3, <2>4, <2>5
<1>5. Suicidal(old, REF'[old], FALSE)
  <2> DEFINE up == [REF EXCEPT ![o] = REF[o] + 1]
  <2>1. Suicidal(old, Less1(up[old]), FALSE) BY DEF Replace
  <2>2. up \in [Obj -> Nat] /\ REF' = [up EXCEPT ![old] = Less1(up[old])]
    BY DEF Replace, IInv, TypeOK
  <2>3. REF'[old] = Less1(up[old]) BY <1>2, <2>2
  <2>4. QED BY <2>1, <2>3
<1>6. held' \in [Cells -> Obj \cup {NULL}]
  BY <1>1 DEF IInv, TypeOK, Replace
<1>7. \A x \in live : REF'[x] = Count(Cells, held', x)
  <2>1. \A x \in live : Count(Cells, held', x) =
          IF o = old THEN Count(Cells, held, x)
          ELSE IF x = o THEN Count(Cells, held, x) + 1
          ELSE IF x = old THEN Count(Cells, held, x) - 1 ELSE Count(Cells, held, x)
    BY <1>1, <1>3, CountsAfter
  <2>2. live \subseteq Obj BY DEF IInv, TypeOK
  <2>3. QED BY <1>4, <2>1, <2>2, ExactAsCount DEF IInv
<1>8. \A x \in live : contained'[x] = Count(ElemCells, held', x)
  <2>1. \A x \in live : Count(ElemCells, held', x) = Count(ElemCells, held, x)
    BY <1>1, <1>3, CountsAfter
  <2>2. contained' = contained BY DEF Replace
  <2>3. QED BY <2>1, <2>2, ExactAsCount DEF IInv
<1>9. live' \subseteq live /\ \A x \in live \ live' : REF'[x] = 0
  BY <1>5, SuicidalEffect
<1>10. NoDangling' /\ RefExact'
  <2>1. \A c \in Cells : held'[c] # NULL => held'[c] \in live
    BY <1>3 DEF IInv, NoDangling, SameBut, Replace
  <2>2. QED BY <1>6, <1>7, <1>9, <2>1, DeathIsSafe
<1>11. ContainedExact' BY <1>8, <1>9, ExactAsCountPrime
<1>12. stack = <<>> /\ gc' = gc /\ heap' = heap BY DEF Replace, Idle
<1>13. stack' \in Seq(Frame) /\ NoDoubleDelete' /\ StackOK'
  <2>1. \A k \in 1..Len(stack) : stack[k].list # old /\ REF'[stack[k].list] = 0 BY <1>12
  <2> HIDE DEF old
  <2>2. QED BY <1>2, <1>5, <1>12, <2>1, StackAfter
<1>14. TypeOK' BY <1>4, <1>6, <1>9, <1>13 DEF IInv, TypeOK, Replace
<1>15. QED BY <1>10, <1>11, <1>13, <1>14 DEF IInv

\* REF-- without Suicidal: the object may be left with no reference.
LEMMA DropArgInv == ASSUME IInv, NEW a \in Args, DropArg(a) PROVE IInv'
<1> DEFINE old == held[a]
<1>1. a \in Cells /\ a \notin ElemCells BY CellAssumption DEF Cells, ElemCells
<1>2. old \in live /\ old \in Obj /\ REF[old] \in Nat \ {0}
  BY <1>1, HeldIsCounted DEF DropArg
<1>3. SameBut(Cells, held, held', a) /\ held'[a] = NULL /\ held[a] = old /\ old # NULL
  BY <1>1, <1>2, ObjAssumption DEF IInv, TypeOK, DropArg, SameBut
<1>4. TypeOK' BY <1>1, <1>2 DEF IInv, TypeOK, DropArg
<1>5. NoDangling' BY <1>3 DEF IInv, NoDangling, SameBut, DropArg, Cells, ElemCells
<1>6. RefExact'
  <2>1. \A x \in live : REF'[x] = IF x = old THEN REF[x] - 1 ELSE REF[x]
    BY <1>2 DEF IInv, TypeOK, DropArg
  <2>2. \A x \in live : Count(Cells, held', x) =
          IF x = old THEN Count(Cells, held, x) - 1 ELSE Count(Cells, held, x)
    BY <1>1, <1>3, CountsAfter, ObjAssumption DEF IInv, TypeOK
  <2>3. live' = live BY DEF DropArg
  <2>4. QED BY <2>1, <2>2, <2>3, ExactAsCount, ExactAsCountPrime DEF IInv
<1>7. ContainedExact'
  <2>1. \A x \in live : Count(ElemCells, held', x) = Count(ElemCells, held, x)
    BY <1>1, <1>3, CountsAfter
  <2>2. contained' = contained /\ live' = live BY DEF DropArg
  <2>3. QED BY <2>1, <2>2, ExactAsCount, ExactAsCountPrime DEF IInv
<1>8. NoDoubleDelete' /\ StackOK' BY DEF DropArg, Idle, NoDoubleDelete, StackOK
<1>9. QED BY <1>4, <1>5, <1>6, <1>7, <1>8 DEF IInv

\* Exporting only gives objects a heap.
LEMMA MovedToType ==
  ASSUME TypeOK, NEW h \in Heaps, NEW S
  PROVE  MovedTo(h, S) \in [Obj -> Heaps]
BY DEF TypeOK, MovedTo

LEMMA ExportInv == ASSUME IInv, NEW o \in Obj, NEW h \in Heaps, Export(o, h) PROVE IInv'
<1>1. heap' \in [Obj -> Heaps] BY MovedToType DEF Export, IInv
<1>2. UNCHANGED <<live, REF, contained, held, stack, gc>> BY DEF Export
<1>3. TypeOK' BY <1>1, <1>2 DEF IInv, TypeOK
<1>4. NoDangling' /\ NoDoubleDelete' /\ StackOK'
  BY <1>2 DEF IInv, Export, Idle, NoDangling, NoDoubleDelete, StackOK, Cells, ElemCells
<1>5. RefExact' /\ ContainedExact'
  BY <1>2, ExactAsCount, ExactAsCountPrime DEF IInv
<1>6. QED BY <1>3, <1>4, <1>5 DEF IInv

\* An element takes both counts of the object up.
LEMMA Add2EndInv ==
  ASSUME IInv, NEW l \in Lists, NEW i \in 1..MaxLen, NEW o \in Obj, Add2End(l, i, o)
  PROVE  IInv'
<1> DEFINE c == <<l, i>>
<1>1. c \in Cells /\ c \in ElemCells BY DEF Cells, ElemCells
<1>2. SameBut(Cells, held, held', c) /\ held'[c] = o /\ held[c] = NULL /\ o # NULL
  BY <1>1, ObjAssumption DEF IInv, TypeOK, Add2End, SameBut
<1>3. heap' \in [Obj -> Heaps] BY MovedToType, ObjAssumption DEF Add2End, IInv, TypeOK
<1>4. TypeOK' BY <1>1, <1>3 DEF IInv, TypeOK, Add2End
<1> HIDE DEF c
<1>5. NoDangling' BY <1>2 DEF IInv, NoDangling, SameBut, Add2End, Cells, ElemCells
<1>6. RefExact'
  <2>1. \A x \in live : REF'[x] = IF x = o THEN REF[x] + 1 ELSE REF[x]
    BY DEF Add2End, IInv, TypeOK
  <2>2. \A x \in live : Count(Cells, held', x) =
          IF x = o THEN Count(Cells, held, x) + 1 ELSE Count(Cells, held, x)
    BY <1>1, <1>2, CountsAfter, ObjAssumption DEF IInv, TypeOK
  <2>3. live' = live BY DEF Add2End
  <2>4. QED BY <2>1, <2>2, <2>3, ExactAsCount, ExactAsCountPrime DEF IInv
<1>7. ContainedExact'
  <2>1. \A x \in live : contained'[x] = IF x = o THEN contained[x] + 1 ELSE contained[x]
    BY DEF Add2End, IInv, TypeOK
  <2>2. \A x \in live : Count(ElemCells, held', x) =
          IF x = o THEN Count(ElemCells, held, x) + 1 ELSE Count(ElemCells, held, x)
    BY <1>1, <1>2, CountsAfter, ObjAssumption DEF IInv, TypeOK
  <2>3. live' = live BY DEF Add2End
  <2>4. QED BY <2>1, <2>2, <2>3, ExactAsCount, ExactAsCountPrime DEF IInv
<1>8. NoDoubleDelete' /\ StackOK' BY DEF Add2End, Idle, NoDoubleDelete, StackOK
<1>9. QED BY <1>4, <1>5, <1>6, <1>7, <1>8 DEF IInv

\* One element of the list being deleted: what an activation deletes has no
\* reference, so the element is none of the lists being deleted.
LEMMA DropElemInv == ASSUME IInv, DropElem PROVE IInv'
<1> DEFINE f == stack[Len(stack)]
<1>1. stack \in Seq(Frame) /\ Len(stack) \in 1..Len(stack) /\ f \in Frame
  BY DEF IInv, TypeOK, DropElem
<1>2. f.list \in Lists /\ f.force \in BOOLEAN BY <1>1 DEF Frame
<1>3. PICK i \in 1..MaxLen :
        LET e == held[<<f.list, i>>]
        IN /\ e # NULL
           /\ held' = [held EXCEPT ![<<f.list, i>>] = NULL]
           /\ contained' = [contained EXCEPT ![e] = contained[e] - 1]
           /\ REF' = [REF EXCEPT ![e] = Less1(REF[e])]
           /\ Suicidal(e, Less1(REF[e]), f.force)
  BY DEF DropElem
<1> DEFINE c == <<f.list, i>>
           e == held[c]
<1>4. c \in Cells /\ c \in ElemCells BY <1>2 DEF Cells, ElemCells
<1>5. /\ e \in live /\ e \in Obj /\ REF[e] \in Nat \ {0} /\ contained[e] \in Nat \ {0}
      /\ e # NULL
  BY <1>3, <1>4, HeldIsCounted, ObjAssumption
<1>6. REF' = [REF EXCEPT ![e] = REF[e] - 1] /\ REF'[e] = REF[e] - 1
  BY <1>3, <1>5 DEF Less1, IInv, TypeOK
<1>7. Suicidal(e, REF'[e], f.force) BY <1>3, <1>5, <1>6 DEF Less1
<1>8. contained' = [contained EXCEPT ![e] = contained[e] - 1] BY <1>3
<1>9. SameBut(Cells, held, held', c) /\ held'[c] = NULL /\ held[c] = e
  BY <1>3, <1>4 DEF IInv, TypeOK, SameBut
<1>10. /\ held' \in [Cells -> Obj \cup {NULL}] /\ REF' \in [Obj -> Nat]
       /\ contained' \in [Obj -> Nat]
  BY <1>3, <1>4, <1>5, <1>6, <1>8 DEF IInv, TypeOK
<1>11. UNCHANGED <<heap, gc>> BY DEF DropElem
<1>12. /\ live \subseteq Obj
       /\ \A x \in Obj : REF'[x] = IF x = e THEN REF[x] - 1 ELSE REF[x]
       /\ \A x \in Obj : contained'[x] = IF x = e THEN contained[x] - 1 ELSE contained[x]
  BY <1>5, <1>6, <1>8 DEF IInv, TypeOK
<1> HIDE DEF c, e, f
<1>13. \A x \in live : REF'[x] = Count(Cells, held', x)
  <2>1. \A x \in live : Count(Cells, held', x) =
          IF x = e THEN Count(Cells, held, x) - 1 ELSE Count(Cells, held, x)
    BY <1>4, <1>5, <1>9, <1>12, CountsAfter, ObjAssumption
  <2>2. QED BY <1>12, <2>1, ExactAsCount DEF IInv
<1>14. \A x \in live : contained'[x] = Count(ElemCells, held', x)
  <2>1. \A x \in live : Count(ElemCells, held', x) =
          IF x = e THEN Count(ElemCells, held, x) - 1 ELSE Count(ElemCells, held, x)
    BY <1>4, <1>5, <1>9, <1>12, CountsAfter, ObjAssumption
  <2>2. QED BY <1>12, <2>1, ExactAsCount DEF IInv
<1>15. live' \subseteq live /\ \A x \in live \ live' : REF'[x] = 0
  BY <1>7, SuicidalEffect
<1>16. NoDangling' /\ RefExact'
  <2>1. \A d \in Cells : held'[d] # NULL => held'[d] \in live
    BY <1>9 DEF IInv, NoDangling, SameBut
  <2>2. QED BY <1>10, <1>13, <1>15, <2>1, DeathIsSafe
<1>17. ContainedExact' BY <1>14, <1>15, ExactAsCountPrime
<1>18. stack' \in Seq(Frame) /\ NoDoubleDelete' /\ StackOK'
  <2>1. \A k \in 1..Len(stack) : stack[k].list \in Obj /\ REF[stack[k].list] = 0
    BY <1>12 DEF IInv, StackOK, NoDoubleDelete
  <2>2. \A k \in 1..Len(stack) : stack[k].list # e /\ REF'[stack[k].list] = 0
    BY <1>5, <1>12, <2>1
  <2>3. f.force => gc # NULL BY <1>1 DEF IInv, StackOK, f
  <2>4. QED BY <1>2, <1>5, <1>7, <1>11, <2>2, <2>3, StackAfter
<1>19. TypeOK' BY <1>10, <1>11, <1>15, <1>18 DEF IInv, TypeOK
<1>20. QED BY <1>16, <1>17, <1>18, <1>19 DEF IInv

\* "delete this": the list has no reference, so no cell is left with it, and no
\* other activation is deleting it.
LEMMA DeleteListInv == ASSUME IInv, DeleteList PROVE IInv'
<1> DEFINE n == Len(stack)
           f == stack[n]
<1>1. stack \in Seq(Frame) /\ n \in 1..n /\ f \in Frame
  BY DEF IInv, TypeOK, DeleteList
<1>2. f.list \in live /\ REF[f.list] = 0 BY <1>1 DEF IInv, NoDoubleDelete, StackOK
<1>3. live' = live \ {f.list} /\ UNCHANGED <<REF, contained, heap, held, gc>>
  BY DEF DeleteList
<1>4. stack' \in Seq(Frame) /\ Len(stack') = n - 1 /\ \A k \in 1..(n - 1) : stack'[k] = stack[k]
  <2>1. stack' = SubSeq(stack, 1, n - 1) BY DEF DeleteList
  <2>2. QED BY <1>1, <2>1, Pop
<1> HIDE DEF f
<1>5. TypeOK' BY <1>3, <1>4 DEF IInv, TypeOK
<1>6. NoDangling' /\ RefExact'
  <2>1. /\ held' \in [Cells -> Obj \cup {NULL}]
        /\ \A c \in Cells : held'[c] # NULL => held'[c] \in live
    BY <1>3 DEF IInv, TypeOK, NoDangling
  <2>2. \A o \in live : REF'[o] = Count(Cells, held', o) BY <1>3, ExactAsCount DEF IInv
  <2>3. \A o \in live \ live' : REF'[o] = 0 BY <1>2, <1>3
  <2>4. live' \subseteq live BY <1>3
  <2>5. QED BY <2>1, <2>2, <2>3, <2>4, DeathIsSafe
<1>7. ContainedExact' BY <1>3, ExactAsCount, ExactAsCountPrime DEF IInv
<1>8. NoDoubleDelete'
  <2>1. \A k \in 1..(n - 1) : stack[k].list # f.list /\ stack[k].list \in live
    BY <1>1 DEF IInv, NoDoubleDelete, f
  <2>2. \A j, k \in 1..n : stack[j].list = stack[k].list => j = k
    BY DEF IInv, NoDoubleDelete
  <2>3. QED BY <1>1, <1>3, <1>4, <2>1, <2>2 DEF NoDoubleDelete
<1>9. StackOK' BY <1>1, <1>3, <1>4 DEF IInv, StackOK, IsEternal
<1>10. QED BY <1>5, <1>6, <1>7, <1>8, <1>9 DEF IInv

\* Beginning and ending a collection.
LEMMA GCStartEndInv ==
  ASSUME IInv, (\E h \in Heaps : GCStart(h)) \/ GCEnd
  PROVE  IInv'
<1>1. UNCHANGED <<live, REF, contained, heap, held, stack>> /\ stack = <<>>
  BY DEF GCStart, GCEnd, Idle
<1>2. gc' \in Heaps \cup {NULL} BY DEF GCStart, GCEnd
<1>3. TypeOK' BY <1>1, <1>2 DEF IInv, TypeOK
<1>4. NoDangling' /\ NoDoubleDelete' /\ StackOK'
  BY <1>1 DEF IInv, NoDangling, NoDoubleDelete, StackOK, Cells, ElemCells
<1>5. RefExact' /\ ContainedExact' BY <1>1, ExactAsCount, ExactAsCountPrime DEF IInv
<1>6. QED BY <1>3, <1>4, <1>5 DEF IInv

\* A collection asks an object without references to die.
LEMMA CollectInv == ASSUME IInv, NEW o \in Obj, Collect(o) PROVE IInv'
<1>1. /\ UNCHANGED <<REF, contained, heap, held, gc>> /\ stack = <<>> /\ gc # NULL
      /\ o \in live /\ REF'[o] = 0 /\ Suicidal(o, REF'[o], TRUE)
  BY DEF Collect
<1>2. live' \subseteq live /\ \A x \in live \ live' : REF'[x] = 0
  BY <1>1, SuicidalEffect
<1>3. NoDangling' /\ RefExact'
  <2>1. /\ held' \in [Cells -> Obj \cup {NULL}]
        /\ \A c \in Cells : held'[c] # NULL => held'[c] \in live
    BY <1>1 DEF IInv, TypeOK, NoDangling
  <2>2. \A x \in live : REF'[x] = Count(Cells, held', x) BY <1>1, ExactAsCount DEF IInv
  <2>3. QED BY <1>2, <2>1, <2>2, DeathIsSafe
<1>4. ContainedExact' BY <1>1, <1>2, ExactAsCount, ExactAsCountPrime DEF IInv
<1>5. stack' \in Seq(Frame) /\ NoDoubleDelete' /\ StackOK'
  <2>1. \A k \in 1..Len(stack) : stack[k].list # o /\ REF'[stack[k].list] = 0 BY <1>1
  <2>2. QED BY <1>1, <2>1, StackAfter
<1>6. TypeOK' BY <1>1, <1>2, <1>5 DEF IInv, TypeOK
<1>7. QED BY <1>3, <1>4, <1>5, <1>6 DEF IInv

-----------------------------------------------------------------------------
\* Every step keeps the invariant.
LEMMA NextInv == IInv /\ [Next]_vars => IInv'
<1> SUFFICES ASSUME IInv, [Next]_vars PROVE IInv' OBVIOUS
<1>1. CASE \E o \in Obj, h \in Heaps : New(o, h) BY <1>1, NewInv
<1>2. CASE \E c \in Vars \cup Args, o \in Obj : Hold(c, o) BY <1>2, HoldInv
<1>3. CASE \E v \in Vars, o \in Obj : Replace(v, o) BY <1>3, ReplaceInv
<1>4. CASE \E v \in Vars : Release(v) BY <1>4, ReleaseInv
<1>5. CASE \E a \in Args : DropArg(a) BY <1>5, DropArgInv
<1>6. CASE \E l \in Lists, i \in 1..MaxLen, o \in Obj : Add2End(l, i, o) BY <1>6, Add2EndInv
<1>7. CASE \E o \in Obj, h \in Heaps : Export(o, h) BY <1>7, ExportInv
<1>8. CASE DropElem BY <1>8, DropElemInv
<1>9. CASE DeleteList BY <1>9, DeleteListInv
<1>10. CASE (\E h \in Heaps : GCStart(h)) \/ GCEnd BY <1>10, GCStartEndInv
<1>11. CASE \E o \in Obj : Collect(o) BY <1>11, CollectInv
<1>12. CASE UNCHANGED vars
  <2>1. UNCHANGED <<live, REF, contained, heap, held, stack, gc>> BY <1>12 DEF vars
  <2>2. TypeOK' BY <2>1 DEF IInv, TypeOK
  <2>3. NoDangling' /\ NoDoubleDelete' /\ StackOK'
    BY <2>1 DEF IInv, NoDangling, NoDoubleDelete, StackOK, IsEternal, Cells, ElemCells
  <2>4. RefExact' /\ ContainedExact' BY <2>1, ExactAsCount, ExactAsCountPrime DEF IInv
  <2>5. QED BY <2>2, <2>3, <2>4 DEF IInv
<1>13. QED
  BY <1>1, <1>2, <1>3, <1>4, <1>5, <1>6, <1>7, <1>8, <1>9, <1>10, <1>11, <1>12 DEF Next

\* The inductive invariant holds of every behaviour.
LEMMA Invariance == Spec => []IInv
<1>1. Init => IInv BY InitInv
<1>2. IInv /\ [Next]_vars => IInv' BY NextInv
<1>3. QED BY <1>1, <1>2, PTL DEF Spec

(* The variables keep their types: in particular no count goes below zero,
   although ~SQI_Args and SQI_List::Suicidal decrement without a test. *)
THEOREM TypeCorrect == Spec => []TypeOK
<1>1. IInv => TypeOK BY DEF IInv
<1>2. QED BY <1>1, Invariance, PTL

(* No list element, variable or argument ever refers to a deleted object,
   whatever the order of releases, exports and collections. *)
THEOREM NothingDangles == Spec => []NoDangling
<1>1. IInv => NoDangling BY DEF IInv
<1>2. QED BY <1>1, Invariance, PTL

(* REF and contained are exact at every moment, also in the middle of a
   cascade of deletions or of a collection. *)
THEOREM CountsExact == Spec => [](RefExact /\ ContainedExact)
<1>1. IInv => RefExact /\ ContainedExact BY DEF IInv
<1>2. QED BY <1>1, Invariance, PTL

(* SQI_List::Suicidal never starts on a list whose deletion is in progress, so
   no object is deleted twice. *)
THEOREM DeletedOnce == Spec => []NoDoubleDelete
<1>1. IInv => NoDoubleDelete BY DEF IInv
<1>2. QED BY <1>1, Invariance, PTL

\* An eternal object dies only under force, hence only in a collection.
LEMMA EternalStep ==
  ASSUME IInv, [Next]_vars, NEW x \in live, IsEternal(x), x \notin live'
  PROVE  gc # NULL
<1>1. CASE \E v \in Vars, o \in Obj : Replace(v, o)
  BY <1>1 DEF Replace, Suicidal, Dies
<1>2. CASE \E v \in Vars : Release(v)
  BY <1>2 DEF Release, Suicidal, Dies
<1>3. CASE DropElem
  <2>1. stack[Len(stack)].force BY <1>3 DEF DropElem, Suicidal, Dies
  <2>2. Len(stack) \in 1..Len(stack) BY <1>3 DEF DropElem, IInv, TypeOK
  <2>3. QED BY <2>1, <2>2 DEF IInv, StackOK
<1>4. CASE DeleteList
  <2>1. x = stack[Len(stack)].list BY <1>4 DEF DeleteList
  <2>2. Len(stack) \in 1..Len(stack) BY <1>4 DEF DeleteList, IInv, TypeOK
  <2>3. QED BY <2>1, <2>2 DEF IInv, StackOK
<1>5. CASE \E o \in Obj : Collect(o) BY <1>5 DEF Collect
<1>6. QED BY <1>1, <1>2, <1>3, <1>4, <1>5
         DEF Next, vars, New, Hold, DropArg, Add2End, Export, GCStart, GCEnd

(* An eternal object, a literal of the program text, is deleted by a collection
   or not at all. *)
THEOREM LiteralsSurvive == Spec => EternalSurvives
<1> DEFINE Step == \A o \in live : IsEternal(o) /\ o \notin live' => gc # NULL
<1>1. IInv /\ [Next]_vars => [Step]_vars BY EternalStep
<1>2. QED BY <1>1, Invariance, PTL DEF Spec, EternalSurvives
=============================================================================
