-------------------------- MODULE SQIDataStructProofs --------------------------
(***************************************************************************)
(* What SQIDataStruct promises for any numbers, vectors, keys and sizes,   *)
(* and, in the second half, what SQIList promises for any numbers, lists,  *)
(* literals and variables: both count the places where values are, and     *)
(* both run loops over the elements of a sequence.                         *)
(*                                                                         *)
(* The references to a number are places: of a vector (Held), of the       *)
(* dictionary (Keys), a variable, the argument of iterate.  Counts are the *)
(* cardinalities of sets of places, and a step adds and takes away places  *)
(* that can be named (Follows, Puts, Erased); DataInv says that the counts *)
(* are exact, that what has a place lives, and that iterate goes over a    *)
(* vector that a variable keeps and makes one that nothing else names.     *)
(*                                                                         *)
(* push_back of several elements, and the loop of the partition, are folds *)
(* over a sequence: Loop says what each turn makes of the one before, and  *)
(* what they compute is shown turn by turn.  The sort is a recursive       *)
(* function on the parts of a sequence, which are shorter and shorter      *)
(* (Sorting, SortedPart); that the result has the same elements is that it *)
(* is an Order of them.                                                    *)
(*                                                                         *)
(* In SQIList the places are those of the lists (In), and variables and    *)
(* statements refer to an object Roots times.  MemOK is what a memory is   *)
(* when its counts are exact for given roots: each of AddRef, RemRef,      *)
(* Destroyed, Export and Add2End takes such a memory to one with the roots *)
(* that follow from it, and a primitive is a chain of these.  Lists        *)
(* outside the function's heap have no element in it (Homes), which is     *)
(* what the end of the function needs to leave nothing behind.             *)
(***************************************************************************)
EXTENDS SQIDataStruct, SQIList, FiniteSetTheorems, FunctionTheorems,
        WellFoundedInduction, TLAPS

-----------------------------------------------------------------------------
(* Counting the places where a number is: in a sequence, and in the storage F *)
(* of several vectors.                                                        *)

Where(s, o) == {i \in DOMAIN s : s[i] = o}

LEMMA CountType ==
  ASSUME NEW S, NEW s \in Seq(S), NEW o
  PROVE  /\ IsFiniteSet(Where(s, o)) /\ Count(s, o) = Cardinality(Where(s, o))
         /\ Count(s, o) \in Nat /\ (Count(s, o) = 0 <=> o \notin Range(s))
<1>1. Where(s, o) \in SUBSET (1..Len(s)) /\ IsFiniteSet(1..Len(s))
  <2>1. IsFiniteSet(1..Len(s))
    BY FS_Interval
  <2> QED BY <2>1 DEF Where
<1>2. IsFiniteSet(Where(s, o)) /\ Count(s, o) = Cardinality(Where(s, o))
  BY <1>1, FS_Subset DEF Count, Where
<1>3. Cardinality(Where(s, o)) \in Nat
  BY <1>2, FS_CardinalityType
<1>4. Cardinality(Where(s, o)) = 0 <=> Where(s, o) = {}
  BY <1>2, FS_EmptySet
<1>5. Where(s, o) = {} <=> o \notin Range(s)
  BY DEF Where, Range
<1> QED BY <1>2, <1>3, <1>4, <1>5

LEMMA CountNone == \A o : Count(<<>>, o) = 0
<1> SUFFICES ASSUME NEW o PROVE Count(<<>>, o) = 0
  OBVIOUS
<1>1. {i \in DOMAIN <<>> : <<>>[i] = o} = {}
  OBVIOUS
<1> QED BY <1>1, FS_EmptySet DEF Count

LEMMA CountAppend ==
  ASSUME NEW S, NEW s \in Seq(S), NEW x \in S, NEW o
  PROVE  Count(Append(s, x), o) = Count(s, o) + Once(x = o)
<1> DEFINE n == Len(s) + 1
           t == Append(s, x)
<1>1. /\ t \in Seq(S) /\ DOMAIN t = DOMAIN s \cup {n} /\ n \notin DOMAIN s /\ t[n] = x
      /\ \A i \in DOMAIN s : t[i] = s[i]
  OBVIOUS
<1>2. IsFiniteSet(Where(s, o)) /\ Count(s, o) = Cardinality(Where(s, o)) /\ Count(s, o) \in Nat
  BY CountType
<1>3. Count(t, o) = Cardinality(Where(t, o))
  BY <1>1, CountType
<1> HIDE DEF t
<1>4. CASE x = o
  <2>1. Where(t, o) = Where(s, o) \cup {n} /\ n \notin Where(s, o)
    BY <1>1, <1>4 DEF Where
  <2>2. Cardinality(Where(t, o)) = Cardinality(Where(s, o)) + 1
    BY <2>1, <1>2, FS_AddElement
  <2> QED BY <1>2, <1>3, <1>4, <2>2 DEF Once, t
<1>5. CASE x # o
  <2>1. Where(t, o) = Where(s, o)
    BY <1>1, <1>5 DEF Where
  <2> QED BY <1>2, <1>3, <1>5, <2>1 DEF Once, t
<1> QED BY <1>4, <1>5

LEMMA CountOne ==
  ASSUME NEW S, NEW x \in S, NEW o
  PROVE  Count(<<x>>, o) = Once(x = o)
<1> DEFINE s == <<>>
<1>1. <<x>> = Append(s, x) /\ s \in Seq(S)
  OBVIOUS
<1>2. Count(<<x>>, o) = Count(s, o) + Once(x = o)
  <2> HIDE DEF s
  <2>1. Count(Append(s, x), o) = Count(s, o) + Once(x = o)
    BY <1>1, CountAppend
  <2> QED BY <1>1, <2>1
<1>3. Once(x = o) \in Nat
  BY DEF Once
<1> QED BY <1>2, <1>3, CountNone

LEMMA CountPut ==
  ASSUME NEW S, NEW s \in Seq(S), NEW i \in DOMAIN s, NEW x \in S,
         NEW t \in Seq(S), Len(t) = Len(s), t[i] = x,
         \A j \in DOMAIN s : j # i => t[j] = s[j], NEW o
  PROVE  Count(t, o) = Count(s, o) - Once(s[i] = o) + Once(x = o)
<1> DEFINE R == Where(s, o) \ {i}
<1>1. DOMAIN t = DOMAIN s
  OBVIOUS
<1>2. IsFiniteSet(Where(s, o)) /\ Count(s, o) = Cardinality(Where(s, o)) /\ Count(s, o) \in Nat
  BY CountType
<1>3. Count(t, o) = Cardinality(Where(t, o))
  BY CountType
<1>4. /\ IsFiniteSet(R)
      /\ Cardinality(R) = IF i \in Where(s, o) THEN Cardinality(Where(s, o)) - 1
                                               ELSE Cardinality(Where(s, o))
  BY <1>2, FS_RemoveElement
<1>5. i \in Where(s, o) <=> s[i] = o
  BY DEF Where
<1>6. Cardinality(R) = Count(s, o) - Once(s[i] = o)
  BY <1>2, <1>4, <1>5 DEF Once
<1>7. Cardinality(R) \in Nat
  BY <1>4, FS_CardinalityType
<1>8. Count(t, o) = Cardinality(R) + Once(x = o)
  <2>1. CASE x = o
    <3>1. Where(t, o) = R \cup {i} /\ i \notin R
      BY <1>1, <2>1 DEF Where
    <3>2. Cardinality(Where(t, o)) = Cardinality(R) + 1
      BY <3>1, <1>4, FS_AddElement
    <3> QED BY <1>3, <2>1, <3>2 DEF Once
  <2>2. CASE x # o
    <3>1. Where(t, o) = R
      BY <1>1, <2>2 DEF Where
    <3> QED BY <1>3, <1>7, <2>2, <3>1 DEF Once
  <2> QED BY <2>1, <2>2
<1> QED BY <1>6, <1>8

(* t is s in another order: q says where each element comes from. *)
Order(q, t, s) ==
  /\ DOMAIN q = DOMAIN s /\ DOMAIN t = DOMAIN s
  /\ \A i \in DOMAIN s : q[i] \in DOMAIN s /\ t[i] = s[q[i]]
  /\ \A i, j \in DOMAIN s : q[i] = q[j] => i = j
  /\ \A j \in DOMAIN s : \E i \in DOMAIN s : q[i] = j

LEMMA CountOrder ==
  ASSUME NEW S, NEW s \in Seq(S), NEW t \in Seq(S), NEW q, Order(q, t, s), NEW o
  PROVE  Count(t, o) = Count(s, o)
<1> DEFINE f == [i \in Where(t, o) |-> q[i]]
<1>1. IsFiniteSet(Where(t, o)) /\ Count(t, o) = Cardinality(Where(t, o))
      /\ Count(s, o) = Cardinality(Where(s, o))
  BY CountType
<1>2. f \in [Where(t, o) -> Where(s, o)]
  BY DEF Order, Where
<1>3. \A i, j \in Where(t, o) : f[i] = f[j] => i = j
  BY DEF Order, Where
<1>4. \A j \in Where(s, o) : \E i \in Where(t, o) : f[i] = j
  BY DEF Order, Where
<1>5. f \in Bijection(Where(t, o), Where(s, o))
  <2> HIDE DEF f
  <2> QED BY <1>2, <1>3, <1>4, Fun_IsBij
<1> QED BY <1>1, <1>5, FS_Bijection DEF ExistsBijection

LEMMA AtConcat ==
  ASSUME NEW S, NEW a \in Seq(S), NEW b \in Seq(S), NEW j \in 1..(Len(a) + Len(b))
  PROVE  (a \o b)[j] = IF j <= Len(a) THEN a[j] ELSE b[j - Len(a)]
OBVIOUS

LEMMA CountRemove ==
  ASSUME NEW S, NEW s \in Seq(S), NEW i \in DOMAIN s, NEW o
  PROVE  /\ RemoveAt(s, i) \in Seq(S) /\ Len(RemoveAt(s, i)) = Len(s) - 1
         /\ Range(RemoveAt(s, i)) \subseteq Range(s)
         /\ Count(RemoveAt(s, i), o) = Count(s, o) - Once(s[i] = o)
<1> DEFINE t == RemoveAt(s, i)
           n == Len(s)
           R == Where(s, o) \ {i}
           from(j) == IF j < i THEN j ELSE j + 1
           f == [j \in Where(t, o) |-> from(j)]
<1>1. i \in 1..n /\ n \in Nat /\ n # 0 /\ DOMAIN s = 1..n
  OBVIOUS
<1>2. t \in Seq(S) /\ Len(t) = n - 1 /\ DOMAIN t = 1..(n - 1)
  BY <1>1 DEF RemoveAt
<1>3. \A j \in 1..(n - 1) : t[j] = s[from(j)]
  <2>1. Len(SubSeq(s, 1, i - 1)) = i - 1 /\ Len(SubSeq(s, i + 1, n)) = n - i
        /\ SubSeq(s, 1, i - 1) \in Seq(S) /\ SubSeq(s, i + 1, n) \in Seq(S)
    BY <1>1
  <2>2. \A j \in 1..(i - 1) : SubSeq(s, 1, i - 1)[j] = s[j]
    BY <1>1
  <2>3. \A j \in 1..(n - i) : SubSeq(s, i + 1, n)[j] = s[i + j]
    BY <1>1
  <2> SUFFICES ASSUME NEW j \in 1..(n - 1) PROVE t[j] = s[from(j)]
    OBVIOUS
  <2> DEFINE a == SubSeq(s, 1, i - 1)
             b == SubSeq(s, i + 1, n)
  <2>a. t = a \o b
    BY DEF RemoveAt
  <2>b. a \in Seq(S) /\ b \in Seq(S) /\ Len(a) = i - 1 /\ Len(b) = n - i
    BY <2>1
  <2>c. j \in 1..(Len(a) + Len(b))
    BY <1>1, <2>b
  <2>d. (a \o b)[j] = IF j <= Len(a) THEN a[j] ELSE b[j - Len(a)]
    <3> HIDE DEF a, b, n
    <3> QED BY <2>b, <2>c, AtConcat
  <2>4. CASE j < i
    <3>1. t[j] = a[j]
      <4> HIDE DEF a, b, t
      <4> QED BY <1>1, <2>a, <2>b, <2>d, <2>4
    <3> QED BY <1>1, <2>2, <2>4, <3>1
  <2>5. CASE ~(j < i)
    <3>1. j - (i - 1) \in 1..(n - i) /\ i + (j - (i - 1)) = j + 1
      BY <1>1, <2>5
    <3>2. t[j] = b[j - (i - 1)]
      <4> HIDE DEF a, b, t
      <4> QED BY <1>1, <2>a, <2>b, <2>d, <2>5
    <3> QED BY <1>1, <2>3, <2>5, <3>1, <3>2
  <2> QED BY <2>4, <2>5
<1> HIDE DEF t
<1>4. \A j \in 1..(n - 1) : from(j) \in 1..n /\ from(j) # i
  BY <1>1
<1>5. \A j, k \in 1..(n - 1) : from(j) = from(k) => j = k
  BY <1>1
<1>6. \A k \in 1..n : k # i => \E j \in 1..(n - 1) : from(j) = k
  <2> SUFFICES ASSUME NEW k \in 1..n, k # i PROVE \E j \in 1..(n - 1) : from(j) = k
    OBVIOUS
  <2>1. CASE k < i
    <3>1. k \in 1..(n - 1) /\ from(k) = k
      BY <1>1, <2>1
    <3> QED BY <3>1
  <2>2. CASE ~(k < i)
    <3>1. k - 1 \in 1..(n - 1) /\ from(k - 1) = k
      BY <1>1, <2>2
    <3> QED BY <3>1
  <2> QED BY <2>1, <2>2
<1> HIDE DEF from
<1>7. f \in [Where(t, o) -> R]
  BY <1>1, <1>2, <1>3, <1>4 DEF Where
<1>8. \A j, k \in Where(t, o) : f[j] = f[k] => j = k
  BY <1>2, <1>5 DEF Where
<1>9. \A k \in R : \E j \in Where(t, o) : f[j] = k
  <2> SUFFICES ASSUME NEW k \in R PROVE \E j \in Where(t, o) : f[j] = k
    OBVIOUS
  <2>1. k \in 1..n /\ k # i /\ s[k] = o
    BY <1>1 DEF Where
  <2>2. PICK j \in 1..(n - 1) : from(j) = k
    BY <1>6, <2>1
  <2>3. j \in Where(t, o)
    BY <1>2, <1>3, <2>1, <2>2 DEF Where
  <2> QED BY <2>2, <2>3
<1>10. f \in Bijection(Where(t, o), R)
  <2> HIDE DEF f
  <2> QED BY <1>7, <1>8, <1>9, Fun_IsBij
<1>11. IsFiniteSet(Where(t, o)) /\ Count(t, o) = Cardinality(Where(t, o))
  BY <1>2, CountType
<1>12. IsFiniteSet(Where(s, o)) /\ Count(s, o) = Cardinality(Where(s, o)) /\ Count(s, o) \in Nat
  BY CountType
<1>13. Cardinality(R) = Cardinality(Where(t, o))
  BY <1>10, <1>11, FS_Bijection DEF ExistsBijection
<1>14. Cardinality(R) = IF i \in Where(s, o) THEN Cardinality(Where(s, o)) - 1
                                             ELSE Cardinality(Where(s, o))
  BY <1>12, FS_RemoveElement
<1>15. i \in Where(s, o) <=> s[i] = o
  BY DEF Where
<1>16. Count(t, o) = Count(s, o) - Once(s[i] = o)
  BY <1>11, <1>12, <1>13, <1>14, <1>15 DEF Once
<1>17. Range(t) \subseteq Range(s)
  BY <1>1, <1>2, <1>3, <1>4 DEF Range
<1> QED BY <1>2, <1>16, <1>17 DEF t

(* The storage of vectors. *)
Storage == [data : Seq(Obj), cap : Nat]

At(F, V, o) ==
  {p \in V \X (1..MaxSize) : p[2] \in DOMAIN F[p[1]].data /\ F[p[1]].data[p[2]] = o}

Short(F) == F \in [Vectors -> Storage] /\ \A v \in Vectors : Len(F[v].data) <= MaxSize

Sum(F, V, o) == Cardinality(At(F, V, o))

LEMMA SumType ==
  ASSUME NEW F, NEW V \in SUBSET Vectors, NEW o
  PROVE  IsFiniteSet(At(F, V, o)) /\ Sum(F, V, o) \in Nat
<1>1. IsFiniteSet(V) /\ IsFiniteSet(1..MaxSize)
  BY DataAssumption, FS_Subset, FS_Interval
<1>2. IsFiniteSet(V \X (1..MaxSize))
  BY <1>1, FS_Product
<1>3. At(F, V, o) \in SUBSET (V \X (1..MaxSize))
  BY DEF At
<1>4. IsFiniteSet(At(F, V, o))
  BY <1>2, <1>3, FS_Subset
<1> QED BY <1>4, FS_CardinalityType DEF Sum

LEMMA SumSplit ==
  ASSUME NEW F, NEW V \in SUBSET Vectors, NEW D \in SUBSET V, NEW o
  PROVE  Sum(F, V, o) = Sum(F, D, o) + Sum(F, V \ D, o)
<1>1. D \in SUBSET Vectors /\ V \ D \in SUBSET Vectors
  OBVIOUS
<1>2. IsFiniteSet(At(F, D, o)) /\ IsFiniteSet(At(F, V \ D, o))
      /\ Sum(F, D, o) \in Nat /\ Sum(F, V \ D, o) \in Nat
  BY <1>1, SumType
<1>3. At(F, V, o) = At(F, D, o) \cup At(F, V \ D, o)
  BY DEF At
<1>4. At(F, D, o) \cap At(F, V \ D, o) = {}
  BY DEF At
<1>5. Cardinality({}) = 0
  BY FS_EmptySet
<1> DEFINE A == At(F, D, o)
           B == At(F, V \ D, o)
<1>6. Cardinality(A \cup B) = Cardinality(A) + Cardinality(B) - Cardinality(A \cap B)
  <2> HIDE DEF A, B
  <2>1. IsFiniteSet(A) /\ IsFiniteSet(B)
    BY <1>2 DEF A, B
  <2> QED BY <2>1, FS_Union
<1>7. Sum(F, V, o) = Sum(F, D, o) + Sum(F, V \ D, o) - 0
  BY <1>3, <1>4, <1>5, <1>6 DEF Sum
<1> QED BY <1>2, <1>7

LEMMA SumSame ==
  ASSUME NEW F, NEW G, NEW V \in SUBSET Vectors, \A v \in V : F[v] = G[v], NEW o
  PROVE  Sum(F, V, o) = Sum(G, V, o)
<1>1. At(F, V, o) = At(G, V, o)
  BY DEF At
<1> QED BY <1>1 DEF Sum

LEMMA SumOne ==
  ASSUME NEW F, Short(F), NEW v \in Vectors, NEW o
  PROVE  Sum(F, {v}, o) = Count(F[v].data, o)
<1> DEFINE s == F[v].data
           f == [i \in Where(s, o) |-> <<v, i>>]
<1>1. s \in Seq(Obj) /\ Len(s) <= MaxSize
  BY DEF Short, Storage
<1>2. DOMAIN s = 1..Len(s) /\ Len(s) \in Nat /\ MaxSize \in Nat
  BY <1>1, DataAssumption
<1>3. IsFiniteSet(Where(s, o)) /\ Count(s, o) = Cardinality(Where(s, o))
  BY <1>1, CountType
<1>4. f \in [Where(s, o) -> At(F, {v}, o)]
  BY <1>1, <1>2 DEF Where, At
<1>5. \A i, j \in Where(s, o) : f[i] = f[j] => i = j
  OBVIOUS
<1>6. \A p \in At(F, {v}, o) : \E i \in Where(s, o) : f[i] = p
  <2> SUFFICES ASSUME NEW p \in At(F, {v}, o) PROVE \E i \in Where(s, o) : f[i] = p
    OBVIOUS
  <2>1. p = <<v, p[2]>> /\ p[2] \in Where(s, o)
    BY DEF At, Where
  <2> QED BY <2>1
<1>7. f \in Bijection(Where(s, o), At(F, {v}, o))
  <2> HIDE DEF f
  <2> QED BY <1>4, <1>5, <1>6, Fun_IsBij
<1>8. Cardinality(At(F, {v}, o)) = Cardinality(Where(s, o))
  BY <1>3, <1>7, FS_Bijection DEF ExistsBijection
<1> QED BY <1>3, <1>8 DEF Sum

(* One vector gets another storage. *)
LEMMA SumPut ==
  ASSUME NEW F, Short(F), NEW v \in Vectors,
         NEW G, Short(G), \A w \in Vectors : w # v => G[w] = F[w],
         NEW V \in SUBSET Vectors, v \in V, NEW o
  PROVE  Sum(G, V, o) = Sum(F, V, o) - Count(F[v].data, o) + Count(G[v].data, o)
<1>1. \A w \in V \ {v} : F[w] = G[w]
  OBVIOUS
<1>2. {v} \in SUBSET V /\ V \ {v} \in SUBSET Vectors /\ {v} \in SUBSET Vectors
  OBVIOUS
<1>3. Sum(F, V, o) = Sum(F, {v}, o) + Sum(F, V \ {v}, o)
  BY <1>2, SumSplit
<1>4. Sum(G, V, o) = Sum(G, {v}, o) + Sum(G, V \ {v}, o)
  BY <1>2, SumSplit
<1>5. Sum(F, V \ {v}, o) = Sum(G, V \ {v}, o)
  BY <1>1, <1>2, SumSame
<1>6. Sum(F, {v}, o) = Count(F[v].data, o) /\ Sum(G, {v}, o) = Count(G[v].data, o)
  BY SumOne
<1>7. Sum(F, {v}, o) \in Nat /\ Sum(G, {v}, o) \in Nat /\ Sum(F, V \ {v}, o) \in Nat
  BY <1>2, SumType
<1> QED BY <1>3, <1>4, <1>5, <1>6, <1>7

(* A number is in a vector exactly when it is counted there. *)
LEMMA SumPositive ==
  ASSUME NEW F, Short(F), NEW V \in SUBSET Vectors, NEW o, Sum(F, V, o) = 0
  PROVE  \A v \in V : o \notin Range(F[v].data)
<1>1. IsFiniteSet(At(F, V, o)) /\ (Cardinality(At(F, V, o)) = 0 <=> At(F, V, o) = {})
  BY SumType, FS_EmptySet
<1>2. At(F, V, o) = {}
  BY <1>1 DEF Sum
<1> SUFFICES ASSUME NEW v \in V, NEW i \in DOMAIN F[v].data, F[v].data[i] = o PROVE FALSE
  BY DEF Range
<1>3. F[v].data \in Seq(Obj) /\ Len(F[v].data) <= MaxSize
  BY DEF Short, Storage
<1>4. i \in 1..MaxSize
  BY <1>3, DataAssumption
<1>5. <<v, i>> \in At(F, V, o)
  BY <1>4 DEF At
<1> QED BY <1>2, <1>5

-----------------------------------------------------------------------------
(* The loops: push_back of one element after the other, the one of the        *)
(* partition, and Add2End of one element after the other.  Each is a          *)
(* FoldLeft; what its turns make, one after the other, is a function h.       *)

\* The turn of the partition around x for the place j.
Sift(x, asc, a, j) ==
  IF Stays(a.s[j], x, asc) THEN a ELSE [s |-> Swap(a.s, a.i, j), i |-> a.i + 1]

\* One turn of a loop, in a context c.
Step(loop, c, a, j) ==
  IF loop = "push_back" THEN Pushed(a, j)
  ELSE IF loop = "partition" THEN Sift(c.x, c.asc, a, j)
  ELSE Add2End(a, c.l, j)

\* What FoldLeft makes of the places S of s, from what it makes of fewer.
Taken(loop, c, base, s, it, S) ==
  IF S = {} THEN base ELSE Step(loop, c, it[S \ {Max(S)}], s[Max(S)])

\* it is the function of sets of places that FoldLeft is defined with.
Folded(loop, c, base, s, n, it) == it = [S \in SUBSET (1..n) |-> Taken(loop, c, base, s, it, S)]

\* h is what the loop over s has made after each number of turns.
Loop(loop, c, base, s, h) ==
  h[0] = base /\ \A k \in 1..Len(s) : h[k] = Step(loop, c, h[k - 1], s[k])

LEMMA MaxOfPrefix ==
  ASSUME NEW n \in Nat, NEW S \in SUBSET (1..(n + 1)), n + 1 \in S
  PROVE  Max(S) = n + 1 /\ S \ {Max(S)} \in SUBSET (1..n)
<1>1. n + 1 \in S /\ \A y \in S : n + 1 >= y
  OBVIOUS
<1>2. \A x \in S : (\A y \in S : x >= y) => x = n + 1
  OBVIOUS
<1>3. Max(S) = n + 1
  BY <1>1, <1>2 DEF Max
<1> QED BY <1>3

(* Induction, for a set of numbers. *)
LEMMA Induction ==
  ASSUME NEW K, 0 \in K, \A n \in Nat : n \in K => n + 1 \in K
  PROVE  \A n \in Nat : n \in K
<1> DEFINE T == Nat \ K
<1> SUFFICES ASSUME T # {} PROVE FALSE
  OBVIOUS
<1>1. PICK x \in T : \A y \in T : ~ (<<y, x>> \in OpToRel(<, Nat))
  BY WFMin, NatLessThanWellFounded
<1>2. x \in Nat /\ x # 0 /\ x - 1 \in Nat
  OBVIOUS
<1>3. x - 1 \in T
  BY <1>2
<1>4. <<x - 1, x>> \in OpToRel(<, Nat)
  BY <1>2 DEF OpToRel
<1> QED BY <1>1, <1>3, <1>4

LEMMA FoldExists ==
  ASSUME NEW loop, NEW c, NEW base, NEW s
  PROVE  \A n \in Nat : \E it : Folded(loop, c, base, s, n, it)
<1> DEFINE Good(n, it) == Folded(loop, c, base, s, n, it)
           K == {n \in Nat : \E it : Good(n, it)}
<1>1. 0 \in K
  <2> DEFINE it == [S \in SUBSET (1..0) |-> base]
  <2>1. \A S \in SUBSET (1..0) : S = {}
    OBVIOUS
  <2>2. \A S \in SUBSET (1..0) : Taken(loop, c, base, s, it, S) = base
    BY <2>1 DEF Taken
  <2>3. Good(0, it)
    BY <2>2 DEF Folded
  <2> QED BY <2>3
<1>2. ASSUME NEW n \in Nat, n \in K PROVE n + 1 \in K
  <2>1. PICK old : Good(n, old)
    BY <1>2
  <2> DEFINE more(S) == IF n + 1 \in S THEN Step(loop, c, old[S \ {n + 1}], s[n + 1]) ELSE old[S]
             it == [S \in SUBSET (1..(n + 1)) |-> more(S)]
  <2>2. \A S \in SUBSET (1..n) : S \in SUBSET (1..(n + 1)) /\ n + 1 \notin S
    OBVIOUS
  <2>a. \A S \in SUBSET (1..n) : old[S] = Taken(loop, c, base, s, old, S)
    BY <2>1 DEF Folded
  <2>3. \A S \in SUBSET (1..n) : it[S] = old[S]
    BY <2>2
  <2>4. ASSUME NEW S \in SUBSET (1..(n + 1)) PROVE it[S] = Taken(loop, c, base, s, it, S)
    <3>1. CASE n + 1 \in S
      <4>1. Max(S) = n + 1 /\ S \ {n + 1} \in SUBSET (1..n)
        BY <3>1, MaxOfPrefix
      <4>2. it[S \ {n + 1}] = old[S \ {n + 1}]
        BY <4>1, <2>3
      <4>3. it[S] = Step(loop, c, old[S \ {n + 1}], s[n + 1])
        BY <3>1
      <4> HIDE DEF it
      <4> QED BY <3>1, <4>1, <4>2, <4>3 DEF Taken
    <3>2. CASE n + 1 \notin S
      <4>0. \A x \in 1..(n + 1) : x = n + 1 \/ x \in 1..n
        OBVIOUS
      <4>1. S \in SUBSET (1..n) /\ S \ {Max(S)} \in SUBSET (1..n)
        BY <3>2, <4>0
      <4>2. it[S] = old[S] /\ it[S \ {Max(S)}] = old[S \ {Max(S)}]
        BY <4>1, <2>3
      <4>3. old[S] = Taken(loop, c, base, s, old, S)
        BY <4>1, <2>a
      <4> HIDE DEF it
      <4> QED BY <4>2, <4>3 DEF Taken
    <3> QED BY <3>1, <3>2
  <2>5. Good(n + 1, it)
    <3>1. it = [S \in SUBSET (1..(n + 1)) |-> it[S]]
      OBVIOUS
    <3> HIDE DEF it
    <3> QED BY <3>1, <2>4 DEF Folded
  <2> HIDE DEF Good, it
  <2> QED BY <2>5
<1>3. \A n \in Nat : n \in K
  <2> HIDE DEF K
  <2> QED BY <1>1, <1>2, Induction
<1> QED BY <1>3

(* The function FoldLeft chooses, at the prefixes of s, is what the turns make. *)
LEMMA FoldIsLoop ==
  ASSUME NEW loop, NEW c, NEW base, NEW s, Len(s) \in Nat,
         NEW it, Folded(loop, c, base, s, Len(s), it)
  PROVE  \E h : Loop(loop, c, base, s, h) /\ it[1..Len(s)] = h[Len(s)]
<1> DEFINE h == [k \in 0..Len(s) |-> it[1..k]]
<1>1. \A S \in SUBSET (1..Len(s)) : it[S] = Taken(loop, c, base, s, it, S)
  BY DEF Folded
<1>2. h[0] = base
  <2>1. 1..0 = {} /\ {} \in SUBSET (1..Len(s)) /\ 0 \in 0..Len(s)
    OBVIOUS
  <2>2. it[{}] = base
    BY <1>1, <2>1 DEF Taken
  <2> QED BY <2>1, <2>2
<1>3. ASSUME NEW k \in 1..Len(s) PROVE h[k] = Step(loop, c, h[k - 1], s[k])
  <2>a. k \in Nat /\ 1 <= k /\ k <= Len(s)
    OBVIOUS
  <2>b. 1..k \in SUBSET (1..Len(s)) /\ k \in 1..k /\ 1..k # {}
    BY <2>a
  <2>c. k \in 0..Len(s) /\ k - 1 \in 0..Len(s) /\ k - 1 \in Nat /\ (k - 1) + 1 = k
    BY <2>a
  <2>d. (1..k) \ {k} = 1..(k - 1)
    BY <2>a
  <2>1. /\ 1..k \in SUBSET (1..Len(s)) /\ k \in 1..k /\ k \in 0..Len(s) /\ k - 1 \in 0..Len(s)
        /\ (1..k) \ {k} = 1..(k - 1) /\ 1..k # {} /\ k - 1 \in Nat /\ (k - 1) + 1 = k
    BY <2>b, <2>c, <2>d
  <2>2. Max(1..k) = k
    <3> DEFINE m == k - 1
    <3>1. m \in Nat /\ m + 1 = k
      BY <2>1
    <3> HIDE DEF m
    <3>2. 1..(m + 1) \in SUBSET (1..(m + 1)) /\ m + 1 \in 1..(m + 1)
      BY <3>1
    <3>3. Max(1..(m + 1)) = m + 1
      BY <3>1, <3>2, MaxOfPrefix
    <3> QED BY <3>1, <3>3
  <2>3. it[1..k] = Step(loop, c, it[1..(k - 1)], s[k])
    BY <1>1, <2>1, <2>2 DEF Taken
  <2> QED BY <2>1, <2>3
<1>4. it[1..Len(s)] = h[Len(s)]
  OBVIOUS
<1> HIDE DEF h
<1>5. Loop(loop, c, base, s, h)
  BY <1>2, <1>3 DEF Loop
<1> QED BY <1>4, <1>5

LEMMA PushLoop ==
  ASSUME NEW base, NEW s, Len(s) \in Nat, DOMAIN s = 1..Len(s)
  PROVE  \E h : Loop("push_back", 0, base, s, h) /\ FoldLeft(Pushed, base, s) = h[Len(s)]
<1> DEFINE loop == "push_back"
           c == 0
<1> DEFINE Folds(it) == it = [S \in SUBSET DOMAIN s |->
                                IF S = {} THEN base ELSE Pushed(it[S \ {Max(S)}], s[Max(S)])]
           rec == CHOOSE it : Folds(it)
<1>1. FoldLeft(Pushed, base, s) = rec[DOMAIN s]
  BY DEF FoldLeft, MapThenFoldSet
<1>2. ASSUME NEW it
      PROVE  Folds(it) <=> Folded(loop, c, base, s, Len(s), it)
  <2>1. \A S : Taken(loop, c, base, s, it, S)
                = IF S = {} THEN base ELSE Pushed(it[S \ {Max(S)}], s[Max(S)])
    BY DEF Taken, Step
  <2> QED BY <2>1 DEF Folded
<1> HIDE DEF loop, c
<1>3. \E it : Folds(it)
  <2>1. \A n \in Nat : \E it : Folded(loop, c, base, s, n, it)
    BY FoldExists
  <2>2. PICK it : Folded(loop, c, base, s, Len(s), it)
    BY <2>1
  <2> HIDE DEF Folds
  <2> QED BY <1>2, <2>2
<1>4. Folds(rec)
  <2> HIDE DEF Folds
  <2> QED BY <1>3
<1> HIDE DEF Folds, rec
<1>5. Folded(loop, c, base, s, Len(s), rec)
  BY <1>2, <1>4
<1>6. \E h : Loop(loop, c, base, s, h) /\ rec[1..Len(s)] = h[Len(s)]
  BY <1>5, FoldIsLoop
<1> QED BY <1>1, <1>6 DEF loop, c

Sifting(x, asc, base, s) == FoldLeft(LAMBDA a, j : Sift(x, asc, a, j), base, s)

LEMMA SiftLoop ==
  ASSUME NEW base, NEW s, Len(s) \in Nat, DOMAIN s = 1..Len(s), NEW x, NEW asc
  PROVE  \E h : /\ Loop("partition", [x |-> x, asc |-> asc], base, s, h)
              /\ Sifting(x, asc, base, s) = h[Len(s)]
<1> DEFINE loop == "partition"
           c == [x |-> x, asc |-> asc]
<1> DEFINE Folds(it) == it = [S \in SUBSET DOMAIN s |->
                                IF S = {} THEN base ELSE Sift(x, asc, it[S \ {Max(S)}], s[Max(S)])]
           rec == CHOOSE it : Folds(it)
<1>1. Sifting(x, asc, base, s) = rec[DOMAIN s]
  BY DEF Sifting, FoldLeft, MapThenFoldSet
<1>2. ASSUME NEW it
      PROVE  Folds(it) <=> Folded(loop, c, base, s, Len(s), it)
  <2>1. \A S : Taken(loop, c, base, s, it, S)
                = IF S = {} THEN base ELSE Sift(x, asc, it[S \ {Max(S)}], s[Max(S)])
    BY DEF Taken, Step
  <2> QED BY <2>1 DEF Folded
<1> HIDE DEF loop, c
<1>3. \E it : Folds(it)
  <2>1. \A n \in Nat : \E it : Folded(loop, c, base, s, n, it)
    BY FoldExists
  <2>2. PICK it : Folded(loop, c, base, s, Len(s), it)
    BY <2>1
  <2> HIDE DEF Folds
  <2> QED BY <1>2, <2>2
<1>4. Folds(rec)
  <2> HIDE DEF Folds
  <2> QED BY <1>3
<1> HIDE DEF Folds, rec
<1>5. Folded(loop, c, base, s, Len(s), rec)
  BY <1>2, <1>4
<1>6. \E h : Loop(loop, c, base, s, h) /\ rec[1..Len(s)] = h[Len(s)]
  BY <1>5, FoldIsLoop
<1> QED BY <1>1, <1>6 DEF loop, c

LEMMA PushedIs ==
  ASSUME NEW b \in Storage, Len(b.data) <= b.cap, NEW x \in Obj
  PROVE  /\ Pushed(b, x) \in Storage /\ Pushed(b, x).data = Append(b.data, x)
         /\ Len(Pushed(b, x).data) <= Pushed(b, x).cap /\ Len(Pushed(b, x).data) = Len(b.data) + 1
<1>1. b.data \in Seq(Obj) /\ b.cap \in Nat
  BY DEF Storage
<1>2. Append(b.data, x) \in Seq(Obj) /\ Len(Append(b.data, x)) = Len(b.data) + 1 /\ Len(b.data) \in Nat
  BY <1>1
<1>3. CASE Len(b.data) = b.cap
  <2>1. Grown(b.cap) \in Nat /\ Grown(b.cap) >= b.cap + 1
    BY <1>1 DEF Grown
  <2>2. Pushed(b, x) = [data |-> Append(b.data, x), cap |-> Grown(b.cap)]
    BY <1>3 DEF Pushed
  <2> QED BY <1>1, <1>2, <1>3, <2>1, <2>2 DEF Storage
<1>4. CASE Len(b.data) # b.cap
  <2>2. Pushed(b, x) = [data |-> Append(b.data, x), cap |-> b.cap]
    BY <1>4 DEF Pushed
  <2> QED BY <1>1, <1>2, <1>4, <2>2 DEF Storage
<1> QED BY <1>3, <1>4

LEMMA FilledIs ==
  ASSUME NEW s \in Seq(Obj)
  PROVE  Filled(s) \in Storage /\ Filled(s).data = s /\ Len(s) <= Filled(s).cap
<1>1. Len(s) \in Nat /\ DOMAIN s = 1..Len(s)
  OBVIOUS
<1>2. PICK h : Loop("push_back", 0, Empty, s, h) /\ FoldLeft(Pushed, Empty, s) = h[Len(s)]
  BY <1>1, PushLoop
<1>3. h[0] = Empty /\ \A k \in 1..Len(s) : h[k] = Pushed(h[k - 1], s[k])
  BY <1>2 DEF Loop, Step
<1> DEFINE Good(k) == /\ h[k] \in Storage /\ Len(h[k].data) = k /\ k <= h[k].cap
                      /\ \A i \in 1..k : h[k].data[i] = s[i]
           K == {k \in Nat : k <= Len(s) => Good(k)}
<1>4. 0 \in K
  <2>1. Empty \in Storage /\ Len(Empty.data) = 0 /\ 0 <= Empty.cap
    BY DEF Empty, Storage
  <2> QED BY <1>3, <2>1
<1>5. ASSUME NEW k \in Nat, k \in K PROVE k + 1 \in K
  <2> SUFFICES ASSUME k + 1 <= Len(s) PROVE Good(k + 1)
    OBVIOUS
  <2>1. Good(k)
    BY <1>1, <1>5
  <2>2. k + 1 \in 1..Len(s) /\ (k + 1) - 1 = k /\ s[k + 1] \in Obj
    BY <1>1
  <2>3. h[k + 1] = Pushed(h[k], s[k + 1])
    BY <1>3, <2>2
  <2> DEFINE b == h[k]
             e == s[k + 1]
  <2>4. b \in Storage /\ Len(b.data) <= b.cap /\ Len(b.data) = k
    BY <2>1
  <2>5. /\ Pushed(b, e) \in Storage /\ Pushed(b, e).data = Append(b.data, e)
        /\ Len(Pushed(b, e).data) <= Pushed(b, e).cap /\ Len(Pushed(b, e).data) = Len(b.data) + 1
    <3> HIDE DEF b, e
    <3>1. e \in Obj
      BY <2>2 DEF e
    <3> QED BY <2>4, <3>1, PushedIs
  <2>6. b.data \in Seq(Obj)
    BY <2>4 DEF Storage
  <2>7. \A i \in 1..(k + 1) : Append(b.data, e)[i] = IF i = k + 1 THEN e ELSE b.data[i]
    BY <2>4, <2>6
  <2>8. \A i \in 1..(k + 1) : i # k + 1 => i \in 1..k
    OBVIOUS
  <2>9. \A i \in 1..(k + 1) : Append(b.data, e)[i] = s[i]
    BY <2>1, <2>7, <2>8
  <2> QED BY <2>3, <2>4, <2>5, <2>9
<1>6. \A k \in Nat : k \in K
  <2> HIDE DEF K
  <2> QED BY <1>4, <1>5, Induction
<1>7. Good(Len(s))
  BY <1>1, <1>6
<1>8. Filled(s) = h[Len(s)]
  BY <1>2 DEF Filled
<1>9. h[Len(s)].data = s
  <2>1. h[Len(s)].data \in Seq(Obj)
    BY <1>7 DEF Storage
  <2> QED BY <1>7, <2>1
<1> QED BY <1>7, <1>8, <1>9

\* What a call outputs is pushed onto the result, or nothing is.
LEMMA PushOne ==
  ASSUME NEW b, NEW x
  PROVE  FoldLeft(Pushed, b, <<x>>) = Pushed(b, x) /\ FoldLeft(Pushed, b, <<>>) = b
<1> DEFINE one == <<x>>
           none == <<>>
<1>1. Len(one) = 1 /\ DOMAIN one = 1..1 /\ one[1] = x /\ Len(none) = 0 /\ DOMAIN none = 1..0
      /\ DOMAIN one = 1..Len(one) /\ DOMAIN none = 1..Len(none)
      /\ Len(one) \in Nat /\ Len(none) \in Nat
  OBVIOUS
<1> HIDE DEF one, none
<1>2. PICK h : Loop("push_back", 0, b, one, h) /\ FoldLeft(Pushed, b, one) = h[Len(one)]
  BY <1>1, PushLoop
<1>3. PICK g : Loop("push_back", 0, b, none, g) /\ FoldLeft(Pushed, b, none) = g[Len(none)]
  BY <1>1, PushLoop
<1>4. h[0] = b /\ h[1] = Pushed(h[1 - 1], one[1]) /\ g[0] = b
  BY <1>1, <1>2, <1>3 DEF Loop, Step
<1>5. h[1] = Pushed(b, x)
  BY <1>1, <1>4
<1> QED BY <1>1, <1>2, <1>3, <1>4, <1>5 DEF one, none

-----------------------------------------------------------------------------
(* The sort.                                                                  *)

\* t is s but for the places f..u, where the same elements are in another order.
Mixed(t, s, f, u) ==
  \E q : /\ Order(q, t, s)
         /\ \A i \in DOMAIN s : IF i \in f..u THEN q[i] \in f..u ELSE q[i] = i

LEMMA MixedSelf ==
  ASSUME NEW s, NEW f, NEW u
  PROVE  Mixed(s, s, f, u)
<1> DEFINE q == [i \in DOMAIN s |-> i]
<1>1. DOMAIN q = DOMAIN s /\ \A i \in DOMAIN s : q[i] = i
  OBVIOUS
<1> HIDE DEF q
<1>2. Order(q, s, s)
  BY <1>1 DEF Order
<1> QED BY <1>1, <1>2 DEF Mixed

LEMMA MixedAgain ==
  ASSUME NEW s, NEW t, NEW v, NEW f, NEW u, Mixed(t, s, f, u), Mixed(v, t, f, u)
  PROVE  Mixed(v, s, f, u)
<1>1. PICK a : Order(a, t, s) /\ \A i \in DOMAIN s : IF i \in f..u THEN a[i] \in f..u ELSE a[i] = i
  BY DEF Mixed
<1>2. PICK b : Order(b, v, t) /\ \A i \in DOMAIN t : IF i \in f..u THEN b[i] \in f..u ELSE b[i] = i
  BY DEF Mixed
<1> DEFINE q == [i \in DOMAIN s |-> a[b[i]]]
<1>3. DOMAIN q = DOMAIN s /\ \A i \in DOMAIN s : q[i] = a[b[i]]
  OBVIOUS
<1> HIDE DEF q
<1>4. DOMAIN t = DOMAIN s /\ \A i \in DOMAIN s : a[i] \in DOMAIN s /\ b[i] \in DOMAIN s
  BY <1>1, <1>2 DEF Order
<1>5. Order(q, v, s)
  <2>1. \A i \in DOMAIN s : q[i] \in DOMAIN s /\ v[i] = s[q[i]]
    BY <1>1, <1>2, <1>3, <1>4 DEF Order
  <2>2. \A i, j \in DOMAIN s : q[i] = q[j] => i = j
    BY <1>1, <1>2, <1>3, <1>4 DEF Order
  <2>3. ASSUME NEW j \in DOMAIN s PROVE \E i \in DOMAIN s : q[i] = j
    <3>1. PICK k \in DOMAIN s : a[k] = j
      BY <1>1 DEF Order
    <3>2. PICK i \in DOMAIN s : b[i] = k
      BY <1>2, <1>4 DEF Order
    <3> QED BY <1>3, <3>1, <3>2
  <2>4. DOMAIN v = DOMAIN s
    BY <1>2, <1>4 DEF Order
  <2> QED BY <1>3, <2>1, <2>2, <2>3, <2>4 DEF Order
<1>6. \A i \in DOMAIN s : IF i \in f..u THEN q[i] \in f..u ELSE q[i] = i
  BY <1>1, <1>2, <1>3, <1>4
<1> QED BY <1>5, <1>6 DEF Mixed

LEMMA MixedWider ==
  ASSUME NEW s, NEW t, NEW f \in Int, NEW u \in Int, NEW a \in Int, NEW b \in Int,
         f <= a, b <= u, Mixed(t, s, a, b)
  PROVE  Mixed(t, s, f, u)
<1>1. PICK q : Order(q, t, s) /\ \A i \in DOMAIN s : IF i \in a..b THEN q[i] \in a..b ELSE q[i] = i
  BY DEF Mixed
<1>2. \A i \in a..b : i \in f..u
  OBVIOUS
<1>3. \A i \in DOMAIN s : IF i \in f..u THEN q[i] \in f..u ELSE q[i] = i
  BY <1>1, <1>2
<1> QED BY <1>1, <1>3 DEF Mixed

LEMMA SwapIs ==
  ASSUME NEW n \in Nat, NEW s \in [1..n -> Obj], NEW i \in 1..n, NEW j \in 1..n
  PROVE  /\ Swap(s, i, j) \in [1..n -> Obj]
         /\ \A k \in 1..n : Swap(s, i, j)[k] = IF k = j THEN s[i] ELSE IF k = i THEN s[j] ELSE s[k]
BY DEF Swap

LEMMA SwapMixed ==
  ASSUME NEW n \in Nat, NEW s \in [1..n -> Obj], NEW f, NEW u,
         NEW i \in 1..n, NEW j \in 1..n, i \in f..u, j \in f..u
  PROVE  Mixed(Swap(s, i, j), s, f, u)
<1> DEFINE q == [k \in 1..n |-> IF k = j THEN i ELSE IF k = i THEN j ELSE k]
           t == Swap(s, i, j)
<1>1. /\ t \in [1..n -> Obj]
      /\ \A k \in 1..n : t[k] = IF k = j THEN s[i] ELSE IF k = i THEN s[j] ELSE s[k]
  BY SwapIs
<1>2. DOMAIN q = 1..n /\ \A k \in 1..n : q[k] = IF k = j THEN i ELSE IF k = i THEN j ELSE k
  OBVIOUS
<1> HIDE DEF t, q
<1>3. Order(q, t, s)
  <2>1. DOMAIN s = 1..n /\ DOMAIN t = 1..n
    BY <1>1
  <2>2. \A k \in 1..n : q[k] \in 1..n /\ t[k] = s[q[k]]
    BY <1>1, <1>2
  <2>3. \A k, m \in 1..n : q[k] = q[m] => k = m
    BY <1>2
  <2>4. \A m \in 1..n : \E k \in 1..n : q[k] = m
    <3> TAKE m \in 1..n
    <3>1. q[q[m]] = m /\ q[m] \in 1..n
      BY <1>2
    <3> QED BY <3>1
  <2> QED BY <1>2, <2>1, <2>2, <2>3, <2>4 DEF Order
<1>4. \A k \in DOMAIN s : IF k \in f..u THEN q[k] \in f..u ELSE q[k] = k
  BY <1>2
<1>5. Mixed(t, s, f, u)
  BY <1>3, <1>4 DEF Mixed
<1> QED BY <1>5 DEF t

\* What stays behind, and what comes before, an element.
LEMMA StaysOrders ==
  ASSUME NEW x \in Obj, NEW y \in Obj, NEW z \in Obj, NEW asc \in BOOLEAN
  PROVE  /\ Stays(x, x, asc)
         /\ ~Stays(x, y, asc) => Stays(y, x, asc)
         /\ Stays(z, y, asc) /\ Stays(y, x, asc) => Stays(z, x, asc)
<1>1. Val[x] \in Int /\ Val[y] \in Int /\ Val[z] \in Int
  BY DataAssumption
<1> QED BY <1>1 DEF Stays

\* The place p has x, what is before i belongs before it, the rest up to e behind it.
Sifted(a, n, p, e, x, asc) ==
  /\ a.s \in [1..n -> Obj] /\ a.i \in (p + 1)..(e + 1) /\ a.s[p] = x
  /\ \A j \in (p + 1)..(a.i - 1) : ~Stays(a.s[j], x, asc)
  /\ \A j \in a.i..e : Stays(a.s[j], x, asc)

LEMMA SiftOne ==
  ASSUME NEW n \in Nat, NEW p \in 1..n, NEW e \in p..(n - 1), NEW x, NEW asc, NEW a,
         Sifted(a, n, p, e, x, asc)
  PROVE  /\ Sifted(Sift(x, asc, a, e + 1), n, p, e + 1, x, asc)
         /\ \A r \in (e + 1)..n : Mixed(Sift(x, asc, a, e + 1).s, a.s, p, r)
<1> DEFINE j == e + 1
<1>1. /\ a.s \in [1..n -> Obj] /\ a.i \in (p + 1)..(e + 1) /\ a.s[p] = x
      /\ \A k \in (p + 1)..(a.i - 1) : ~Stays(a.s[k], x, asc)
      /\ \A k \in a.i..e : Stays(a.s[k], x, asc)
  BY DEF Sifted
<1>2. j \in 1..n /\ a.i \in 1..n /\ p # j /\ p # a.i /\ a.i <= j
  <2>1. p \in Nat /\ e \in Nat /\ 1 <= p /\ p <= e /\ e <= n - 1
    OBVIOUS
  <2>2. a.i \in Nat /\ p + 1 <= a.i /\ a.i <= e + 1
    BY <1>1, <2>1
  <2> QED BY <2>1, <2>2
<1>3. CASE Stays(a.s[e + 1], x, asc)
  <2>1. Sift(x, asc, a, e + 1) = a
    BY <1>3 DEF Sift
  <2>2. \A k \in a.i..(e + 1) : Stays(a.s[k], x, asc)
    <3>0. a.i \in Nat /\ e \in Nat
      BY <1>2
    <3>1. \A k \in a.i..(e + 1) : k \in a.i..e \/ k = e + 1
      BY <3>0
    <3> QED BY <1>1, <1>3, <3>1
  <2>3. a.i \in (p + 1)..((e + 1) + 1)
    BY <1>1
  <2>4. Sifted(a, n, p, e + 1, x, asc)
    BY <1>1, <2>2, <2>3 DEF Sifted
  <2> QED BY <2>1, <2>4, MixedSelf
<1>4. CASE ~Stays(a.s[e + 1], x, asc)
  <2> DEFINE t == Swap(a.s, a.i, j)
             b == [s |-> t, i |-> a.i + 1]
  <2>1. Sift(x, asc, a, e + 1) = b /\ b.s = t /\ b.i = a.i + 1
    BY <1>4 DEF Sift
  <2>2. /\ t \in [1..n -> Obj]
        /\ \A k \in 1..n : t[k] = IF k = j THEN a.s[a.i] ELSE IF k = a.i THEN a.s[j] ELSE a.s[k]
    <3>1. a.s \in [1..n -> Obj] /\ a.i \in 1..n /\ j \in 1..n
      BY <1>1, <1>2
    <3> HIDE DEF j
    <3> QED BY <3>1, SwapIs
  <2> HIDE DEF t
  <2>3. t[p] = x
    BY <1>1, <1>2, <2>2
  <2>4. ASSUME NEW k \in (p + 1)..((a.i + 1) - 1) PROVE ~Stays(t[k], x, asc)
    <3>1. k \in 1..n /\ k <= j /\ (k = a.i \/ (k # a.i /\ k # j /\ k \in (p + 1)..(a.i - 1)))
      BY <1>1, <1>2
    <3>2. CASE k = a.i
      <4>1. t[k] = a.s[e + 1]
        BY <1>2, <2>2, <3>1, <3>2
      <4> QED BY <1>4, <4>1
    <3>3. CASE k # a.i /\ k # j /\ k \in (p + 1)..(a.i - 1)
      <4>1. t[k] = a.s[k]
        BY <2>2, <3>1, <3>3
      <4> QED BY <1>1, <3>3, <4>1
    <3> QED BY <3>1, <3>2, <3>3
  <2>5. ASSUME NEW k \in (a.i + 1)..(e + 1) PROVE Stays(t[k], x, asc)
    <3>1. k \in 1..n /\ k # a.i /\ (k = j \/ (k # j /\ k \in a.i..e)) /\ (k = j => a.i \in a.i..e)
      BY <1>1, <1>2
    <3>2. CASE k = j
      <4>1. t[k] = a.s[a.i]
        BY <2>2, <3>1, <3>2
      <4> QED BY <1>1, <3>1, <3>2, <4>1
    <3>3. CASE k # j /\ k \in a.i..e
      <4>1. t[k] = a.s[k]
        BY <2>2, <3>1, <3>3
      <4> QED BY <1>1, <3>3, <4>1
    <3> QED BY <3>1, <3>2, <3>3
  <2>6. a.i + 1 \in (p + 1)..((e + 1) + 1)
    BY <1>1
  <2> HIDE DEF b
  <2>7. Sifted(b, n, p, e + 1, x, asc)
    BY <2>1, <2>2, <2>3, <2>4, <2>5, <2>6 DEF Sifted
  <2>8. ASSUME NEW r \in (e + 1)..n PROVE Mixed(t, a.s, p, r)
    <3>1. j \in p..r /\ a.i \in p..r
      BY <1>1
    <3> QED BY <1>1, <1>2, <3>1, SwapMixed DEF t
  <2> QED BY <2>1, <2>7, <2>8
<1> QED BY <1>3, <1>4

\* The partition of the places p to r.
Parted(cut, s, n, p, r, asc) ==
  /\ cut.s \in [1..n -> Obj] /\ cut.at \in p..r
  /\ Mixed(cut.s, s, p, r)
  /\ \A j \in p..(cut.at - 1) : ~Stays(cut.s[j], cut.s[cut.at], asc)
  /\ \A j \in (cut.at + 1)..r : Stays(cut.s[j], cut.s[cut.at], asc)

LEMMA PartitionIs ==
  ASSUME NEW n \in Nat, NEW s \in [1..n -> Obj], NEW p \in 1..n, NEW r \in 1..n, p < r, NEW asc
  PROVE  Parted(Partition(s, p, r, asc), s, n, p, r, asc)
<1> DEFINE mid == (p + r) \div 2
           s0 == Swap(s, p, mid)
           x == s0[p]
           base == [s |-> s0, i |-> p + 1]
           places == [k \in 1..(r - p) |-> p + k]
           end == Sifting(x, asc, base, places)
<1>1. mid \in 1..n /\ mid \in p..r /\ p \in p..r
  OBVIOUS
<1>2. s0 \in [1..n -> Obj] /\ Mixed(s0, s, p, r)
  <2> HIDE DEF mid
  <2> QED BY <1>1, SwapIs, SwapMixed
<1>3. Partition(s, p, r, asc) = [s |-> Swap(end.s, p, end.i - 1), at |-> end.i - 1]
  BY DEF Partition, Sifting, Sift
<1> HIDE DEF s0, mid
<1>4. /\ Len(places) = r - p /\ r - p \in Nat /\ DOMAIN places = 1..Len(places)
      /\ \A k \in 1..(r - p) : places[k] = p + k
  OBVIOUS
<1> HIDE DEF places
<1>5. PICK h : Loop("partition", [x |-> x, asc |-> asc], base, places, h) /\ end = h[Len(places)]
  <2> HIDE DEF x, base
  <2> QED BY <1>4, SiftLoop
<1>6. h[0] = base /\ \A k \in 1..(r - p) : h[k] = Sift(x, asc, h[k - 1], p + k)
  BY <1>4, <1>5 DEF Loop, Step
<1> HIDE DEF end, x
<1> DEFINE Good(k) == Sifted(h[k], n, p, p + k, x, asc) /\ Mixed(h[k].s, s, p, r)
           K == {k \in Nat : k <= r - p => Good(k)}
<1>7. 0 \in K
  <2>1. base.s = s0 /\ base.i = p + 1 /\ p + 0 = p
    OBVIOUS
  <2> HIDE DEF base
  <2>2. base.i \in (p + 1)..(p + 1) /\ (p + 1)..(base.i - 1) = {} /\ base.i..p = {}
    BY <2>1
  <2>3. Sifted(base, n, p, p, x, asc)
    BY <1>2, <2>1, <2>2 DEF Sifted, x
  <2> QED BY <1>2, <1>6, <2>1, <2>3
<1>8. ASSUME NEW k \in Nat, k \in K PROVE k + 1 \in K
  <2> SUFFICES ASSUME k + 1 <= r - p PROVE Good(k + 1)
    OBVIOUS
  <2>1. Sifted(h[k], n, p, p + k, x, asc) /\ Mixed(h[k].s, s, p, r)
    BY <1>8
  <2>2. k + 1 \in 1..(r - p) /\ (k + 1) - 1 = k /\ p + (k + 1) = (p + k) + 1
        /\ p + k \in p..(n - 1) /\ r \in ((p + k) + 1)..n
    OBVIOUS
  <2>3. h[k + 1] = Sift(x, asc, h[k], (p + k) + 1)
    BY <1>6, <2>2
  <2> DEFINE a == h[k]
             e == p + k
             b == Sift(x, asc, a, e + 1)
  <2>4. Sifted(b, n, p, e + 1, x, asc) /\ Mixed(b.s, a.s, p, r)
    <3>1. e \in p..(n - 1) /\ Sifted(a, n, p, e, x, asc) /\ r \in (e + 1)..n
      BY <2>1, <2>2
    <3> HIDE DEF a, e
    <3> QED BY <3>1, SiftOne
  <2>5. Mixed(b.s, s, p, r)
    BY <2>1, <2>4, MixedAgain
  <2>6. h[k + 1] = b /\ p + (k + 1) = e + 1
    BY <2>2, <2>3
  <2> HIDE DEF a, e, b
  <2> QED BY <2>4, <2>5, <2>6
<1>9. \A k \in Nat : k \in K
  <2> HIDE DEF K
  <2> QED BY <1>7, <1>8, Induction
<1>10. Sifted(end, n, p, r, x, asc) /\ Mixed(end.s, s, p, r)
  <2>1. Good(r - p)
    BY <1>4, <1>9
  <2>2. p + (r - p) = r
    OBVIOUS
  <2> QED BY <1>4, <1>5, <2>1, <2>2
<1> HIDE DEF K, Good, base
<1> DEFINE at == end.i - 1
           t == Swap(end.s, p, at)
<1>11. /\ end.s \in [1..n -> Obj] /\ end.i \in (p + 1)..(r + 1) /\ end.s[p] = x
       /\ \A j \in (p + 1)..(end.i - 1) : ~Stays(end.s[j], x, asc)
       /\ \A j \in end.i..r : Stays(end.s[j], x, asc)
  BY <1>10 DEF Sifted
<1>12. at \in p..r /\ at \in 1..n /\ end.i = at + 1 /\ p \in p..r
  BY <1>11
<1>13. /\ t \in [1..n -> Obj]
       /\ \A k \in 1..n : t[k] = IF k = at THEN end.s[p] ELSE IF k = p THEN end.s[at] ELSE end.s[k]
  <2> DEFINE e == end.s
  <2>1. e \in [1..n -> Obj] /\ at \in 1..n
    BY <1>11, <1>12
  <2> HIDE DEF at, e
  <2>2. /\ Swap(e, p, at) \in [1..n -> Obj]
        /\ \A k \in 1..n : Swap(e, p, at)[k] = IF k = at THEN e[p] ELSE IF k = p THEN e[at] ELSE e[k]
    BY <2>1, SwapIs
  <2> QED BY <2>2 DEF e
<1>14. Mixed(t, s, p, r)
  <2>1. Mixed(t, end.s, p, r)
    <3> HIDE DEF at
    <3> QED BY <1>11, <1>12, SwapMixed
  <2> HIDE DEF t
  <2> QED BY <1>10, <2>1, MixedAgain
<1>15. t[at] = x
  BY <1>11, <1>12, <1>13
<1>16. ASSUME NEW j \in p..(at - 1) PROVE ~Stays(t[j], x, asc)
  <2>1. j \in 1..n /\ j # at /\ (j # p => j \in (p + 1)..(end.i - 1)) /\ at \in (p + 1)..(end.i - 1)
    BY <1>12
  <2>2. CASE j = p
    <3>1. t[j] = end.s[at]
      BY <1>13, <2>1, <2>2
    <3> QED BY <1>11, <2>1, <3>1
  <2>3. CASE j # p
    <3>1. t[j] = end.s[j]
      BY <1>13, <2>1, <2>3
    <3> QED BY <1>11, <2>1, <2>3, <3>1
  <2> QED BY <2>2, <2>3
<1>17. ASSUME NEW j \in (at + 1)..r PROVE Stays(t[j], x, asc)
  <2>1. j \in 1..n /\ j # at /\ j # p /\ j \in end.i..r
    BY <1>12
  <2>2. t[j] = end.s[j]
    BY <1>13, <2>1
  <2> QED BY <1>11, <2>1, <2>2
<1> DEFINE cut == [s |-> t, at |-> at]
<1>18. cut.s = t /\ cut.at = at /\ Partition(s, p, r, asc) = cut
  BY <1>3
<1> HIDE DEF cut, t, at
<1>19. Parted(cut, s, n, p, r, asc)
  BY <1>12, <1>13, <1>14, <1>15, <1>16, <1>17, <1>18 DEF Parted
<1> QED BY <1>18, <1>19

(* The recursion of AscSort and DecSort, from the places g has sorted already. *)
Sorting(n) == [s : [1..n -> Obj], f : 1..(n + 1), t : 0..n]

Part(s, f, t) == [s |-> s, f |-> f, t |-> t]

Body(g, c, asc) ==
  IF c.f >= c.t THEN c.s
  ELSE LET cut == Partition(c.s, c.f, c.t, asc)
           low == g[[s |-> cut.s, f |-> c.f, t |-> cut.at - 1]]
       IN g[[s |-> low, f |-> cut.at + 1, t |-> c.t]]

LEMMA PartIs ==
  ASSUME NEW n \in Nat, NEW s \in [1..n -> Obj], NEW f \in 1..(n + 1), NEW t \in 0..n
  PROVE  /\ Part(s, f, t) \in Sorting(n) /\ Part(s, f, t) = [s |-> s, f |-> f, t |-> t]
         /\ Part(s, f, t).s = s /\ Part(s, f, t).f = f /\ Part(s, f, t).t = t
BY DEF Part, Sorting

\* The partition, what is sorted first, and then.
Cut(c, asc)       == Partition(c.s, c.f, c.t, asc)
First(c, asc)     == Part(Cut(c, asc).s, c.f, Cut(c, asc).at - 1)
Second(g, c, asc) == Part(g[First(c, asc)], Cut(c, asc).at + 1, c.t)

LEMMA BodyIs ==
  ASSUME NEW n \in Nat, NEW asc, NEW c \in Sorting(n), c.f < c.t
  PROVE  /\ Parted(Cut(c, asc), c.s, n, c.f, c.t, asc)
         /\ First(c, asc) \in Sorting(n) /\ First(c, asc).s = Cut(c, asc).s
         /\ First(c, asc).f = c.f /\ First(c, asc).t = Cut(c, asc).at - 1
<1>1. c.s \in [1..n -> Obj] /\ c.f \in 1..n /\ c.t \in 1..n
  BY DEF Sorting
<1>2. Parted(Cut(c, asc), c.s, n, c.f, c.t, asc)
  BY <1>1, PartitionIs DEF Cut
<1>4. Cut(c, asc).s \in [1..n -> Obj] /\ Cut(c, asc).at \in c.f..c.t
  BY <1>2 DEF Parted
<1>5. Cut(c, asc).at - 1 \in 0..n /\ c.f \in 1..(n + 1)
  BY <1>1, <1>4
<1> QED BY <1>2, <1>4, <1>5, PartIs DEF First

Halves(n, g, c, asc) ==
  /\ Body(g, c, asc) = g[Second(g, c, asc)]
  /\ g[First(c, asc)] \in [1..n -> Obj] =>
       /\ Second(g, c, asc) \in Sorting(n) /\ Second(g, c, asc).s = g[First(c, asc)]
       /\ Second(g, c, asc).f = Cut(c, asc).at + 1 /\ Second(g, c, asc).t = c.t

LEMMA BodySecond ==
  ASSUME NEW n \in Nat, NEW asc, NEW c \in Sorting(n), c.f < c.t, NEW g
  PROVE  Halves(n, g, c, asc)
<1>1. c.f \in 1..n /\ c.t \in 1..n
  BY DEF Sorting
<1>2. Body(g, c, asc) = g[Second(g, c, asc)]
  BY <1>1 DEF Body, Part, Cut, First, Second
<1>3. Cut(c, asc).at \in c.f..c.t
  BY BodyIs DEF Parted
<1>4. Cut(c, asc).at + 1 \in 1..(n + 1) /\ c.t \in 0..n
  BY <1>1, <1>3
<1> QED BY <1>2, <1>4, PartIs DEF Second, Halves

LEMMA SortingExists ==
  ASSUME NEW n \in Nat, NEW asc
  PROVE  \E g : g = [c \in Sorting(n) |-> Body(g, c, asc)]
<1> DEFINE S == [1..n -> Obj]
           Good(m, g) == /\ g \in [Sorting(n) -> S]
                         /\ \A c \in Sorting(n) : c.t - c.f < m => g[c] = Body(g, c, asc)
           K == {m \in Nat : \E g : Good(m, g)}
<1>0. \A c \in Sorting(n) : c.s \in S /\ c.f \in 1..(n + 1) /\ c.t \in 0..n
  BY DEF Sorting
<1>1. ASSUME NEW m, NEW g, Good(m, g) PROVE \A c \in Sorting(n) : Body(g, c, asc) \in S
  <2> SUFFICES ASSUME NEW c \in Sorting(n) PROVE Body(g, c, asc) \in S
    OBVIOUS
  <2>1. CASE c.f >= c.t
    BY <1>0, <2>1 DEF Body
  <2>2. CASE ~(c.f >= c.t)
    <3>1. c.f < c.t
      BY <1>0, <2>2
    <3>2. First(c, asc) \in Sorting(n)
      BY <3>1, BodyIs
    <3>3. g[First(c, asc)] \in S
      BY <1>1, <3>2
    <3>a. Halves(n, g, c, asc)
      BY <3>1, BodySecond
    <3>4. Body(g, c, asc) = g[Second(g, c, asc)] /\ Second(g, c, asc) \in Sorting(n)
      BY <3>3, <3>a DEF Halves
    <3> QED BY <1>1, <3>4
  <2> QED BY <2>1, <2>2
<1>2. 0 \in K
  <2> DEFINE g == [c \in Sorting(n) |-> IF c.t < c.f THEN c.s ELSE c.s]
  <2>1. g \in [Sorting(n) -> S]
    BY <1>0
  <2>2. \A c \in Sorting(n) : c.t - c.f < 0 => g[c] = Body(g, c, asc)
    <3> SUFFICES ASSUME NEW c \in Sorting(n), c.t - c.f < 0 PROVE g[c] = Body(g, c, asc)
      OBVIOUS
    <3>1. c.f >= c.t /\ g[c] = c.s
      BY <1>0
    <3> HIDE DEF g
    <3> QED BY <3>1 DEF Body
  <2> HIDE DEF g
  <2> QED BY <2>1, <2>2
<1>3. ASSUME NEW m \in Nat, m \in K PROVE m + 1 \in K
  <2>1. PICK g : Good(m, g)
    BY <1>3
  <2> DEFINE new == [c \in Sorting(n) |-> IF c.t - c.f < m THEN g[c] ELSE Body(g, c, asc)]
  <2>2. new \in [Sorting(n) -> S]
    <3>1. \A c \in Sorting(n) : g[c] \in S /\ Body(g, c, asc) \in S
      BY <1>1, <2>1
    <3> QED BY <3>1
  <2>3. \A c \in Sorting(n) : new[c] = Body(g, c, asc)
    BY <2>1
  <2>4. \A c \in Sorting(n) : c.t - c.f < m => new[c] = g[c]
    OBVIOUS
  <2> HIDE DEF new
  <2>5. ASSUME NEW c \in Sorting(n), c.t - c.f < m + 1 PROVE Body(new, c, asc) = Body(g, c, asc)
    <3>1. CASE c.f >= c.t
      BY <3>1 DEF Body
    <3>2. CASE ~(c.f >= c.t)
      <4>1. c.f < c.t
        BY <1>0, <3>2
      <4> DEFINE one == First(c, asc)
                 at == Cut(c, asc).at
                 two == Second(g, c, asc)
      <4>2. Parted(Cut(c, asc), c.s, n, c.f, c.t, asc) /\ one \in Sorting(n) /\ one.f = c.f /\ one.t = at - 1
        BY <4>1, BodyIs
      <4>3. at \in c.f..c.t
        BY <4>2 DEF Parted
      <4> HIDE DEF one, at
      <4>4. one.t - one.f < m
        BY <1>0, <4>2, <4>3, <2>5
      <4>5. new[one] = g[one] /\ g[one] \in S
        BY <2>1, <2>4, <4>2, <4>4
      <4>6. Second(new, c, asc) = two
        BY <4>5 DEF Second, one
      <4>b. Halves(n, g, c, asc) /\ Halves(n, new, c, asc)
        BY <4>1, BodySecond
      <4>7. Body(new, c, asc) = new[Second(new, c, asc)]
        BY <4>b DEF Halves
      <4>a. Body(g, c, asc) = g[two]
        BY <4>b DEF Halves
      <4>8. two \in Sorting(n) /\ two.f = at + 1 /\ two.t = c.t
        BY <4>b, <4>5 DEF Halves, one, at
      <4> HIDE DEF two
      <4>9. two.t - two.f < m
        BY <1>0, <4>3, <4>8, <2>5
      <4>10. new[two] = g[two]
        BY <2>4, <4>8, <4>9
      <4> QED BY <4>6, <4>7, <4>a, <4>10
    <3> QED BY <3>1, <3>2
  <2>6. Good(m + 1, new)
    BY <2>2, <2>3, <2>5
  <2> HIDE DEF Good
  <2> QED BY <2>6
<1>4. \A m \in Nat : m \in K
  <2> HIDE DEF K
  <2> QED BY <1>2, <1>3, Induction
<1>5. PICK g : Good(n, g)
  BY <1>4
<1>6. \A c \in Sorting(n) : c.t - c.f < n
  BY <1>0
<1>7. \A c \in Sorting(n) : g[c] = Body(g, c, asc)
  BY <1>5, <1>6
<1>8. g = [c \in Sorting(n) |-> Body(g, c, asc)]
  BY <1>5, <1>7
<1> QED BY <1>8

(* What the recursion sorts: the places f..t of c.s, and no other. *)
SortedPart(s, c, n, asc) ==
  /\ s \in [1..n -> Obj] /\ Mixed(s, c.s, c.f, c.t)
  /\ \A i, j \in c.f..c.t : i < j => Stays(s[j], s[i], asc)

\* An element of the places f..u is one of those that were there.
Has(n, t, s, f, u, i) ==
  /\ i \notin f..u => t[i] = s[i]
  /\ i \in f..u => \E j \in f..u : j \in 1..n /\ t[i] = s[j]

LEMMA MixedHas ==
  ASSUME NEW n \in Nat, NEW s \in [1..n -> Obj], NEW t, NEW f, NEW u, Mixed(t, s, f, u),
         NEW i \in 1..n
  PROVE  Has(n, t, s, f, u, i)
<1>1. PICK q : Order(q, t, s) /\ \A k \in DOMAIN s : IF k \in f..u THEN q[k] \in f..u ELSE q[k] = k
  BY DEF Mixed
<1>2. q[i] \in 1..n /\ t[i] = s[q[i]]
  BY <1>1 DEF Order
<1> QED BY <1>1, <1>2 DEF Has

LEMMA SortsBoth ==
  ASSUME NEW n \in Nat, NEW asc \in BOOLEAN, NEW s \in [1..n -> Obj],
         NEW f \in 1..n, NEW u \in 1..n, NEW cut, Parted(cut, s, n, f, u, asc),
         NEW low \in [1..n -> Obj], Mixed(low, cut.s, f, cut.at - 1),
         \A i, j \in f..(cut.at - 1) : i < j => Stays(low[j], low[i], asc),
         NEW hi \in [1..n -> Obj], Mixed(hi, low, cut.at + 1, u),
         \A i, j \in (cut.at + 1)..u : i < j => Stays(hi[j], hi[i], asc)
  PROVE  Mixed(hi, s, f, u) /\ \A i, j \in f..u : i < j => Stays(hi[j], hi[i], asc)
<1> DEFINE p == cut.s
           at == cut.at
           x == p[at]
<1>1. /\ p \in [1..n -> Obj] /\ at \in f..u /\ Mixed(p, s, f, u)
      /\ \A j \in f..(at - 1) : ~Stays(p[j], x, asc)
      /\ \A j \in (at + 1)..u : Stays(p[j], x, asc)
  BY DEF Parted
<1>2. Mixed(low, p, f, at - 1) /\ Mixed(hi, low, at + 1, u)
  OBVIOUS
<1>3. /\ \A i, j \in f..(at - 1) : i < j => Stays(low[j], low[i], asc)
      /\ \A i, j \in (at + 1)..u : i < j => Stays(hi[j], hi[i], asc)
  OBVIOUS
<1>4. at \in 1..n /\ f <= at + 1 /\ at - 1 <= u /\ at + 1 \in Int /\ at - 1 \in Int /\ x \in Obj
  BY <1>1
<1> HIDE DEF p, at, x
<1>5. Mixed(hi, s, f, u)
  <2>1. Mixed(low, p, f, u) /\ Mixed(hi, low, f, u)
    BY <1>1, <1>2, <1>4, MixedWider
  <2> QED BY <1>1, <2>1, MixedAgain
<1>6. hi[at] = x
  <2>1. at \notin (at + 1)..u /\ at \notin f..(at - 1)
    BY <1>4
  <2>a. Has(n, hi, low, at + 1, u, at) /\ Has(n, low, p, f, at - 1, at)
    BY <1>1, <1>2, <1>4, MixedHas
  <2>2. hi[at] = low[at] /\ low[at] = p[at]
    BY <2>a, <2>1 DEF Has
  <2> QED BY <2>2 DEF x
<1>7. ASSUME NEW i \in f..(at - 1) PROVE ~Stays(hi[i], x, asc) /\ hi[i] = low[i] /\ hi[i] \in Obj
  <2>1. i \in 1..n /\ i \notin (at + 1)..u
    BY <1>4
  <2>a. Has(n, hi, low, at + 1, u, i) /\ Has(n, low, p, f, at - 1, i)
    BY <1>1, <1>2, <2>1, MixedHas
  <2>2. hi[i] = low[i]
    BY <2>a, <2>1 DEF Has
  <2>3. PICK j \in f..(at - 1) : low[i] = p[j]
    BY <2>a DEF Has
  <2> QED BY <1>1, <2>1, <2>2, <2>3
<1>8. ASSUME NEW i \in (at + 1)..u PROVE Stays(hi[i], x, asc) /\ hi[i] \in Obj
  <2>1. i \in 1..n
    BY <1>4
  <2>a. Has(n, hi, low, at + 1, u, i)
    BY <1>2, <2>1, MixedHas
  <2>2. PICK j \in (at + 1)..u : j \in 1..n /\ hi[i] = low[j]
    BY <2>a DEF Has
  <2>3. j \notin f..(at - 1)
    BY <1>4
  <2>b. Has(n, low, p, f, at - 1, j)
    BY <1>1, <1>2, <2>2, MixedHas
  <2>4. low[j] = p[j]
    BY <2>b, <2>3 DEF Has
  <2> QED BY <1>1, <2>1, <2>2, <2>4
<1>9. ASSUME NEW i \in f..u, NEW j \in f..u, i < j PROVE Stays(hi[j], hi[i], asc)
  <2>1. CASE i \in f..(at - 1) /\ j \in f..(at - 1)
    <3>1. hi[i] = low[i] /\ hi[j] = low[j]
      BY <1>7, <2>1
    <3> QED BY <1>3, <1>9, <2>1, <3>1
  <2>2. CASE i \in f..(at - 1) /\ j = at
    <3>1. ~Stays(hi[i], x, asc) /\ hi[i] \in Obj /\ hi[j] = x
      BY <1>6, <1>7, <2>2
    <3> QED BY <1>4, <3>1, StaysOrders
  <2>3. CASE i \in f..(at - 1) /\ j \in (at + 1)..u
    <3>1. ~Stays(hi[i], x, asc) /\ hi[i] \in Obj
      BY <1>7, <2>3
    <3>2. Stays(hi[j], x, asc) /\ hi[j] \in Obj
      BY <1>8, <2>3
    <3>3. Stays(x, hi[i], asc)
      BY <1>4, <3>1, StaysOrders
    <3> QED BY <1>4, <3>1, <3>2, <3>3, StaysOrders
  <2>4. CASE i = at /\ j \in (at + 1)..u
    BY <1>6, <1>8, <2>4
  <2>5. CASE i \in (at + 1)..u /\ j \in (at + 1)..u
    BY <1>3, <1>9, <2>5
  <2>6. \/ i \in f..(at - 1) /\ j \in f..(at - 1)
        \/ i \in f..(at - 1) /\ j = at
        \/ i \in f..(at - 1) /\ j \in (at + 1)..u
        \/ i = at /\ j \in (at + 1)..u
        \/ i \in (at + 1)..u /\ j \in (at + 1)..u
    BY <1>4, <1>9
  <2> QED BY <2>1, <2>2, <2>3, <2>4, <2>5, <2>6
<1> QED BY <1>5, <1>9

LEMMA SortsAll ==
  ASSUME NEW n \in Nat, NEW asc \in BOOLEAN, NEW g,
         \A c \in Sorting(n) : g[c] = Body(g, c, asc)
  PROVE  \A c \in Sorting(n) : SortedPart(g[c], c, n, asc)
<1> DEFINE K == {m \in Nat : \A c \in Sorting(n) : c.t - c.f < m => SortedPart(g[c], c, n, asc)}
<1>0. \A c \in Sorting(n) : c.s \in [1..n -> Obj] /\ c.f \in 1..(n + 1) /\ c.t \in 0..n
  BY DEF Sorting
<1>1. ASSUME NEW c \in Sorting(n), c.f >= c.t PROVE SortedPart(g[c], c, n, asc)
  <2>1. g[c] = c.s
    BY <1>1 DEF Body
  <2>2. \A i, j \in c.f..c.t : ~(i < j)
    BY <1>0, <1>1
  <2> QED BY <1>0, <2>1, <2>2, MixedSelf DEF SortedPart
<1>2. 0 \in K
  <2>1. \A c \in Sorting(n) : c.t - c.f < 0 => c.f >= c.t
    BY <1>0
  <2> QED BY <1>1, <2>1
<1>3. ASSUME NEW m \in Nat, m \in K PROVE m + 1 \in K
  <2> SUFFICES ASSUME NEW c \in Sorting(n), c.t - c.f < m + 1, c.f < c.t
               PROVE  SortedPart(g[c], c, n, asc)
    <3>1. \A c \in Sorting(n) : c.f >= c.t \/ c.f < c.t
      BY <1>0
    <3> QED BY <1>1, <3>1
  <2> DEFINE cut == Cut(c, asc)
             one == First(c, asc)
             two == Second(g, c, asc)
             low == g[one]
             hi == g[two]
  <2>1. \A d \in Sorting(n) : d.t - d.f < m => SortedPart(g[d], d, n, asc)
    BY <1>3
  <2> HIDE DEF K
  <2>2. /\ Parted(cut, c.s, n, c.f, c.t, asc)
        /\ one \in Sorting(n) /\ one.s = cut.s /\ one.f = c.f /\ one.t = cut.at - 1
    BY BodyIs
  <2>3. cut.at \in c.f..c.t
    BY <2>2 DEF Parted
  <2>4. SortedPart(low, one, n, asc)
    <3> HIDE DEF one, cut
    <3>1. one.t - one.f < m
      BY <1>0, <2>2, <2>3
    <3> QED BY <2>1, <2>2, <3>1
  <2>5. low \in [1..n -> Obj]
    BY <2>4 DEF SortedPart
  <2>a. Halves(n, g, c, asc)
    BY BodySecond
  <2>6. Body(g, c, asc) = hi
    BY <2>a DEF Halves
  <2>7. two \in Sorting(n) /\ two.s = low /\ two.f = cut.at + 1 /\ two.t = c.t
    BY <2>5, <2>a DEF Halves
  <2>8. SortedPart(hi, two, n, asc)
    <3> HIDE DEF two, cut
    <3>1. two.t - two.f < m
      BY <1>0, <2>3, <2>7
    <3> QED BY <2>1, <2>7, <3>1
  <2>9. g[c] = hi
    BY <2>6
  <2> HIDE DEF cut, one, two, low, hi
  <2>10. /\ Mixed(low, cut.s, c.f, cut.at - 1)
         /\ \A i, j \in c.f..(cut.at - 1) : i < j => Stays(low[j], low[i], asc)
    BY <2>2, <2>4 DEF SortedPart
  <2>11. /\ hi \in [1..n -> Obj] /\ Mixed(hi, low, cut.at + 1, c.t)
         /\ \A i, j \in (cut.at + 1)..c.t : i < j => Stays(hi[j], hi[i], asc)
    BY <2>7, <2>8 DEF SortedPart
  <2>12. c.f \in 1..n /\ c.t \in 1..n /\ c.s \in [1..n -> Obj]
    BY <1>0
  <2>13. Mixed(hi, c.s, c.f, c.t) /\ \A i, j \in c.f..c.t : i < j => Stays(hi[j], hi[i], asc)
    BY <2>2, <2>5, <2>10, <2>11, <2>12, SortsBoth
  <2> QED BY <2>9, <2>11, <2>13 DEF SortedPart
<1>4. \A m \in Nat : m \in K
  <2> HIDE DEF K
  <2> QED BY <1>2, <1>3, Induction
<1>5. \A c \in Sorting(n) : c.t - c.f < n + 1
  BY <1>0
<1> QED BY <1>4, <1>5

LEMMA SortedIs ==
  ASSUME NEW s \in Seq(Obj), NEW asc \in BOOLEAN
  PROVE  /\ Sorted(s, asc) \in Seq(Obj) /\ Len(Sorted(s, asc)) = Len(s)
         /\ Range(Sorted(s, asc)) = Range(s)
         /\ \A o : Count(Sorted(s, asc), o) = Count(s, o)
         /\ \A i, j \in 1..Len(s) : i < j => Stays(Sorted(s, asc)[j], Sorted(s, asc)[i], asc)
<1> DEFINE n == Len(s)
           Fix(g) == g = [c \in Sorting(n) |-> Body(g, c, asc)]
           sort == CHOOSE g : Fix(g)
           all == Part(s, 1, n)
           t == Sorted(s, asc)
<1>1. t = sort[all]
  BY DEF Sorted, Sorting, Body, Part
<1>2. n \in Nat /\ s \in [1..n -> Obj]
  OBVIOUS
<1>3. Fix(sort)
  <2>1. \E g : Fix(g)
    BY <1>2, SortingExists
  <2> HIDE DEF Fix
  <2> QED BY <2>1
<1>4. all \in Sorting(n) /\ all.s = s /\ all.f = 1 /\ all.t = n
  BY <1>2, PartIs
<1> HIDE DEF sort, all, t
<1>5. SortedPart(t, all, n, asc)
  <2>1. \A c \in Sorting(n) : sort[c] = Body(sort, c, asc)
    BY <1>3
  <2> HIDE DEF Fix, n
  <2> QED BY <1>1, <1>2, <1>4, <2>1, SortsAll
<1>6. t \in [1..n -> Obj] /\ Mixed(t, s, 1, n) /\ \A i, j \in 1..n : i < j => Stays(t[j], t[i], asc)
  BY <1>4, <1>5 DEF SortedPart
<1>7. t \in Seq(Obj) /\ Len(t) = n
  BY <1>2, <1>6
<1>8. PICK q : Order(q, t, s)
  BY <1>6 DEF Mixed
<1>9. \A o : Count(t, o) = Count(s, o)
  BY <1>7, <1>8, CountOrder
<1>10. Range(t) = Range(s)
  BY <1>8 DEF Order, Range
<1> QED BY <1>6, <1>7, <1>9, <1>10 DEF t

LEMMA ReverseIs ==
  ASSUME NEW s \in Seq(Obj)
  PROVE  /\ Reverse(s) \in Seq(Obj) /\ Len(Reverse(s)) = Len(s)
         /\ Range(Reverse(s)) = Range(s)
         /\ \A o : Count(Reverse(s), o) = Count(s, o)
<1> DEFINE n == Len(s)
           t == Reverse(s)
           q == [i \in 1..n |-> (n - i) + 1]
<1>1. n \in Nat /\ DOMAIN s = 1..n
  OBVIOUS
<1>2. \A i \in 1..n : (n - i) + 1 \in 1..n /\ (n - ((n - i) + 1)) + 1 = i
  BY <1>1
<1>3. t \in Seq(Obj) /\ Len(t) = n /\ DOMAIN t = 1..n /\ \A i \in 1..n : t[i] = s[(n - i) + 1]
  BY <1>1, <1>2 DEF Reverse
<1>4. DOMAIN q = 1..n /\ \A i \in 1..n : q[i] = (n - i) + 1 /\ q[i] \in 1..n /\ q[q[i]] = i
  BY <1>2
<1> HIDE DEF q, t, n
<1>5. Order(q, t, s)
  <2>1. \A i, j \in 1..n : q[i] = q[j] => i = j
    BY <1>4
  <2>2. \A j \in 1..n : \E i \in 1..n : q[i] = j
    BY <1>4
  <2> QED BY <1>1, <1>3, <1>4, <2>1, <2>2 DEF Order
<1>6. \A o : Count(t, o) = Count(s, o)
  BY <1>3, <1>5, CountOrder
<1>7. Range(t) = Range(s)
  BY <1>5 DEF Order, Range
<1> QED BY <1>3, <1>6, <1>7 DEF t, n

-----------------------------------------------------------------------------
(* The invariant: what is held is counted, what is counted lives, and iterate *)
(* goes over a vector that stays and makes one that no one else can name.     *)

Walks == [over : Vectors, pos : 1..MaxSize, arg : Obj \cup {NULL}, result : Vectors, moved : BOOLEAN]

DataTypes ==
  /\ live \in SUBSET (Obj \cup Vectors) /\ named \in SUBSET live
  /\ REF \in [Obj -> Nat] /\ contained \in [Obj -> Nat] /\ lost \in [Obj -> Nat]
  /\ dico \in [Dico -> Obj \cup {NULL}] /\ fault \in BOOLEAN

Stored ==
  /\ Short(vec)
  /\ \A v \in Vectors : Len(vec[v].data) <= vec[v].cap /\ (v \notin live => vec[v] = Empty)

Walking ==
  /\ walk \in Walks
  /\ walk.over \in named /\ walk.result \in live \ named
  /\ Len(vec[walk.result].data) < walk.pos
  /\ walk.arg = NULL => walk.pos <= Len(vec[walk.over].data)

WalkOK == walk = NoWalk \/ Walking

Kept ==
  /\ \A v \in Vectors : Range(vec[v].data) \subseteq live
  /\ Range(dico) \subseteq live \cup {NULL} /\ walk.arg \in live \cup {NULL}

\* The references besides those of vectors, of the dictionary and those lost.
Due(o) == Once(o \in named) + Once(o = walk.arg)

Exact ==
  \A o \in Numbers :
    contained[o] = Within(o) + lost[o] /\ REF[o] = contained[o] + Due(o)

DataInv == DataTypes /\ Stored /\ WalkOK /\ Kept /\ Exact

LEMMA NullIs == NULL \notin Obj /\ NULL \notin Vectors /\ \A v \in Vectors : v \notin Obj
BY DataAssumption

LEMMA EmptyIs == Empty \in Storage /\ Empty.data = <<>> /\ Empty.cap = 0 /\ Len(Empty.data) = 0
BY DEF Empty, Storage

LEMMA NoWalkIs == NoWalk \notin Walks /\ NoWalk.arg = NULL /\ NoWalk.over = NULL /\ NoWalk.result = NULL
BY NullIs DEF NoWalk, Walks

Keys(d, o) == {k \in Dico : d[k] = o}

LEMMA KeysType ==
  ASSUME NEW d, NEW o
  PROVE  IsFiniteSet(Keys(d, o)) /\ Cardinality(Keys(d, o)) \in Nat
<1>1. IsFiniteSet(Dico) /\ Keys(d, o) \in SUBSET Dico
  BY DataAssumption DEF Keys
<1>2. IsFiniteSet(Keys(d, o))
  BY <1>1, FS_Subset
<1> QED BY <1>2, FS_CardinalityType

LEMMA WithinIs ==
  /\ \A o : Within(o) = Sum(vec, Vectors, o) + Cardinality(Keys(dico, o))
  /\ \A o : Sum(vec, Vectors, o) \in Nat /\ Cardinality(Keys(dico, o)) \in Nat /\ Within(o) \in Nat
<1>1. \A o : Within(o) = Sum(vec, Vectors, o) + Cardinality(Keys(dico, o))
  BY DEF Within, Sum, At, Held, Keys
<1>2. \A o : Sum(vec, Vectors, o) \in Nat /\ Cardinality(Keys(dico, o)) \in Nat
  BY SumType, KeysType
<1> QED BY <1>1, <1>2

LEMMA WithinIsPrime ==
  /\ \A o : Within(o)' = Sum(vec', Vectors, o) + Cardinality(Keys(dico', o))
  /\ \A o : Sum(vec', Vectors, o) \in Nat /\ Cardinality(Keys(dico', o)) \in Nat /\ Within(o)' \in Nat
<1>1. \A o : Within(o)' = Sum(vec', Vectors, o) + Cardinality(Keys(dico', o))
  BY DEF Within, Sum, At, Held, Keys
<1>2. \A o : Sum(vec', Vectors, o) \in Nat /\ Cardinality(Keys(dico', o)) \in Nat
  BY SumType, KeysType
<1> QED BY <1>1, <1>2

LEMMA WithinSame ==
  ASSUME vec' = vec, dico' = dico
  PROVE  \A o : Within(o)' = Within(o)
BY WithinIs, WithinIsPrime

\* A vector gets another storage.
LEMMA WithinPut ==
  ASSUME Short(vec), NEW v \in Vectors, NEW b \in Storage, Len(b.data) <= MaxSize,
         vec' = [vec EXCEPT ![v] = b], dico' = dico
  PROVE  /\ Short(vec')
         /\ \A o : Within(o)' = Within(o) - Count(vec[v].data, o) + Count(b.data, o)
<1>1. Short(vec')
  BY DEF Short
<1>2. SUFFICES ASSUME NEW o
               PROVE  Within(o)' = Within(o) - Count(vec[v].data, o) + Count(b.data, o)
  BY <1>1
<1>3. Sum(vec', Vectors, o) = Sum(vec, Vectors, o) - Count(vec[v].data, o) + Count(b.data, o)
  <2>1. vec'[v] = b /\ \A w \in Vectors : w # v => vec'[w] = vec[w]
    BY DEF Short
  <2>2. Sum(vec', Vectors, o) = Sum(vec, Vectors, o) - Count(vec[v].data, o) + Count(vec'[v].data, o)
    <3> DEFINE F == vec
               G == vec'
               V == Vectors
    <3>1. Short(F) /\ Short(G) /\ V \in SUBSET Vectors /\ v \in V
      BY <1>1
    <3>2. \A w \in Vectors : w # v => G[w] = F[w]
      BY <2>1
    <3> HIDE DEF F, G, V
    <3>3. Sum(G, V, o) = Sum(F, V, o) - Count(F[v].data, o) + Count(G[v].data, o)
      BY <3>1, <3>2, SumPut
    <3> QED BY <3>3 DEF F, G, V
  <2> QED BY <2>1, <2>2
<1>4. vec[v].data \in Seq(Obj) /\ b.data \in Seq(Obj)
  BY DEF Short, Storage
<1>5. Count(vec[v].data, o) \in Nat /\ Count(b.data, o) \in Nat
  BY <1>4, CountType
<1>6. /\ Within(o) = Sum(vec, Vectors, o) + Cardinality(Keys(dico, o))
      /\ Within(o)' = Sum(vec', Vectors, o) + Cardinality(Keys(dico, o))
      /\ Sum(vec, Vectors, o) \in Nat /\ Cardinality(Keys(dico, o)) \in Nat
  BY WithinIs, WithinIsPrime
<1> QED BY <1>3, <1>5, <1>6

\* A key of the dictionary gets another value.
LEMMA WithinKey ==
  ASSUME dico \in [Dico -> Obj \cup {NULL}], NEW k \in Dico, NEW x \in Obj \cup {NULL},
         dico' = [dico EXCEPT ![k] = x], vec' = vec
  PROVE  \A o : Within(o)' = Within(o) - Once(dico[k] = o) + Once(x = o)
<1> SUFFICES ASSUME NEW o PROVE Within(o)' = Within(o) - Once(dico[k] = o) + Once(x = o)
  OBVIOUS
<1> DEFINE A == Keys(dico, o)
           B == Keys(dico', o)
           R == A \ {k}
<1>1. IsFiniteSet(A) /\ Cardinality(A) \in Nat
  BY KeysType
<1>2. IsFiniteSet(R) /\ Cardinality(R) = IF k \in A THEN Cardinality(A) - 1 ELSE Cardinality(A)
  BY <1>1, FS_RemoveElement
<1>3. k \in A <=> dico[k] = o
  BY DEF Keys
<1>4. Cardinality(R) = Cardinality(A) - Once(dico[k] = o)
  BY <1>1, <1>2, <1>3 DEF Once
<1>5. B = IF x = o THEN R \cup {k} ELSE R
  BY DEF Keys
<1>6. k \notin R
  OBVIOUS
<1>7. Cardinality(R) \in Nat
  BY <1>2, FS_CardinalityType
<1> HIDE DEF A, B, R
<1>8. Cardinality(R \cup {k}) = Cardinality(R) + 1
  BY <1>2, <1>6, FS_AddElement
<1>9. Cardinality(B) = Cardinality(R) + Once(x = o)
  BY <1>5, <1>7, <1>8 DEF Once
<1>10. Cardinality(B) = Cardinality(A) - Once(dico[k] = o) + Once(x = o)
  BY <1>4, <1>9
<1>11. Once(dico[k] = o) \in Nat /\ Once(x = o) \in Nat
  BY DEF Once
<1>12. /\ Within(o) = Sum(vec, Vectors, o) + Cardinality(A)
       /\ Within(o)' = Sum(vec, Vectors, o) + Cardinality(B)
       /\ Sum(vec, Vectors, o) \in Nat
  BY WithinIs, WithinIsPrime DEF A, B
<1> QED BY <1>1, <1>10, <1>11, <1>12

\* Held nowhere.
LEMMA WithinNothing ==
  ASSUME Short(vec), NEW o, \A v \in Vectors : o \notin Range(vec[v].data), o \notin Range(dico),
         DOMAIN dico = Dico
  PROVE  Within(o) = 0
<1>1. At(vec, Vectors, o) = {}
  BY DEF At, Range
<1>2. Keys(dico, o) = {}
  BY DEF Keys, Range
<1>3. Cardinality({}) = 0
  BY FS_EmptySet
<1> QED BY <1>1, <1>2, <1>3, WithinIs DEF Sum

\* What is held is counted.
LEMMA WithinSome ==
  ASSUME Short(vec'), DOMAIN dico' = Dico, NEW o, Within(o)' = 0
  PROVE  (\A v \in Vectors : o \notin Range(vec'[v].data)) /\ o \notin Range(dico')
<1>1. Sum(vec', Vectors, o) = 0 /\ Cardinality(Keys(dico', o)) = 0
  BY WithinIsPrime
<1>2. \A v \in Vectors : o \notin Range(vec'[v].data)
  BY <1>1, SumPositive
<1>3. Keys(dico', o) = {}
  BY <1>1, KeysType, FS_EmptySet
<1>4. o \notin Range(dico')
  BY <1>3 DEF Keys, Range
<1> QED BY <1>2, <1>4

(* A step gives up and takes references; the numbers whose last reference is  *)
(* given up may die.                                                          *)
Balanced ==
  /\ \A o \in Numbers :
       contained'[o] = Within(o)' + lost'[o] /\ REF'[o] = contained'[o] + Due(o)'
  /\ \A o \in Obj : o \notin live => REF'[o] = REF[o] /\ contained'[o] = contained[o]

HeldNow ==
  /\ \A v \in Vectors : Range(vec'[v].data) \subseteq live
  /\ Range(dico') \subseteq live \cup {NULL} /\ walk'.arg \in (live \cap Obj) \cup {NULL}
  /\ named' \cap Obj \subseteq live

Deaths ==
  /\ \A o \in Numbers : o \in live' \/ REF'[o] = 0
  /\ live' \cap Obj \subseteq live

LEMMA Settled ==
  ASSUME REF \in [Obj -> Nat], contained \in [Obj -> Nat], lost' \in [Obj -> Nat],
         REF' = [o \in Obj |-> REF'[o]], contained' = [o \in Obj |-> contained'[o]],
         Short(vec'), dico' \in [Dico -> Obj \cup {NULL}],
         Balanced, HeldNow, Deaths
  PROVE  /\ REF' \in [Obj -> Nat] /\ contained' \in [Obj -> Nat]
         /\ named' \cap Obj \subseteq live' /\ Kept' /\ Exact'
<1>1. \A o : Within(o)' \in Nat
  BY WithinIsPrime
<1>2. \A o : Due(o)' \in Nat /\ (Due(o)' = 0 => o \notin named' /\ o # walk'.arg)
  <2> QED BY DEF Due, Once
<1>3. \A o \in Obj : REF'[o] \in Nat /\ contained'[o] \in Nat
  <2> SUFFICES ASSUME NEW o \in Obj PROVE REF'[o] \in Nat /\ contained'[o] \in Nat
    OBVIOUS
  <2>1. CASE o \in live
    BY <1>1, <1>2, <2>1 DEF Balanced, Numbers
  <2>2. CASE o \notin live
    BY <2>2 DEF Balanced
  <2> QED BY <2>1, <2>2
<1>4. ASSUME NEW o \in Numbers, REF'[o] = 0 PROVE Within(o)' = 0 /\ o \notin named' /\ o # walk'.arg
  <2>1. o \in Obj
    BY DEF Numbers
  <2>2. contained'[o] = Within(o)' + lost'[o] /\ REF'[o] = contained'[o] + Due(o)'
    BY DEF Balanced
  <2>3. lost'[o] \in Nat /\ Within(o)' \in Nat /\ Due(o)' \in Nat
    BY <1>1, <1>2, <2>1
  <2>4. Within(o)' = 0 /\ Due(o)' = 0
    BY <1>4, <2>2, <2>3
  <2> QED BY <1>2, <2>4
<1>5. \A o \in Numbers : o \notin live' =>
        /\ \A v \in Vectors : o \notin Range(vec'[v].data)
        /\ o \notin Range(dico') /\ o \notin named' /\ o # walk'.arg
  <2> SUFFICES ASSUME NEW o \in Numbers, o \notin live'
               PROVE  /\ \A v \in Vectors : o \notin Range(vec'[v].data)
                      /\ o \notin Range(dico') /\ o \notin named' /\ o # walk'.arg
    OBVIOUS
  <2>1. Within(o)' = 0 /\ o \notin named' /\ o # walk'.arg
    BY <1>4 DEF Deaths
  <2>2. DOMAIN dico' = Dico
    OBVIOUS
  <2> QED BY <2>1, <2>2, WithinSome
<1>6. \A v \in Vectors : Range(vec'[v].data) \subseteq Obj
  BY DEF Short, Storage, Range
<1>7. Range(dico') \subseteq Obj \cup {NULL}
  BY DEF Range
<1>8. \A v \in Vectors : Range(vec'[v].data) \subseteq live'
  BY <1>5, <1>6 DEF HeldNow, Numbers
<1>9. Range(dico') \subseteq live' \cup {NULL}
  BY <1>5, <1>7 DEF HeldNow, Numbers
<1>10. named' \cap Obj \subseteq live'
  BY <1>5 DEF HeldNow, Numbers
<1>11. Exact'
  <2>1. \A o \in Numbers' : o \in Numbers
    BY DEF Deaths, Numbers
  <2> QED BY <2>1 DEF Exact, Balanced
<1>12. REF' \in [Obj -> Nat] /\ contained' \in [Obj -> Nat]
  BY <1>3
<1>13. walk'.arg \in live' \cup {NULL}
  BY <1>5 DEF HeldNow, Numbers
<1> QED BY <1>8, <1>9, <1>10, <1>11, <1>12, <1>13 DEF Kept

-----------------------------------------------------------------------------
(* The steps.                                                                 *)

LEMMA StoredPut ==
  ASSUME Stored, NEW v \in Vectors, NEW b \in Storage, Len(b.data) <= MaxSize, Len(b.data) <= b.cap,
         vec' = [vec EXCEPT ![v] = b],
         v \in live' \/ b = Empty, \A w \in Vectors : w # v /\ w \in live => w \in live'
  PROVE  /\ Stored' /\ vec'[v] = b /\ \A w \in Vectors : w # v => vec'[w] = vec[w]
<1>1. Short(vec) /\ \A w \in Vectors : Len(vec[w].data) <= vec[w].cap /\ (w \notin live => vec[w] = Empty)
  BY DEF Stored
<1>2. vec'[v] = b /\ \A w \in Vectors : w # v => vec'[w] = vec[w]
  BY <1>1 DEF Short
<1>3. Short(vec')
  BY <1>1, <1>2 DEF Short
<1>4. \A w \in Vectors : Len(vec'[w].data) <= vec'[w].cap /\ (w \notin live' => vec'[w] = Empty)
  BY <1>1, <1>2
<1> QED BY <1>2, <1>3, <1>4 DEF Stored

LEMMA StoredSame ==
  ASSUME Stored, vec' = vec, \A w \in Vectors : w \in live => w \in live'
  PROVE  Stored'
BY DEF Stored

\* iterate goes on with the same vectors.
LEMMA WalkSame ==
  ASSUME WalkOK, walk' = walk,
         walk # NoWalk =>
           /\ walk.over \in named' /\ walk.result \in live' \ named'
           /\ Len(vec'[walk.result].data) = Len(vec[walk.result].data)
           /\ walk.arg = NULL => Len(vec'[walk.over].data) = Len(vec[walk.over].data)
  PROVE  WalkOK'
<1>1. CASE walk = NoWalk
  BY <1>1 DEF WalkOK
<1>2. CASE walk # NoWalk
  <2>1. Walking
    BY <1>2 DEF WalkOK
  <2>2. Walking'
    BY <1>2, <2>1 DEF Walking
  <2> QED BY <2>2 DEF WalkOK
<1> QED BY <1>1, <1>2

LEMMA WalkFacts ==
  ASSUME WalkOK
  PROVE  walk # NoWalk => Walking /\ walk.over \in Vectors /\ walk.result \in Vectors /\ walk.over # walk.result
BY DEF WalkOK, Walking, Walks

LEMMA UsableFacts ==
  ASSUME DataTypes, WalkOK, NEW v \in Usable
  PROVE  v \in Vectors /\ v \in live /\ v \in named /\ (walk # NoWalk => v # walk.result)
BY DEF Usable, DataTypes, WalkOK, Walking

LEMMA Counted ==
  ASSUME NEW R \in [Obj -> Nat], NEW s
  PROVE  /\ \A o \in Obj : Plus(R, s)[o] = R[o] + Count(s, o)
         /\ \A o \in Obj : Minus(R, s)[o] = R[o] - Count(s, o)
BY DEF Plus, Minus

LEMMA NewStep ==
  ASSUME DataInv, NEW o \in Obj, New(o)
  PROVE  DataInv'
<1>1. DataTypes /\ Stored /\ WalkOK /\ Kept /\ Exact /\ o \notin live /\ lost[o] = 0
  BY DEF DataInv, New
<1>2. /\ live' = live \cup {o} /\ named' = named /\ vec' = vec /\ dico' = dico /\ walk' = walk
      /\ lost' = lost /\ fault' = fault
      /\ REF' = [REF EXCEPT ![o] = 0] /\ contained' = [contained EXCEPT ![o] = 0]
  BY DEF New
<1>3. DataTypes'
  BY <1>1, <1>2 DEF DataTypes
<1>4. Stored' /\ Kept'
  BY <1>1, <1>2, StoredSame DEF Kept
<1>5. WalkOK'
  <2>1. walk # NoWalk => walk.over \in named' /\ walk.result \in live' \ named'
    BY <1>1, <1>2 DEF WalkOK, Walking
  <2> QED BY <1>1, <1>2, <2>1, WalkSame
<1>6. Within(o) = 0
  <2>1. Short(vec) /\ DOMAIN dico = Dico /\ o # NULL
    BY <1>1, NullIs DEF Stored, DataTypes
  <2>2. (\A v \in Vectors : o \notin Range(vec[v].data)) /\ o \notin Range(dico)
    BY <1>1, <2>1 DEF Kept
  <2> QED BY <2>1, <2>2, WithinNothing
<1>7. o \notin named /\ o # walk.arg
  BY <1>1, NullIs DEF DataTypes, Kept
<1>8. \A p \in Obj : Within(p)' = Within(p) /\ Due(p)' = Due(p)
  BY <1>2, WithinSame DEF Due
<1>9. Due(o) = 0
  BY <1>7 DEF Due, Once
<1>10. Exact'
  <2> SUFFICES ASSUME NEW p \in Numbers'
               PROVE  contained'[p] = Within(p)' + lost'[p] /\ REF'[p] = contained'[p] + Due(p)'
    BY DEF Exact
  <2>1. p \in Obj /\ (p = o \/ (p # o /\ p \in Numbers))
    BY <1>2 DEF Numbers
  <2>2. CASE p = o
    BY <1>1, <1>2, <1>6, <1>8, <1>9, <2>2 DEF DataTypes
  <2>3. CASE p # o /\ p \in Numbers
    <3>1. contained'[p] = contained[p] /\ REF'[p] = REF[p] /\ lost'[p] = lost[p]
      BY <1>1, <1>2, <2>1, <2>3 DEF DataTypes
    <3> QED BY <1>1, <1>8, <2>1, <2>3, <3>1 DEF Exact
  <2> QED BY <2>1, <2>2, <2>3
<1> QED BY <1>3, <1>4, <1>5, <1>10 DEF DataInv

\* What the steps that only change counts, elements and keys leave to show.
LEMMA StepDone ==
  ASSUME DataInv, live' \in SUBSET (Obj \cup Vectors), named' \in SUBSET live',
         REF' = [o \in Obj |-> REF'[o]], contained' = [o \in Obj |-> contained'[o]],
         lost' \in [Obj -> Nat], dico' \in [Dico -> Obj \cup {NULL}], fault' \in BOOLEAN,
         Stored', WalkOK', Balanced, HeldNow, Deaths
  PROVE  DataInv'
<1>1. REF \in [Obj -> Nat] /\ contained \in [Obj -> Nat] /\ Short(vec')
  BY DEF DataInv, DataTypes, Stored
<1>2. REF' \in [Obj -> Nat] /\ contained' \in [Obj -> Nat] /\ Kept' /\ Exact'
  BY <1>1, Settled
<1>3. DataTypes'
  BY <1>2 DEF DataTypes
<1> QED BY <1>2, <1>3 DEF DataInv

LEMMA Parts ==
  ASSUME DataInv
  PROVE  /\ DataTypes /\ Stored /\ WalkOK /\ Kept /\ Exact
         /\ live \in SUBSET (Obj \cup Vectors) /\ named \in SUBSET live
         /\ REF \in [Obj -> Nat] /\ contained \in [Obj -> Nat] /\ lost \in [Obj -> Nat]
         /\ dico \in [Dico -> Obj \cup {NULL}] /\ fault \in BOOLEAN /\ Short(vec)
BY DEF DataInv, DataTypes, Stored

LEMMA ArgIs ==
  ASSUME DataInv
  PROVE  walk.arg \in (live \cap Obj) \cup {NULL}
<1>1. WalkOK /\ Kept
  BY DEF DataInv
<1>2. walk.arg \in Obj \cup {NULL}
  BY <1>1, NoWalkIs DEF WalkOK, Walking, Walks
<1> QED BY <1>1, <1>2 DEF Kept

\* The vectors and what calls refer to are as they were.
LEMMA SameHeld ==
  ASSUME DataInv, vec' = vec, dico' = dico, walk' = walk, named' \cap Obj \subseteq live
  PROVE  HeldNow
BY ArgIs DEF DataInv, Kept, HeldNow

LEMMA NameStep ==
  ASSUME DataInv, NEW o \in Obj, Name(o)
  PROVE  DataInv'
<1>1. o \in live /\ o \notin named /\ named' = named \cup {o} /\ REF' = [REF EXCEPT ![o] = @ + 1]
  BY DEF Name, Numbers
<1>2. /\ live' = live /\ contained' = contained /\ vec' = vec /\ dico' = dico /\ walk' = walk
      /\ lost' = lost /\ fault' = fault
  BY DEF Name
<1>3. /\ REF' = [p \in Obj |-> REF'[p]] /\ contained' = [p \in Obj |-> contained'[p]]
      /\ \A p \in Obj : REF'[p] = REF[p] + Once(p = o)
  <2>1. REF \in [Obj -> Nat] /\ contained \in [Obj -> Nat]
    BY Parts
  <2>2. REF'[o] = REF[o] + 1 /\ \A p \in Obj : p # o => REF'[p] = REF[p]
    BY <1>1, <2>1
  <2>3. \A p \in Obj : REF'[p] = REF[p] + Once(p = o)
    BY <2>1, <2>2 DEF Once
  <2>4. REF' = [p \in Obj |-> REF'[p]]
    BY <1>1, <2>1
  <2>5. contained' = [p \in Obj |-> contained'[p]]
    BY <1>2, <2>1
  <2> QED BY <2>3, <2>4, <2>5
<1>4. Balanced
  <2>1. ASSUME NEW p \in Numbers
        PROVE  contained'[p] = Within(p)' + lost'[p] /\ REF'[p] = contained'[p] + Due(p)'
    <3>1. p \in Obj
      BY DEF Numbers
    <3>2. Within(p)' = Within(p) /\ contained[p] = Within(p) + lost[p] /\ REF[p] = contained[p] + Due(p)
      BY <1>2, <2>1, WithinSame, Parts DEF Exact
    <3>3. Due(p)' = Due(p) + Once(p = o)
      BY <1>1, <1>2 DEF Due, Once
    <3>4. contained[p] \in Nat /\ Due(p) \in Nat /\ Once(p = o) \in Nat
      BY <3>1, Parts DEF Due, Once
    <3> QED BY <1>2, <1>3, <3>1, <3>2, <3>3, <3>4
  <2>2. ASSUME NEW p \in Obj, p \notin live PROVE REF'[p] = REF[p] /\ contained'[p] = contained[p]
    BY <1>1, <1>2, <2>2, Parts
  <2> QED BY <2>1, <2>2 DEF Balanced
<1>5. HeldNow
  BY <1>1, <1>2, SameHeld, Parts
<1>6. Deaths
  BY <1>2 DEF Deaths, Numbers
<1>7. Stored'
  BY <1>2, StoredSame, Parts
<1>8. WalkOK'
  <2>1. walk # NoWalk => walk.over \in named' /\ walk.result \in live' \ named'
    BY <1>1, <1>2, NullIs, Parts DEF WalkOK, Walking, Walks
  <2> QED BY <1>2, <2>1, WalkSame, Parts
<1> QED BY <1>1, <1>2, <1>3, <1>4, <1>5, <1>6, <1>7, <1>8, StepDone, Parts

LEMMA ForgetStep ==
  ASSUME DataInv, NEW o \in Obj, Forget(o)
  PROVE  DataInv'
<1>1. o \in live /\ o \in named /\ named' = named \ {o} /\ REF' = [REF EXCEPT ![o] = @ - 1]
  BY DEF Forget, Numbers
<1>2. /\ contained' = contained /\ vec' = vec /\ dico' = dico /\ walk' = walk
      /\ lost' = lost /\ fault' = fault /\ (live' = live \/ (live' = live \ {o} /\ REF[o] = 1))
  BY DEF Forget
<1>3. /\ REF' = [p \in Obj |-> REF'[p]] /\ contained' = [p \in Obj |-> contained'[p]]
      /\ \A p \in Obj : REF'[p] = REF[p] - Once(p = o)
  <2>1. REF \in [Obj -> Nat] /\ contained \in [Obj -> Nat]
    BY Parts
  <2>2. REF'[o] = REF[o] - 1 /\ \A p \in Obj : p # o => REF'[p] = REF[p]
    BY <1>1, <2>1
  <2>3. \A p \in Obj : REF'[p] = REF[p] - Once(p = o)
    BY <2>1, <2>2 DEF Once
  <2>4. REF' = [p \in Obj |-> REF'[p]]
    BY <1>1, <2>1
  <2>5. contained' = [p \in Obj |-> contained'[p]]
    BY <1>2, <2>1
  <2> QED BY <2>3, <2>4, <2>5
<1>4. Balanced
  <2>1. ASSUME NEW p \in Numbers
        PROVE  contained'[p] = Within(p)' + lost'[p] /\ REF'[p] = contained'[p] + Due(p)'
    <3>1. p \in Obj
      BY DEF Numbers
    <3>2. Within(p)' = Within(p) /\ contained[p] = Within(p) + lost[p] /\ REF[p] = contained[p] + Due(p)
      BY <1>2, <2>1, WithinSame, Parts DEF Exact
    <3>3. Due(p)' = Due(p) - Once(p = o)
      BY <1>1, <1>2 DEF Due, Once
    <3>4. contained[p] \in Nat /\ Due(p) \in Nat /\ Once(p = o) \in Nat
      BY <3>1, Parts DEF Due, Once
    <3> QED BY <1>2, <1>3, <3>1, <3>2, <3>3, <3>4
  <2>2. ASSUME NEW p \in Obj, p \notin live PROVE REF'[p] = REF[p] /\ contained'[p] = contained[p]
    BY <1>1, <1>2, <2>2, Parts
  <2> QED BY <2>1, <2>2 DEF Balanced
<1>5. HeldNow
  BY <1>1, <1>2, SameHeld, Parts
<1>6. Deaths
  BY <1>1, <1>2, Parts DEF Deaths, Numbers
<1>7. Stored'
  BY <1>2, StoredSame, NullIs, Parts
<1>8. WalkOK'
  <2>1. walk # NoWalk => walk.over \in named' /\ walk.result \in live' \ named'
    BY <1>1, <1>2, NullIs, Parts DEF WalkOK, Walking, Walks
  <2> QED BY <1>2, <2>1, WalkSame, Parts
<1>9. live' \in SUBSET (Obj \cup Vectors) /\ named' \in SUBSET live'
  BY <1>1, <1>2, Parts
<1> QED BY <1>1, <1>2, <1>3, <1>4, <1>5, <1>6, <1>7, <1>8, <1>9, StepDone, Parts

\* A new vector with counted elements: NewVector and Clone.
LEMMA MadeStep ==
  ASSUME DataInv, NEW v \in Vectors, v \notin live, NEW b \in Storage,
         Len(b.data) <= MaxSize, Len(b.data) <= b.cap, Range(b.data) \subseteq live,
         live' = live \cup {v}, named' = named \cup {v}, vec' = [vec EXCEPT ![v] = b],
         REF' = Plus(REF, b.data), contained' = Plus(contained, b.data),
         dico' = dico, walk' = walk, lost' = lost, fault' = fault
  PROVE  DataInv'
<1>1. Stored' /\ vec'[v] = b /\ \A w \in Vectors : w # v => vec'[w] = vec[w]
  BY StoredPut, Parts
<1>2. vec[v].data = <<>> /\ b.data \in Seq(Obj)
  BY EmptyIs, Parts DEF Stored, Storage
<1>3. /\ REF' = [p \in Obj |-> REF'[p]] /\ contained' = [p \in Obj |-> contained'[p]]
      /\ \A p \in Obj : REF'[p] = REF[p] + Count(b.data, p)
      /\ \A p \in Obj : contained'[p] = contained[p] + Count(b.data, p)
  BY Parts DEF Plus
<1>4. \A p : Within(p)' = Within(p) + Count(b.data, p)
  <2> TAKE p
  <2>1. Within(p)' = Within(p) - Count(vec[v].data, p) + Count(b.data, p)
    BY WithinPut, Parts
  <2>2. Count(vec[v].data, p) = 0
    BY <1>2, CountNone
  <2> QED BY <1>2, <2>1, <2>2, WithinIs, CountType
<1>5. Balanced
  <2>1. ASSUME NEW p \in Numbers
        PROVE  contained'[p] = Within(p)' + lost'[p] /\ REF'[p] = contained'[p] + Due(p)'
    <3>1. p \in Obj /\ p # v
      BY NullIs DEF Numbers
    <3>2. contained[p] = Within(p) + lost[p] /\ REF[p] = contained[p] + Due(p)
      BY <2>1, Parts DEF Exact
    <3>3. Due(p)' = Due(p)
      BY <3>1 DEF Due
    <3>4. contained[p] \in Nat /\ Due(p) \in Nat /\ Count(b.data, p) \in Nat /\ Within(p) \in Nat /\ lost[p] \in Nat
      BY <1>2, <3>1, WithinIs, CountType, Parts DEF Due, Once
    <3> QED BY <1>3, <1>4, <3>1, <3>2, <3>3, <3>4
  <2>2. ASSUME NEW p \in Obj, p \notin live PROVE REF'[p] = REF[p] /\ contained'[p] = contained[p]
    <3>1. Count(b.data, p) = 0
      BY <1>2, <2>2, CountType
    <3> QED BY <1>3, <3>1, Parts
  <2> QED BY <2>1, <2>2 DEF Balanced
<1>6. HeldNow
  <2>1. \A w \in Vectors : Range(vec'[w].data) \subseteq live
    BY <1>1, Parts DEF Kept
  <2>2. named' \cap Obj \subseteq live
    BY NullIs, Parts
  <2> QED BY <2>1, <2>2, ArgIs, Parts DEF HeldNow, Kept
<1>7. Deaths
  BY NullIs DEF Deaths, Numbers
<1>8. WalkOK'
  <2>1. walk # NoWalk =>
          /\ walk.over \in named' /\ walk.result \in live' \ named'
          /\ vec'[walk.result] = vec[walk.result] /\ vec'[walk.over] = vec[walk.over]
    BY <1>1, WalkFacts, Parts DEF Walking
  <2> QED BY <2>1, WalkSame, Parts
<1>9. live' \in SUBSET (Obj \cup Vectors) /\ named' \in SUBSET live'
  BY Parts
<1> QED BY <1>1, <1>3, <1>5, <1>6, <1>7, <1>8, <1>9, StepDone, Parts

LEMMA NewVectorStep ==
  ASSUME DataInv, NEW v \in Vectors, NEW s \in BoundedSeq(Obj, MaxSize), NewVector(v, s)
  PROVE  DataInv'
<1>1. s \in Seq(Obj) /\ Len(s) <= MaxSize
  BY DataAssumption DEF BoundedSeq, SeqOf
<1> DEFINE b == [data |-> s, cap |-> Len(s)]
<1>2. b \in Storage /\ b.data = s /\ b.cap = Len(s)
  BY <1>1 DEF Storage
<1>3. Range(s) \subseteq live
  BY DEF NewVector, Numbers
<1>4. /\ v \notin live /\ live' = live \cup {v} /\ named' = named \cup {v} /\ vec' = [vec EXCEPT ![v] = b]
      /\ REF' = Plus(REF, s) /\ contained' = Plus(contained, s)
      /\ dico' = dico /\ walk' = walk /\ lost' = lost /\ fault' = fault
  BY DEF NewVector, Add
<1>5. Len(s) <= Len(s)
  BY <1>1
<1> HIDE DEF b
<1> QED BY <1>1, <1>2, <1>3, <1>4, <1>5, MadeStep

LEMMA CloneStep ==
  ASSUME DataInv, NEW v \in Vectors, NEW w \in Vectors, Clone(v, w)
  PROVE  DataInv'
<1> DEFINE s == vec[v].data
           b == Filled(s)
<1>1. s \in Seq(Obj) /\ Len(s) <= MaxSize /\ Range(s) \subseteq live
  BY Parts DEF Short, Storage, Kept
<1>2. b \in Storage /\ b.data = s /\ Len(s) <= b.cap
  <2> HIDE DEF s
  <2> QED BY <1>1, FilledIs
<1>3. /\ w \notin live /\ live' = live \cup {w} /\ named' = named \cup {w} /\ vec' = [vec EXCEPT ![w] = b]
      /\ REF' = Plus(REF, s) /\ contained' = Plus(contained, s)
      /\ dico' = dico /\ walk' = walk /\ lost' = lost /\ fault' = fault
  BY DEF Clone, Add
<1> HIDE DEF b, s
<1> QED BY <1>1, <1>2, <1>3, MadeStep

\* As StepDone, where the names of numbers follow from the counts.
LEMMA StepSettled ==
  ASSUME DataInv, live' \in SUBSET (Obj \cup Vectors), named' \in SUBSET (Obj \cup Vectors),
         named' \cap Vectors \subseteq live',
         REF' = [o \in Obj |-> REF'[o]], contained' = [o \in Obj |-> contained'[o]],
         lost' \in [Obj -> Nat], dico' \in [Dico -> Obj \cup {NULL}], fault' \in BOOLEAN,
         Stored', WalkOK', Balanced, HeldNow, Deaths
  PROVE  DataInv'
<1>1. REF \in [Obj -> Nat] /\ contained \in [Obj -> Nat] /\ Short(vec')
  BY DEF DataInv, DataTypes, Stored
<1>2. named' \cap Obj \subseteq live'
  BY <1>1, Settled
<1>3. named' \in SUBSET live'
  BY <1>2
<1> QED BY <1>3, StepDone

\* One vector gets another storage, of numbers that live.
Puts(v, b) ==
  /\ v \in Vectors /\ b \in Storage /\ Len(b.data) <= MaxSize /\ Len(b.data) <= b.cap
  /\ Range(b.data) \subseteq live /\ vec' = [vec EXCEPT ![v] = b] /\ dico' = dico
  /\ v \in live' \/ b = Empty
  /\ \A w \in Vectors : w # v /\ w \in live => w \in live'

\* The counts follow the elements, the argument and what is lost.
Follows(v, b) ==
  \A p \in Obj :
    /\ contained'[p] = contained[p] - Count(vec[v].data, p) + Count(b.data, p) + (lost'[p] - lost[p])
    /\ REF'[p] = REF[p] + (contained'[p] - contained[p]) - Once(p = walk.arg) + Once(p = walk'.arg)

LEMMA PutAccounts ==
  ASSUME DataInv, NEW v, NEW b, Puts(v, b), Follows(v, b), lost' \in [Obj -> Nat],
         \A p \in Obj : p \notin live => lost'[p] = lost[p],
         walk'.arg \in (live \cap Obj) \cup {NULL}, named' \cap Obj = named \cap Obj
  PROVE  Balanced
<1>1. /\ v \in Vectors /\ b \in Storage /\ vec[v].data \in Seq(Obj) /\ b.data \in Seq(Obj)
      /\ Range(b.data) \subseteq live /\ Range(vec[v].data) \subseteq live
  BY Parts DEF Puts, Storage, Short, Kept
<1>2. ASSUME NEW p PROVE Within(p)' = Within(p) - Count(vec[v].data, p) + Count(b.data, p)
  BY WithinPut, Parts DEF Puts
<1>3. ASSUME NEW p \in Numbers
      PROVE  contained'[p] = Within(p)' + lost'[p] /\ REF'[p] = contained'[p] + Due(p)'
  <2>1. p \in Obj
    BY DEF Numbers
  <2>2. contained[p] = Within(p) + lost[p] /\ REF[p] = contained[p] + Due(p)
    BY <1>3, Parts DEF Exact
  <2>3. Due(p)' = Due(p) - Once(p = walk.arg) + Once(p = walk'.arg)
    <3>1. p \in named' <=> p \in named
      BY <2>1
    <3>2. Once(p \in named') = Once(p \in named)
      BY <3>1 DEF Once
    <3>3. Once(p \in named) \in Nat /\ Once(p = walk.arg) \in Nat /\ Once(p = walk'.arg) \in Nat
      BY DEF Once
    <3> QED BY <3>2, <3>3 DEF Due
  <2>4. Count(vec[v].data, p) \in Nat /\ Count(b.data, p) \in Nat
    BY <1>1, CountType
  <2>5. Within(p) \in Nat
    BY WithinIs
  <2>6. contained[p] \in Nat /\ REF[p] \in Nat /\ lost[p] \in Nat /\ lost'[p] \in Nat
    BY <2>1, Parts
  <2>7. Due(p) \in Nat /\ Once(p = walk.arg) \in Nat /\ Once(p = walk'.arg) \in Nat
    BY DEF Due, Once
  <2>8. /\ contained'[p] = contained[p] - Count(vec[v].data, p) + Count(b.data, p) + (lost'[p] - lost[p])
        /\ REF'[p] = REF[p] + (contained'[p] - contained[p]) - Once(p = walk.arg) + Once(p = walk'.arg)
    BY <2>1 DEF Follows
  <2>9. contained'[p] = Within(p)' + lost'[p]
    BY <1>2, <2>2, <2>4, <2>5, <2>6, <2>8
  <2>10. contained'[p] \in Int
    BY <2>4, <2>6, <2>8
  <2> QED BY <2>2, <2>3, <2>6, <2>7, <2>8, <2>9, <2>10
<1>4. ASSUME NEW p \in Obj, p \notin live PROVE REF'[p] = REF[p] /\ contained'[p] = contained[p]
  <2>1. Count(vec[v].data, p) = 0 /\ Count(b.data, p) = 0
    BY <1>1, <1>4, CountType
  <2>2. lost'[p] = lost[p] /\ lost[p] \in Nat /\ contained[p] \in Nat /\ REF[p] \in Nat
    BY <1>4, Parts
  <2>3. Once(p = walk.arg) = 0 /\ Once(p = walk'.arg) = 0
    BY <1>4, ArgIs, NullIs DEF Once
  <2>4. contained'[p] = contained[p]
    BY <2>1, <2>2 DEF Follows
  <2> QED BY <2>2, <2>3, <2>4 DEF Follows
<1> QED BY <1>3, <1>4 DEF Balanced

LEMMA PutStep ==
  ASSUME DataInv, NEW v, NEW b, Puts(v, b), Follows(v, b), lost' \in [Obj -> Nat],
         \A p \in Obj : p \notin live => lost'[p] = lost[p],
         walk'.arg \in (live \cap Obj) \cup {NULL}, named' \cap Obj = named \cap Obj,
         live' \in SUBSET (Obj \cup Vectors), named' \in SUBSET (Obj \cup Vectors),
         named' \cap Vectors \subseteq live', fault' \in BOOLEAN,
         REF' = [o \in Obj |-> REF'[o]], contained' = [o \in Obj |-> contained'[o]],
         WalkOK', Deaths
  PROVE  DataInv'
<1>1. Stored' /\ vec'[v] = b /\ \A w \in Vectors : w # v => vec'[w] = vec[w]
  BY StoredPut, Parts DEF Puts
<1>2. Balanced
  BY PutAccounts
<1>3. HeldNow
  <2>1. \A w \in Vectors : Range(vec'[w].data) \subseteq live
    BY <1>1, Parts DEF Puts, Kept
  <2>2. dico' = dico
    BY DEF Puts
  <2>3. named' \cap Obj \subseteq live
    BY Parts
  <2> QED BY <2>1, <2>2, <2>3, Parts DEF HeldNow, Kept
<1>4. dico' \in [Dico -> Obj \cup {NULL}]
  BY Parts DEF Puts
<1> QED BY <1>1, <1>2, <1>3, <1>4, StepSettled

LEMMA VecFacts ==
  ASSUME DataInv, NEW v \in Vectors
  PROVE  /\ vec[v] \in Storage /\ vec[v].data \in Seq(Obj) /\ Len(vec[v].data) \in Nat
         /\ Len(vec[v].data) <= MaxSize /\ Len(vec[v].data) <= vec[v].cap
         /\ Range(vec[v].data) \subseteq live
BY Parts DEF Stored, Short, Storage, Kept

\* A walk goes on, whatever it says of its iterator.
LEMMA WalkOn ==
  ASSUME DataInv, NEW v, NEW b, Puts(v, b), v \in Usable, named' = named,
         \A w \in Vectors : w \in live => w \in live',
         walk = NoWalk => walk' = NoWalk,
         walk # NoWalk =>
           /\ walk' \in Walks /\ walk'.over = walk.over /\ walk'.pos = walk.pos
           /\ walk'.arg = walk.arg /\ walk'.result = walk.result,
         Len(b.data) = Len(vec[v].data) \/ walk = NoWalk \/ walk.arg # NULL
  PROVE  WalkOK'
<1>1. CASE walk = NoWalk
  BY <1>1 DEF WalkOK
<1>2. CASE walk # NoWalk
  <2>1. Walking /\ walk.over \in Vectors /\ walk.result \in Vectors /\ v \in Vectors /\ v # walk.result
    BY <1>2, WalkFacts, UsableFacts, Parts
  <2>2. vec'[v] = b /\ \A w \in Vectors : w # v => vec'[w] = vec[w]
    BY <2>1, StoredPut, Parts DEF Puts
  <2>3. vec'[walk.result] = vec[walk.result]
    BY <2>1, <2>2
  <2>4. walk.arg = NULL => Len(vec'[walk.over].data) = Len(vec[walk.over].data)
    BY <1>2, <2>1, <2>2
  <2>5. Walking'
    BY <1>2, <2>1, <2>3, <2>4 DEF Walking
  <2> QED BY <2>5 DEF WalkOK
<1> QED BY <1>1, <1>2

LEMMA WalkStays ==
  ASSUME DataInv, walk' = walk
  PROVE  /\ walk = NoWalk => walk' = NoWalk
         /\ walk # NoWalk =>
              /\ walk' \in Walks /\ walk'.over = walk.over /\ walk'.pos = walk.pos
              /\ walk'.arg = walk.arg /\ walk'.result = walk.result
BY Parts DEF WalkOK, Walking

LEMMA VAppendStep ==
  ASSUME DataInv, NEW v \in Vectors, NEW o \in Obj, VAppend(v, o)
  PROVE  DataInv'
<1> DEFINE b == Pushed(vec[v], o)
<1>1. /\ v \in Usable /\ o \in live /\ (walk = NoWalk \/ walk.arg # NULL) /\ Len(vec[v].data) < MaxSize
      /\ vec' = [vec EXCEPT ![v] = b]
      /\ REF' = Plus(REF, <<o>>) /\ contained' = Plus(contained, <<o>>)
      /\ live' = live /\ named' = named /\ dico' = dico /\ lost' = lost /\ fault' = fault
  BY DEF VAppend, Add, May, Numbers
<1>2. b \in Storage /\ b.data = Append(vec[v].data, o) /\ Len(b.data) <= b.cap
      /\ Len(b.data) = Len(vec[v].data) + 1
  BY VecFacts, PushedIs
<1>3. Range(b.data) \subseteq live
  <2>1. vec[v].data \in Seq(Obj) /\ Range(vec[v].data) \subseteq live
    BY VecFacts
  <2>2. \A i \in DOMAIN b.data : b.data[i] = o \/ (i \in DOMAIN vec[v].data /\ b.data[i] = vec[v].data[i])
    BY <1>2, <2>1
  <2> QED BY <1>1, <2>1, <2>2 DEF Range
<1>4. walk' = walk \/ (walk.over = v /\ walk' = [walk EXCEPT !.moved = TRUE])
  BY DEF VAppend
<1>5. walk = NoWalk => walk' = NoWalk
  BY <1>4, NullIs, NoWalkIs
<1>6. walk # NoWalk =>
        /\ walk' \in Walks /\ walk'.over = walk.over /\ walk'.pos = walk.pos
        /\ walk'.arg = walk.arg /\ walk'.result = walk.result
  BY <1>4, Parts DEF WalkOK, Walking, Walks
<1>7. walk'.arg = walk.arg
  BY <1>5, <1>6
<1>8. \A p : Count(b.data, p) = Count(vec[v].data, p) + Once(o = p) /\ Count(<<o>>, p) = Once(o = p)
  <2>1. vec[v].data \in Seq(Obj)
    BY VecFacts
  <2> QED BY <1>2, <2>1, CountAppend, CountOne
<1> HIDE DEF b
<1>9. Puts(v, b)
  <2>1. v \in live'
    BY <1>1, UsableFacts, Parts
  <2>2. Len(b.data) <= MaxSize
    BY <1>1, <1>2, VecFacts, DataAssumption
  <2> QED BY <1>1, <1>2, <1>3, <2>1, <2>2 DEF Puts
<1>10. /\ REF' = [p \in Obj |-> REF'[p]] /\ contained' = [p \in Obj |-> contained'[p]]
       /\ \A p \in Obj : REF'[p] = REF[p] + Once(o = p) /\ contained'[p] = contained[p] + Once(o = p)
  BY <1>1, <1>8, Parts DEF Plus
<1>11. Follows(v, b)
  <2> SUFFICES ASSUME NEW p \in Obj
               PROVE  /\ contained'[p] = contained[p] - Count(vec[v].data, p) + Count(b.data, p) + (lost'[p] - lost[p])
                      /\ REF'[p] = REF[p] + (contained'[p] - contained[p]) - Once(p = walk.arg) + Once(p = walk'.arg)
    BY DEF Follows
  <2>1. /\ contained[p] \in Nat /\ REF[p] \in Nat /\ lost[p] \in Nat /\ lost'[p] = lost[p]
        /\ Count(vec[v].data, p) \in Nat /\ Once(o = p) \in Nat
        /\ Once(p = walk.arg) = Once(p = walk'.arg) /\ Once(p = walk.arg) \in Nat
    BY <1>1, <1>7, VecFacts, CountType, Parts DEF Once
  <2> QED BY <1>8, <1>10, <2>1
<1>12. Deaths
  BY <1>1 DEF Deaths, Numbers
<1>13. WalkOK'
  BY <1>1, <1>5, <1>6, <1>9, WalkOn
<1>14. walk'.arg \in (live \cap Obj) \cup {NULL}
  BY <1>7, ArgIs
<1> QED BY <1>1, <1>9, <1>10, <1>11, <1>12, <1>13, <1>14, PutStep, Parts

LEMMA VSetStep ==
  ASSUME DataInv, NEW v \in Vectors, NEW i \in 1..MaxSize, NEW o \in Obj, VSet(v, i, o)
  PROVE  DataInv'
<1> DEFINE s == vec[v].data
           old == s[i]
           t == [s EXCEPT ![i] = o]
           b == [vec[v] EXCEPT !.data = t]
<1>1. /\ v \in Usable /\ o \in live /\ i \in DOMAIN s
      /\ vec' = [vec EXCEPT ![v].data[i] = o]
      /\ REF' = Plus(Minus(REF, <<old>>), <<o>>) /\ contained' = Plus(Minus(contained, <<old>>), <<o>>)
      /\ live' = IF REF'[old] = 0 THEN live \ {old} ELSE live
      /\ named' = named /\ dico' = dico /\ lost' = lost /\ fault' = fault /\ walk' = walk
  BY DEF VSet, Numbers
<1>2. vec[v] \in Storage /\ s \in Seq(Obj) /\ Len(s) <= MaxSize /\ Len(s) <= vec[v].cap /\ Range(s) \subseteq live
  BY VecFacts
<1>3. t \in Seq(Obj) /\ Len(t) = Len(s) /\ t[i] = o /\ \A j \in DOMAIN s : j # i => t[j] = s[j]
  BY <1>1, <1>2
<1>4. b \in Storage /\ b.data = t /\ b.cap = vec[v].cap
  <2> HIDE DEF t
  <2> QED BY <1>2, <1>3 DEF Storage
<1>5. vec' = [vec EXCEPT ![v] = b]
  BY <1>1, Parts DEF Short
<1>6. Range(t) \subseteq live
  <2>1. DOMAIN t = DOMAIN s
    BY <1>2
  <2> HIDE DEF t
  <2>2. \A j \in DOMAIN t : t[j] = o \/ (j \in DOMAIN s /\ t[j] = s[j])
    BY <1>3, <2>1
  <2> QED BY <1>1, <1>2, <2>2 DEF Range
<1>7. old \in Obj /\ old \in live
  BY <1>1, <1>2 DEF Range
<1> HIDE DEF s, t, b
<1>8. \A p : Count(t, p) = Count(s, p) - Once(old = p) + Once(o = p)
             /\ Count(<<o>>, p) = Once(o = p) /\ Count(<<old>>, p) = Once(old = p)
  <2> HIDE DEF old
  <2>1. \A p : Count(<<o>>, p) = Once(o = p) /\ Count(<<old>>, p) = Once(old = p)
    BY <1>7, CountOne
  <2>2. ASSUME NEW p PROVE Count(t, p) = Count(s, p) - Once(s[i] = p) + Once(o = p)
    <3>1. s \in Seq(Obj) /\ i \in DOMAIN s /\ o \in Obj
      BY <1>1, <1>2
    <3>2. t \in Seq(Obj) /\ Len(t) = Len(s) /\ t[i] = o
      BY <1>3
    <3>3. \A j \in DOMAIN s : j # i => t[j] = s[j]
      BY <1>3
    <3> QED BY <3>1, <3>2, <3>3, CountPut
  <2> QED BY <2>1, <2>2 DEF old
<1> HIDE DEF old
<1>9. Puts(v, b)
  <2>1. v \in live'
    BY <1>1, <1>7, NullIs, UsableFacts, Parts
  <2>2. \A w \in Vectors : w \in live => w \in live'
    BY <1>1, <1>7, NullIs
  <2> QED BY <1>1, <1>2, <1>3, <1>4, <1>5, <1>6, <2>1, <2>2 DEF Puts
<1>10. /\ REF' = [p \in Obj |-> REF'[p]] /\ contained' = [p \in Obj |-> contained'[p]]
       /\ \A p \in Obj : REF'[p] = REF[p] - Once(old = p) + Once(o = p)
       /\ \A p \in Obj : contained'[p] = contained[p] - Once(old = p) + Once(o = p)
  BY <1>1, <1>8, Parts DEF Plus, Minus
<1>11. Follows(v, b)
  <2> SUFFICES ASSUME NEW p \in Obj
               PROVE  /\ contained'[p] = contained[p] - Count(vec[v].data, p) + Count(b.data, p) + (lost'[p] - lost[p])
                      /\ REF'[p] = REF[p] + (contained'[p] - contained[p]) - Once(p = walk.arg) + Once(p = walk'.arg)
    BY DEF Follows
  <2>1. /\ contained[p] \in Nat /\ REF[p] \in Nat /\ lost[p] \in Nat /\ lost'[p] = lost[p]
        /\ Count(s, p) \in Nat /\ Once(o = p) \in Nat /\ Once(old = p) \in Nat
        /\ Once(p = walk.arg) = Once(p = walk'.arg) /\ Once(p = walk.arg) \in Nat
    BY <1>1, <1>2, CountType, Parts DEF Once
  <2>2. vec[v].data = s /\ b.data = t
    BY <1>4 DEF s
  <2> QED BY <1>8, <1>10, <2>1, <2>2
<1>12. Deaths
  BY <1>1 DEF Deaths, Numbers
<1>13. WalkOK'
  <2>1. \A w \in Vectors : w \in live => w \in live'
    BY <1>1, <1>7, NullIs
  <2>2. Len(b.data) = Len(vec[v].data)
    BY <1>3, <1>4 DEF s
  <2> QED BY <1>1, <1>9, <2>1, <2>2, WalkOn, WalkStays
<1>14. walk'.arg \in (live \cap Obj) \cup {NULL}
  BY <1>1, ArgIs
<1>15. live' \in SUBSET (Obj \cup Vectors) /\ named' \in SUBSET (Obj \cup Vectors) /\ named' \cap Vectors \subseteq live'
  BY <1>1, <1>7, NullIs, Parts
<1> QED BY <1>1, <1>9, <1>10, <1>11, <1>12, <1>13, <1>14, <1>15, PutStep, Parts

Erased(v, i) == [vec[v] EXCEPT !.data = RemoveAt(vec[v].data, i)]

LEMMA VErasePuts ==
  ASSUME DataInv, NEW v \in Vectors, NEW i \in 1..MaxSize, VErase(v, i)
  PROVE  /\ Puts(v, Erased(v, i)) /\ vec[v].data[i] \in live \cap Obj
         /\ \A p : Count(Erased(v, i).data, p) = Count(vec[v].data, p) - Once(vec[v].data[i] = p)
<1> DEFINE s == vec[v].data
           t == RemoveAt(s, i)
           b == Erased(v, i)
<1>1. /\ v \in Usable /\ i \in DOMAIN s /\ vec' = [vec EXCEPT ![v].data = t]
      /\ live' = live /\ dico' = dico
  BY DEF VErase
<1>2. vec[v] \in Storage /\ s \in Seq(Obj) /\ Len(s) \in Nat /\ Len(s) <= MaxSize /\ Len(s) <= vec[v].cap
      /\ Range(s) \subseteq live
  BY VecFacts
<1> HIDE DEF s
<1>3. t \in Seq(Obj) /\ Len(t) = Len(s) - 1 /\ Range(t) \subseteq Range(s)
      /\ \A p : Count(t, p) = Count(s, p) - Once(s[i] = p)
  BY <1>1, <1>2, CountRemove
<1> HIDE DEF t
<1>4. b \in Storage /\ b.data = t /\ b.cap = vec[v].cap
  BY <1>2, <1>3 DEF Storage, Erased, s, t
<1>5. vec' = [vec EXCEPT ![v] = b]
  BY <1>1, Parts DEF Short, Erased, s, t
<1> HIDE DEF b
<1>6. Len(b.data) <= MaxSize /\ Len(b.data) <= b.cap
  BY <1>2, <1>3, <1>4, DataAssumption DEF Storage
<1>7. Puts(v, b)
  BY <1>1, <1>2, <1>3, <1>4, <1>5, <1>6, UsableFacts, Parts DEF Puts
<1>8. s[i] \in live \cap Obj
  BY <1>1, <1>2 DEF Range
<1> QED BY <1>3, <1>4, <1>7, <1>8 DEF s, b

LEMMA VEraseStep ==
  ASSUME DataInv, NEW v \in Vectors, NEW i \in 1..MaxSize, VErase(v, i)
  PROVE  DataInv'
<1> DEFINE b == Erased(v, i)
           old == vec[v].data[i]
<1>1. /\ v \in Usable /\ lost' = [lost EXCEPT ![old] = @ + 1] /\ (walk = NoWalk \/ walk.arg # NULL)
      /\ REF' = REF /\ contained' = contained /\ live' = live /\ named' = named /\ walk' = walk
      /\ fault' = fault
  BY DEF VErase, May
<1>2. Puts(v, b) /\ old \in live /\ old \in Obj
      /\ \A p : Count(b.data, p) = Count(vec[v].data, p) - Once(old = p)
  BY VErasePuts
<1> HIDE DEF b, old
<1>3. lost' \in [Obj -> Nat] /\ \A p \in Obj : lost'[p] = lost[p] + Once(old = p)
  <2>1. lost \in [Obj -> Nat]
    BY Parts
  <2>2. lost'[old] = lost[old] + 1 /\ \A p \in Obj : p # old => lost'[p] = lost[p]
    BY <1>1, <1>2, <2>1
  <2>3. lost' \in [Obj -> Nat]
    BY <1>1, <1>2, <2>1
  <2>4. \A p \in Obj : lost'[p] = lost[p] + Once(old = p)
    BY <2>1, <2>2 DEF Once
  <2> QED BY <2>3, <2>4
<1>4. \A p \in Obj : p \notin live => lost'[p] = lost[p]
  BY <1>1, <1>2, Parts
<1>5. Follows(v, b)
  <2> SUFFICES ASSUME NEW p \in Obj
               PROVE  /\ contained'[p] = contained[p] - Count(vec[v].data, p) + Count(b.data, p) + (lost'[p] - lost[p])
                      /\ REF'[p] = REF[p] + (contained'[p] - contained[p]) - Once(p = walk.arg) + Once(p = walk'.arg)
    BY DEF Follows
  <2>1. /\ contained[p] \in Nat /\ REF[p] \in Nat /\ lost[p] \in Nat
        /\ Count(vec[v].data, p) \in Nat /\ Once(old = p) \in Nat
        /\ Once(p = walk.arg) = Once(p = walk'.arg) /\ Once(p = walk.arg) \in Nat
    BY <1>1, VecFacts, CountType, Parts DEF Once
  <2> QED BY <1>1, <1>2, <1>3, <2>1
<1>6. Deaths
  BY <1>1 DEF Deaths, Numbers
<1>7. WalkOK'
  BY <1>1, <1>2, WalkOn, WalkStays
<1>8. walk'.arg \in (live \cap Obj) \cup {NULL}
  BY <1>1, ArgIs
<1>9. REF' = [p \in Obj |-> REF'[p]] /\ contained' = [p \in Obj |-> contained'[p]]
  BY <1>1, Parts
<1> QED BY <1>1, <1>2, <1>3, <1>4, <1>5, <1>6, <1>7, <1>8, <1>9, PutStep, Parts

LEMMA VSetPastStep ==
  ASSUME DataInv, NEW v \in Vectors, NEW i \in 1..(2 * MaxSize + 1), NEW o \in Obj, VSetPast(v, i, o)
  PROVE  DataInv'
<1> DEFINE b == vec[v]
<1>1. /\ v \in Usable /\ o \in live
      /\ lost' = [lost EXCEPT ![o] = @ + 1]
      /\ REF' = Plus(REF, <<o>>) /\ contained' = Plus(contained, <<o>>)
      /\ live' = live /\ named' = named /\ vec' = vec /\ dico' = dico /\ walk' = walk
      /\ fault' \in BOOLEAN
  BY DEF VSetPast, Add, Numbers
<1>2. Puts(v, b)
  <2>1. vec' = [vec EXCEPT ![v] = b]
    BY <1>1, Parts DEF Short
  <2> HIDE DEF b
  <2>2. b \in Storage /\ Len(b.data) <= MaxSize /\ Len(b.data) <= b.cap /\ Range(b.data) \subseteq live
    BY VecFacts DEF b
  <2> QED BY <1>1, <2>1, <2>2, UsableFacts, Parts DEF Puts
<1>3. lost' \in [Obj -> Nat] /\ \A p \in Obj : lost'[p] = lost[p] + Once(o = p)
  <2>1. lost \in [Obj -> Nat]
    BY Parts
  <2>2. lost'[o] = lost[o] + 1 /\ \A p \in Obj : p # o => lost'[p] = lost[p]
    BY <1>1, <2>1
  <2>3. lost' \in [Obj -> Nat]
    BY <1>1, <2>1
  <2>4. \A p \in Obj : lost'[p] = lost[p] + Once(o = p)
    BY <2>1, <2>2 DEF Once
  <2> QED BY <2>3, <2>4
<1>4. \A p \in Obj : p \notin live => lost'[p] = lost[p]
  BY <1>1, Parts
<1>5. /\ REF' = [p \in Obj |-> REF'[p]] /\ contained' = [p \in Obj |-> contained'[p]]
      /\ \A p \in Obj : REF'[p] = REF[p] + Once(o = p) /\ contained'[p] = contained[p] + Once(o = p)
  <2>1. \A p : Count(<<o>>, p) = Once(o = p)
    BY CountOne
  <2> QED BY <1>1, <2>1, Parts DEF Plus
<1>6. Follows(v, b)
  <2> SUFFICES ASSUME NEW p \in Obj
               PROVE  /\ contained'[p] = contained[p] - Count(vec[v].data, p) + Count(vec[v].data, p) + (lost'[p] - lost[p])
                      /\ REF'[p] = REF[p] + (contained'[p] - contained[p]) - Once(p = walk.arg) + Once(p = walk'.arg)
    BY DEF Follows
  <2>1. /\ contained[p] \in Nat /\ REF[p] \in Nat /\ lost[p] \in Nat
        /\ Count(vec[v].data, p) \in Nat /\ Once(o = p) \in Nat
        /\ Once(p = walk.arg) = Once(p = walk'.arg) /\ Once(p = walk.arg) \in Nat
    BY <1>1, VecFacts, CountType, Parts DEF Once
  <2> QED BY <1>3, <1>5, <2>1
<1> HIDE DEF b
<1>7. Deaths
  BY <1>1 DEF Deaths, Numbers
<1>8. WalkOK'
  BY <1>1, <1>2, WalkOn, WalkStays DEF b
<1>9. walk'.arg \in (live \cap Obj) \cup {NULL}
  BY <1>1, ArgIs
<1> QED BY <1>1, <1>2, <1>3, <1>4, <1>5, <1>6, <1>7, <1>8, <1>9, PutStep, Parts

LEMMA VSuicidalStep ==
  ASSUME DataInv, NEW v \in Vectors, VSuicidal(v)
  PROVE  DataInv'
<1> DEFINE b == Empty
           s == vec[v].data
<1>1. /\ v \in Usable /\ v # walk.over
      /\ REF' = Minus(REF, s) /\ contained' = Minus(contained, s)
      /\ live' = (live \ {v}) \ {o \in Range(s) : REF'[o] = 0}
      /\ named' = named \ {v} /\ vec' = [vec EXCEPT ![v] = b]
      /\ dico' = dico /\ lost' = lost /\ fault' = fault /\ walk' = walk
  BY DEF VSuicidal
<1>2. s \in Seq(Obj) /\ Range(s) \subseteq live /\ Range(s) \subseteq Obj
  BY VecFacts DEF Range
<1>3. b \in Storage /\ b.data = <<>> /\ Len(b.data) = 0 /\ b.cap = 0 /\ \A p : Count(b.data, p) = 0
  BY EmptyIs, CountNone
<1> HIDE DEF s, b
<1>4. /\ REF' = [p \in Obj |-> REF'[p]] /\ contained' = [p \in Obj |-> contained'[p]]
      /\ \A p \in Obj : REF'[p] = REF[p] - Count(s, p) /\ contained'[p] = contained[p] - Count(s, p)
  BY <1>1, Parts DEF Minus
<1>5. \A w \in Vectors : w # v /\ w \in live => w \in live'
  BY <1>1, <1>2, NullIs
<1>6. Puts(v, b)
  <2>1. Range(b.data) = {}
    BY <1>3 DEF Range
  <2>2. Len(b.data) <= MaxSize /\ Len(b.data) <= b.cap
    BY <1>3, DataAssumption
  <2> QED BY <1>1, <1>3, <1>5, <2>1, <2>2 DEF Puts, b
<1>7. Follows(v, b)
  <2> SUFFICES ASSUME NEW p \in Obj
               PROVE  /\ contained'[p] = contained[p] - Count(vec[v].data, p) + Count(b.data, p) + (lost'[p] - lost[p])
                      /\ REF'[p] = REF[p] + (contained'[p] - contained[p]) - Once(p = walk.arg) + Once(p = walk'.arg)
    BY DEF Follows
  <2>1. /\ contained[p] \in Nat /\ REF[p] \in Nat /\ lost[p] \in Nat /\ lost'[p] = lost[p]
        /\ Count(s, p) \in Nat
        /\ Once(p = walk.arg) = Once(p = walk'.arg) /\ Once(p = walk.arg) \in Nat
    BY <1>1, <1>2, CountType, Parts DEF Once
  <2> QED BY <1>3, <1>4, <2>1 DEF s
<1>8. Deaths
  BY <1>1, NullIs DEF Deaths, Numbers
<1>9. WalkOK'
  <2>1. walk # NoWalk =>
          /\ walk.over \in named' /\ walk.result \in live' \ named'
          /\ vec'[walk.result] = vec[walk.result] /\ vec'[walk.over] = vec[walk.over]
    <3> SUFFICES ASSUME walk # NoWalk
                 PROVE  /\ walk.over \in named' /\ walk.result \in live' \ named'
                        /\ vec'[walk.result] = vec[walk.result] /\ vec'[walk.over] = vec[walk.over]
      OBVIOUS
    <3>1. Walking /\ walk.over \in Vectors /\ walk.result \in Vectors /\ v # walk.result
      BY WalkFacts, UsableFacts, <1>1, Parts
    <3>2. walk.over \in named' /\ walk.result \in live' \ named'
      BY <1>1, <1>5, <3>1 DEF Walking
    <3>3. vec'[walk.result] = vec[walk.result] /\ vec'[walk.over] = vec[walk.over]
      BY <1>1, <3>1, Parts DEF Short
    <3> QED BY <3>2, <3>3
  <2> QED BY <1>1, <2>1, WalkSame, Parts
<1>10. walk'.arg \in (live \cap Obj) \cup {NULL}
  BY <1>1, ArgIs
<1>11. live' \in SUBSET (Obj \cup Vectors) /\ named' \in SUBSET (Obj \cup Vectors) /\ named' \cap Vectors \subseteq live'
       /\ named' \cap Obj = named \cap Obj
  BY <1>1, <1>5, NullIs, Parts
<1> QED BY <1>1, <1>4, <1>6, <1>7, <1>8, <1>9, <1>10, <1>11, PutStep, Parts

\* The elements of a vector in another order.
LEMMA RearrangeStep ==
  ASSUME DataInv, NEW v \in Vectors, NEW t \in Seq(Obj), Rearrange(v, t),
         Len(t) = Len(vec[v].data), Range(t) = Range(vec[v].data),
         \A p : Count(t, p) = Count(vec[v].data, p)
  PROVE  DataInv'
<1> DEFINE b == [vec[v] EXCEPT !.data = t]
<1>1. /\ v \in Usable /\ vec' = [vec EXCEPT ![v].data = t]
      /\ REF' = REF /\ contained' = contained /\ live' = live /\ named' = named /\ walk' = walk
      /\ fault' = fault /\ dico' = dico /\ lost' = lost
  BY DEF Rearrange
<1>2. b \in Storage /\ b.data = t /\ b.cap = vec[v].cap
  BY VecFacts DEF Storage
<1>3. vec' = [vec EXCEPT ![v] = b]
  BY <1>1, Parts DEF Short
<1> HIDE DEF b
<1>4. Puts(v, b)
  BY <1>1, <1>2, <1>3, VecFacts, UsableFacts, Parts DEF Puts
<1>5. Follows(v, b)
  <2> SUFFICES ASSUME NEW p \in Obj
               PROVE  /\ contained'[p] = contained[p] - Count(vec[v].data, p) + Count(b.data, p) + (lost'[p] - lost[p])
                      /\ REF'[p] = REF[p] + (contained'[p] - contained[p]) - Once(p = walk.arg) + Once(p = walk'.arg)
    BY DEF Follows
  <2>1. /\ contained[p] \in Nat /\ REF[p] \in Nat /\ lost[p] \in Nat
        /\ Count(vec[v].data, p) \in Nat
        /\ Once(p = walk.arg) = Once(p = walk'.arg) /\ Once(p = walk.arg) \in Nat
    BY <1>1, VecFacts, CountType, Parts DEF Once
  <2> QED BY <1>1, <1>2, <2>1
<1>6. Deaths
  BY <1>1 DEF Deaths, Numbers
<1>7. WalkOK'
  BY <1>1, <1>2, <1>4, WalkOn, WalkStays
<1>8. walk'.arg \in (live \cap Obj) \cup {NULL}
  BY <1>1, ArgIs
<1>9. REF' = [p \in Obj |-> REF'[p]] /\ contained' = [p \in Obj |-> contained'[p]]
  BY <1>1, Parts
<1> QED BY <1>1, <1>4, <1>5, <1>6, <1>7, <1>8, <1>9, PutStep, Parts

LEMMA VSortStep ==
  ASSUME DataInv, NEW v \in Vectors, NEW asc \in BOOLEAN, VSort(v, asc)
  PROVE  DataInv'
<1> DEFINE s == vec[v].data
<1>1. s \in Seq(Obj)
  BY VecFacts
<1>2. Rearrange(v, Sorted(s, asc))
  BY DEF VSort
<1> HIDE DEF s
<1>3. /\ Sorted(s, asc) \in Seq(Obj) /\ Len(Sorted(s, asc)) = Len(s) /\ Range(Sorted(s, asc)) = Range(s)
      /\ \A p : Count(Sorted(s, asc), p) = Count(s, p)
  BY <1>1, SortedIs
<1> QED BY <1>2, <1>3, RearrangeStep DEF s

LEMMA VReverseStep ==
  ASSUME DataInv, NEW v \in Vectors, VReverse(v)
  PROVE  DataInv'
<1> DEFINE s == vec[v].data
<1>1. s \in Seq(Obj)
  BY VecFacts
<1>2. Rearrange(v, Reverse(s))
  BY DEF VReverse
<1> HIDE DEF s
<1>3. /\ Reverse(s) \in Seq(Obj) /\ Len(Reverse(s)) = Len(s) /\ Range(Reverse(s)) = Range(s)
      /\ \A p : Count(Reverse(s), p) = Count(s, p)
  BY <1>1, ReverseIs
<1> QED BY <1>2, <1>3, RearrangeStep DEF s

\* The vector stays as it is: the steps of iterate.
LEMMA PutsSame ==
  ASSUME DataInv, NEW v \in Vectors, vec' = vec, dico' = dico,
         \A w \in Vectors : w \in live => w \in live', v \in live
  PROVE  Puts(v, vec[v])
<1> DEFINE b == vec[v]
<1>1. vec' = [vec EXCEPT ![v] = b]
  BY Parts DEF Short
<1>2. b \in Storage /\ Len(b.data) <= MaxSize /\ Len(b.data) <= b.cap /\ Range(b.data) \subseteq live
  BY VecFacts
<1> HIDE DEF b
<1>3. Puts(v, b)
  BY <1>1, <1>2 DEF Puts
<1> QED BY <1>3 DEF b

LEMMA IterateStep ==
  ASSUME DataInv, NEW v \in Vectors, NEW w \in Vectors, Iterate(v, w)
  PROVE  DataInv'
<1>1. /\ walk = NoWalk /\ v \in Usable /\ vec[v].data # <<>> /\ w \notin live
      /\ live' = live \cup {w}
      /\ walk' = [over |-> v, pos |-> 1, arg |-> NULL, result |-> w, moved |-> FALSE]
      /\ REF' = REF /\ contained' = contained /\ named' = named /\ vec' = vec /\ dico' = dico
      /\ lost' = lost /\ fault' = fault
  BY DEF Iterate, NoWalk
<1>2. v \in live /\ v \in named
  BY <1>1, UsableFacts, Parts
<1>3. \A u \in Vectors : u \in live => u \in live'
  BY <1>1
<1>4. vec[v].data \in Seq(Obj) /\ Len(vec[v].data) \in Nat /\ Len(vec[v].data) <= MaxSize
  BY VecFacts
<1>5. Len(vec[v].data) >= 1
  BY <1>1, <1>4
<1>6. 1 \in 1..MaxSize
  BY <1>4, <1>5, DataAssumption
<1>7. Len(vec[w].data) = 0
  BY <1>1, EmptyIs, Parts DEF Stored
<1>8. walk'.over = v /\ walk'.pos = 1 /\ walk'.arg = NULL /\ walk'.result = w
  BY <1>1
<1>9. Walking'
  <2>1. walk' \in Walks
    BY <1>1, <1>6 DEF Walks
  <2>2. walk'.over \in named' /\ walk'.result \in live' \ named'
    BY <1>1, <1>2, <1>8, Parts
  <2>3. Len(vec'[walk'.result].data) < walk'.pos /\ walk'.pos <= Len(vec'[walk'.over].data)
    BY <1>1, <1>5, <1>7, <1>8
  <2> QED BY <2>1, <2>2, <2>3 DEF Walking
<1>10. WalkOK'
  BY <1>9 DEF WalkOK
<1>11. Puts(v, vec[v])
  BY <1>1, <1>2, <1>3, PutsSame
<1>12. Follows(v, vec[v])
  <2> SUFFICES ASSUME NEW p \in Obj
               PROVE  /\ contained'[p] = contained[p] - Count(vec[v].data, p) + Count(vec[v].data, p) + (lost'[p] - lost[p])
                      /\ REF'[p] = REF[p] + (contained'[p] - contained[p]) - Once(p = walk.arg) + Once(p = walk'.arg)
    BY DEF Follows
  <2>1. /\ contained[p] \in Nat /\ REF[p] \in Nat /\ lost[p] \in Nat
        /\ Count(vec[v].data, p) \in Nat
        /\ Once(p = walk.arg) = Once(p = walk'.arg) /\ Once(p = walk.arg) \in Nat
    BY <1>1, <1>4, <1>8, NoWalkIs, CountType, Parts DEF Once
  <2> QED BY <1>1, <2>1
<1>13. Deaths
  BY <1>1, NullIs DEF Deaths, Numbers
<1>14. REF' = [p \in Obj |-> REF'[p]] /\ contained' = [p \in Obj |-> contained'[p]]
  BY <1>1, Parts
<1>15. walk'.arg \in (live \cap Obj) \cup {NULL}
  BY <1>8
<1> QED BY <1>1, <1>10, <1>11, <1>12, <1>13, <1>14, <1>15, PutStep, Parts

LEMMA CallStep ==
  ASSUME DataInv, Call
  PROVE  DataInv'
<1> DEFINE v == walk.over
           x == vec[v].data[walk.pos]
<1>1. /\ walk # NoWalk /\ walk.arg = NULL /\ walk' = [walk EXCEPT !.arg = x] /\ REF' = Plus(REF, <<x>>)
      /\ live' = live /\ contained' = contained /\ named' = named /\ vec' = vec /\ dico' = dico
      /\ lost' = lost /\ fault' = fault
  BY DEF Call
<1>2. Walking /\ v \in Vectors /\ v \in live /\ walk.pos \in 1..MaxSize /\ walk.pos <= Len(vec[v].data)
  BY <1>1, WalkFacts, Parts DEF Walking, Walks
<1>3. x \in Obj /\ x \in live
  BY <1>2, VecFacts DEF Range
<1> HIDE DEF x
<1>4. walk' \in Walks /\ walk'.over = v /\ walk'.pos = walk.pos /\ walk'.arg = x /\ walk'.result = walk.result
  BY <1>1, <1>2, <1>3 DEF Walking, Walks
<1>5. x # NULL
  BY <1>3, NullIs
<1>6. Walking'
  BY <1>1, <1>2, <1>4, <1>5 DEF Walking
<1>7. WalkOK'
  BY <1>6 DEF WalkOK
<1> HIDE DEF v
<1>8. Puts(v, vec[v])
  BY <1>1, <1>2, PutsSame
<1>9. \A p : Count(<<x>>, p) = Once(x = p)
  BY <1>3, CountOne
<1>10. /\ REF' = [p \in Obj |-> REF'[p]] /\ contained' = [p \in Obj |-> contained'[p]]
       /\ \A p \in Obj : REF'[p] = REF[p] + Once(x = p)
  BY <1>1, <1>9, Parts DEF Plus
<1>11. Follows(v, vec[v])
  <2> SUFFICES ASSUME NEW p \in Obj
               PROVE  /\ contained'[p] = contained[p] - Count(vec[v].data, p) + Count(vec[v].data, p) + (lost'[p] - lost[p])
                      /\ REF'[p] = REF[p] + (contained'[p] - contained[p]) - Once(p = walk.arg) + Once(p = walk'.arg)
    BY DEF Follows
  <2>1. Once(p = walk.arg) = 0 /\ Once(p = walk'.arg) = Once(x = p) /\ Once(x = p) \in Nat
    BY <1>1, <1>4, NullIs DEF Once
  <2>2. /\ contained[p] \in Nat /\ REF[p] \in Nat /\ lost[p] \in Nat /\ Count(vec[v].data, p) \in Nat
    BY <1>2, VecFacts, CountType, Parts
  <2> QED BY <1>1, <1>10, <2>1, <2>2
<1>12. Deaths
  BY <1>1 DEF Deaths, Numbers
<1>13. walk'.arg \in (live \cap Obj) \cup {NULL}
  BY <1>3, <1>4
<1> QED BY <1>1, <1>7, <1>8, <1>10, <1>11, <1>12, <1>13, PutStep, Parts

LEMMA ThrowStep ==
  ASSUME DataInv, Throw
  PROVE  DataInv'
<1> DEFINE v == walk.over
           x == walk.arg
<1>1. /\ x # NULL /\ walk' = NoWalk /\ REF' = Minus(REF, <<x>>)
      /\ live' = live /\ contained' = contained /\ named' = named /\ vec' = vec /\ dico' = dico
      /\ lost' = lost /\ fault' = fault
  BY DEF Throw
<1>2. Walking /\ v \in Vectors /\ v \in live
  <2>1. walk # NoWalk
    BY <1>1, NoWalkIs
  <2> QED BY <2>1, WalkFacts, Parts DEF Walking
<1>3. x \in Obj /\ x \in live
  BY <1>1, ArgIs
<1>4. WalkOK'
  BY <1>1 DEF WalkOK
<1> HIDE DEF x, v
<1>5. Puts(v, vec[v])
  BY <1>1, <1>2, PutsSame
<1>6. \A p : Count(<<x>>, p) = Once(x = p)
  BY <1>3, CountOne
<1>7. /\ REF' = [p \in Obj |-> REF'[p]] /\ contained' = [p \in Obj |-> contained'[p]]
      /\ \A p \in Obj : REF'[p] = REF[p] - Once(x = p)
  BY <1>1, <1>6, Parts DEF Minus
<1>8. Follows(v, vec[v])
  <2> SUFFICES ASSUME NEW p \in Obj
               PROVE  /\ contained'[p] = contained[p] - Count(vec[v].data, p) + Count(vec[v].data, p) + (lost'[p] - lost[p])
                      /\ REF'[p] = REF[p] + (contained'[p] - contained[p]) - Once(p = walk.arg) + Once(p = walk'.arg)
    BY DEF Follows
  <2>1. Once(p = walk'.arg) = 0 /\ Once(p = walk.arg) = Once(x = p) /\ Once(x = p) \in Nat
    BY <1>1, NoWalkIs, NullIs DEF Once, x
  <2>2. /\ contained[p] \in Nat /\ REF[p] \in Nat /\ lost[p] \in Nat /\ Count(vec[v].data, p) \in Nat
    BY <1>2, VecFacts, CountType, Parts
  <2> QED BY <1>1, <1>7, <2>1, <2>2
<1>9. Deaths
  BY <1>1 DEF Deaths, Numbers
<1>10. walk'.arg \in (live \cap Obj) \cup {NULL}
  BY <1>1, NoWalkIs
<1> QED BY <1>1, <1>4, <1>5, <1>7, <1>8, <1>9, <1>10, PutStep, Parts

\* What the result of iterate is when a call has returned.
Result(s) == FoldLeft(Pushed, vec[walk.result], s)

\* What a call outputs is one element at most.
Grows(s) ==
  /\ s \in Seq(Obj) /\ Range(s) \subseteq live
  /\ Result(s) \in Storage /\ Range(Result(s).data) \subseteq live
  /\ Len(Result(s).data) <= Len(vec[walk.result].data) + 1 /\ Len(Result(s).data) <= Result(s).cap
  /\ \A p : Count(Result(s).data, p) = Count(vec[walk.result].data, p) + Count(s, p)

LEMMA GrowsOne ==
  ASSUME DataInv, walk # NoWalk, NEW o \in Obj, o \in live
  PROVE  Grows(<<o>>)
<1> DEFINE v == walk.result
           s == <<o>>
<1>1. v \in Vectors
  BY WalkFacts, Parts
<1> HIDE DEF v
<1>2. vec[v] \in Storage /\ vec[v].data \in Seq(Obj) /\ Len(vec[v].data) <= vec[v].cap /\ Range(vec[v].data) \subseteq live
  BY <1>1, VecFacts
<1>3. Result(s) = Pushed(vec[v], o)
  BY PushOne DEF Result, v
<1>4. /\ Pushed(vec[v], o) \in Storage /\ Pushed(vec[v], o).data = Append(vec[v].data, o)
      /\ Len(Pushed(vec[v], o).data) <= Pushed(vec[v], o).cap
      /\ Len(Pushed(vec[v], o).data) = Len(vec[v].data) + 1
  BY <1>2, PushedIs
<1>5. \A i \in DOMAIN Append(vec[v].data, o) :
        Append(vec[v].data, o)[i] = o \/ Append(vec[v].data, o)[i] \in Range(vec[v].data)
  BY <1>2 DEF Range
<1>6. Range(Append(vec[v].data, o)) \subseteq live
  BY <1>2, <1>5 DEF Range
<1>7. \A p : Count(Append(vec[v].data, o), p) = Count(vec[v].data, p) + Count(s, p)
  BY <1>2, CountAppend, CountOne
<1>8. s \in Seq(Obj) /\ Range(s) \subseteq live
  BY DEF Range
<1>9. Len(vec[v].data) + 1 <= Len(vec[v].data) + 1
  BY <1>2
<1> QED BY <1>3, <1>4, <1>6, <1>7, <1>8, <1>9 DEF Grows, v

LEMMA GrowsNone ==
  ASSUME DataInv, walk # NoWalk
  PROVE  Grows(<<>>)
<1> DEFINE v == walk.result
           s == <<>>
<1>1. v \in Vectors
  BY WalkFacts, Parts
<1> HIDE DEF v
<1>2. vec[v] \in Storage /\ vec[v].data \in Seq(Obj) /\ Len(vec[v].data) <= vec[v].cap /\ Range(vec[v].data) \subseteq live
      /\ Len(vec[v].data) \in Nat
  BY <1>1, VecFacts
<1>3. Result(s) = vec[v]
  BY PushOne DEF Result, v
<1>4. \A p : Count(vec[v].data, p) = Count(vec[v].data, p) + Count(s, p)
  BY <1>2, CountType, CountNone
<1>5. s \in Seq(Obj) /\ Range(s) \subseteq live
  BY DEF Range
<1>6. Len(vec[v].data) <= Len(vec[v].data) + 1
  BY <1>2
<1> HIDE DEF s
<1> QED BY <1>2, <1>3, <1>4, <1>5, <1>6 DEF Grows, v, s

LEMMA ReturnedStep ==
  ASSUME DataInv, NEW s, Grows(s), Returned(s)
  PROVE  DataInv'
<1> DEFINE v == walk.result
           x == walk.arg
           b == Result(s)
           n == Len(vec[walk.over].data)
           left == walk.moved \/ walk.pos > n
<1>1. /\ x # NULL /\ REF' = Minus(Plus(REF, s), <<x>>) /\ contained' = Plus(contained, s)
      /\ vec' = [vec EXCEPT ![v] = b]
      /\ named' = (IF walk.pos = n THEN named \cup {v} ELSE named)
      /\ fault' = (fault \/ left)
      /\ walk' = IF left \/ walk.pos = n THEN NoWalk ELSE [walk EXCEPT !.pos = @ + 1, !.arg = NULL]
      /\ live' = live /\ dico' = dico /\ lost' = lost
  BY DEF Returned, Result
<1>2. walk # NoWalk
  BY <1>1, NoWalkIs
<1>3. /\ Walking /\ v \in Vectors /\ walk.over \in Vectors /\ walk.over # v /\ v \in live /\ v \notin named
      /\ walk.over \in named /\ walk.pos \in 1..MaxSize /\ Len(vec[v].data) < walk.pos /\ walk \in Walks
  BY <1>2, WalkFacts, Parts DEF Walking, Walks
<1>4. x \in Obj /\ x \in live
  BY <1>1, ArgIs
<1>5. /\ s \in Seq(Obj) /\ Range(s) \subseteq live /\ b \in Storage /\ Range(b.data) \subseteq live
      /\ Len(b.data) <= Len(vec[v].data) + 1 /\ Len(b.data) <= b.cap
      /\ \A p : Count(b.data, p) = Count(vec[v].data, p) + Count(s, p)
  BY DEF Grows
<1> HIDE DEF b
<1>6. Len(vec[v].data) \in Nat /\ n \in Nat /\ n <= MaxSize /\ Len(b.data) \in Nat
  BY <1>3, <1>5, VecFacts DEF Storage
<1>7. Puts(v, b)
  <2>1. Len(b.data) <= MaxSize
    BY <1>3, <1>5, <1>6, DataAssumption
  <2> QED BY <1>1, <1>3, <1>5, <2>1 DEF Puts
<1>8. vec'[v] = b /\ vec'[walk.over] = vec[walk.over]
  BY <1>1, <1>3, Parts DEF Short
<1>9. walk'.arg = NULL /\ WalkOK'
  <2>1. CASE left \/ walk.pos = n
    BY <1>1, <2>1, NoWalkIs DEF WalkOK
  <2>2. CASE ~left /\ walk.pos # n
    <3>1. walk' = [walk EXCEPT !.pos = @ + 1, !.arg = NULL] /\ named' = named /\ walk.pos <= n - 1
      BY <1>1, <1>3, <1>6, <2>2
    <3>2. walk.pos + 1 \in 1..MaxSize /\ walk.pos + 1 <= n
      BY <1>3, <1>6, <3>1, DataAssumption
    <3>3. /\ walk' \in Walks /\ walk'.over = walk.over /\ walk'.pos = walk.pos + 1 /\ walk'.arg = NULL
          /\ walk'.result = v
      BY <1>3, <3>1, <3>2 DEF Walks
    <3> HIDE DEF v
    <3>4. Len(b.data) < walk.pos + 1
      BY <1>3, <1>5, <1>6, <3>2
    <3>5. walk'.over \in named' /\ walk'.result \in live' \ named'
      BY <1>1, <1>3, <3>1, <3>3
    <3>6. Len(vec'[walk'.result].data) < walk'.pos /\ walk'.pos <= Len(vec'[walk'.over].data)
      BY <1>8, <3>2, <3>3, <3>4
    <3>7. Walking'
      BY <3>3, <3>5, <3>6 DEF Walking
    <3> QED BY <3>3, <3>7 DEF WalkOK
  <2> QED BY <2>1, <2>2
<1>10. named' = named \/ named' = named \cup {v}
  BY <1>1
<1>11. fault' \in BOOLEAN /\ live' = live /\ dico' = dico /\ lost' = lost
  BY <1>1
<1>12. /\ x # NULL /\ REF' = Minus(Plus(REF, s), <<x>>) /\ contained' = Plus(contained, s)
  BY <1>1
<1>13. x = walk.arg
  OBVIOUS
<1> HIDE DEF v, x, left, n
<1>14. \A p : Count(<<x>>, p) = Once(x = p)
  BY <1>4, CountOne
<1>15. REF' = [p \in Obj |-> REF'[p]]
  BY <1>12 DEF Minus
<1>16. contained' = [p \in Obj |-> contained'[p]]
  BY <1>12 DEF Plus
<1>17. \A p \in Obj : REF'[p] = REF[p] + Count(s, p) - Once(x = p)
  <2> DEFINE R == Plus(REF, s)
  <2>1. \A p \in Obj : R[p] = REF[p] + Count(s, p)
    BY DEF Plus
  <2> HIDE DEF R
  <2>2. \A p \in Obj : Minus(R, <<x>>)[p] = R[p] - Count(<<x>>, p)
    BY DEF Minus
  <2>3. REF' = Minus(R, <<x>>)
    BY <1>12 DEF R
  <2>4. ASSUME NEW p \in Obj PROVE REF'[p] = REF[p] + Count(s, p) - Once(x = p)
    <3>1. REF'[p] = R[p] - Count(<<x>>, p)
      BY <2>2, <2>3
    <3>2. Count(<<x>>, p) = Once(x = p)
      BY <1>14
    <3>3. R[p] = REF[p] + Count(s, p)
      BY <2>1
    <3>4. REF[p] \in Nat /\ Count(s, p) \in Nat /\ Once(x = p) \in Nat
      BY <1>5, CountType, Parts DEF Once
    <3> QED BY <3>1, <3>2, <3>3, <3>4
  <2> QED BY <2>4
<1>18. \A p \in Obj : contained'[p] = contained[p] + Count(s, p)
  BY <1>12 DEF Plus
<1>19. Follows(v, b)
  <2> SUFFICES ASSUME NEW p \in Obj
               PROVE  /\ contained'[p] = contained[p] - Count(vec[v].data, p) + Count(b.data, p) + (lost'[p] - lost[p])
                      /\ REF'[p] = REF[p] + (contained'[p] - contained[p]) - Once(p = walk.arg) + Once(p = walk'.arg)
    BY DEF Follows
  <2>1. Once(p = walk'.arg) = 0 /\ Once(p = walk.arg) = Once(x = p) /\ Once(x = p) \in Nat
    BY <1>9, <1>13, NullIs DEF Once
  <2>2. contained[p] \in Nat /\ REF[p] \in Nat /\ lost[p] \in Nat /\ lost'[p] = lost[p]
    BY <1>11, Parts
  <2>3. Count(vec[v].data, p) \in Nat /\ Count(s, p) \in Nat
    BY <1>3, <1>5, VecFacts, CountType
  <2>4. contained'[p] = contained[p] - Count(vec[v].data, p) + Count(b.data, p) + (lost'[p] - lost[p])
    BY <1>5, <1>18, <2>2, <2>3
  <2> QED BY <1>17, <1>18, <2>1, <2>2, <2>3, <2>4
<1>20. Deaths
  BY <1>11 DEF Deaths, Numbers
<1>21. /\ live' \in SUBSET (Obj \cup Vectors) /\ named' \in SUBSET (Obj \cup Vectors)
       /\ named' \cap Vectors \subseteq live' /\ named' \cap Obj = named \cap Obj
  BY <1>3, <1>10, <1>11, NullIs, Parts
<1>22. lost' \in [Obj -> Nat] /\ (\A p \in Obj : p \notin live => lost'[p] = lost[p])
  BY <1>11, Parts
<1> QED BY <1>7, <1>9, <1>11, <1>15, <1>16, <1>19, <1>20, <1>21, <1>22, PutStep

LEMMA ReturnStep ==
  ASSUME DataInv, NEW o \in Obj, Return(o)
  PROVE  DataInv'
<1> DEFINE s == <<o>>
<1>1. o \in live /\ Returned(s) /\ walk # NoWalk
  BY NoWalkIs DEF Return, Returned, Numbers
<1>2. Grows(s)
  BY <1>1, GrowsOne
<1> HIDE DEF s
<1> QED BY <1>1, <1>2, ReturnedStep

LEMMA NothingStep ==
  ASSUME DataInv, Nothing
  PROVE  DataInv'
<1> DEFINE s == <<>>
<1>1. Returned(s) /\ walk # NoWalk
  BY NoWalkIs DEF Nothing, Returned
<1>2. Grows(s)
  BY <1>1, GrowsNone
<1> HIDE DEF s
<1> QED BY <1>1, <1>2, ReturnedStep

\* A key of the dictionary gets another value, which lives.
Keyed(k, x) ==
  /\ k \in Dico /\ x \in (live \cap Obj) \cup {NULL} /\ dico' = [dico EXCEPT ![k] = x]
  /\ \A p \in Obj :
       /\ REF'[p] = REF[p] - Once(dico[k] = p) + Once(x = p)
       /\ contained'[p] = contained[p] - Once(dico[k] = p) + Once(x = p)

LEMMA WithinKeyed ==
  ASSUME DataInv, NEW k, NEW x, Keyed(k, x), vec' = vec
  PROVE  \A o : Within(o)' = Within(o) - Once(dico[k] = o) + Once(x = o)
<1>1. dico \in [Dico -> Obj \cup {NULL}]
  BY Parts
<1>2. k \in Dico /\ x \in Obj \cup {NULL} /\ dico' = [dico EXCEPT ![k] = x]
  BY DEF Keyed
<1> QED BY <1>1, <1>2, WithinKey

LEMMA KeyStep ==
  ASSUME DataInv, NEW k, NEW x, Keyed(k, x),
         live' \subseteq live, \A v \in Vectors : v \in live => v \in live', Deaths,
         named' = named, vec' = vec, walk' = walk, lost' = lost, fault' = fault,
         REF' = [o \in Obj |-> REF'[o]], contained' = [o \in Obj |-> contained'[o]]
  PROVE  DataInv'
<1>1. /\ k \in Dico /\ x \in Obj \cup {NULL} /\ x \in live \cup {NULL} /\ dico' = [dico EXCEPT ![k] = x]
      /\ dico[k] \in Obj \cup {NULL} /\ dico[k] \in live \cup {NULL}
  BY Parts DEF Keyed, Kept, Range
<1>2. \A p : Within(p)' = Within(p) - Once(dico[k] = p) + Once(x = p)
  BY WithinKeyed
<1>3. Balanced
  <2>1. ASSUME NEW p \in Numbers
        PROVE  contained'[p] = Within(p)' + lost'[p] /\ REF'[p] = contained'[p] + Due(p)'
    <3>1. p \in Obj
      BY DEF Numbers
    <3>2. contained[p] = Within(p) + lost[p] /\ REF[p] = contained[p] + Due(p)
      BY <2>1, Parts DEF Exact
    <3>3. Due(p)' = Due(p)
      BY DEF Due
    <3>4. contained[p] \in Nat /\ Due(p) \in Nat /\ lost[p] \in Nat /\ lost'[p] = lost[p]
      BY <3>1, Parts DEF Due, Once
    <3>5. Within(p) \in Nat /\ Once(dico[k] = p) \in Nat /\ Once(x = p) \in Nat
      BY WithinIs DEF Once
    <3>6. /\ REF'[p] = REF[p] - Once(dico[k] = p) + Once(x = p)
          /\ contained'[p] = contained[p] - Once(dico[k] = p) + Once(x = p)
      BY <3>1 DEF Keyed
    <3> QED BY <1>2, <3>2, <3>3, <3>4, <3>5, <3>6
  <2>2. ASSUME NEW p \in Obj, p \notin live PROVE REF'[p] = REF[p] /\ contained'[p] = contained[p]
    <3>1. Once(dico[k] = p) = 0 /\ Once(x = p) = 0
      BY <1>1, <2>2, NullIs DEF Once
    <3> QED BY <3>1, Parts DEF Keyed
  <2> QED BY <2>1, <2>2 DEF Balanced
<1>4. HeldNow
  <2>1. Range(dico') \subseteq live \cup {NULL}
    <3>1. \A j \in Dico : dico'[j] = x \/ dico'[j] = dico[j]
      BY <1>1, Parts
    <3>2. DOMAIN dico' = Dico /\ DOMAIN dico = Dico
      BY <1>1, Parts
    <3> QED BY <1>1, <3>1, <3>2, Parts DEF Kept, Range
  <2> QED BY <2>1, ArgIs, Parts DEF HeldNow, Kept
<1>5. dico' \in [Dico -> Obj \cup {NULL}]
  BY <1>1, Parts
<1>6. Stored'
  BY StoredSame, Parts
<1>7. WalkOK'
  <2>1. walk # NoWalk => walk.over \in named' /\ walk.result \in live' \ named'
    BY WalkFacts, Parts DEF Walking
  <2> QED BY <2>1, WalkSame, Parts
<1>8. live' \in SUBSET (Obj \cup Vectors) /\ named' \in SUBSET (Obj \cup Vectors) /\ named' \cap Vectors \subseteq live'
  BY Parts
<1>9. lost' \in [Obj -> Nat] /\ fault' \in BOOLEAN
  BY Parts
<1> QED BY <1>3, <1>4, <1>5, <1>6, <1>7, <1>8, <1>9, StepSettled

LEMMA DSetStep ==
  ASSUME DataInv, NEW k \in Dico, NEW o \in Obj, DSet(k, o)
  PROVE  DataInv'
<1> DEFINE old == IF dico[k] = NULL THEN <<>> ELSE <<dico[k]>>
<1>1. /\ o \in live /\ dico' = [dico EXCEPT ![k] = o]
      /\ REF' = Plus(Minus(REF, old), <<o>>) /\ contained' = Plus(Minus(contained, old), <<o>>)
      /\ live' = live \ {p \in Range(old) : REF'[p] = 0}
      /\ named' = named /\ vec' = vec /\ walk' = walk /\ lost' = lost /\ fault' = fault
  BY DEF DSet, Numbers
<1>2. dico[k] \in Obj \cup {NULL}
  BY Parts
<1>3. Range(old) \subseteq Obj
  BY <1>2 DEF Range
<1>4. ASSUME NEW p \in Obj PROVE Count(old, p) = Once(dico[k] = p)
  <2>1. CASE dico[k] = NULL
    BY <1>4, <2>1, CountNone, NullIs DEF Once
  <2>2. CASE dico[k] # NULL
    BY <1>2, <2>2, CountOne
  <2> QED BY <2>1, <2>2
<1>5. \A p : Count(<<o>>, p) = Once(o = p)
  BY CountOne
<1> HIDE DEF old
<1>6. /\ REF' = [p \in Obj |-> REF'[p]] /\ contained' = [p \in Obj |-> contained'[p]]
      /\ \A p \in Obj : REF'[p] = REF[p] - Once(dico[k] = p) + Once(o = p)
      /\ \A p \in Obj : contained'[p] = contained[p] - Once(dico[k] = p) + Once(o = p)
  BY <1>1, <1>4, <1>5 DEF Plus, Minus
<1>7. Keyed(k, o)
  BY <1>1, <1>6 DEF Keyed
<1>8. Deaths
  BY <1>1 DEF Deaths, Numbers
<1>9. live' \subseteq live /\ \A v \in Vectors : v \in live => v \in live'
  BY <1>1, <1>3, NullIs
<1> QED BY <1>1, <1>6, <1>7, <1>8, <1>9, KeyStep

LEMMA DEraseStep ==
  ASSUME DataInv, NEW k \in Dico, DErase(k)
  PROVE  DataInv'
<1> DEFINE old == <<dico[k]>>
<1>1. /\ dico[k] # NULL /\ dico' = [dico EXCEPT ![k] = NULL]
      /\ REF' = Minus(REF, old) /\ contained' = Minus(contained, old)
      /\ live' = live \ {p \in Range(old) : Minus(REF, old)[p] = 0}
      /\ named' = named /\ vec' = vec /\ walk' = walk /\ lost' = lost /\ fault' = fault
  BY DEF DErase, GiveUp
<1>2. dico[k] \in Obj
  BY <1>1, Parts
<1>3. Range(old) \subseteq Obj
  BY <1>2 DEF Range
<1>4. \A p : Count(old, p) = Once(dico[k] = p)
  BY <1>2, CountOne
<1>5. \A p \in Obj : Once(NULL = p) = 0
  BY NullIs DEF Once
<1> HIDE DEF old
<1>6. /\ REF' = [p \in Obj |-> REF'[p]] /\ contained' = [p \in Obj |-> contained'[p]]
      /\ \A p \in Obj : REF'[p] = REF[p] - Once(dico[k] = p)
      /\ \A p \in Obj : contained'[p] = contained[p] - Once(dico[k] = p)
  BY <1>1, <1>4 DEF Minus
<1>7. Keyed(k, NULL)
  <2>1. \A p \in Obj : REF[p] \in Nat /\ contained[p] \in Nat /\ Once(dico[k] = p) \in Nat
    BY Parts DEF Once
  <2> QED BY <1>1, <1>5, <1>6, <2>1 DEF Keyed
<1>8. Deaths
  BY <1>1 DEF Deaths, Numbers
<1>9. live' \subseteq live /\ \A v \in Vectors : v \in live => v \in live'
  BY <1>1, <1>3, NullIs
<1> QED BY <1>1, <1>6, <1>7, <1>8, <1>9, KeyStep

\* The collection: what the dead vectors held is given up.
LEMMA GCStep ==
  ASSUME DataInv, GC
  PROVE  DataInv'
<1> DEFINE D == (live \cap Vectors) \ (named \cup {walk.result})
<1>1. /\ REF' = [o \in Obj |-> REF[o] - Cardinality(Held(D, o))]
      /\ contained' = [o \in Obj |-> contained[o] - Cardinality(Held(D, o))]
      /\ live' = live \ (D \cup {o \in Numbers : REF'[o] = 0})
      /\ vec' = [v \in Vectors |-> IF v \in D THEN Empty ELSE vec[v]]
      /\ named' = named /\ dico' = dico /\ walk' = walk /\ lost' = lost /\ fault' = fault
  BY DEF GC
<1>2. D \in SUBSET Vectors /\ D \cap named = {} /\ walk.result \notin D /\ Vectors \ D \in SUBSET Vectors
      /\ Vectors \in SUBSET Vectors
  OBVIOUS
<1> HIDE DEF D
<1>3. \A v \in Vectors : vec'[v] = IF v \in D THEN Empty ELSE vec[v]
  BY <1>1
<1>4. \A o : Cardinality(Held(D, o)) = Sum(vec, D, o)
  BY DEF Held, Sum, At
<1>5. Short(vec')
  BY <1>1, <1>3, EmptyIs, DataAssumption, Parts DEF Short
<1>6. ASSUME NEW o PROVE Within(o)' = Within(o) - Sum(vec, D, o) /\ Sum(vec, D, o) \in Nat
  <2> DEFINE F == vec
             G == vec'
             V == Vectors
             R == Vectors \ D
  <2>1. D \in SUBSET V /\ V \in SUBSET Vectors /\ D \in SUBSET Vectors /\ R \in SUBSET Vectors /\ R = V \ D
    BY <1>2
  <2>2. (\A v \in R : F[v] = G[v]) /\ (\A v \in D : G[v].data = <<>>)
    BY <1>2, <1>3, EmptyIs
  <2>3. /\ Within(o) = Sum(F, V, o) + Cardinality(Keys(dico, o))
        /\ Within(o)' = Sum(G, V, o) + Cardinality(Keys(dico, o))
        /\ Cardinality(Keys(dico, o)) \in Nat
    BY <1>1, WithinIs, WithinIsPrime
  <2> HIDE DEF F, G, V, R
  <2>4. Sum(F, V, o) = Sum(F, D, o) + Sum(F, R, o) /\ Sum(G, V, o) = Sum(G, D, o) + Sum(G, R, o)
    BY <2>1, SumSplit
  <2>5. Sum(F, R, o) = Sum(G, R, o)
    BY <2>1, <2>2, SumSame
  <2>6. Sum(G, D, o) = 0
    <3>1. At(G, D, o) = {}
      BY <2>2 DEF At
    <3> QED BY <3>1, FS_EmptySet DEF Sum
  <2>7. Sum(F, D, o) \in Nat /\ Sum(F, R, o) \in Nat
    BY <2>1, SumType
  <2>8. Within(o)' = Within(o) - Sum(F, D, o)
    BY <2>3, <2>4, <2>5, <2>6, <2>7
  <2> QED BY <2>7, <2>8 DEF F
<1>7. /\ REF' = [o \in Obj |-> REF'[o]] /\ contained' = [o \in Obj |-> contained'[o]]
      /\ \A o \in Obj : REF'[o] = REF[o] - Sum(vec, D, o) /\ contained'[o] = contained[o] - Sum(vec, D, o)
  BY <1>1, <1>4
<1>8. Balanced
  <2>1. ASSUME NEW p \in Numbers
        PROVE  contained'[p] = Within(p)' + lost'[p] /\ REF'[p] = contained'[p] + Due(p)'
    <3>1. p \in Obj
      BY DEF Numbers
    <3>2. contained[p] = Within(p) + lost[p] /\ REF[p] = contained[p] + Due(p)
      BY <2>1, Parts DEF Exact
    <3>3. Due(p)' = Due(p)
      BY <1>1 DEF Due
    <3>4. contained[p] \in Nat /\ Due(p) \in Nat /\ lost[p] \in Nat /\ lost'[p] = lost[p] /\ Within(p) \in Nat
      BY <1>1, <3>1, WithinIs, Parts DEF Due, Once
    <3> QED BY <1>6, <1>7, <3>1, <3>2, <3>3, <3>4
  <2>2. ASSUME NEW p \in Obj, p \notin live PROVE REF'[p] = REF[p] /\ contained'[p] = contained[p]
    <3>1. At(vec, D, p) = {}
      BY <1>2, <2>2, Parts DEF At, Kept, Range
    <3>2. Sum(vec, D, p) = 0
      BY <3>1, FS_EmptySet DEF Sum
    <3> QED BY <1>7, <3>2, Parts
  <2> QED BY <2>1, <2>2 DEF Balanced
<1>9. HeldNow
  <2>1. \A v \in Vectors : Range(vec'[v].data) \subseteq live
    <3>1. Range(Empty.data) = {}
      BY EmptyIs DEF Range
    <3>2. \A v \in Vectors : vec'[v] = Empty \/ vec'[v] = vec[v]
      BY <1>3
    <3> QED BY <3>1, <3>2, Parts DEF Kept
  <2> QED BY <1>1, <2>1, ArgIs, Parts DEF HeldNow, Kept
<1>10. Deaths
  BY <1>1, <1>2, NullIs DEF Deaths, Numbers
<1>11. Stored'
  <2>1. \A v \in Vectors : Len(vec'[v].data) <= vec'[v].cap
    BY <1>3, EmptyIs, Parts DEF Stored
  <2>2. \A v \in Vectors : v \notin live' => vec'[v] = Empty
    BY <1>1, <1>3, NullIs, Parts DEF Stored, Numbers
  <2> QED BY <1>5, <2>1, <2>2 DEF Stored
<1>12. walk # NoWalk => walk.over \in named' /\ walk.result \in live' \ named' /\ walk.over \in Vectors
         /\ walk.result \in Vectors
  BY <1>1, <1>2, NullIs, WalkFacts, Parts DEF Walking, Numbers
<1>13. WalkOK'
  <2>1. walk # NoWalk => vec'[walk.result] = vec[walk.result] /\ vec'[walk.over] = vec[walk.over]
    BY <1>1, <1>2, <1>3, <1>12
  <2> QED BY <1>1, <1>12, <2>1, WalkSame, Parts
<1>14. live' \in SUBSET (Obj \cup Vectors) /\ named' \in SUBSET (Obj \cup Vectors) /\ named' \cap Vectors \subseteq live'
  BY <1>1, <1>2, NullIs, Parts DEF Numbers
<1> QED BY <1>1, <1>7, <1>8, <1>9, <1>10, <1>11, <1>13, <1>14, StepSettled, Parts

LEMMA DataInit == Init => DataInv
<1> SUFFICES ASSUME Init PROVE DataInv
  OBVIOUS
<1>1. /\ live = {} /\ named = {}
      /\ REF = [o \in Obj |-> 0] /\ contained = [o \in Obj |-> 0] /\ lost = [o \in Obj |-> 0]
      /\ vec = [v \in Vectors |-> Empty] /\ dico = [k \in Dico |-> NULL] /\ walk = NoWalk /\ fault = FALSE
  BY DEF Init
<1>2. DataTypes
  BY <1>1 DEF DataTypes
<1>3. Stored
  BY <1>1, EmptyIs, DataAssumption DEF Stored, Short
<1>4. Kept
  <2>1. \A v \in Vectors : Range(vec[v].data) = {}
    BY <1>1, EmptyIs DEF Range
  <2>2. Range(dico) \subseteq {NULL}
    BY <1>1 DEF Range
  <2> QED BY <1>1, <2>1, <2>2, NoWalkIs DEF Kept
<1>5. Exact
  BY <1>1 DEF Exact, Numbers
<1> QED BY <1>1, <1>2, <1>3, <1>4, <1>5 DEF DataInv, WalkOK

LEMMA DataNext ==
  ASSUME DataInv, [Next]_vars
  PROVE  DataInv'
<1>1. CASE \E o \in Obj : New(o)
  BY <1>1, NewStep
<1>2. CASE \E o \in Obj : Name(o)
  BY <1>2, NameStep
<1>3. CASE \E o \in Obj : Forget(o)
  BY <1>3, ForgetStep
<1>4. CASE \E v \in Vectors, s \in BoundedSeq(Obj, MaxSize) : NewVector(v, s)
  BY <1>4, NewVectorStep
<1>5. CASE \E v, w \in Vectors : Clone(v, w)
  BY <1>5, CloneStep
<1>6. CASE \E v \in Vectors, o \in Obj : VAppend(v, o)
  BY <1>6, VAppendStep
<1>7. CASE \E v \in Vectors, i \in 1..MaxSize, o \in Obj : VSet(v, i, o)
  BY <1>7, VSetStep
<1>8. CASE \E v \in Vectors, i \in 1..(2 * MaxSize + 1), o \in Obj : VSetPast(v, i, o)
  BY <1>8, VSetPastStep
<1>9. CASE \E v \in Vectors, i \in 1..MaxSize : VErase(v, i)
  BY <1>9, VEraseStep
<1>10. CASE \E v \in Vectors : VSuicidal(v)
  BY <1>10, VSuicidalStep
<1>11. CASE \E v \in Vectors, asc \in BOOLEAN : VSort(v, asc)
  BY <1>11, VSortStep
<1>12. CASE \E v \in Vectors : VReverse(v)
  BY <1>12, VReverseStep
<1>13. CASE \E v, w \in Vectors : Iterate(v, w)
  BY <1>13, IterateStep
<1>14. CASE Call
  BY <1>14, CallStep
<1>15. CASE \E o \in Obj : Return(o)
  BY <1>15, ReturnStep
<1>16. CASE Nothing
  BY <1>16, NothingStep
<1>17. CASE Throw
  BY <1>17, ThrowStep
<1>18. CASE \E k \in Dico, o \in Obj : DSet(k, o)
  BY <1>18, DSetStep
<1>19. CASE \E k \in Dico : DErase(k)
  BY <1>19, DEraseStep
<1>20. CASE GC
  BY <1>20, GCStep
<1>21. CASE UNCHANGED vars
  <2>1. /\ live' = live /\ named' = named /\ REF' = REF /\ contained' = contained /\ vec' = vec
        /\ dico' = dico /\ walk' = walk /\ lost' = lost /\ fault' = fault
    BY <1>21 DEF vars
  <2>2. \A o : Within(o)' = Within(o) /\ Due(o)' = Due(o)
    BY <2>1, WithinSame DEF Due
  <2> QED BY <2>1, <2>2 DEF DataInv, DataTypes, Stored, WalkOK, Walking, Kept, Exact, Numbers
<1> QED BY <1>1, <1>2, <1>3, <1>4, <1>5, <1>6, <1>7, <1>8, <1>9, <1>10, <1>11, <1>12, <1>13, <1>14,
           <1>15, <1>16, <1>17, <1>18, <1>19, <1>20, <1>21 DEF Next

LEMMA DataIsInv == Spec => []DataInv
<1>1. Init => DataInv
  BY DataInit
<1>2. DataInv /\ [Next]_vars => DataInv'
  BY DataNext
<1> QED BY <1>1, <1>2, PTL DEF Spec

-----------------------------------------------------------------------------
(* The properties.                                                            *)

(* The variables keep their types, every vector fits its storage and one that *)
(* does not exist has none, for any numbers, vectors, keys and sizes: the     *)
(* property `TypeOK` of the run.                                              *)
THEOREM TypeCorrect == Spec => []TypeOK
<1>1. DataInv => TypeOK
  <2> SUFFICES ASSUME DataInv PROVE TypeOK
    OBVIOUS
  <2>1. \A v \in Vectors : vec[v].data \in BoundedSeq(Obj, MaxSize)
    <3> SUFFICES ASSUME NEW v \in Vectors PROVE vec[v].data \in BoundedSeq(Obj, MaxSize)
      OBVIOUS
    <3> DEFINE s == vec[v].data
               n == Len(s)
    <3>1. s \in Seq(Obj) /\ n \in Nat /\ n <= MaxSize
      BY VecFacts
    <3>2. n \in 0..MaxSize /\ s \in [1..n -> Obj]
      BY <3>1, DataAssumption
    <3> HIDE DEF s, n
    <3>3. s \in BoundedSeq(Obj, MaxSize)
      BY <3>2, DataAssumption DEF BoundedSeq, SeqOf
    <3> QED BY <3>3 DEF s
  <2>2. /\ live \in SUBSET (Obj \cup Vectors) /\ named \subseteq live
        /\ REF \in [Obj -> Nat] /\ contained \in [Obj -> Nat] /\ lost \in [Obj -> Nat]
        /\ dico \in [Dico -> Obj \cup {NULL}] /\ fault \in BOOLEAN
    BY Parts
  <2>3. \A v \in Vectors : Len(vec[v].data) <= vec[v].cap /\ (v \notin live => vec[v] = Empty)
    BY Parts DEF Stored
  <2>4. walk = NoWalk \/ walk \in Walks
    BY Parts DEF WalkOK, Walking
  <2> QED BY <2>1, <2>2, <2>3, <2>4 DEF TypeOK, Walks
<1> QED BY <1>1, DataIsInv, PTL

(* What vectors, the dictionary, variables and the call in progress hold is   *)
(* exactly what the counts say, in any order of calls and whatever the called *)
(* function does: the property `CountsExact` of the run, without hypothesis.  *)
THEOREM ElementsAreCounted == Spec => []CountsExact
<1>1. DataInv => CountsExact
  <2> SUFFICES ASSUME DataInv, NEW o \in Numbers
               PROVE  /\ contained[o] = Within(o) + lost[o]
                      /\ REF[o] = Within(o) + lost[o] + Once(o \in named) + Once(o = walk.arg)
    BY DEF CountsExact
  <2>1. contained[o] = Within(o) + lost[o] /\ REF[o] = contained[o] + Due(o) /\ o \in Obj
    BY Parts DEF Exact, Numbers
  <2>2. Within(o) \in Nat /\ lost[o] \in Nat /\ Once(o \in named) \in Nat /\ Once(o = walk.arg) \in Nat
    BY <2>1, WithinIs, Parts DEF Once
  <2> QED BY <2>1, <2>2 DEF Due
<1> QED BY <1>1, DataIsInv, PTL

(* What sort makes of a vector of any length, whatever equal numbers it       *)
(* holds, is the same elements in order: the property `SortCorrect` of the    *)
(* run.                                                                       *)
THEOREM SortIsRight == Spec => []SortCorrect
<1>1. DataInv => SortCorrect
  <2> SUFFICES ASSUME DataInv, NEW v \in live \cap Vectors, NEW asc \in BOOLEAN
               PROVE  LET s == vec[v].data
                          t == Sorted(s, asc)
                      IN /\ \A o \in Obj : Count(t, o) = Count(s, o)
                         /\ \A i, j \in DOMAIN t : i < j => (t[i] = t[j] \/ Stays(t[j], t[i], asc))
    BY DEF SortCorrect
  <2> DEFINE s == vec[v].data
             t == Sorted(s, asc)
  <2>1. s \in Seq(Obj)
    BY VecFacts
  <2> HIDE DEF s
  <2>2. /\ t \in Seq(Obj) /\ Len(t) = Len(s) /\ \A o : Count(t, o) = Count(s, o)
        /\ \A i, j \in 1..Len(s) : i < j => Stays(t[j], t[i], asc)
    BY <2>1, SortedIs
  <2> HIDE DEF t
  <2>3. DOMAIN t = 1..Len(s)
    BY <2>1, <2>2
  <2>4. /\ \A o \in Obj : Count(t, o) = Count(s, o)
        /\ \A i, j \in DOMAIN t : i < j => (t[i] = t[j] \/ Stays(t[j], t[i], asc))
    BY <2>2, <2>3
  <2> QED BY <2>4 DEF s, t
<1> QED BY <1>1, DataIsInv, PTL

-----------------------------------------------------------------------------
(* The iterator and the index.  The functions iterate calls do not change the *)
(* size of a vector, and set does not write behind a full storage.            *)

Inside == Past # "beyond" /\ "size" \notin InCall

\* The iterator is in the storage it was made for.
OnStorage == walk # NoWalk => ~walk.moved /\ walk.pos <= Len(vec[walk.over].data)

Sound == DataInv /\ ~fault /\ OnStorage

\* A step that leaves the walk and the vector it goes over alone.
LEMMA OnStorageSame ==
  ASSUME OnStorage, walk' = walk,
         walk # NoWalk => Len(vec'[walk.over].data) = Len(vec[walk.over].data)
  PROVE  OnStorage'
BY DEF OnStorage

\* A vector gets another storage of the same size.
LEMMA SizeSame ==
  ASSUME DataInv, NEW v \in Vectors, NEW b, vec' = [vec EXCEPT ![v] = b],
         Len(b.data) = Len(vec[v].data), NEW w \in Vectors
  PROVE  Len(vec'[w].data) = Len(vec[w].data)
BY Parts DEF Short

LEMMA SoundStep ==
  ASSUME Inside, Sound, Next
  PROVE  ~fault' /\ OnStorage'
<1>1. DataInv /\ ~fault /\ OnStorage /\ Past # "beyond" /\ "size" \notin InCall
      /\ (walk # NoWalk => walk.over \in Vectors /\ walk.over \in named /\ walk.over \in live
                           /\ walk.result \in Vectors /\ walk.over # walk.result)
  BY WalkFacts, Parts DEF Sound, Inside, Walking
<1>2. CASE \E o \in Obj : New(o) \/ Name(o) \/ Forget(o)
  BY <1>1, <1>2, OnStorageSame DEF New, Name, Forget
<1>3. CASE \E v \in Vectors, s \in BoundedSeq(Obj, MaxSize) : NewVector(v, s)
  <2> PICK v \in Vectors, s \in BoundedSeq(Obj, MaxSize) : NewVector(v, s)
    BY <1>3
  <2>1. walk' = walk /\ fault' = fault /\ v \notin live /\ vec' = [vec EXCEPT ![v] = [data |-> s, cap |-> Len(s)]]
    BY DEF NewVector
  <2>2. \A w \in Vectors : w # v => vec'[w] = vec[w]
    BY <1>1, <2>1, Parts DEF Short
  <2> QED BY <1>1, <2>1, <2>2, OnStorageSame
<1>4. CASE \E v, w \in Vectors : Clone(v, w)
  <2> PICK v \in Vectors, w \in Vectors : Clone(v, w)
    BY <1>4
  <2>1. walk' = walk /\ fault' = fault /\ w \notin live /\ vec' = [vec EXCEPT ![w] = Filled(vec[v].data)]
    BY DEF Clone
  <2>2. \A u \in Vectors : u # w => vec'[u] = vec[u]
    BY <1>1, <2>1, Parts DEF Short
  <2> QED BY <1>1, <2>1, <2>2, OnStorageSame
<1>5. CASE \E v \in Vectors, o \in Obj : VAppend(v, o)
  <2> PICK v \in Vectors, o \in Obj : VAppend(v, o)
    BY <1>5
  <2>1. walk = NoWalk /\ fault' = fault
    BY <1>1 DEF VAppend, May
  <2>2. walk' = NoWalk
    BY <2>1, NoWalkIs, NullIs DEF VAppend
  <2> QED BY <1>1, <2>1, <2>2 DEF OnStorage
<1>6. CASE \E v \in Vectors, i \in 1..MaxSize, o \in Obj : VSet(v, i, o)
  <2> PICK v \in Vectors, i \in 1..MaxSize, o \in Obj : VSet(v, i, o)
    BY <1>6
  <2>1. walk' = walk /\ fault' = fault /\ vec' = [vec EXCEPT ![v].data[i] = o]
    BY DEF VSet
  <2>2. vec[v] \in Storage /\ vec[v].data \in Seq(Obj)
    BY <1>1, VecFacts
  <2>3. \A w \in Vectors : w # v => vec'[w] = vec[w]
    BY <1>1, <2>1, Parts DEF Short
  <2>4. vec'[v].data = [vec[v].data EXCEPT ![i] = o]
    BY <1>1, <2>1, <2>2, Parts DEF Short, Storage
  <2>5. Len(vec'[v].data) = Len(vec[v].data)
    BY <2>2, <2>4
  <2> QED BY <1>1, <2>1, <2>3, <2>5, OnStorageSame
<1>7. CASE \E v \in Vectors, i \in 1..(2 * MaxSize + 1), o \in Obj : VSetPast(v, i, o)
  <2> PICK v \in Vectors, i \in 1..(2 * MaxSize + 1), o \in Obj : VSetPast(v, i, o)
    BY <1>7
  <2>1. walk' = walk /\ vec' = vec /\ fault' = (fault \/ i > vec[v].cap) /\ i <= vec[v].cap + 0
    BY <1>1 DEF VSetPast
  <2>2. vec[v].cap \in Nat /\ i \in Int
    BY <1>1, VecFacts, DataAssumption DEF Storage
  <2>3. ~(i > vec[v].cap)
    BY <2>1, <2>2
  <2> QED BY <1>1, <2>1, <2>3, OnStorageSame
<1>8. CASE \E v \in Vectors, i \in 1..MaxSize : VErase(v, i)
  <2>1. walk = NoWalk /\ fault' = fault /\ walk' = walk
    BY <1>1, <1>8 DEF VErase, May
  <2> QED BY <1>1, <2>1 DEF OnStorage
<1>9. CASE \E v \in Vectors : VSuicidal(v)
  <2> PICK v \in Vectors : VSuicidal(v)
    BY <1>9
  <2>1. walk' = walk /\ fault' = fault /\ v # walk.over /\ vec' = [vec EXCEPT ![v] = Empty]
    BY DEF VSuicidal
  <2>2. \A w \in Vectors : w # v => vec'[w] = vec[w]
    BY <1>1, <2>1, Parts DEF Short
  <2> QED BY <1>1, <2>1, <2>2, OnStorageSame
<1>10. CASE \E v \in Vectors, asc \in BOOLEAN : VSort(v, asc)
  <2> PICK v \in Vectors, asc \in BOOLEAN : VSort(v, asc)
    BY <1>10
  <2> DEFINE s == vec[v].data
             t == Sorted(s, asc)
  <2>1. s \in Seq(Obj)
    BY <1>1, VecFacts
  <2>2. walk' = walk /\ fault' = fault /\ vec' = [vec EXCEPT ![v].data = t]
    BY DEF VSort, Rearrange
  <2> HIDE DEF s
  <2>3. Len(t) = Len(s)
    BY <2>1, SortedIs
  <2> HIDE DEF t
  <2>4. \A w \in Vectors : w # v => vec'[w] = vec[w]
    BY <1>1, <2>2, Parts DEF Short
  <2>5. vec'[v].data = t
    BY <1>1, <2>2, Parts DEF Short, Storage
  <2> QED BY <1>1, <2>2, <2>3, <2>4, <2>5, OnStorageSame DEF s
<1>11. CASE \E v \in Vectors : VReverse(v)
  <2> PICK v \in Vectors : VReverse(v)
    BY <1>11
  <2> DEFINE s == vec[v].data
             t == Reverse(s)
  <2>1. s \in Seq(Obj)
    BY <1>1, VecFacts
  <2>2. walk' = walk /\ fault' = fault /\ vec' = [vec EXCEPT ![v].data = t]
    BY DEF VReverse, Rearrange
  <2> HIDE DEF s
  <2>3. Len(t) = Len(s)
    BY <2>1, ReverseIs
  <2> HIDE DEF t
  <2>4. \A w \in Vectors : w # v => vec'[w] = vec[w]
    BY <1>1, <2>2, Parts DEF Short
  <2>5. vec'[v].data = t
    BY <1>1, <2>2, Parts DEF Short, Storage
  <2> QED BY <1>1, <2>2, <2>3, <2>4, <2>5, OnStorageSame DEF s
<1>12. CASE \E v, w \in Vectors : Iterate(v, w)
  <2> PICK v \in Vectors, w \in Vectors : Iterate(v, w)
    BY <1>12
  <2>1. walk' = [over |-> v, pos |-> 1, arg |-> NULL, result |-> w, moved |-> FALSE] /\ fault' = fault
        /\ vec' = vec /\ vec[v].data # <<>>
    BY DEF Iterate, NoWalk
  <2>2. walk'.over = v /\ walk'.pos = 1 /\ walk'.moved = FALSE
    BY <2>1
  <2>3. Len(vec[v].data) >= 1
    BY <1>1, <2>1, VecFacts
  <2> QED BY <1>1, <2>1, <2>2, <2>3 DEF OnStorage
<1>13. CASE Call
  <2>1. walk # NoWalk /\ walk' = [walk EXCEPT !.arg = vec[walk.over].data[walk.pos]] /\ vec' = vec /\ fault' = fault
    BY <1>13 DEF Call
  <2>2. walk \in Walks
    BY <1>1, <2>1, Parts DEF WalkOK, Walking
  <2>3. walk'.moved = walk.moved /\ walk'.pos = walk.pos /\ walk'.over = walk.over
    BY <2>1, <2>2 DEF Walks
  <2> QED BY <1>1, <2>1, <2>3 DEF OnStorage
<1>14. CASE (\E o \in Obj : Return(o)) \/ Nothing
  <2> PICK s : Returned(s)
    BY <1>14 DEF Return, Nothing
  <2> DEFINE b == Result(s)
             n == Len(vec[walk.over].data)
             left == walk.moved \/ walk.pos > n
  <2>1. /\ walk # NoWalk /\ vec' = [vec EXCEPT ![walk.result] = b] /\ fault' = (fault \/ left)
        /\ walk' = IF left \/ walk.pos = n THEN NoWalk ELSE [walk EXCEPT !.pos = @ + 1, !.arg = NULL]
    BY NoWalkIs DEF Returned, Result
  <2> HIDE DEF b
  <2>2. walk \in Walks /\ walk.pos \in Nat /\ n \in Nat
    BY <1>1, <2>1, VecFacts, Parts DEF WalkOK, Walking, Walks
  <2>3. ~left
    BY <1>1, <2>1, <2>2 DEF OnStorage
  <2>4. vec'[walk.over] = vec[walk.over]
    BY <1>1, <2>1, Parts DEF Short
  <2>5. CASE walk.pos = n
    BY <1>1, <2>1, <2>3, <2>5 DEF OnStorage
  <2>6. CASE walk.pos # n
    <3>1. walk' = [walk EXCEPT !.pos = @ + 1, !.arg = NULL]
      BY <2>1, <2>3, <2>6
    <3>2. walk'.moved = walk.moved /\ walk'.pos = walk.pos + 1 /\ walk'.over = walk.over
      BY <2>2, <3>1 DEF Walks
    <3>3. walk.pos + 1 <= n
      BY <2>2, <2>3, <2>6
    <3> QED BY <1>1, <2>1, <2>3, <2>4, <3>2, <3>3 DEF OnStorage
  <2> QED BY <2>5, <2>6
<1>15. CASE Throw
  BY <1>1, <1>15 DEF Throw, OnStorage
<1>16. CASE \E k \in Dico, o \in Obj : DSet(k, o)
  BY <1>1, <1>16, OnStorageSame DEF DSet
<1>17. CASE \E k \in Dico : DErase(k)
  BY <1>1, <1>17, OnStorageSame DEF DErase
<1>18. CASE GC
  <2>1. walk' = walk /\ fault' = fault
        /\ \A v \in Vectors : v \in named => vec'[v] = vec[v]
    BY <1>18 DEF GC
  <2> QED BY <1>1, <2>1, OnStorageSame
<1> QED BY <1>2, <1>3, <1>4, <1>5, <1>6, <1>7, <1>8, <1>9, <1>10, <1>11, <1>12, <1>13, <1>14, <1>15,
           <1>16, <1>17, <1>18 DEF Next

(* Nothing that a vector, the dictionary or a call of iterate names has been  *)
(* deleted, and no iterator or index leaves its storage: the property         *)
(* `NothingStale` of the run, for scripts whose functions called by iterate   *)
(* keep the size of vectors and that do not set the place behind a full       *)
(* storage (the code prevents neither: Vector.cpp:705 and 284).               *)
THEOREM NothingGoesStale == ASSUME Inside PROVE Spec => []NothingStale
<1>1. Init => Sound
  BY DataInit DEF Init, Sound, OnStorage
<1>2. Sound /\ [Next]_vars => Sound'
  <2> SUFFICES ASSUME Sound, [Next]_vars PROVE Sound'
    OBVIOUS
  <2>1. DataInv'
    BY DataNext DEF Sound
  <2>2. CASE Next
    BY <2>1, <2>2, SoundStep DEF Sound
  <2>3. CASE UNCHANGED vars
    BY <2>1, <2>3 DEF Sound, OnStorage, vars
  <2> QED BY <2>1, <2>2, <2>3
<1>3. Sound => NothingStale
  <2> SUFFICES ASSUME Sound PROVE NothingStale
    OBVIOUS
  <2>1. DataInv /\ ~fault
    BY DEF Sound
  <2>2. (\A v \in live \cap Vectors : Range(vec[v].data) \subseteq live) /\ Range(dico) \subseteq live \cup {NULL}
    BY <2>1, Parts DEF Kept
  <2>3. {walk.over, walk.arg, walk.result} \subseteq live \cup {NULL}
    BY <2>1, NoWalkIs, ArgIs, Parts DEF WalkOK, Walking
  <2> QED BY <2>1, <2>2, <2>3 DEF NothingStale
<1> QED BY <1>1, <1>2, <1>3, PTL DEF Spec

-----------------------------------------------------------------------------
(* SQIList.  The places of the lists of L where o is, when the elements of    *)
(* objects are F.                                                             *)

Filed(F) == F \in [Objects -> Seq(Nums)] /\ \A o \in Objects : Len(F[o]) <= MaxLen

In(F, L, o) == Cardinality(Places(F, L, o))

LEMMA PlacesAre ==
  ASSUME NEW F, Filed(F), NEW L \in SUBSET Lists, NEW o
  PROVE  Places(F, L, o)
           = {p \in L \X (1..MaxLen) : p[2] \in DOMAIN F[p[1]] /\ F[p[1]][p[2]] = o}
<1> DEFINE S == {p \in L \X (1..MaxLen) : p[2] \in DOMAIN F[p[1]] /\ F[p[1]][p[2]] = o}
<1>1. ASSUME NEW l \in L, NEW i \in DOMAIN F[l] PROVE i \in 1..MaxLen
  BY ListAssumption DEF Filed, Objects
<1>2. Places(F, L, o) \subseteq S
  <2> SUFFICES ASSUME NEW l \in L, NEW p \in {l} \X {i \in DOMAIN F[l] : F[l][i] = o} PROVE p \in S
    BY DEF Places
  <2>1. p[1] = l /\ p[2] \in DOMAIN F[l] /\ F[l][p[2]] = o /\ p = <<p[1], p[2]>>
    OBVIOUS
  <2> QED BY <1>1, <2>1
<1>3. S \subseteq Places(F, L, o)
  <2> SUFFICES ASSUME NEW p \in S PROVE p \in Places(F, L, o)
    OBVIOUS
  <2>1. p[1] \in L /\ p \in {p[1]} \X {i \in DOMAIN F[p[1]] : F[p[1]][i] = o}
    OBVIOUS
  <2> QED BY <2>1 DEF Places
<1> QED BY <1>2, <1>3

LEMMA InType ==
  ASSUME NEW F, Filed(F), NEW L \in SUBSET Lists, NEW o
  PROVE  /\ IsFiniteSet(Places(F, L, o)) /\ In(F, L, o) \in Nat
         /\ In(F, L, o) = 0 <=> \A l \in L : o \notin Range(F[l])
<1>1. IsFiniteSet(L) /\ IsFiniteSet(1..MaxLen)
  BY ListAssumption, FS_Subset, FS_Interval
<1>2. IsFiniteSet(L \X (1..MaxLen))
  BY <1>1, FS_Product
<1>3. Places(F, L, o) \in SUBSET (L \X (1..MaxLen))
  BY PlacesAre
<1>4. IsFiniteSet(Places(F, L, o))
  BY <1>2, <1>3, FS_Subset
<1>5. In(F, L, o) \in Nat /\ (In(F, L, o) = 0 <=> Places(F, L, o) = {})
  BY <1>4, FS_CardinalityType, FS_EmptySet DEF In
<1>6. ASSUME NEW l \in L, o \in Range(F[l]) PROVE Places(F, L, o) # {}
  <2>1. PICK i \in DOMAIN F[l] : F[l][i] = o
    BY <1>6 DEF Range
  <2>2. <<l, i>> \in Places(F, L, o)
    BY <2>1 DEF Places
  <2> QED BY <2>2
<1>7. ASSUME NEW p \in Places(F, L, o) PROVE p[1] \in L /\ o \in Range(F[p[1]])
  BY PlacesAre DEF Range
<1> QED BY <1>4, <1>5, <1>6, <1>7

LEMMA InSplit ==
  ASSUME NEW F, Filed(F), NEW L \in SUBSET Lists, NEW D \in SUBSET L, NEW o
  PROVE  In(F, L, o) = In(F, D, o) + In(F, L \ D, o)
<1> DEFINE A == Places(F, D, o)
           B == Places(F, L \ D, o)
<1>1. D \in SUBSET Lists /\ L \ D \in SUBSET Lists
  OBVIOUS
<1>2. IsFiniteSet(A) /\ IsFiniteSet(B) /\ In(F, D, o) \in Nat /\ In(F, L \ D, o) \in Nat
  BY <1>1, InType
<1>3. Places(F, L, o) = A \cup B /\ A \cap B = {}
  BY <1>1, PlacesAre
<1> HIDE DEF A, B
<1>4. Cardinality(A \cup B) = Cardinality(A) + Cardinality(B) - Cardinality(A \cap B)
  BY <1>2, FS_Union
<1>5. Cardinality(A \cap B) = 0
  BY <1>3, FS_EmptySet
<1> QED BY <1>2, <1>3, <1>4, <1>5 DEF In, A, B

LEMMA InSame ==
  ASSUME NEW F, NEW G, NEW L, \A l \in L : F[l] = G[l], NEW o
  PROVE  In(F, L, o) = In(G, L, o)
<1>1. Places(F, L, o) = Places(G, L, o)
  BY DEF Places
<1> QED BY <1>1 DEF In

LEMMA InOne ==
  ASSUME NEW F, Filed(F), NEW l \in Lists, NEW o
  PROVE  In(F, {l}, o) = Count(F[l], o)
<1> DEFINE s == F[l]
           f == [i \in Where(s, o) |-> <<l, i>>]
<1>1. s \in Seq(Nums)
  BY DEF Filed, Objects
<1>2. IsFiniteSet(Where(s, o)) /\ Count(s, o) = Cardinality(Where(s, o))
  BY <1>1, CountType
<1>3. f \in [Where(s, o) -> Places(F, {l}, o)]
  BY DEF Where, Places
<1>4. \A i, j \in Where(s, o) : f[i] = f[j] => i = j
  OBVIOUS
<1>5. \A p \in Places(F, {l}, o) : \E i \in Where(s, o) : f[i] = p
  <2> SUFFICES ASSUME NEW p \in Places(F, {l}, o) PROVE \E i \in Where(s, o) : f[i] = p
    OBVIOUS
  <2>1. p = <<l, p[2]>> /\ p[2] \in Where(s, o)
    BY DEF Places, Where
  <2> QED BY <2>1
<1>6. f \in Bijection(Where(s, o), Places(F, {l}, o))
  <2> HIDE DEF f
  <2> QED BY <1>3, <1>4, <1>5, Fun_IsBij
<1> QED BY <1>2, <1>6, FS_Bijection DEF ExistsBijection, In

(* One list gets other elements. *)
LEMMA InPut ==
  ASSUME NEW F, Filed(F), NEW l \in Lists,
         NEW G, Filed(G), \A k \in Lists : k # l => G[k] = F[k], NEW o
  PROVE  In(G, Lists, o) = In(F, Lists, o) - Count(F[l], o) + Count(G[l], o)
<1>1. \A k \in Lists \ {l} : F[k] = G[k]
  OBVIOUS
<1>2. {l} \in SUBSET Lists /\ Lists \ {l} \in SUBSET Lists /\ Lists \in SUBSET Lists
  OBVIOUS
<1>3. In(F, Lists, o) = In(F, {l}, o) + In(F, Lists \ {l}, o)
  BY <1>2, InSplit
<1>4. In(G, Lists, o) = In(G, {l}, o) + In(G, Lists \ {l}, o)
  BY <1>2, InSplit
<1>5. In(F, Lists \ {l}, o) = In(G, Lists \ {l}, o)
  BY <1>1, InSame
<1>6. In(F, {l}, o) = Count(F[l], o) /\ In(G, {l}, o) = Count(G[l], o)
  BY InOne
<1>7. In(F, {l}, o) \in Nat /\ In(G, {l}, o) \in Nat /\ In(F, Lists \ {l}, o) \in Nat
  BY <1>2, InType
<1> QED BY <1>3, <1>4, <1>5, <1>6, <1>7

(* The lists of D get no elements. *)
LEMMA InEmptied ==
  ASSUME NEW F, Filed(F), NEW D,
         NEW G, Filed(G), \A k \in Lists : G[k] = IF k \in D THEN <<>> ELSE F[k], NEW o
  PROVE  /\ In(G, Lists, o) = In(F, Lists, o) - In(F, D \cap Lists, o)
         /\ In(G, Lists, o) \in Nat /\ In(F, Lists, o) \in Nat /\ In(F, D \cap Lists, o) \in Nat
<1> DEFINE E == D \cap Lists
<1>1. E \in SUBSET Lists /\ Lists \ E \in SUBSET Lists /\ Lists \in SUBSET Lists
  OBVIOUS
<1>2. In(F, Lists, o) = In(F, E, o) + In(F, Lists \ E, o)
      /\ In(G, Lists, o) = In(G, E, o) + In(G, Lists \ E, o)
  BY <1>1, InSplit
<1>3. \A k \in Lists \ E : F[k] = G[k]
  OBVIOUS
<1>4. In(F, Lists \ E, o) = In(G, Lists \ E, o)
  BY <1>3, InSame
<1>5. \A k \in E : o \notin Range(G[k])
  BY DEF Range
<1>6. In(G, E, o) = 0
  BY <1>1, <1>5, InType
<1>7. In(F, E, o) \in Nat /\ In(F, Lists \ E, o) \in Nat /\ In(F, Lists, o) \in Nat
      /\ In(G, Lists, o) \in Nat
  BY <1>1, InType
<1> HIDE DEF E
<1>8. In(G, Lists, o) = In(F, Lists, o) - In(F, E, o)
  BY <1>2, <1>4, <1>6, <1>7
<1> QED BY <1>7, <1>8 DEF E

-----------------------------------------------------------------------------
(* The invariant of the memory m of the lists, when variables and statements  *)
(* refer w[o] times to o.                                                     *)

Memory == [live : SUBSET Objects, REF : [Objects -> Nat], contained : [Objects -> Nat],
           heap : [Objects -> {"text", "global", "local"}], data : [Objects -> Seq(Nums)],
           lost : [Objects -> Nat]]

\* Only lists that live have elements, and these live.
Lives(m) ==
  /\ \A o \in Objects : o \notin m.live \/ o \in Nums => m.data[o] = <<>>
  /\ \A l \in Lists : Range(m.data[l]) \subseteq m.live

Balances(m, w) ==
  /\ \A o \in m.live : /\ m.contained[o] = In(m.data, Lists, o) + m.lost[o]
                       /\ m.REF[o] = m.contained[o] + w[o]
  /\ \A o \in Objects \ m.live : w[o] = 0 /\ m.lost[o] = 0

\* The text is a heap of its own, and a list outside the function's heap has no
\* element in it.
Homes(m) ==
  /\ \A o \in Objects : m.heap[o] = "text" <=> o \in Eternals
  /\ \A l \in Lists : m.heap[l] # "local" => \A e \in Range(m.data[l]) : m.heap[e] # "local"

MemOK(m, w) ==
  m \in Memory /\ Filed(m.data) /\ w \in [Objects -> Nat] /\ Lives(m) /\ Balances(m, w) /\ Homes(m)

LEMMA ObjectsAre ==
  /\ Nums \subseteq Objects /\ Lists \subseteq Objects /\ Nums \cap Lists = {}
  /\ Eternals \subseteq Objects /\ Literals \subseteq Nums /\ DOMAIN Text \subseteq Lists
  /\ Nil \notin Objects /\ MaxLen \in Nat
BY ListAssumption DEF Objects, Eternals

LEMMA MemParts ==
  ASSUME NEW m, NEW w, MemOK(m, w)
  PROVE  /\ m \in Memory /\ Filed(m.data) /\ w \in [Objects -> Nat]
         /\ Lives(m) /\ Balances(m, w) /\ Homes(m)
         /\ m.live \in SUBSET Objects /\ m.REF \in [Objects -> Nat] /\ m.contained \in [Objects -> Nat]
         /\ m.heap \in [Objects -> {"text", "global", "local"}] /\ m.data \in [Objects -> Seq(Nums)]
         /\ m.lost \in [Objects -> Nat]
         /\ \A o \in Objects : In(m.data, Lists, o) \in Nat
         /\ \A o \in Objects : w[o] # 0 => o \in m.live
BY InType DEF MemOK, Memory, Balances

(* The counts of n follow the references: its other fields are those of m.    *)
LEMMA MemRecount ==
  ASSUME NEW m, NEW w, MemOK(m, w), NEW n \in Memory, NEW u \in [Objects -> Nat],
         n.live = m.live, n.heap = m.heap, n.data = m.data, n.lost = m.lost,
         n.contained = m.contained,
         \A x \in m.live : n.REF[x] = m.contained[x] + u[x],
         \A x \in Objects \ m.live : u[x] = 0
  PROVE  MemOK(n, u)
<1>1. m \in Memory /\ Filed(m.data) /\ Lives(m) /\ Balances(m, w) /\ Homes(m)
  BY DEF MemOK
<1>2. Lives(n) /\ Homes(n) /\ Filed(n.data)
  BY <1>1 DEF Lives, Homes
<1>3. Balances(n, u)
  BY <1>1 DEF Balances
<1> QED BY <1>2, <1>3 DEF MemOK

LEMMA AddRefOK ==
  ASSUME NEW m, NEW w, MemOK(m, w), NEW o \in m.live, NEW u \in [Objects -> Nat],
         \A x \in Objects : u[x] = w[x] + One(x = o)
  PROVE  /\ MemOK(AddRef(m, o), u)
         /\ AddRef(m, o).live = m.live /\ AddRef(m, o).heap = m.heap /\ AddRef(m, o).data = m.data
         /\ AddRef(m, o).lost = m.lost /\ AddRef(m, o).contained = m.contained
         /\ AddRef(m, o).REF \in [Objects -> Nat]
         /\ \A x \in Objects : AddRef(m, o).REF[x] = m.REF[x] + One(x = o)
<1> DEFINE n == AddRef(m, o)
<1>1. m \in Memory /\ m.REF \in [Objects -> Nat] /\ m.contained \in [Objects -> Nat]
      /\ o \in Objects /\ m.live \in SUBSET Objects /\ w \in [Objects -> Nat] /\ Balances(m, w)
  BY MemParts
<1>2. /\ n.live = m.live /\ n.heap = m.heap /\ n.data = m.data /\ n.lost = m.lost
      /\ n.contained = m.contained /\ n.REF = [m.REF EXCEPT ![o] = @ + 1]
  BY <1>1 DEF AddRef, Memory
<1>3. n.REF \in [Objects -> Nat] /\ \A x \in Objects : n.REF[x] = m.REF[x] + One(x = o)
  BY <1>1, <1>2 DEF One
<1>4. n \in Memory
  BY <1>1, <1>2, <1>3 DEF AddRef, Memory
<1> HIDE DEF n
<1>5. \A x \in m.live : n.REF[x] = m.contained[x] + u[x]
  <2> SUFFICES ASSUME NEW x \in m.live PROVE n.REF[x] = m.contained[x] + u[x]
    OBVIOUS
  <2>1. /\ m.REF[x] = m.contained[x] + w[x] /\ m.contained[x] \in Nat /\ w[x] \in Nat
        /\ One(x = o) \in Nat /\ n.REF[x] = m.REF[x] + One(x = o) /\ u[x] = w[x] + One(x = o)
    BY <1>1, <1>3 DEF Balances, One
  <2> QED BY <2>1
<1>6. \A x \in Objects \ m.live : u[x] = 0
  BY <1>1 DEF Balances, One
<1>7. MemOK(n, u)
  <2>1. n.live = m.live /\ n.heap = m.heap /\ n.data = m.data /\ n.lost = m.lost
        /\ n.contained = m.contained
    BY <1>2
  <2> QED BY <1>4, <1>5, <1>6, <2>1, MemRecount
<1> QED BY <1>2, <1>3, <1>7 DEF n

\* One reference to o less.
Lowered(m, o) == [m EXCEPT !.REF[o] = @ - 1]

LEMMA LoweredOK ==
  ASSUME NEW m, NEW w, MemOK(m, w), NEW o \in Objects, NEW u \in [Objects -> Nat],
         \A x \in Objects : w[x] = u[x] + One(x = o)
  PROVE  /\ MemOK(Lowered(m, o), u)
         /\ Lowered(m, o).live = m.live /\ Lowered(m, o).heap = m.heap /\ Lowered(m, o).data = m.data
<1> DEFINE n == Lowered(m, o)
<1>1. m \in Memory /\ m.REF \in [Objects -> Nat] /\ m.contained \in [Objects -> Nat]
      /\ m.live \in SUBSET Objects /\ w \in [Objects -> Nat] /\ Balances(m, w)
      /\ \A x \in Objects : w[x] # 0 => x \in m.live
  BY MemParts
<1>2. /\ n.live = m.live /\ n.heap = m.heap /\ n.data = m.data /\ n.lost = m.lost
      /\ n.contained = m.contained /\ n.REF = [m.REF EXCEPT ![o] = @ - 1]
  BY <1>1 DEF Lowered, Memory
<1>3. \A x \in m.live : n.REF[x] = m.contained[x] + u[x]
  <2> SUFFICES ASSUME NEW x \in m.live PROVE n.REF[x] = m.contained[x] + u[x]
    OBVIOUS
  <2>1. /\ m.REF[x] = m.contained[x] + w[x] /\ m.contained[x] \in Nat /\ u[x] \in Nat
        /\ w[x] = u[x] + One(x = o) /\ n.REF[x] = IF x = o THEN m.REF[x] - 1 ELSE m.REF[x]
    BY <1>1, <1>2 DEF Balances
  <2> QED BY <2>1 DEF One
<1>4. \A x \in Objects \ m.live : u[x] = 0
  BY <1>1 DEF Balances, One
<1>5. o \in m.live
  BY <1>1 DEF One
<1>6. n.REF \in [Objects -> Nat]
  <2>1. n.REF[o] \in Nat
    BY <1>1, <1>3, <1>5
  <2> QED BY <1>1, <1>2, <2>1
<1>7. n \in Memory
  BY <1>1, <1>2, <1>6 DEF Lowered, Memory
<1> HIDE DEF n
<1>8. MemOK(n, u)
  <2>1. n.live = m.live /\ n.heap = m.heap /\ n.data = m.data /\ n.lost = m.lost
        /\ n.contained = m.contained
    BY <1>2
  <2> QED BY <1>3, <1>4, <1>7, <2>1, MemRecount
<1> QED BY <1>2, <1>8 DEF n

(* Suicidal of objects nothing refers to.  What a list of them refers to is   *)
(* referred to that often less, and nothing refers to what goes with them.    *)

Given(m, D, e) == In(m.data, D \cap Lists, e)

Orphans(m, D, force) ==
  {e \in UNION {Range(m.data[o]) : o \in D} :
     m.REF[e] = Given(m, D, e) /\ (e \notin Eternals \/ force)}

\* n is m without D and what goes with it.
Reaped(n, m, D, force) ==
  /\ n.live = m.live \ (D \cup Orphans(m, D, force))
  /\ \A e \in Objects : /\ n.REF[e] = m.REF[e] - Given(m, D, e)
                        /\ n.contained[e] = m.contained[e] - Given(m, D, e)
                        /\ n.data[e] = IF e \in D THEN <<>> ELSE m.data[e]
  /\ n.heap = m.heap /\ n.lost = m.lost /\ n.data \in [Objects -> Seq(Nums)]
  /\ (\A e \in Objects : n.REF[e] \in Nat /\ n.contained[e] \in Nat) => n \in Memory

LEMMA DestroyedIs ==
  ASSUME NEW m, m \in Memory, NEW D \in SUBSET Objects, NEW force
  PROVE  Reaped(Destroyed(m, D, force), m, D, force)
<1> DEFINE given == [e \in Objects |-> Cardinality(Places(m.data, D \cap Lists, e))]
           last  == {e \in UNION {Range(m.data[o]) : o \in D} :
                       m.REF[e] = given[e] /\ (e \notin Eternals \/ force)}
           n == [m EXCEPT !.live = @ \ (D \cup last),
                   !.REF = [e \in Objects |-> @[e] - given[e]],
                   !.contained = [e \in Objects |-> @[e] - given[e]],
                   !.data = [o \in Objects |-> IF o \in D THEN <<>> ELSE @[o]]]
<1>1. Destroyed(m, D, force) = n
  BY DEF Destroyed
<1>2. \A e \in Objects : given[e] = Given(m, D, e)
  BY DEF Given, In
<1>3. UNION {Range(m.data[o]) : o \in D} \subseteq Objects
  BY DEF Memory, Range, Objects
<1>4. last = Orphans(m, D, force)
  BY <1>2, <1>3 DEF Orphans
<1> HIDE DEF last, given
<1>5. /\ n.live = m.live \ (D \cup last) /\ n.heap = m.heap /\ n.lost = m.lost
      /\ n.REF = [e \in Objects |-> m.REF[e] - given[e]]
      /\ n.contained = [e \in Objects |-> m.contained[e] - given[e]]
      /\ n.data = [o \in Objects |-> IF o \in D THEN <<>> ELSE m.data[o]]
  BY DEF Memory
<1>6. m.live \ (D \cup last) \in SUBSET Objects
  BY DEF Memory
<1>7. \A e \in Objects :
        /\ n.REF[e] = m.REF[e] - Given(m, D, e) /\ n.contained[e] = m.contained[e] - Given(m, D, e)
        /\ n.data[e] = IF e \in D THEN <<>> ELSE m.data[e]
  <2> HIDE DEF n
  <2> QED BY <1>2, <1>5
<1>8. n.data \in [Objects -> Seq(Nums)]
  <2>1. m.data \in [Objects -> Seq(Nums)] /\ <<>> \in Seq(Nums)
    BY DEF Memory
  <2> HIDE DEF n
  <2> QED BY <1>5, <2>1
<1>9. ASSUME \A e \in Objects : n.REF[e] \in Nat /\ n.contained[e] \in Nat
      PROVE  n \in Memory
  <2>1. n.REF \in [Objects -> Nat] /\ n.contained \in [Objects -> Nat]
    <3> HIDE DEF n
    <3> QED BY <1>5, <1>9
  <2> QED BY <1>5, <1>6, <1>8, <2>1 DEF Memory
<1> HIDE DEF n
<1> QED BY <1>1, <1>4, <1>5, <1>7, <1>8, <1>9 DEF Reaped

LEMMA DestroyedOK ==
  ASSUME NEW m, NEW w, MemOK(m, w), NEW D \in SUBSET m.live, \A o \in D : m.REF[o] = 0,
         NEW force
  PROVE  /\ MemOK(Destroyed(m, D, force), w)
         /\ Destroyed(m, D, force).live \subseteq m.live
         /\ Destroyed(m, D, force).heap = m.heap
<1> DEFINE n == Destroyed(m, D, force)
           F == m.data
           G == n.data
           last == Orphans(m, D, force)
           given(e) == Given(m, D, e)
<1>1. /\ m \in Memory /\ Filed(m.data) /\ w \in [Objects -> Nat] /\ Lives(m) /\ Balances(m, w)
      /\ Homes(m) /\ m.live \in SUBSET Objects /\ m.REF \in [Objects -> Nat]
      /\ m.contained \in [Objects -> Nat]
  BY MemParts
<1>0. D \in SUBSET Objects
  BY <1>1
<1>2. /\ n.live = m.live \ (D \cup last)
      /\ \A e \in Objects :
           /\ n.REF[e] = m.REF[e] - given(e) /\ n.contained[e] = m.contained[e] - given(e)
           /\ n.data[e] = IF e \in D THEN <<>> ELSE F[e]
      /\ n.heap = m.heap /\ n.lost = m.lost
      /\ n.data \in [Objects -> Seq(Nums)]
      /\ (\A e \in Objects : n.REF[e] \in Nat /\ n.contained[e] \in Nat) => n \in Memory
  <2>1. m \in Memory
    BY <1>1
  <2>2. Reaped(n, m, D, force)
    BY <1>0, <2>1, DestroyedIs
  <2> HIDE DEF n
  <2> QED BY <2>2 DEF Reaped
<1> HIDE DEF n
<1>3. /\ Filed(G)
      /\ \A k \in Lists : G[k] = IF k \in D THEN <<>> ELSE F[k]
  <2>1. <<>> \in Seq(Nums) /\ Len(<<>>) <= MaxLen
    BY ListAssumption
  <2>2. \A o \in Objects : F[o] \in Seq(Nums) /\ Len(F[o]) <= MaxLen
    BY <1>1 DEF Filed
  <2>3. \A o \in Objects : Len(G[o]) <= MaxLen
    BY <1>2, <2>1, <2>2
  <2> QED BY <1>2, <2>3, ObjectsAre DEF Filed
<1>4. \A e \in Objects : /\ In(G, Lists, e) = In(F, Lists, e) - given(e)
                         /\ In(G, Lists, e) \in Nat /\ In(F, Lists, e) \in Nat /\ given(e) \in Nat
  BY <1>1, <1>3, InEmptied DEF Given
<1>5. \A e \in Objects \ m.live : given(e) = 0
  <2> SUFFICES ASSUME NEW e \in Objects \ m.live PROVE given(e) = 0
    OBVIOUS
  <2>1. D \cap Lists \in SUBSET Lists /\ \A l \in D \cap Lists : e \notin Range(F[l])
    BY <1>1 DEF Lives
  <2> HIDE DEF F
  <2>2. In(F, D \cap Lists, e) = 0
    BY <1>1, <2>1, InType DEF F
  <2> QED BY <2>2 DEF Given, F
<1>6. \A e \in m.live : /\ n.contained[e] = In(G, Lists, e) + m.lost[e]
                        /\ n.REF[e] = n.contained[e] + w[e]
                        /\ n.contained[e] \in Nat /\ n.REF[e] \in Nat
  <2> SUFFICES ASSUME NEW e \in m.live
               PROVE  /\ n.contained[e] = In(G, Lists, e) + m.lost[e]
                      /\ n.REF[e] = n.contained[e] + w[e]
                      /\ n.contained[e] \in Nat /\ n.REF[e] \in Nat
    OBVIOUS
  <2>1. e \in Objects /\ m.lost[e] \in Nat /\ w[e] \in Nat
    BY <1>1 DEF Memory
  <2>2. m.contained[e] = In(F, Lists, e) + m.lost[e] /\ m.REF[e] = m.contained[e] + w[e]
    BY <1>1 DEF Balances
  <2>3. n.contained[e] = m.contained[e] - given(e) /\ n.REF[e] = m.REF[e] - given(e)
    BY <1>2, <2>1
  <2>4. In(G, Lists, e) = In(F, Lists, e) - given(e)
        /\ In(G, Lists, e) \in Nat /\ In(F, Lists, e) \in Nat /\ given(e) \in Nat
    BY <1>4, <2>1
  <2> HIDE DEF given, G, F
  <2> QED BY <2>1, <2>2, <2>3, <2>4
<1>7. \A e \in Objects \ m.live : n.contained[e] \in Nat /\ n.REF[e] \in Nat
  BY <1>1, <1>2, <1>5
<1>9. n \in Memory
  BY <1>2, <1>6, <1>7
\* Nothing refers to what is gone.
<1>10. \A e \in D \cup last : e \in m.live /\ In(G, Lists, e) = 0 /\ w[e] = 0 /\ m.lost[e] = 0
  <2> SUFFICES ASSUME NEW e \in D \cup last
               PROVE  e \in m.live /\ In(G, Lists, e) = 0 /\ w[e] = 0 /\ m.lost[e] = 0
    OBVIOUS
  <2>1. e \in m.live
    <3>1. ASSUME e \in last PROVE e \in m.live
      <4>1. PICK o \in D : e \in Range(F[o])
        BY <3>1 DEF Orphans
      <4>2. o \in Lists
        BY <1>0, <1>1, <4>1 DEF Lives, Range, Objects
      <4> QED BY <1>1, <4>1, <4>2 DEF Lives
    <3> QED BY <3>1
  <2>2. n.REF[e] = 0
    <3>1. CASE e \in D
      <4>1. m.REF[e] = 0 /\ given(e) \in Nat /\ n.REF[e] = m.REF[e] - given(e) /\ n.REF[e] \in Nat
        BY <1>1, <1>2, <1>4, <1>6, <2>1, <3>1
      <4> HIDE DEF given
      <4> QED BY <4>1
    <3>2. CASE e \in last
      <4>1. m.REF[e] = given(e) /\ given(e) \in Nat /\ n.REF[e] = m.REF[e] - given(e)
        BY <1>1, <1>2, <1>4, <2>1, <3>2 DEF Orphans
      <4> HIDE DEF given
      <4> QED BY <4>1
    <3> QED BY <3>1, <3>2
  <2>3. In(G, Lists, e) \in Nat /\ w[e] \in Nat /\ m.lost[e] \in Nat
    BY <1>1, <1>4, <2>1 DEF Memory
  <2>4. n.contained[e] = In(G, Lists, e) + m.lost[e] /\ n.REF[e] = n.contained[e] + w[e]
    BY <1>6, <2>1
  <2> HIDE DEF G
  <2> QED BY <2>1, <2>2, <2>3, <2>4
<1>11. Lives(n)
  <2>1. \A e \in last : e \in Nums
    BY <1>0, <1>1 DEF Orphans, Memory, Range
  <2>2. \A o \in Objects : o \notin n.live \/ o \in Nums => G[o] = <<>>
    BY <1>1, <1>2, <2>1 DEF Lives
  <2>3. ASSUME NEW l \in Lists, NEW e \in Range(G[l]) PROVE e \in n.live
    <3>1. l \notin D /\ G[l] = F[l]
      BY <1>3, <2>3 DEF Range
    <3>2. e \in m.live /\ e \in Objects
      BY <1>1, <2>3, <3>1 DEF Lives
    <3>3. In(G, Lists, e) # 0
      <4>1. Lists \in SUBSET Lists
        OBVIOUS
      <4> HIDE DEF G
      <4> QED BY <1>3, <2>3, <4>1, InType
    <3>4. e \notin D \cup last
      BY <1>10, <3>3
    <3> QED BY <1>2, <3>2, <3>4
  <2> QED BY <2>2, <2>3 DEF Lives
<1>12. Balances(n, w)
  <2>1. \A o \in n.live : n.contained[o] = In(n.data, Lists, o) + n.lost[o]
                          /\ n.REF[o] = n.contained[o] + w[o]
    BY <1>2, <1>6
  <2>2. \A o \in Objects \ n.live : w[o] = 0 /\ n.lost[o] = 0
    BY <1>1, <1>2, <1>10 DEF Balances
  <2> QED BY <2>1, <2>2 DEF Balances
<1>13. Homes(n)
  <2>1. \A l \in Lists : Range(G[l]) \subseteq Range(F[l])
    BY <1>3 DEF Range
  <2> QED BY <1>1, <1>2, <2>1 DEF Homes
<1>14. MemOK(n, w)
  BY <1>1, <1>3, <1>9, <1>11, <1>12, <1>13 DEF MemOK
<1> QED BY <1>2, <1>14 DEF n

LEMMA RemRefOK ==
  ASSUME NEW m, NEW w, MemOK(m, w), NEW o \in Objects, NEW u \in [Objects -> Nat],
         \A x \in Objects : w[x] = u[x] + One(x = o)
  PROVE  /\ MemOK(RemRef(m, o), u)
         /\ RemRef(m, o).live \subseteq m.live /\ RemRef(m, o).heap = m.heap
<1> DEFINE r == Lowered(m, o)
<1>1. MemOK(r, u) /\ r.live = m.live /\ r.heap = m.heap
  BY LoweredOK
<1>2. o \in m.live
  BY MemParts DEF One
<1>3. RemRef(m, o) = IF r.REF[o] = 0 /\ o \notin Eternals THEN Destroyed(r, {o}, FALSE) ELSE r
  BY DEF RemRef, Lowered
<1> HIDE DEF r
<1>4. CASE r.REF[o] = 0
  <2>1. {o} \in SUBSET r.live /\ \A x \in {o} : r.REF[x] = 0
    BY <1>1, <1>2, <1>4
  <2>2. /\ MemOK(Destroyed(r, {o}, FALSE), u) /\ Destroyed(r, {o}, FALSE).live \subseteq r.live
        /\ Destroyed(r, {o}, FALSE).heap = r.heap
    BY <1>1, <2>1, DestroyedOK
  <2> QED BY <1>1, <1>3, <2>2
<1> QED BY <1>1, <1>3, <1>4

-----------------------------------------------------------------------------
(* The elements of a list become s.  The counts of elements that come and go  *)
(* follow; what refers to objects is then u.                                  *)

Refiled(n, m, l, s) ==
  /\ n.live = m.live /\ n.heap = m.heap /\ n.lost = m.lost
  /\ n.data \in [Objects -> Seq(Nums)] /\ n.data[l] = s
  /\ \A k \in Objects : k # l => n.data[k] = m.data[k]
  /\ \A o \in Objects : n.contained[o] = (m.contained[o] - Count(m.data[l], o)) + Count(s, o)
  /\ \A o \in Objects \ m.live : n.REF[o] = m.REF[o]
  /\ (\A o \in Objects : n.REF[o] \in Nat /\ n.contained[o] \in Nat) => n \in Memory

LEMMA RefiledOK ==
  ASSUME NEW m, NEW w, MemOK(m, w), NEW l \in Lists, l \in m.live,
         NEW s \in Seq(Nums), Len(s) <= MaxLen, Range(s) \subseteq m.live,
         m.heap[l] # "local" => \A e \in Range(s) : m.heap[e] # "local",
         NEW n, Refiled(n, m, l, s), NEW u \in [Objects -> Nat],
         \A o \in m.live : n.REF[o] = n.contained[o] + u[o],
         \A o \in Objects \ m.live : u[o] = 0
  PROVE  MemOK(n, u)
<1> DEFINE F == m.data
           G == n.data
<1>1. /\ m \in Memory /\ Filed(F) /\ w \in [Objects -> Nat] /\ Lives(m) /\ Balances(m, w)
      /\ Homes(m) /\ m.live \in SUBSET Objects /\ m.REF \in [Objects -> Nat]
      /\ m.contained \in [Objects -> Nat] /\ m.lost \in [Objects -> Nat]
  BY MemParts
<1>2. /\ n.live = m.live /\ n.heap = m.heap /\ n.lost = m.lost
      /\ G \in [Objects -> Seq(Nums)] /\ G[l] = s
      /\ \A k \in Objects : k # l => G[k] = F[k]
      /\ \A o \in Objects : n.contained[o] = (m.contained[o] - Count(F[l], o)) + Count(s, o)
      /\ \A o \in Objects \ m.live : n.REF[o] = m.REF[o]
      /\ (\A o \in Objects : n.REF[o] \in Nat /\ n.contained[o] \in Nat) => n \in Memory
  BY DEF Refiled
<1> HIDE DEF F, G
<1>3. Filed(G)
  BY <1>1, <1>2 DEF Filed
<1>4. ASSUME NEW o \in Objects
      PROVE  /\ In(G, Lists, o) = (In(F, Lists, o) - Count(F[l], o)) + Count(s, o)
             /\ In(F, Lists, o) \in Nat /\ In(G, Lists, o) \in Nat
             /\ Count(F[l], o) \in Nat /\ Count(s, o) \in Nat
  <2>1. \A k \in Lists : k # l => G[k] = F[k]
    BY <1>2, ObjectsAre
  <2>0. Filed(F)
    BY <1>1
  <2>2. In(G, Lists, o) = In(F, Lists, o) - Count(F[l], o) + Count(G[l], o)
    BY <1>3, <2>0, <2>1, InPut
  <2>3. Lists \in SUBSET Lists /\ F[l] \in Seq(Nums)
    BY <1>1, ObjectsAre DEF Filed
  <2>4. In(F, Lists, o) \in Nat /\ In(G, Lists, o) \in Nat
    BY <1>1, <1>3, <2>3, InType
  <2>5. Count(F[l], o) \in Nat /\ Count(s, o) \in Nat
    BY <2>3, CountType
  <2> QED BY <1>2, <2>2, <2>4, <2>5
<1>5. \A o \in m.live : /\ n.contained[o] = In(G, Lists, o) + m.lost[o]
                        /\ n.contained[o] \in Nat /\ n.REF[o] \in Nat
  <2> SUFFICES ASSUME NEW o \in m.live
               PROVE  /\ n.contained[o] = In(G, Lists, o) + m.lost[o]
                      /\ n.contained[o] \in Nat /\ n.REF[o] \in Nat
    OBVIOUS
  <2>1. o \in Objects /\ m.lost[o] \in Nat /\ u[o] \in Nat /\ n.REF[o] = n.contained[o] + u[o]
    BY <1>1
  <2>2. m.contained[o] = In(F, Lists, o) + m.lost[o]
    BY <1>1 DEF Balances, F
  <2>3. n.contained[o] = (m.contained[o] - Count(F[l], o)) + Count(s, o)
    BY <1>2, <2>1
  <2>4. /\ In(G, Lists, o) = (In(F, Lists, o) - Count(F[l], o)) + Count(s, o)
        /\ In(F, Lists, o) \in Nat /\ In(G, Lists, o) \in Nat
        /\ Count(F[l], o) \in Nat /\ Count(s, o) \in Nat
    BY <1>4, <2>1
  <2>5. n.contained[o] = In(G, Lists, o) + m.lost[o]
    BY <2>1, <2>2, <2>3, <2>4
  <2> QED BY <2>1, <2>4, <2>5
<1>6. \A o \in Objects \ m.live : n.contained[o] \in Nat /\ n.REF[o] \in Nat
  <2> SUFFICES ASSUME NEW o \in Objects \ m.live PROVE n.contained[o] \in Nat /\ n.REF[o] \in Nat
    OBVIOUS
  <2>1. o \notin Range(F[l]) /\ o \notin Range(s) /\ F[l] \in Seq(Nums)
    BY <1>1, ObjectsAre DEF Lives, Filed, F
  <2>2. Count(F[l], o) = 0 /\ Count(s, o) = 0
    BY <2>1, CountType
  <2> QED BY <1>1, <1>2, <2>2
<1>7. n \in Memory
  BY <1>2, <1>5, <1>6
<1>8. Lives(n)
  <2>1. \A o \in Objects : o \notin n.live \/ o \in Nums => G[o] = <<>>
    BY <1>1, <1>2, ObjectsAre DEF Lives, F
  <2>2. \A k \in Lists : Range(G[k]) \subseteq n.live
    BY <1>1, <1>2, ObjectsAre DEF Lives, F
  <2> QED BY <2>1, <2>2 DEF Lives, G
<1>9. Balances(n, u)
  BY <1>1, <1>2, <1>5 DEF Balances, G
<1>10. Homes(n)
  <2>1. \A k \in Lists : m.heap[k] # "local" => \A e \in Range(G[k]) : m.heap[e] # "local"
    BY <1>1, <1>2, ObjectsAre DEF Homes, F
  <2> QED BY <1>1, <1>2, <2>1 DEF Homes, G
<1> QED BY <1>3, <1>7, <1>8, <1>9, <1>10 DEF MemOK, G

-----------------------------------------------------------------------------
(* A new object, and Export.                                                  *)

LEMMA AllocatedOK ==
  ASSUME NEW m, NEW w, MemOK(m, w), NEW o \in Objects, o \notin m.live, o \notin Eternals,
         NEW h \in {"global", "local"}
  PROVE  /\ MemOK(Allocated(m, o, h), w)
         /\ Allocated(m, o, h).live = m.live \cup {o} /\ Allocated(m, o, h).data = m.data
         /\ Allocated(m, o, h).heap[o] = h
         /\ \A x \in Objects : x # o => Allocated(m, o, h).heap[x] = m.heap[x]
<1> DEFINE n == Allocated(m, o, h)
<1>1. /\ m \in Memory /\ Filed(m.data) /\ w \in [Objects -> Nat] /\ Lives(m) /\ Balances(m, w)
      /\ Homes(m) /\ m.live \in SUBSET Objects /\ m.REF \in [Objects -> Nat]
      /\ m.contained \in [Objects -> Nat] /\ m.lost \in [Objects -> Nat]
      /\ m.heap \in [Objects -> {"text", "global", "local"}] /\ m.data \in [Objects -> Seq(Nums)]
  BY MemParts
<1>2. /\ n.live = m.live \cup {o} /\ n.REF = [m.REF EXCEPT ![o] = 0]
      /\ n.contained = [m.contained EXCEPT ![o] = 0] /\ n.heap = [m.heap EXCEPT ![o] = h]
      /\ n.data = [m.data EXCEPT ![o] = <<>>] /\ n.lost = m.lost
  BY <1>1 DEF Allocated, Memory
<1>3. n.data = m.data
  <2>1. m.data[o] = <<>>
    BY <1>1 DEF Lives
  <2> HIDE DEF n
  <2> QED BY <1>1, <1>2, <2>1
<1>4. /\ n.REF \in [Objects -> Nat] /\ n.contained \in [Objects -> Nat]
      /\ n.heap \in [Objects -> {"text", "global", "local"}]
      /\ n.REF[o] = 0 /\ n.contained[o] = 0 /\ n.heap[o] = h
      /\ \A x \in Objects : x # o => n.REF[x] = m.REF[x] /\ n.contained[x] = m.contained[x]
                                     /\ n.heap[x] = m.heap[x]
  <2> HIDE DEF n
  <2> QED BY <1>1, <1>2
<1>5. n \in Memory
  <2>1. m.live \cup {o} \in SUBSET Objects
    BY <1>1
  <2>2. n.REF \in [Objects -> Nat] /\ n.contained \in [Objects -> Nat]
        /\ n.heap \in [Objects -> {"text", "global", "local"}] /\ n.data \in [Objects -> Seq(Nums)]
        /\ n.live \in SUBSET Objects /\ n.lost \in [Objects -> Nat]
    BY <1>1, <1>2, <1>3, <1>4, <2>1
  <2> QED BY <1>1, <2>2 DEF Allocated, Memory
<1> HIDE DEF n
<1>6. In(m.data, Lists, o) = 0
  <2>1. \A l \in Lists : o \notin Range(m.data[l])
    BY <1>1 DEF Lives
  <2>2. Lists \in SUBSET Lists
    OBVIOUS
  <2> DEFINE F == m.data
  <2>3. Filed(F) /\ \A l \in Lists : o \notin Range(F[l])
    BY <1>1, <2>1
  <2> HIDE DEF F
  <2>4. In(F, Lists, o) = 0
    BY <2>2, <2>3, InType
  <2> QED BY <2>4 DEF F
<1>7. Lives(n)
  BY <1>1, <1>2, <1>3 DEF Lives
<1>8. Balances(n, w)
  <2>1. \A x \in n.live : n.contained[x] = In(m.data, Lists, x) + n.lost[x]
                          /\ n.REF[x] = n.contained[x] + w[x]
    <3> SUFFICES ASSUME NEW x \in n.live
                 PROVE  n.contained[x] = In(m.data, Lists, x) + n.lost[x]
                        /\ n.REF[x] = n.contained[x] + w[x]
      OBVIOUS
    <3>1. CASE x = o
      BY <1>1, <1>2, <1>4, <1>6, <3>1 DEF Balances
    <3>2. CASE x # o
      BY <1>1, <1>2, <1>4, <3>2 DEF Balances
    <3> QED BY <3>1, <3>2
  <2>2. \A x \in Objects \ n.live : w[x] = 0 /\ n.lost[x] = 0
    BY <1>1, <1>2 DEF Balances
  <2> QED BY <1>3, <2>1, <2>2 DEF Balances
<1>9. Homes(n)
  <2>1. \A x \in Objects : n.heap[x] = "text" <=> x \in Eternals
    <3>1. h # "text"
      OBVIOUS
    <3> QED BY <1>1, <1>4, <3>1 DEF Homes
  <2>2. ASSUME NEW l \in Lists, n.heap[l] # "local", NEW e \in Range(m.data[l])
        PROVE  n.heap[e] # "local"
    <3>0. e \in m.live /\ l \in Objects /\ m.data[l] # <<>>
      <4>1. e \in m.live /\ l \in Objects
        BY <1>1, <2>2, ObjectsAre DEF Lives
      <4>2. PICK i \in DOMAIN m.data[l] : TRUE
        BY <2>2 DEF Range
      <4>3. m.data[l] # <<>>
        BY <4>2
      <4> QED BY <4>1, <4>3
    <3>1. e # o /\ l # o /\ e \in Objects
      BY <1>1, <3>0 DEF Lives
    <3> QED BY <1>1, <1>4, <2>2, <3>0, <3>1 DEF Homes
  <2> QED BY <1>3, <2>1, <2>2 DEF Homes
<1>10. MemOK(n, w)
  BY <1>1, <1>3, <1>5, <1>7, <1>8, <1>9 DEF MemOK
<1> QED BY <1>2, <1>3, <1>4, <1>10 DEF n

LEMMA ExportedOK ==
  ASSUME NEW m, NEW w, MemOK(m, w), NEW o \in Objects, NEW h \in {"global", "local"},
         h = "local" => \A e \in {o} \cup Range(m.data[o]) : m.heap[e] # "global"
  PROVE  /\ MemOK(Exported(m, o, h), w)
         /\ Exported(m, o, h).live = m.live /\ Exported(m, o, h).data = m.data
         /\ h = "local" => Exported(m, o, h).heap = m.heap
         /\ o \notin Eternals => Exported(m, o, h).heap[o] = h
         /\ \A x \in Objects : Exported(m, o, h).heap[x] = "local" => m.heap[x] = "local"
<1> DEFINE n == Exported(m, o, h)
           moved == IF o \in Eternals THEN {} ELSE ({o} \cup Range(m.data[o])) \ Eternals
<1>1. /\ m \in Memory /\ Filed(m.data) /\ w \in [Objects -> Nat] /\ Lives(m) /\ Balances(m, w)
      /\ Homes(m) /\ m.live \in SUBSET Objects
      /\ m.heap \in [Objects -> {"text", "global", "local"}] /\ m.data \in [Objects -> Seq(Nums)]
  BY MemParts
<1>2. /\ n.live = m.live /\ n.REF = m.REF /\ n.contained = m.contained
      /\ n.heap = [e \in Objects |-> IF e \in moved THEN h ELSE m.heap[e]]
      /\ n.data = m.data /\ n.lost = m.lost
  BY <1>1 DEF Exported, Memory
<1>3. n.heap \in [Objects -> {"text", "global", "local"}]
      /\ \A e \in Objects : n.heap[e] = IF e \in moved THEN h ELSE m.heap[e]
  <2> HIDE DEF n
  <2> QED BY <1>1, <1>2
<1>4. n \in Memory
  BY <1>1, <1>2, <1>3 DEF Exported, Memory
<1> HIDE DEF n
<1>5. \A e \in moved : e \in Objects /\ e \notin Eternals /\ (h = "local" => m.heap[e] = "local")
  <2> SUFFICES ASSUME NEW e \in moved
               PROVE  e \in Objects /\ e \notin Eternals /\ (h = "local" => m.heap[e] = "local")
    OBVIOUS
  <2>1. e \in {o} \cup Range(m.data[o]) /\ e \notin Eternals
    OBVIOUS
  <2>2. e \in Objects
    BY <1>1, <2>1, ObjectsAre DEF Range
  <2> QED BY <1>1, <2>1, <2>2 DEF Homes
<1>6. h = "local" => n.heap = m.heap
  <2>1. h = "local" => \A e \in Objects : n.heap[e] = m.heap[e]
    BY <1>3, <1>5
  <2> QED BY <1>1, <1>3, <2>1
<1>7. \A x \in Objects : n.heap[x] = "local" => m.heap[x] = "local"
  BY <1>3, <1>5
<1>8. o \notin Eternals => n.heap[o] = h
  BY <1>3
<1>9. Lives(n) /\ Balances(n, w)
  BY <1>1, <1>2 DEF Lives, Balances
<1>10. Homes(n)
  <2>1. \A x \in Objects : n.heap[x] = "text" <=> x \in Eternals
    <3>1. h # "text"
      OBVIOUS
    <3> HIDE DEF moved
    <3> QED BY <1>1, <1>3, <1>5, <3>1 DEF Homes
  <2>2. ASSUME NEW l \in Lists, n.heap[l] # "local", NEW e \in Range(m.data[l])
        PROVE  n.heap[e] # "local"
    <3>1. l \in Objects /\ e \in Objects /\ e \in Nums
      BY <1>1, ObjectsAre DEF Range
    <3>2. CASE m.heap[l] # "local"
      BY <1>1, <1>7, <2>2, <3>1, <3>2 DEF Homes
    <3>3. CASE m.heap[l] = "local"
      <4>1. l \in moved /\ h = "global" /\ o \notin Eternals
        BY <1>3, <2>2, <3>1, <3>3
      <4>2. l = o
        <5>1. \A x \in Range(m.data[o]) : x \in Nums
          BY <1>1 DEF Range
        <5> QED BY <4>1, <5>1, ObjectsAre
      <4>3. CASE e \in Eternals
        BY <1>1, <1>7, <3>1, <4>3 DEF Homes
      <4>4. CASE e \notin Eternals
        <5>1. e \in moved
          BY <2>2, <4>1, <4>2, <4>4
        <5> QED BY <1>3, <3>1, <4>1, <5>1
      <4> QED BY <4>3, <4>4
    <3> QED BY <3>2, <3>3
  <2> QED BY <1>2, <2>1, <2>2 DEF Homes
<1>11. MemOK(n, w)
  BY <1>1, <1>2, <1>4, <1>9, <1>10 DEF MemOK
<1> QED BY <1>2, <1>6, <1>7, <1>8, <1>11 DEF n

-----------------------------------------------------------------------------
(* Add2End: Export first makes no difference, and the memory it leaves is one *)
(* whose list may get the element.                                            *)

LEMMA Add2EndOK ==
  ASSUME NEW m, NEW w, MemOK(m, w), NEW l \in Lists, l \in m.live, l \notin Eternals,
         NEW e \in Nums, e \in m.live, Len(m.data[l]) < MaxLen,
         m.heap[l] = "local" => m.heap[e] # "global"
  PROVE  /\ MemOK(Add2End(m, l, e), w) /\ Add2End(m, l, e).live = m.live
         /\ Len(Add2End(m, l, e).data[l]) = Len(m.data[l]) + 1
         /\ Add2End(m, l, e).heap[l] = m.heap[l]
         /\ m.heap[l] = "local" => Add2End(m, l, e).heap = m.heap
         /\ \A x \in Objects : Add2End(m, l, e).heap[x] = "local" => m.heap[x] = "local"
<1> DEFINE h == m.heap[l]
           a == Exported(m, e, h)
           n == Add2End(m, l, e)
           b == [AddRef(m, e) EXCEPT !.data[l] = Append(@, e), !.contained[e] = @ + 1]
           old == m.data[l]
           s == Append(old, e)
<1>1. /\ m \in Memory /\ Filed(m.data) /\ w \in [Objects -> Nat] /\ Lives(m) /\ Balances(m, w)
      /\ Homes(m) /\ m.live \in SUBSET Objects /\ m.REF \in [Objects -> Nat]
      /\ m.contained \in [Objects -> Nat]
      /\ m.heap \in [Objects -> {"text", "global", "local"}] /\ m.data \in [Objects -> Seq(Nums)]
  BY MemParts
<1>2. l \in Objects /\ e \in Objects /\ l # e /\ l \notin Nums
  BY ObjectsAre
<1>3. h \in {"global", "local"}
  BY <1>1, <1>2 DEF Homes
<1>4. /\ b.live = m.live /\ b.heap = m.heap /\ b.lost = m.lost
      /\ b.data = [m.data EXCEPT ![l] = Append(@, e)]
      /\ b.contained = [m.contained EXCEPT ![e] = @ + 1]
      /\ b.REF = [m.REF EXCEPT ![e] = @ + 1]
  BY <1>1, <1>2 DEF AddRef, Memory
<1>5. n = Exported(b, e, h)
  BY DEF Add2End
<1>6. m.data[e] = <<>> /\ b.data[e] = <<>>
  <2>1. m.data[e] = <<>>
    BY <1>1, <1>2 DEF Lives
  <2> HIDE DEF b
  <2> QED BY <1>1, <1>2, <1>4, <2>1
<1>7. Range(m.data[e]) = {} /\ Range(b.data[e]) = {}
  <2> HIDE DEF b
  <2> QED BY <1>6 DEF Range
<1> DEFINE moved == IF e \in Eternals THEN {} ELSE {e} \ Eternals
<1>8. a.heap = [x \in Objects |-> IF x \in moved THEN h ELSE m.heap[x]]
  <2>1. a.heap = [x \in Objects |->
                    IF x \in (IF e \in Eternals THEN {} ELSE ({e} \cup Range(m.data[e])) \ Eternals)
                    THEN h ELSE m.heap[x]]
    BY <1>1 DEF Exported, Memory
  <2> HIDE DEF a
  <2> QED BY <1>7, <2>1
<1>9. /\ n.heap = [x \in Objects |-> IF x \in moved THEN h ELSE m.heap[x]]
      /\ n.live = m.live /\ n.lost = m.lost /\ n.data = b.data /\ n.contained = b.contained
      /\ n.REF = b.REF
  <2> DEFINE mv == IF e \in Eternals THEN {} ELSE ({e} \cup Range(b.data[e])) \ Eternals
  <2>1. n = [b EXCEPT !.heap = [x \in Objects |-> IF x \in mv THEN h ELSE @[x]]]
    BY <1>5 DEF Exported
  <2>2. mv = moved
    BY <1>7
  <2>3. DOMAIN b = DOMAIN m
    BY DEF AddRef
  <2> HIDE DEF mv, moved, n, h
  <2>4. n.heap = [x \in Objects |-> IF x \in mv THEN h ELSE b.heap[x]]
        /\ n.live = b.live /\ n.lost = b.lost /\ n.data = b.data /\ n.contained = b.contained
        /\ n.REF = b.REF
    BY <1>1, <2>1, <2>3 DEF Memory
  <2> HIDE DEF b
  <2> QED BY <1>4, <2>2, <2>4
<1>10. (n.REF \in [Objects -> Nat] /\ n.contained \in [Objects -> Nat] /\ n.data \in [Objects -> Seq(Nums)]
        /\ n.heap \in [Objects -> {"text", "global", "local"}]) => n \in Memory
  BY <1>1, <1>2, <1>9, <1>5 DEF Exported, AddRef, Memory
<1> HIDE DEF n, b
<1>11. /\ MemOK(a, w) /\ a.live = m.live /\ a.data = m.data /\ (h = "local" => a.heap = m.heap)
       /\ (e \notin Eternals => a.heap[e] = h)
       /\ \A x \in Objects : a.heap[x] = "local" => m.heap[x] = "local"
  <2>1. h = "local" => \A x \in {e} \cup Range(m.data[e]) : m.heap[x] # "global"
    BY <1>7
  <2> HIDE DEF h
  <2> QED BY <1>2, <1>3, <2>1, ExportedOK
<1>12. a.heap[l] = h
  <2> HIDE DEF a
  <2> QED BY <1>2, <1>8
<1>13. a.REF = m.REF /\ a.contained = m.contained /\ a.lost = m.lost
  BY <1>1 DEF Exported, Memory
<1>14. n.heap = a.heap
  BY <1>8, <1>9
<1> HIDE DEF a, moved
<1>15. /\ s \in Seq(Nums) /\ Len(s) = Len(old) + 1 /\ Len(s) <= MaxLen /\ old \in Seq(Nums)
       /\ Range(s) \subseteq Range(old) \cup {e}
  <2>1. old \in Seq(Nums)
    BY <1>1, <1>2
  <2> HIDE DEF old
  <2>2. s \in Seq(Nums) /\ Len(s) = Len(old) + 1 /\ \A i \in DOMAIN s : s[i] \in Range(old) \cup {e}
    BY <2>1 DEF Range
  <2>3. Len(s) <= MaxLen
    BY <2>1, <2>2, ListAssumption DEF old
  <2> HIDE DEF s
  <2> QED BY <2>1, <2>2, <2>3 DEF Range
<1>16. \A o : Count(s, o) = Count(old, o) + One(o = e) /\ Count(old, o) \in Nat
  <2> SUFFICES ASSUME NEW o PROVE Count(s, o) = Count(old, o) + One(o = e) /\ Count(old, o) \in Nat
    OBVIOUS
  <2> HIDE DEF old
  <2>1. Count(s, o) = Count(old, o) + Once(e = o) /\ Count(old, o) \in Nat
    BY <1>15, CountAppend, CountType
  <2> HIDE DEF s
  <2> QED BY <2>1 DEF One, Once
<1>17. n.data \in [Objects -> Seq(Nums)] /\ n.data[l] = s /\ \A k \in Objects : k # l => n.data[k] = m.data[k]
  <2>1. n.data = [m.data EXCEPT ![l] = s]
    BY <1>4, <1>9
  <2> HIDE DEF s
  <2> QED BY <1>1, <1>2, <1>15, <2>1
<1> HIDE DEF s
<1>18. \A o \in Objects : /\ n.contained[o] = m.contained[o] + One(o = e)
                          /\ n.REF[o] = m.REF[o] + One(o = e)
                          /\ m.contained[o] \in Nat /\ m.REF[o] \in Nat
  <2>1. n.REF = [m.REF EXCEPT ![e] = @ + 1] /\ n.contained = [m.contained EXCEPT ![e] = @ + 1]
    BY <1>4, <1>9
  <2>2. m.REF \in [Objects -> Nat] /\ m.contained \in [Objects -> Nat] /\ e \in Objects
    BY <1>1, <1>2
  <2> QED BY <2>1, <2>2 DEF One
<1>19. n.REF \in [Objects -> Nat] /\ n.contained \in [Objects -> Nat]
  <2>1. n.REF = [m.REF EXCEPT ![e] = @ + 1] /\ n.contained = [m.contained EXCEPT ![e] = @ + 1]
    BY <1>4, <1>9
  <2>2. m.REF \in [Objects -> Nat] /\ m.contained \in [Objects -> Nat] /\ e \in Objects
    BY <1>1, <1>2
  <2> QED BY <2>1, <2>2
<1>20. n \in Memory
  BY <1>1, <1>3, <1>9, <1>10, <1>17, <1>19
<1>21. Refiled(n, a, l, s)
  <2>1. /\ n.live = a.live /\ n.heap = a.heap /\ n.lost = a.lost
        /\ \A k \in Objects : k # l => n.data[k] = a.data[k]
    BY <1>9, <1>11, <1>13, <1>14, <1>17
  <2>2. \A o \in Objects : n.contained[o] = (a.contained[o] - Count(a.data[l], o)) + Count(s, o)
    <3> SUFFICES ASSUME NEW o \in Objects
                 PROVE  n.contained[o] = (m.contained[o] - Count(old, o)) + Count(s, o)
      BY <1>11, <1>13
    <3>1. n.contained[o] = m.contained[o] + One(o = e) /\ m.contained[o] \in Nat /\ One(o = e) \in Nat
      BY <1>18 DEF One
    <3>2. Count(s, o) = Count(old, o) + One(o = e) /\ Count(old, o) \in Nat
      BY <1>16
    <3> HIDE DEF old
    <3> QED BY <3>1, <3>2
  <2>3. \A o \in Objects \ a.live : n.REF[o] = a.REF[o]
    BY <1>11, <1>13, <1>18 DEF One
  <2> QED BY <1>17, <1>20, <2>1, <2>2, <2>3 DEF Refiled
<1>22. \A o \in a.live : n.REF[o] = n.contained[o] + w[o]
  <2> SUFFICES ASSUME NEW o \in m.live PROVE n.REF[o] = n.contained[o] + w[o]
    BY <1>11
  <2>1. /\ n.contained[o] = m.contained[o] + One(o = e) /\ n.REF[o] = m.REF[o] + One(o = e)
        /\ m.contained[o] \in Nat /\ m.REF[o] \in Nat /\ One(o = e) \in Nat /\ w[o] \in Nat
    BY <1>1, <1>18 DEF One
  <2>2. m.REF[o] = m.contained[o] + w[o]
    BY <1>1 DEF Balances
  <2> QED BY <2>1, <2>2
<1>23. a.heap[l] # "local" => \A x \in Range(s) : a.heap[x] # "local"
  <2> SUFFICES ASSUME h # "local", NEW x \in Range(s) PROVE a.heap[x] # "local"
    BY <1>12
  <2>1. Homes(a) /\ x \in Range(old) \cup {e}
    BY <1>11, <1>15 DEF MemOK
  <2>2. CASE x \in Range(old)
    BY <1>11, <1>12, <2>1, <2>2 DEF Homes
  <2>3. CASE x = e
    <3>1. CASE e \in Eternals
      BY <1>2, <2>1, <2>3, <3>1 DEF Homes
    <3>2. CASE e \notin Eternals
      BY <1>11, <2>3, <3>2
    <3> QED BY <3>1, <3>2
  <2> QED BY <2>1, <2>2, <2>3
<1>24. Range(s) \subseteq a.live
  BY <1>1, <1>11, <1>15 DEF Lives
<1>25. MemOK(n, w)
  <2>1. \A o \in Objects \ a.live : w[o] = 0
    BY <1>1, <1>11 DEF Balances
  <2>2. MemOK(a, w) /\ l \in a.live /\ s \in Seq(Nums) /\ Len(s) <= MaxLen
    BY <1>11, <1>15
  <2>3. w \in [Objects -> Nat]
    BY <1>1
  <2> QED BY <1>21, <1>22, <1>23, <1>24, <2>1, <2>2, <2>3, RefiledOK
<1>26. Len(n.data[l]) = Len(old) + 1
  BY <1>15, <1>17
<1> QED BY <1>9, <1>11, <1>12, <1>14, <1>25, <1>26 DEF n

(* Add2End of one element after the other, to a list just made.               *)

Adding(l, base, s) == FoldLeft(LAMBDA r, e : Add2End(r, l, e), base, s)

LEMMA AddLoop ==
  ASSUME NEW base, NEW s, Len(s) \in Nat, DOMAIN s = 1..Len(s), NEW l
  PROVE  \E h : Loop("Add2End", [l |-> l], base, s, h) /\ Adding(l, base, s) = h[Len(s)]
<1> DEFINE loop == "Add2End"
           c == [l |-> l]
<1> DEFINE Folds(it) == it = [S \in SUBSET DOMAIN s |->
                                IF S = {} THEN base ELSE Add2End(it[S \ {Max(S)}], l, s[Max(S)])]
           rec == CHOOSE it : Folds(it)
<1>1. Adding(l, base, s) = rec[DOMAIN s]
  BY DEF Adding, FoldLeft, MapThenFoldSet
<1>2. ASSUME NEW it
      PROVE  Folds(it) <=> Folded(loop, c, base, s, Len(s), it)
  <2>1. \A S : Taken(loop, c, base, s, it, S)
                = IF S = {} THEN base ELSE Add2End(it[S \ {Max(S)}], l, s[Max(S)])
    BY DEF Taken, Step
  <2> QED BY <2>1 DEF Folded
<1> HIDE DEF loop, c
<1>3. \E it : Folds(it)
  <2>1. \A n \in Nat : \E it : Folded(loop, c, base, s, n, it)
    BY FoldExists
  <2>2. PICK it : Folded(loop, c, base, s, Len(s), it)
    BY <2>1
  <2> HIDE DEF Folds
  <2> QED BY <1>2, <2>2
<1>4. Folds(rec)
  <2> HIDE DEF Folds
  <2> QED BY <1>3
<1> HIDE DEF Folds, rec
<1>5. Folded(loop, c, base, s, Len(s), rec)
  BY <1>2, <1>4
<1>6. \E h : Loop(loop, c, base, s, h) /\ rec[1..Len(s)] = h[Len(s)]
  BY <1>5, FoldIsLoop
<1> QED BY <1>1, <1>6 DEF loop, c

LEMMA BuiltOK ==
  ASSUME NEW m, NEW w, MemOK(m, w), NEW l \in Lists, l \notin m.live, l \notin Eternals,
         NEW h \in {"global", "local"}, NEW s \in Seq(Nums), Len(s) <= MaxLen,
         Range(s) \subseteq m.live, h = "local" => \A e \in Range(s) : m.heap[e] # "global"
  PROVE  /\ MemOK(Built(m, l, h, s), w) /\ Built(m, l, h, s).live = m.live \cup {l}
         /\ Built(m, l, h, s).heap[l] = h
         /\ \A x \in m.live : Built(m, l, h, s).heap[x] = "local" => m.heap[x] = "local"
<1> DEFINE base == Allocated(m, l, h)
<1>1. /\ MemOK(base, w) /\ base.live = m.live \cup {l} /\ base.data = m.data /\ base.heap[l] = h
      /\ \A x \in Objects : x # l => base.heap[x] = m.heap[x]
  BY ObjectsAre, AllocatedOK
<1>2. Len(s) \in Nat /\ DOMAIN s = 1..Len(s) /\ \A k \in 1..Len(s) : s[k] \in Nums /\ s[k] \in Range(s)
  BY DEF Range
<1>3. PICK g : Loop("Add2End", [l |-> l], base, s, g) /\ Adding(l, base, s) = g[Len(s)]
  BY <1>2, AddLoop
<1>4. g[0] = base /\ \A k \in 1..Len(s) : g[k] = Add2End(g[k - 1], l, s[k])
  BY <1>3 DEF Loop, Step
<1>5. Built(m, l, h, s) = g[Len(s)]
  BY <1>3 DEF Built, Adding
<1>6. m.live \in SUBSET Objects /\ m.data[l] = <<>> /\ l \in Objects
  <2>1. Lives(m) /\ m.live \in SUBSET Objects
    BY MemParts
  <2> QED BY <2>1, ObjectsAre DEF Lives
<1>7. \A x \in m.live : x \in Objects /\ x # l
  BY <1>6
<1> HIDE DEF base
<1> DEFINE Good(k) == /\ MemOK(g[k], w) /\ g[k].live = m.live \cup {l}
                      /\ Len(g[k].data[l]) = k /\ g[k].heap[l] = h
                      /\ (h = "local" => \A x \in m.live : g[k].heap[x] = m.heap[x])
                      /\ \A x \in m.live : g[k].heap[x] = "local" => m.heap[x] = "local"
           K == {k \in Nat : k <= Len(s) => Good(k)}
<1>8. 0 \in K
  <2>1. Len(base.data[l]) = 0
    BY <1>1, <1>6
  <2> QED BY <1>1, <1>4, <1>7, <2>1
<1>9. ASSUME NEW k \in Nat, k \in K PROVE k + 1 \in K
  <2> SUFFICES ASSUME k + 1 <= Len(s) PROVE Good(k + 1)
    OBVIOUS
  <2>1. Good(k)
    BY <1>2, <1>9
  <2>2. k + 1 \in 1..Len(s) /\ (k + 1) - 1 = k /\ s[k + 1] \in Nums /\ s[k + 1] \in Range(s)
    BY <1>2
  <2>3. g[k + 1] = Add2End(g[k], l, s[k + 1])
    BY <1>4, <2>2
  <2> DEFINE r == g[k]
             e == s[k + 1]
  <2>4. /\ MemOK(r, w) /\ l \in r.live /\ e \in Nums /\ e \in r.live /\ e \in m.live
        /\ Len(r.data[l]) = k /\ k < MaxLen /\ r.heap[l] = h
    BY <1>2, <2>1, <2>2, ListAssumption
  <2>5. r.heap[l] = "local" => r.heap[e] # "global"
    BY <2>1, <2>2, <2>4
  <2> HIDE DEF r, e
  <2>6. /\ MemOK(Add2End(r, l, e), w) /\ Add2End(r, l, e).live = r.live
        /\ Len(Add2End(r, l, e).data[l]) = Len(r.data[l]) + 1
        /\ Add2End(r, l, e).heap[l] = r.heap[l]
        /\ r.heap[l] = "local" => Add2End(r, l, e).heap = r.heap
        /\ \A x \in Objects : Add2End(r, l, e).heap[x] = "local" => r.heap[x] = "local"
    BY <2>4, <2>5, Add2EndOK
  <2> DEFINE n == Add2End(r, l, e)
  <2>7. n = g[k + 1]
    BY <2>3 DEF r, e
  <2>8. /\ r.live = m.live \cup {l} /\ (h = "local" => \A x \in m.live : r.heap[x] = m.heap[x])
        /\ \A x \in m.live : r.heap[x] = "local" => m.heap[x] = "local"
    BY <2>1 DEF r
  <2>9. /\ MemOK(n, w) /\ n.live = m.live \cup {l} /\ Len(n.data[l]) = k + 1 /\ n.heap[l] = h
        /\ (h = "local" => \A x \in m.live : n.heap[x] = m.heap[x])
        /\ \A x \in m.live : n.heap[x] = "local" => m.heap[x] = "local"
    BY <1>7, <2>4, <2>6, <2>8
  <2> HIDE DEF n
  <2> QED BY <2>7, <2>9
<1>10. \A k \in Nat : k \in K
  <2> HIDE DEF K
  <2> QED BY <1>8, <1>9, Induction
<1>11. Good(Len(s))
  BY <1>2, <1>10
<1> QED BY <1>5, <1>11

-----------------------------------------------------------------------------
(* What variables and the nodes of statements refer to.                       *)

InText == UNION {Range(Text[t]) : t \in DOMAIN Text}

Users(val, V, o) == {v \in V : val[v] = o}

Roots(val) ==
  [o \in Objects |-> Cardinality(Users(val, Variables, o)) + One(o \in Eternals /\ o \notin InText)]

LEMMA UsersType ==
  ASSUME NEW val, NEW V \in SUBSET Variables, NEW o
  PROVE  /\ IsFiniteSet(Users(val, V, o)) /\ Cardinality(Users(val, V, o)) \in Nat
         /\ Cardinality(Users(val, V, o)) = 0 <=> \A v \in V : val[v] # o
<1>1. IsFiniteSet(Variables)
  BY ListAssumption, FS_Union DEF Variables
<1>2. Users(val, V, o) \in SUBSET Variables
  BY DEF Users
<1>3. IsFiniteSet(Users(val, V, o))
  BY <1>1, <1>2, FS_Subset
<1>4. Users(val, V, o) = {} <=> \A v \in V : val[v] # o
  BY DEF Users
<1> QED BY <1>3, <1>4, FS_CardinalityType, FS_EmptySet

LEMMA RootsType ==
  ASSUME NEW val
  PROVE  /\ Roots(val) \in [Objects -> Nat]
         /\ \A o \in Objects : Roots(val)[o]
              = Cardinality(Users(val, Variables, o)) + One(o \in Eternals /\ o \notin InText)
<1>1. \A o \in Objects : Cardinality(Users(val, Variables, o)) + One(o \in Eternals /\ o \notin InText) \in Nat
  <2> SUFFICES ASSUME NEW o \in Objects
               PROVE  Cardinality(Users(val, Variables, o)) + One(o \in Eternals /\ o \notin InText) \in Nat
    OBVIOUS
  <2>1. Cardinality(Users(val, Variables, o)) \in Nat
    BY UsersType
  <2> QED BY <2>1 DEF One
<1> QED BY <1>1 DEF Roots

\* The variable v gets the value x.
Assigned(new, val, v, x) ==
  /\ val \in [Variables -> Objects \cup {Nil}] /\ v \in Variables /\ x \in Objects
  /\ new = [val EXCEPT ![v] = x]

LEMMA RootsPut ==
  ASSUME NEW val, NEW v, NEW x, NEW new, Assigned(new, val, v, x)
  PROVE  \A o \in Objects : Roots(new)[o] + One(o = val[v]) = Roots(val)[o] + One(o = x)
<1> SUFFICES ASSUME NEW o \in Objects
             PROVE  Roots(new)[o] + One(o = val[v]) = Roots(val)[o] + One(o = x)
  OBVIOUS
<1> DEFINE A == Users(val, Variables, o)
           B == Users(new, Variables, o)
           R == A \ {v}
           t == One(o \in Eternals /\ o \notin InText)
<1>1. Roots(val)[o] = Cardinality(A) + t /\ Roots(new)[o] = Cardinality(B) + t /\ t \in Nat
  BY RootsType DEF One
<1>2. IsFiniteSet(A) /\ Cardinality(A) \in Nat /\ IsFiniteSet(B) /\ Cardinality(B) \in Nat
  BY UsersType
<1>3. v \in Variables /\ new[v] = x /\ \A u \in Variables : u # v => new[u] = val[u]
  BY DEF Assigned
<1>4. v \in A <=> o = val[v]
  BY <1>3 DEF Users
<1>5. B = IF o = x THEN R \cup {v} ELSE R
  BY <1>3 DEF Users
<1>6. v \notin R
  OBVIOUS
<1> HIDE DEF A
<1>7. IsFiniteSet(R) /\ Cardinality(R) = IF v \in A THEN Cardinality(A) - 1 ELSE Cardinality(A)
  BY <1>2, FS_RemoveElement
<1> HIDE DEF R, B
<1>8. Cardinality(R) \in Nat /\ Cardinality(R \cup {v}) = Cardinality(R) + 1
  BY <1>6, <1>7, FS_AddElement, FS_CardinalityType
<1>9. Cardinality(R) + One(o = val[v]) = Cardinality(A)
  BY <1>2, <1>4, <1>7, <1>8 DEF One
<1>10. Cardinality(B) = Cardinality(R) + One(o = x)
  BY <1>5, <1>8 DEF One
<1> HIDE DEF t
<1> QED BY <1>1, <1>2, <1>8, <1>9, <1>10 DEF One

-----------------------------------------------------------------------------
(* The invariant of the lists.  A global variable has no value in the         *)
(* function's heap.                                                           *)

ValueTypes ==
  /\ value \in [Variables -> Objects \cup {Nil}] /\ running \in BOOLEAN /\ crashed \in BOOLEAN
  /\ ~running => \A x \in Locals : value[x] = Nil

GlobalsHome == \A v \in Globals : value[v] # Nil => mem.heap[value[v]] # "local"

ListInv == MemOK(mem, Roots(value)) /\ ValueTypes /\ GlobalsHome

LEMMA ListParts ==
  ASSUME ListInv
  PROVE  /\ MemOK(mem, Roots(value)) /\ ValueTypes /\ GlobalsHome
         /\ mem \in Memory /\ Filed(mem.data) /\ Lives(mem) /\ Balances(mem, Roots(value)) /\ Homes(mem)
         /\ mem.live \in SUBSET Objects /\ mem.REF \in [Objects -> Nat]
         /\ mem.contained \in [Objects -> Nat] /\ mem.lost \in [Objects -> Nat]
         /\ mem.heap \in [Objects -> {"text", "global", "local"}] /\ mem.data \in [Objects -> Seq(Nums)]
         /\ \A o \in Objects : Roots(value)[o] # 0 => o \in mem.live
<1>1. MemOK(mem, Roots(value)) /\ ValueTypes /\ GlobalsHome
  BY DEF ListInv
<1> QED BY <1>1, MemParts

(* What a variable has lives.                                                 *)
LEMMA ValuesLive ==
  ASSUME ListInv, NEW v \in Variables, value[v] # Nil
  PROVE  value[v] \in mem.live
<1> DEFINE o == value[v]
<1>1. o \in Objects
  BY ListParts DEF ValueTypes
<1>2. v \in Users(value, Variables, o)
  BY DEF Users
<1>3. Cardinality(Users(value, Variables, o)) # 0 /\ Cardinality(Users(value, Variables, o)) \in Nat
  <2>1. Variables \in SUBSET Variables
    OBVIOUS
  <2>2. ~ \A u \in Variables : value[u] # o
    OBVIOUS
  <2> HIDE DEF o
  <2> QED BY <2>1, <2>2, UsersType
<1>4. Roots(value)[o] # 0
  <2> HIDE DEF o
  <2>1. Roots(value)[o] = Cardinality(Users(value, Variables, o)) + One(o \in Eternals /\ o \notin InText)
    BY <1>1, RootsType
  <2> QED BY <1>3, <2>1 DEF One
<1> HIDE DEF o
<1>5. o \in mem.live
  BY <1>1, <1>4, ListParts
<1> QED BY <1>5 DEF o

LEMMA SetOK ==
  ASSUME NEW new, NEW v, NEW o, Assigned(new, value, v, o),
         NEW m, MemOK(m, Roots(value)), NEW s \in Squirrels,
         o \in m.live, v \in Globals /\ s = "main" => m.heap[o] # "local"
  PROVE  /\ MemOK(Set(s, m, v, o), Roots(new))
         /\ v \in Globals => Set(s, m, v, o).heap[o] # "local"
         /\ \A x \in Objects : Set(s, m, v, o).heap[x] = "local" => m.heap[x] = "local"
<1> DEFINE w == Roots(value)
           u == Roots(new)
           here == IF v \in Globals /\ s # "main" /\ m.heap[o] = LocalHeap(s)
                   THEN Exported(m, o, "global") ELSE m
           n == Set(s, m, v, o)
           one == [x \in Objects |-> w[x] + One(x = o)]
<1>1. w \in [Objects -> Nat] /\ u \in [Objects -> Nat] /\ one \in [Objects -> Nat]
      /\ \A x \in Objects : one[x] = w[x] + One(x = o)
  <2>1. w \in [Objects -> Nat] /\ u \in [Objects -> Nat]
    BY RootsType
  <2> HIDE DEF w, u
  <2>2. \A x \in Objects : w[x] + One(x = o) \in Nat
    BY <2>1 DEF One
  <2> QED BY <2>1, <2>2
<1>0. value \in [Variables -> Objects \cup {Nil}] /\ v \in Variables /\ o \in Objects
  BY DEF Assigned
<1>2. \A x \in Objects : u[x] + One(x = value[v]) = w[x] + One(x = o)
  BY RootsPut
<1>3. n = IF value[v] = Nil THEN AddRef(here, o) ELSE RemRef(AddRef(here, o), value[v])
  BY DEF Set
<1>4. /\ MemOK(here, w) /\ o \in here.live /\ (v \in Globals => here.heap[o] # "local")
      /\ \A x \in Objects : here.heap[x] = "local" => m.heap[x] = "local"
  <2>1. CASE v \in Globals /\ s # "main" /\ m.heap[o] = LocalHeap(s)
    <3>1. m.heap[o] = "local" /\ "global" \in {"global", "local"} /\ "global" # "local"
      BY <2>1 DEF LocalHeap
    <3>2. o \notin Eternals
      <4>1. Homes(m)
        BY MemParts
      <4> QED BY <1>0, <3>1, <4>1 DEF Homes
    <3>3. /\ MemOK(Exported(m, o, "global"), w) /\ Exported(m, o, "global").live = m.live
          /\ Exported(m, o, "global").heap[o] = "global"
          /\ \A x \in Objects : Exported(m, o, "global").heap[x] = "local" => m.heap[x] = "local"
      BY <1>0, <3>1, <3>2, ExportedOK
    <3> QED BY <2>1, <3>1, <3>3
  <2>2. CASE ~(v \in Globals /\ s # "main" /\ m.heap[o] = LocalHeap(s))
    <3>1. v \in Globals => m.heap[o] # "local"
      BY <2>2 DEF LocalHeap, Squirrels
    <3> QED BY <2>2, <3>1
  <2> QED BY <2>1, <2>2
<1> HIDE DEF here, w, u, one, n
<1>5. CASE value[v] = Nil
  <2>1. \A x \in Objects : u[x] = w[x] + One(x = o)
    <3> SUFFICES ASSUME NEW x \in Objects PROVE u[x] = w[x] + One(x = o)
      OBVIOUS
    <3>1. One(x = value[v]) = 0 /\ u[x] \in Nat /\ u[x] + One(x = value[v]) = w[x] + One(x = o)
      BY <1>1, <1>2, <1>5, ObjectsAre DEF One
    <3> QED BY <3>1
  <2>2. MemOK(AddRef(here, o), u) /\ AddRef(here, o).heap = here.heap
    BY <1>1, <1>4, <2>1, AddRefOK
  <2>3. n = AddRef(here, o)
    BY <1>3, <1>5
  <2>4. MemOK(n, u) /\ n.heap = here.heap
    BY <2>2, <2>3
  <2> QED BY <1>4, <2>4 DEF n, u
<1>6. CASE value[v] # Nil
  <2> DEFINE a == AddRef(here, o)
             old == value[v]
  <2>1. MemOK(a, one) /\ a.heap = here.heap
    BY <1>1, <1>4, AddRefOK
  <2>2. old \in Objects
    BY <1>0, <1>6
  <2>3. \A x \in Objects : one[x] = u[x] + One(x = old)
    BY <1>1, <1>2
  <2> HIDE DEF a, old
  <2>4. MemOK(RemRef(a, old), u) /\ RemRef(a, old).heap = a.heap
    BY <1>1, <2>1, <2>2, <2>3, RemRefOK
  <2>5. n = RemRef(a, old)
    BY <1>3, <1>6 DEF a, old
  <2>6. MemOK(n, u) /\ n.heap = here.heap
    BY <2>1, <2>4, <2>5
  <2> QED BY <1>4, <2>6 DEF n, u
<1> QED BY <1>5, <1>6

(* The end of a statement that has made the memory m, in which o lives.       *)
LEMMA FinishOK ==
  ASSUME ListInv, NEW m, MemOK(m, Roots(value)), NEW s \in Squirrels, NEW v \in Variables \cup {Nil},
         v \in Sees(s) \cup {Nil}, Runs(s), NEW o \in Objects, o \in m.live,
         s = "main" => m.heap[o] # "local",
         \A x \in mem.live : m.heap[x] = "local" => mem.heap[x] = "local",
         Finish(s, m, v, o), running' = running, crashed' = crashed
  PROVE  ListInv'
<1>1. /\ value \in [Variables -> Objects \cup {Nil}] /\ running \in BOOLEAN /\ crashed \in BOOLEAN
      /\ (~running => \A x \in Locals : value[x] = Nil) /\ GlobalsHome
      /\ \A x \in Globals : x \in Variables
  BY ListParts DEF ValueTypes, Variables
<1>2. \A x \in Globals : value[x] # Nil => m.heap[value[x]] # "local" /\ value[x] \in Objects
  BY <1>1, ValuesLive DEF GlobalsHome
<1>3. CASE v = Nil
  <2>1. mem' = m /\ value' = value
    BY <1>3 DEF Finish
  <2>2. MemOK(mem', Roots(value'))
    BY <2>1
  <2>3. ValueTypes'
    BY <1>1, <2>1 DEF ValueTypes
  <2>4. GlobalsHome'
    BY <1>2, <2>1 DEF GlobalsHome
  <2> QED BY <2>2, <2>3, <2>4 DEF ListInv
<1>4. CASE v # Nil
  <2>1. mem' = Set(s, m, v, o) /\ value' = [value EXCEPT ![v] = o] /\ v \in Variables /\ v \in Sees(s)
    BY <1>4 DEF Finish
  <2> DEFINE n == Set(s, m, v, o)
             new == [value EXCEPT ![v] = o]
  <2>2. /\ MemOK(n, Roots(new)) /\ (v \in Globals => n.heap[o] # "local")
        /\ \A x \in Objects : n.heap[x] = "local" => m.heap[x] = "local"
    <3>1. Assigned(new, value, v, o)
      BY <1>1, <2>1 DEF Assigned
    <3>2. v \in Globals /\ s = "main" => m.heap[o] # "local"
      OBVIOUS
    <3> HIDE DEF new
    <3> QED BY <3>1, <3>2, SetOK
  <2>3. new \in [Variables -> Objects \cup {Nil}] /\ new[v] = o /\ \A x \in Variables : x # v => new[x] = value[x]
    BY <1>1, <2>1
  <2> HIDE DEF n, new
  <2>4. MemOK(mem', Roots(value'))
    BY <2>1, <2>2 DEF n, new
  <2>5. ~running => \A x \in Locals : new[x] = Nil
    <3> SUFFICES ASSUME ~running, NEW x \in Locals PROVE new[x] = Nil
      OBVIOUS
    <3>1. s = "main"
      BY DEF Runs, Squirrels
    <3>2. v \in Globals
      BY <2>1, <3>1 DEF Sees
    <3>3. x # v /\ x \in Variables
      BY <3>2, ListAssumption DEF Variables
    <3> QED BY <1>1, <2>3, <3>3
  <2>6. ValueTypes'
    BY <1>1, <2>1, <2>3, <2>5 DEF ValueTypes, new
  <2>7. GlobalsHome'
    <3> SUFFICES ASSUME NEW x \in Globals, new[x] # Nil PROVE n.heap[new[x]] # "local"
      BY <2>1 DEF GlobalsHome, n, new
    <3>1. CASE x = v
      BY <2>2, <2>3, <3>1
    <3>2. CASE x # v
      BY <1>1, <1>2, <2>2, <2>3, <3>2
    <3> QED BY <3>1, <3>2
  <2> QED BY <2>4, <2>6, <2>7 DEF ListInv
<1> QED BY <1>3, <1>4

-----------------------------------------------------------------------------
(* The actions.  The program keeps values of the function's heap out of lists *)
(* outside it, and values outside it out of its lists.                        *)

Disciplined == ~ListsGlobals /\ ~IndexLocals

LEMMA ValuesAre ==
  ASSUME ListInv, NEW s \in Squirrels, NEW o \in Values(s)
  PROVE  o \in mem.live /\ o \in Objects /\ (s = "main" => mem.heap[o] # "local")
<1>1. /\ o \in mem.live /\ mem.live \in SUBSET Objects /\ Homes(mem) /\ ValueTypes /\ GlobalsHome
      /\ mem.data \in [Objects -> Seq(Nums)]
      /\ o \in Named(s) \cup Elements(s)
  BY ListParts DEF Values
<1>2. ASSUME s = "main", NEW x \in Named(s) PROVE x \in Objects /\ mem.heap[x] # "local"
  <2>1. CASE x \in Eternals
    BY <1>1, <2>1, ObjectsAre DEF Homes
  <2>2. CASE x \notin Eternals
    <3>1. PICK v \in Globals : x = value[v] /\ value[v] # Nil
      BY <1>2, <2>2 DEF Named, Sees
    <3>2. v \in Variables
      BY DEF Variables
    <3> QED BY <1>1, <3>1, <3>2 DEF GlobalsHome, ValueTypes
  <2> QED BY <2>1, <2>2
<1>3. ASSUME s = "main", o \in Elements(s) PROVE mem.heap[o] # "local"
  <2>1. PICK l \in Named(s) : o \in Range(mem.data[l])
    BY <1>3 DEF Elements
  <2>2. l \in Objects /\ mem.heap[l] # "local"
    BY <1>2, <1>3
  <2>3. l \in Lists
    <3>1. l \in Nums => mem.data[l] = <<>>
      BY <2>2, ListParts DEF Lives
    <3> QED BY <2>1, <2>2, <3>1 DEF Range, Objects
  <2> QED BY <1>1, <2>1, <2>2, <2>3 DEF Homes
<1> QED BY <1>1, <1>2, <1>3

LEMMA MakeNumberStep ==
  ASSUME ListInv, NEW s \in Squirrels, NEW v \in Variables, NEW n \in Nums, MakeNumber(s, v, n)
  PROVE  ListInv'
<1> DEFINE m == Allocated(mem, n, LocalHeap(s))
<1>1. /\ Runs(s) /\ v \in Sees(s) /\ n \notin mem.live /\ n \notin Literals /\ Finish(s, m, v, n)
      /\ running' = running /\ crashed' = crashed
  BY DEF MakeNumber
<1>2. n \in Objects /\ n \notin Eternals
  BY <1>1, ListAssumption DEF Objects, Eternals
<1>3. LocalHeap(s) \in {"global", "local"} /\ (s = "main" => LocalHeap(s) # "local")
  BY DEF LocalHeap
<1>4. MemOK(mem, Roots(value)) /\ mem.live \in SUBSET Objects
  BY ListParts
<1>5. /\ MemOK(m, Roots(value)) /\ m.live = mem.live \cup {n} /\ m.heap[n] = LocalHeap(s)
      /\ \A x \in Objects : x # n => m.heap[x] = mem.heap[x]
  BY <1>1, <1>2, <1>3, <1>4, AllocatedOK
<1> HIDE DEF m
<1>6. \A x \in mem.live : m.heap[x] = "local" => mem.heap[x] = "local"
  BY <1>1, <1>4, <1>5
<1>7. n \in m.live /\ (s = "main" => m.heap[n] # "local")
  BY <1>3, <1>5
<1>8. MemOK(m, Roots(value)) /\ v \in Variables \cup {Nil} /\ v \in Sees(s) \cup {Nil}
  BY <1>1, <1>5
<1> QED BY <1>1, <1>2, <1>6, <1>7, <1>8, FinishOK

LEMMA MakeStep ==
  ASSUME ListInv, NEW s \in Squirrels, NEW v \in Variables, NEW o \in Objects, Make(s, v, o)
  PROVE  ListInv'
<1> DEFINE m == mem
<1>1. Runs(s) /\ v \in Sees(s) /\ o \in Values(s) /\ Finish(s, m, v, o)
      /\ running' = running /\ crashed' = crashed
  BY DEF Make
<1>2. o \in m.live /\ (s = "main" => m.heap[o] # "local")
  BY <1>1, ValuesAre
<1>3. MemOK(m, Roots(value)) /\ v \in Variables \cup {Nil} /\ v \in Sees(s) \cup {Nil}
  BY <1>1, ListParts
<1>4. \A x \in mem.live : m.heap[x] = "local" => mem.heap[x] = "local"
  OBVIOUS
<1> HIDE DEF m
<1> QED BY <1>1, <1>2, <1>3, <1>4, FinishOK

LEMMA BuildStep ==
  ASSUME Disciplined, ListInv, NEW s \in Squirrels, NEW v \in Variables \cup {Nil}, NEW l \in Lists,
         NEW elems \in BoundedSeq(Nums, MaxLen), Build(s, v, l, elems)
  PROVE  ListInv'
<1> DEFINE h == LocalHeap(s)
           m == Built(mem, l, h, elems)
<1>1. /\ Runs(s) /\ v \in Sees(s) \cup {Nil} /\ l \notin mem.live /\ l \notin DOMAIN Text
      /\ Range(elems) \subseteq NumsOf(s) /\ \A e \in Range(elems) : Keeps(e, h)
      /\ Finish(s, m, v, l) /\ running' = running /\ crashed' = crashed
  BY DEF Build
<1>2. elems \in Seq(Nums) /\ Len(elems) <= MaxLen
  BY ListAssumption DEF BoundedSeq, SeqOf
<1>3. l \in Objects /\ l \notin Eternals
  BY <1>1, ListAssumption DEF Objects, Eternals
<1>4. h \in {"global", "local"} /\ (s = "main" => h # "local")
  BY DEF LocalHeap
<1>5. Range(elems) \subseteq mem.live /\ (h = "local" => \A e \in Range(elems) : mem.heap[e] # "global")
  <2>1. Range(elems) \subseteq mem.live
    BY <1>1 DEF NumsOf, Values
  <2> HIDE DEF h, m
  <2> QED BY <1>1, <2>1 DEF Keeps, Disciplined
<1>6. MemOK(mem, Roots(value)) /\ mem.live \in SUBSET Objects
  BY ListParts
<1> HIDE DEF h
<1>7. /\ MemOK(m, Roots(value)) /\ m.live = mem.live \cup {l} /\ m.heap[l] = h
      /\ \A x \in mem.live : m.heap[x] = "local" => mem.heap[x] = "local"
  <2>1. l \notin mem.live /\ l \notin Eternals
    BY <1>1, <1>3
  <2> QED BY <1>2, <1>4, <1>5, <1>6, <2>1, BuiltOK
<1> HIDE DEF m
<1>8. MemOK(m, Roots(value)) /\ l \in m.live /\ (s = "main" => m.heap[l] # "local")
  BY <1>4, <1>7
<1> QED BY <1>1, <1>3, <1>7, <1>8, FinishOK

(* A step that changes the lists alone.                                       *)
LEMMA MemoryStep ==
  ASSUME ListInv, MemOK(mem', Roots(value)), value' = value, running' = running, crashed' = crashed,
         \A x \in mem.live : mem'.heap[x] = "local" => mem.heap[x] = "local"
  PROVE  ListInv'
<1>1. ValueTypes' /\ MemOK(mem', Roots(value'))
  BY ListParts DEF ValueTypes
<1>2. GlobalsHome'
  <2> SUFFICES ASSUME NEW v \in Globals, value[v] # Nil PROVE mem'.heap[value[v]] # "local"
    BY DEF GlobalsHome
  <2>1. v \in Variables
    BY DEF Variables
  <2>2. value[v] \in mem.live /\ mem.heap[value[v]] # "local"
    BY <2>1, ValuesLive, ListParts DEF GlobalsHome
  <2> QED BY <2>2
<1> QED BY <1>1, <1>2 DEF ListInv

LEMMA LAppendStep ==
  ASSUME Disciplined, ListInv, NEW s \in Squirrels, NEW l \in Lists, NEW e \in Nums, LAppend(s, l, e)
  PROVE  ListInv'
<1>1. /\ l \in ListsOf(s) /\ l \notin Eternals /\ e \in NumsOf(s) /\ Len(mem.data[l]) < MaxLen
      /\ Keeps(e, mem.heap[l]) /\ mem' = Add2End(mem, l, e)
      /\ value' = value /\ running' = running /\ crashed' = crashed
  BY DEF LAppend
<1>2. l \in mem.live /\ e \in mem.live
  BY <1>1 DEF ListsOf, NumsOf, Values
<1>3. mem.heap[l] = "local" => mem.heap[e] # "global"
  BY <1>1 DEF Keeps, Disciplined
<1>4. MemOK(mem, Roots(value)) /\ mem.live \in SUBSET Objects
  BY ListParts
<1>5. /\ MemOK(Add2End(mem, l, e), Roots(value))
      /\ \A x \in Objects : Add2End(mem, l, e).heap[x] = "local" => mem.heap[x] = "local"
  BY <1>1, <1>2, <1>3, <1>4, Add2EndOK
<1>6. /\ MemOK(mem', Roots(value))
      /\ \A x \in mem.live : mem'.heap[x] = "local" => mem.heap[x] = "local"
  BY <1>1, <1>4, <1>5
<1> QED BY <1>1, <1>6, MemoryStep

(* A reference more to o, as a function of objects.                           *)
More(w, o) == [x \in Objects |-> w[x] + One(x = o)]

LEMMA MoreType ==
  ASSUME NEW w \in [Objects -> Nat], NEW o
  PROVE  More(w, o) \in [Objects -> Nat] /\ \A x \in Objects : More(w, o)[x] = w[x] + One(x = o)
<1>1. \A x \in Objects : w[x] + One(x = o) \in Nat
  BY DEF One
<1> QED BY <1>1 DEF More

(* A list of m gets the elements s; the reference of the place that changes   *)
(* to the element old is still counted.                                       *)
Exchanged(n, m, l, s, old, plus) ==
  /\ n.live = m.live /\ n.heap = m.heap /\ n.lost = m.lost
  /\ n.data \in [Objects -> Seq(Nums)] /\ n.data[l] = s
  /\ \A k \in Objects : k # l => n.data[k] = m.data[k]
  /\ \A o \in Objects : /\ plus[o] \in Nat /\ (plus[o] # 0 => o \in m.live)
                        /\ n.REF[o] = m.REF[o] + plus[o]
                        /\ n.contained[o] = (m.contained[o] - One(o = old)) + plus[o]
                        /\ Count(s, o) = (Count(m.data[l], o) - One(o = old)) + plus[o]
  /\ (\A o \in Objects : n.REF[o] \in Nat /\ n.contained[o] \in Nat) => n \in Memory

LEMMA ExchangedOK ==
  ASSUME NEW m, NEW w, MemOK(m, w), NEW l \in Lists, l \in m.live,
         NEW s \in Seq(Nums), Len(s) <= MaxLen, Range(s) \subseteq m.live,
         m.heap[l] # "local" => \A e \in Range(s) : m.heap[e] # "local",
         NEW old, old \in m.live, NEW plus, NEW n, Exchanged(n, m, l, s, old, plus)
  PROVE  MemOK(n, More(w, old))
<1> DEFINE u == More(w, old)
<1>1. /\ w \in [Objects -> Nat] /\ Balances(m, w) /\ m.live \in SUBSET Objects
      /\ m.REF \in [Objects -> Nat] /\ m.contained \in [Objects -> Nat] /\ m.data \in [Objects -> Seq(Nums)]
  BY MemParts
<1>2. u \in [Objects -> Nat] /\ \A x \in Objects : u[x] = w[x] + One(x = old)
  <2>1. w \in [Objects -> Nat]
    BY <1>1
  <2> QED BY <2>1, MoreType
<1>3. Refiled(n, m, l, s)
  <2>1. \A o \in Objects : n.contained[o] = (m.contained[o] - Count(m.data[l], o)) + Count(s, o)
    <3> SUFFICES ASSUME NEW o \in Objects
                 PROVE  n.contained[o] = (m.contained[o] - Count(m.data[l], o)) + Count(s, o)
      OBVIOUS
    <3>1. /\ plus[o] \in Nat /\ n.contained[o] = (m.contained[o] - One(o = old)) + plus[o]
          /\ Count(s, o) = (Count(m.data[l], o) - One(o = old)) + plus[o]
      BY DEF Exchanged
    <3>2. One(o = old) \in Nat /\ m.contained[o] \in Nat
      BY <1>1 DEF One
    <3> DEFINE t == m.data[l]
    <3>3. t \in Seq(Nums)
      BY <1>1, ObjectsAre
    <3> HIDE DEF t
    <3>4. Count(t, o) \in Nat
      BY <3>3, CountType
    <3> QED BY <3>1, <3>2, <3>4 DEF t
  <2>2. \A o \in Objects \ m.live : n.REF[o] = m.REF[o]
    <3> SUFFICES ASSUME NEW o \in Objects, o \notin m.live PROVE n.REF[o] = m.REF[o]
      OBVIOUS
    <3>1. plus[o] = 0 /\ n.REF[o] = m.REF[o] + plus[o] /\ m.REF[o] \in Nat
      BY <1>1 DEF Exchanged
    <3> QED BY <3>1
  <2> QED BY <2>1, <2>2 DEF Exchanged, Refiled
<1>4. \A o \in m.live : n.REF[o] = n.contained[o] + u[o]
  <2> SUFFICES ASSUME NEW o \in m.live PROVE n.REF[o] = n.contained[o] + u[o]
    OBVIOUS
  <2>1. o \in Objects /\ m.REF[o] = m.contained[o] + w[o] /\ m.contained[o] \in Nat /\ w[o] \in Nat
    BY <1>1 DEF Balances
  <2>2. /\ plus[o] \in Nat /\ n.contained[o] = (m.contained[o] - One(o = old)) + plus[o]
        /\ n.REF[o] = m.REF[o] + plus[o]
    BY <2>1 DEF Exchanged
  <2>3. u[o] = w[o] + One(o = old) /\ One(o = old) \in Nat
    BY <1>2, <2>1 DEF One
  <2> HIDE DEF u
  <2> QED BY <2>1, <2>2, <2>3
<1>5. \A o \in Objects \ m.live : u[o] = 0
  <2> SUFFICES ASSUME NEW o \in Objects, o \notin m.live PROVE u[o] = 0
    OBVIOUS
  <2>1. w[o] = 0 /\ One(o = old) = 0
    BY <1>1 DEF Balances, One
  <2> QED BY <1>2, <2>1
<1> HIDE DEF u
<1>6. MemOK(n, u)
  BY <1>2, <1>3, <1>4, <1>5, RefiledOK
<1> QED BY <1>6 DEF u

LEMMA LIndexStep ==
  ASSUME Disciplined, ListInv, NEW s \in Squirrels, NEW l \in Lists, NEW i \in 1..MaxLen, NEW e \in Nums,
         LIndex(s, l, i, e)
  PROVE  ListInv'
<1> DEFINE old == mem.data[l][i]
           was == mem.data[l]
           t   == [was EXCEPT ![i] = e]
           plus == [o \in Objects |-> One(o = e)]
           a == [AddRef(mem, e) EXCEPT !.contained[e] = @ + 1, !.data[l][i] = e]
           n == [a EXCEPT !.contained[old] = @ - 1]
           w == Roots(value)
<1>1. /\ l \in ListsOf(s) /\ l \notin Eternals /\ e \in NumsOf(s) /\ i \in DOMAIN was
      /\ IndexLocals \/ mem.heap[l] # "global" \/ mem.heap[e] # "local"
      /\ mem' = RemRef(n, old) /\ value' = value /\ running' = running /\ crashed' = crashed
  BY DEF LIndex
<1>2. l \in mem.live /\ e \in mem.live /\ l \in Objects /\ e \in Objects
  BY <1>1, ObjectsAre DEF ListsOf, NumsOf, Values
<1>3. /\ mem \in Memory /\ Filed(mem.data) /\ Lives(mem) /\ Homes(mem) /\ MemOK(mem, w)
      /\ mem.live \in SUBSET Objects /\ mem.REF \in [Objects -> Nat]
      /\ mem.contained \in [Objects -> Nat] /\ mem.lost \in [Objects -> Nat]
      /\ mem.heap \in [Objects -> {"text", "global", "local"}] /\ mem.data \in [Objects -> Seq(Nums)]
  BY ListParts
<1>4. was \in Seq(Nums) /\ Len(was) <= MaxLen /\ Range(was) \subseteq mem.live
  BY <1>2, <1>3 DEF Filed, Lives
<1>5. old \in Range(was) /\ old \in mem.live /\ old \in Objects /\ was[i] = old
  BY <1>1, <1>3, <1>4 DEF Range
<1>6. /\ t \in Seq(Nums) /\ Len(t) = Len(was) /\ t[i] = e /\ (\A j \in DOMAIN was : j # i => t[j] = was[j])
      /\ DOMAIN t = DOMAIN was
  <2> HIDE DEF was
  <2> QED BY <1>1, <1>4
<1>7. \A y \in Range(t) : y = e \/ y \in Range(was)
  <2> HIDE DEF was, t
  <2> QED BY <1>6 DEF Range
<1>8. \A o : Count(t, o) = (Count(was, o) - One(o = old)) + One(o = e)
  <2> SUFFICES ASSUME NEW o PROVE Count(t, o) = (Count(was, o) - One(o = old)) + One(o = e)
    OBVIOUS
  <2> HIDE DEF t, was, old
  <2>1. Count(t, o) = Count(was, o) - Once(was[i] = o) + Once(e = o)
    BY <1>1, <1>4, <1>6, CountPut
  <2>2. Once(was[i] = o) = One(o = old) /\ Once(e = o) = One(o = e)
    BY <1>5 DEF Once, One
  <2>3. Count(was, o) \in Nat /\ One(o = old) \in Nat /\ One(o = e) \in Nat
    BY <1>4, CountType DEF One
  <2> QED BY <2>1, <2>2, <2>3
<1>9. /\ n.live = mem.live /\ n.heap = mem.heap /\ n.lost = mem.lost
      /\ n.data = [mem.data EXCEPT ![l] = t] /\ n.REF = [mem.REF EXCEPT ![e] = @ + 1]
      /\ n.contained = [[mem.contained EXCEPT ![e] = @ + 1] EXCEPT ![old] = @ - 1]
  <2> DEFINE b == AddRef(mem, e)
  <2>0. /\ b.live = mem.live /\ b.heap = mem.heap /\ b.lost = mem.lost /\ b.data = mem.data
        /\ b.REF = [mem.REF EXCEPT ![e] = @ + 1] /\ b.contained = mem.contained
        /\ DOMAIN b = DOMAIN mem
    BY <1>2, <1>3 DEF AddRef, Memory
  <2>1. /\ a.live = mem.live /\ a.heap = mem.heap /\ a.lost = mem.lost
        /\ a.data = [mem.data EXCEPT ![l] = t] /\ a.REF = [mem.REF EXCEPT ![e] = @ + 1]
        /\ a.contained = [mem.contained EXCEPT ![e] = @ + 1]
        /\ DOMAIN a = DOMAIN mem
    <3> DEFINE c == [b EXCEPT !.contained[e] = @ + 1]
    <3>1. a = [c EXCEPT !.data[l][i] = e]
      OBVIOUS
    <3>2. {"live", "REF", "contained", "heap", "data", "lost"} \subseteq DOMAIN b
      BY <1>3, <2>0 DEF Memory
    <3> HIDE DEF b, a
    <3>3. /\ c.live = b.live /\ c.heap = b.heap /\ c.lost = b.lost /\ c.REF = b.REF
          /\ c.data = b.data /\ c.contained = [b.contained EXCEPT ![e] = @ + 1]
          /\ DOMAIN c = DOMAIN b
      BY <3>2
    <3> HIDE DEF c
    <3>4. /\ a.live = c.live /\ a.heap = c.heap /\ a.lost = c.lost /\ a.REF = c.REF
          /\ a.contained = c.contained /\ a.data = [c.data EXCEPT ![l][i] = e]
          /\ DOMAIN a = DOMAIN c
      BY <3>1, <3>2, <3>3
    <3>5. a.data = [mem.data EXCEPT ![l] = t]
      BY <2>0, <3>3, <3>4
    <3> QED BY <2>0, <3>3, <3>4, <3>5
  <2> HIDE DEF a, old, t
  <2> QED BY <1>3, <2>1 DEF Memory
<1>10. n.REF \in [Objects -> Nat] /\ n.contained \in [Objects -> Nat] /\ n.data \in [Objects -> Seq(Nums)]
       => n \in Memory
  BY <1>3, <1>9 DEF AddRef, Memory
<1> HIDE DEF n, a
<1>11. /\ n.data \in [Objects -> Seq(Nums)] /\ n.data[l] = t
       /\ \A k \in Objects : k # l => n.data[k] = mem.data[k]
  <2> HIDE DEF t
  <2> QED BY <1>2, <1>3, <1>6, <1>9
<1>12. \A o \in Objects : /\ plus[o] = One(o = e) /\ plus[o] \in Nat /\ (plus[o] # 0 => o \in mem.live)
                          /\ n.REF[o] = mem.REF[o] + plus[o]
                          /\ n.contained[o] = (mem.contained[o] - One(o = old)) + plus[o]
                          /\ n.contained[o] \in Int
  <2> HIDE DEF old
  <2> DEFINE c == [mem.contained EXCEPT ![e] = @ + 1]
  <2>1. c \in [Objects -> Nat] /\ \A o \in Objects : c[o] = mem.contained[o] + One(o = e)
    BY <1>2, <1>3 DEF One
  <2>2. n.contained = [c EXCEPT ![old] = @ - 1]
    BY <1>9
  <2> HIDE DEF c
  <2>3. \A o \in Objects : n.contained[o] = c[o] - One(o = old) /\ c[o] \in Nat
    BY <1>5, <2>1, <2>2 DEF One
  <2>4. \A o \in Objects : plus[o] = One(o = e) /\ plus[o] \in Nat /\ (plus[o] # 0 => o \in mem.live)
    BY <1>2 DEF One
  <2>5. \A o \in Objects : n.REF[o] = mem.REF[o] + One(o = e)
    BY <1>2, <1>3, <1>9 DEF One
  <2> SUFFICES ASSUME NEW o \in Objects
               PROVE  /\ plus[o] = One(o = e) /\ plus[o] \in Nat /\ (plus[o] # 0 => o \in mem.live)
                      /\ n.REF[o] = mem.REF[o] + plus[o]
                      /\ n.contained[o] = (mem.contained[o] - One(o = old)) + plus[o]
                      /\ n.contained[o] \in Int
    OBVIOUS
  <2> HIDE DEF plus
  <2>6. n.contained[o] = (mem.contained[o] + One(o = e)) - One(o = old) /\ mem.contained[o] \in Nat
        /\ One(o = old) \in Nat /\ plus[o] = One(o = e) /\ plus[o] \in Nat
    BY <1>3, <2>1, <2>3, <2>4 DEF One
  <2> QED BY <2>4, <2>5, <2>6
<1> HIDE DEF plus
<1>13. (\A o \in Objects : n.REF[o] \in Nat /\ n.contained[o] \in Nat) => n \in Memory
  <2> SUFFICES ASSUME \A o \in Objects : n.REF[o] \in Nat /\ n.contained[o] \in Nat PROVE n \in Memory
    OBVIOUS
  <2>1. n.REF \in [Objects -> Nat] /\ n.contained \in [Objects -> Nat]
    BY <1>3, <1>9
  <2> QED BY <1>10, <1>11, <2>1
<1>14. Exchanged(n, mem, l, t, old, plus)
  <2>1. \A o \in Objects : Count(t, o) = (Count(mem.data[l], o) - One(o = old)) + plus[o]
    BY <1>8, <1>12
  <2> HIDE DEF t, old
  <2> QED BY <1>9, <1>11, <1>12, <1>13, <2>1 DEF Exchanged
<1>15. mem.heap[l] # "local" => \A y \in Range(t) : mem.heap[y] # "local"
  <2> SUFFICES ASSUME mem.heap[l] # "local", NEW y \in Range(t) PROVE mem.heap[y] # "local"
    OBVIOUS
  <2>1. mem.heap[l] = "global"
    BY <1>1, <1>2, <1>3 DEF Homes
  <2>2. mem.heap[e] # "local"
    BY <1>1, <2>1 DEF Disciplined
  <2>3. \A z \in Range(was) : mem.heap[z] # "local"
    BY <1>3 DEF Homes
  <2> QED BY <1>7, <2>2, <2>3
<1>16. Range(t) \subseteq mem.live
  BY <1>2, <1>4, <1>7
<1> HIDE DEF t, old, was, w
<1>17. MemOK(n, More(w, old))
  BY <1>2, <1>3, <1>4, <1>5, <1>6, <1>14, <1>15, <1>16, ExchangedOK
<1>18. w \in [Objects -> Nat]
  BY <1>3, MemParts
<1>19. MemOK(RemRef(n, old), w) /\ RemRef(n, old).heap = n.heap
  BY <1>5, <1>17, <1>18, MoreType, RemRefOK
<1>20. MemOK(mem', Roots(value)) /\ mem'.heap = mem.heap
  BY <1>1, <1>9, <1>19 DEF w
<1> QED BY <1>1, <1>20, MemoryStep

(* The first place where a test holds is a place where it does.               *)
LEMMA MinIs ==
  ASSUME NEW S \in SUBSET Nat, S # {}
  PROVE  Min(S) \in S
<1>1. PICK x \in S : \A y \in S : ~ (<<y, x>> \in OpToRel(<, Nat))
  BY WFMin, NatLessThanWellFounded
<1>2. \A y \in S : x <= y
  <2> SUFFICES ASSUME NEW y \in S PROVE x <= y
    OBVIOUS
  <2>1. x \in Nat /\ y \in Nat
    OBVIOUS
  <2>2. ~ (y < x)
    BY <1>1, <2>1 DEF OpToRel
  <2> QED BY <2>1, <2>2
<1> QED BY <1>1, <1>2 DEF Min

\* Where lremove finds n.
FirstAt(q, n) == SelectInSeq(q, LAMBDA e : NumVal[e] = NumVal[n])

LEMMA FirstIs ==
  ASSUME NEW q \in Seq(Nums), NEW n, FirstAt(q, n) # 0
  PROVE  FirstAt(q, n) \in DOMAIN q
<1> DEFINE I == {i \in 1..Len(q) : NumVal[q[i]] = NumVal[n]}
<1>1. FirstAt(q, n) = IF I # {} THEN Min(I) ELSE 0
  BY DEF FirstAt, SelectInSeq
<1>2. I \in SUBSET Nat /\ I # {}
  BY <1>1
<1> HIDE DEF I
<1>3. FirstAt(q, n) \in I
  BY <1>1, <1>2, MinIs
<1> QED BY <1>3 DEF I

LEMMA LRemoveStep ==
  ASSUME ListInv, NEW s \in Squirrels, NEW l \in Lists, NEW n \in Nums, LRemove(s, l, n)
  PROVE  ListInv'
<1> DEFINE was == mem.data[l]
           at  == FirstAt(was, n)
           e   == was[at]
           t   == RemoveAt(was, at)
           plus == [o \in Objects |-> 0]
           r == [mem EXCEPT !.data[l] = RemoveAt(@, at), !.contained[e] = @ - 1]
           w == Roots(value)
<1>1. /\ l \in ListsOf(s) /\ at # 0
      /\ mem' = (IF e = n THEN Lowered(r, e) ELSE RemRef(r, e))
      /\ value' = value /\ running' = running /\ crashed' = crashed
  BY DEF LRemove, FirstAt, Lowered
<1>2. l \in mem.live /\ l \in Objects
  BY <1>1, ObjectsAre DEF ListsOf, Values
<1>3. /\ mem \in Memory /\ Filed(mem.data) /\ Lives(mem) /\ Homes(mem) /\ MemOK(mem, w)
      /\ mem.live \in SUBSET Objects /\ mem.REF \in [Objects -> Nat]
      /\ mem.contained \in [Objects -> Nat] /\ mem.data \in [Objects -> Seq(Nums)]
  BY ListParts
<1>4. was \in Seq(Nums) /\ Len(was) <= MaxLen /\ Range(was) \subseteq mem.live
  BY <1>2, <1>3 DEF Filed, Lives
<1>5. at \in DOMAIN was
  <2> HIDE DEF was
  <2> QED BY <1>1, <1>4, FirstIs
<1> HIDE DEF at
<1>6. e \in mem.live /\ e \in Objects /\ e \in Range(was)
  BY <1>3, <1>4, <1>5 DEF Range
<1>7. /\ t \in Seq(Nums) /\ Len(t) = Len(was) - 1 /\ Range(t) \subseteq Range(was)
      /\ \A o : Count(t, o) = Count(was, o) - Once(e = o) /\ Count(was, o) \in Nat
  <2> HIDE DEF was
  <2> QED BY <1>4, <1>5, CountRemove, CountType
<1>8. /\ r.live = mem.live /\ r.heap = mem.heap /\ r.lost = mem.lost /\ r.REF = mem.REF
      /\ r.data = [mem.data EXCEPT ![l] = t] /\ r.contained = [mem.contained EXCEPT ![e] = @ - 1]
  <2> HIDE DEF e
  <2> QED BY <1>2, <1>3 DEF Memory
<1>9. r.contained \in [Objects -> Nat] /\ r.data \in [Objects -> Seq(Nums)] => r \in Memory
  <2> HIDE DEF e
  <2> QED BY <1>3, <1>8 DEF Memory
<1> HIDE DEF r, e
<1>10. /\ r.data \in [Objects -> Seq(Nums)] /\ r.data[l] = t
       /\ \A k \in Objects : k # l => r.data[k] = mem.data[k]
  <2> HIDE DEF t
  <2> QED BY <1>2, <1>3, <1>7, <1>8
<1>11. (\A o \in Objects : r.REF[o] \in Nat /\ r.contained[o] \in Nat) => r \in Memory
  <2> SUFFICES ASSUME \A o \in Objects : r.REF[o] \in Nat /\ r.contained[o] \in Nat PROVE r \in Memory
    OBVIOUS
  <2>1. r.contained \in [Objects -> Nat]
    BY <1>3, <1>8
  <2> QED BY <1>9, <1>10, <2>1
<1>12. Exchanged(r, mem, l, t, e, plus)
  <2>1. \A o \in Objects : plus[o] = 0
    OBVIOUS
  <2> HIDE DEF plus, t, was
  <2>2. ASSUME NEW o \in Objects
        PROVE  /\ plus[o] \in Nat /\ (plus[o] # 0 => o \in mem.live)
               /\ r.REF[o] = mem.REF[o] + plus[o]
               /\ r.contained[o] = (mem.contained[o] - One(o = e)) + plus[o]
               /\ Count(t, o) = (Count(was, o) - One(o = e)) + plus[o]
    <3>1. /\ Count(t, o) = Count(was, o) - Once(e = o) /\ Count(was, o) \in Nat /\ plus[o] = 0
          /\ mem.REF[o] \in Nat /\ r.REF[o] = mem.REF[o] /\ mem.contained[o] \in Nat
      BY <1>3, <1>7, <1>8, <2>1
    <3>2. r.contained[o] = mem.contained[o] - One(o = e) /\ One(o = e) \in Nat /\ Once(e = o) = One(o = e)
      BY <1>3, <1>6, <1>8 DEF One, Once
    <3> QED BY <3>1, <3>2
  <2> QED BY <1>8, <1>10, <1>11, <2>2 DEF Exchanged, was
<1>13. mem.heap[l] # "local" => \A y \in Range(t) : mem.heap[y] # "local"
  BY <1>3, <1>7 DEF Homes
<1>14. Range(t) \subseteq mem.live /\ Len(t) <= MaxLen
  <2> HIDE DEF t, was
  <2> QED BY <1>4, <1>7, ListAssumption
<1> HIDE DEF t, was, w
<1>15. MemOK(r, More(w, e))
  BY <1>2, <1>3, <1>6, <1>7, <1>12, <1>13, <1>14, ExchangedOK
<1>16. w \in [Objects -> Nat] /\ More(w, e) \in [Objects -> Nat]
       /\ \A x \in Objects : More(w, e)[x] = w[x] + One(x = e)
  <2>1. w \in [Objects -> Nat]
    BY <1>3, MemParts
  <2> QED BY <2>1, MoreType
<1>17. MemOK(Lowered(r, e), w) /\ Lowered(r, e).heap = r.heap
  BY <1>6, <1>15, <1>16, LoweredOK
<1>18. MemOK(RemRef(r, e), w) /\ RemRef(r, e).heap = r.heap
  BY <1>6, <1>15, <1>16, RemRefOK
<1>19. MemOK(mem', Roots(value)) /\ mem'.heap = mem.heap
  BY <1>1, <1>8, <1>17, <1>18 DEF w
<1> QED BY <1>1, <1>19, MemoryStep

LEMMA CollectStep ==
  ASSUME ListInv, NEW s \in Squirrels, Collect(s)
  PROVE  ListInv'
<1> DEFINE dead == {o \in mem.live : mem.heap[o] \in {"text", LocalHeap(s)} /\ mem.REF[o] = 0}
<1>1. mem' = Destroyed(mem, dead, TRUE) /\ value' = value /\ running' = running /\ crashed' = crashed
  BY DEF Collect
<1>2. dead \in SUBSET mem.live /\ \A o \in dead : mem.REF[o] = 0
  OBVIOUS
<1> HIDE DEF dead
<1>3. MemOK(mem, Roots(value))
  BY ListParts
<1>4. MemOK(Destroyed(mem, dead, TRUE), Roots(value)) /\ Destroyed(mem, dead, TRUE).heap = mem.heap
  BY <1>2, <1>3, DestroyedOK
<1>5. MemOK(mem', Roots(value)) /\ mem'.heap = mem.heap
  BY <1>1, <1>4
<1> QED BY <1>1, <1>5, MemoryStep

LEMMA LRemoveEmptyStep ==
  ASSUME ListInv, NEW s \in Squirrels, NEW l \in Lists, LRemoveEmpty(s, l)
  PROVE  ListInv'
BY DEF LRemoveEmpty, ListInv, ValueTypes, GlobalsHome

LEMMA StartStep ==
  ASSUME ListInv, Start
  PROVE  ListInv'
BY DEF Start, ListInv, ValueTypes, GlobalsHome

-----------------------------------------------------------------------------
(* The end of the function: its variables release their values, and its heap  *)
(* goes, with the references its lists held.                                  *)

Without(val) == [v \in Variables |-> IF v \in Locals THEN Nil ELSE val[v]]

LEMMA RootsWithout ==
  ASSUME NEW val
  PROVE  /\ \A o \in Objects : Roots(val)[o] = Roots(Without(val))[o] + Cardinality(Users(val, Locals, o))
         /\ \A o \in Objects : Cardinality(Users(val, Locals, o)) \in Nat
         /\ \A o \in Objects : Roots(Without(val))[o] # 0 /\ o \notin Eternals
                                 => \E v \in Globals : val[v] = o
<1> SUFFICES ASSUME NEW o \in Objects
             PROVE  /\ Roots(val)[o] = Roots(Without(val))[o] + Cardinality(Users(val, Locals, o))
                    /\ Cardinality(Users(val, Locals, o)) \in Nat
                    /\ Roots(Without(val))[o] # 0 /\ o \notin Eternals => \E v \in Globals : val[v] = o
  OBVIOUS
<1> DEFINE A == Users(val, Globals, o)
           B == Users(val, Locals, o)
           t == One(o \in Eternals /\ o \notin InText)
<1>1. Globals \in SUBSET Variables /\ Locals \in SUBSET Variables /\ Variables \in SUBSET Variables
  BY DEF Variables
<1>2. /\ IsFiniteSet(A) /\ IsFiniteSet(B) /\ Cardinality(A) \in Nat /\ Cardinality(B) \in Nat
      /\ (Cardinality(A) = 0 <=> \A v \in Globals : val[v] # o)
  BY <1>1, UsersType
<1>3. Users(val, Variables, o) = A \cup B /\ A \cap B = {}
  BY ListAssumption DEF Users, Variables
<1>4. Users(Without(val), Variables, o) = A
  <2>1. \A v \in Variables : Without(val)[v] = IF v \in Locals THEN Nil ELSE val[v]
    BY DEF Without
  <2> QED BY <2>1, ListAssumption, ObjectsAre DEF Users, Variables
<1> HIDE DEF A, B
<1>5. Cardinality(A \cup B) = Cardinality(A) + Cardinality(B) - Cardinality(A \cap B)
  BY <1>2, FS_Union
<1>6. Cardinality(A \cap B) = 0
  BY <1>3, FS_EmptySet
<1>7. Roots(val)[o] = Cardinality(A \cup B) + t /\ Roots(Without(val))[o] = Cardinality(A) + t
  BY <1>3, <1>4, RootsType
<1>8. t \in Nat /\ (o \notin Eternals => t = 0)
  BY DEF One
<1> HIDE DEF t
<1>9. Roots(val)[o] = Roots(Without(val))[o] + Cardinality(B) /\ Cardinality(B) \in Nat
  BY <1>2, <1>5, <1>6, <1>7, <1>8
<1>10. Roots(Without(val))[o] # 0 /\ o \notin Eternals => \E v \in Globals : val[v] = o
  BY <1>2, <1>7, <1>8
<1> QED BY <1>9, <1>10 DEF B

\* The objects that go with the function's heap.
Gone(m) == {o \in m.live : m.heap[o] = "local"}

\* n is m without them.
Ended(n, m) ==
  /\ n.live = m.live \ Gone(m) /\ n.heap = m.heap /\ n.data \in [Objects -> Seq(Nums)]
  /\ n.lost \in [Objects -> Nat] /\ n.REF \in [Objects -> Nat] /\ n.contained \in [Objects -> Nat]
  /\ n \in Memory
  /\ \A o \in Objects :
       /\ o \in Gone(m) => n.data[o] = <<>> /\ n.lost[o] = 0
       /\ o \notin Gone(m) => /\ n.REF[o] = m.REF[o] /\ n.contained[o] = m.contained[o]
                              /\ n.data[o] = m.data[o]
                              /\ n.lost[o] = m.lost[o] + In(m.data, Gone(m) \cap Lists, o)

LEMMA EndedOK ==
  ASSUME NEW m, NEW u, MemOK(m, u), NEW n, Ended(n, m),
         \A o \in Objects : m.heap[o] = "local" => u[o] = 0
  PROVE  MemOK(n, u)
<1> DEFINE F == m.data
           G == n.data
           D == Gone(m)
<1>1. /\ Filed(F) /\ u \in [Objects -> Nat] /\ Lives(m) /\ Balances(m, u) /\ Homes(m)
      /\ m.live \in SUBSET Objects /\ m.contained \in [Objects -> Nat] /\ m.lost \in [Objects -> Nat]
  BY MemParts
<1>2. /\ n.live = m.live \ D /\ n.heap = m.heap /\ G \in [Objects -> Seq(Nums)] /\ n \in Memory
      /\ \A o \in Objects :
           /\ o \in D => G[o] = <<>> /\ n.lost[o] = 0
           /\ o \notin D => /\ n.REF[o] = m.REF[o] /\ n.contained[o] = m.contained[o]
                            /\ G[o] = F[o] /\ n.lost[o] = m.lost[o] + In(F, D \cap Lists, o)
  BY DEF Ended
<1>3. D \subseteq m.live /\ \A o \in m.live : o \in D <=> m.heap[o] = "local"
  BY DEF Gone
<1> HIDE DEF F, G, D
<1>4. Filed(G)
  <2>1. \A o \in Objects : Len(G[o]) <= MaxLen
    <3> SUFFICES ASSUME NEW o \in Objects PROVE Len(G[o]) <= MaxLen
      OBVIOUS
    <3>1. Len(<<>>) <= MaxLen
      BY ListAssumption
    <3> QED BY <1>1, <1>2, <3>1 DEF Filed
  <2> QED BY <1>2, <2>1 DEF Filed
<1>5. \A o \in Objects : /\ In(G, Lists, o) = In(F, Lists, o) - In(F, D \cap Lists, o)
                         /\ In(G, Lists, o) \in Nat /\ In(F, Lists, o) \in Nat
                         /\ In(F, D \cap Lists, o) \in Nat
  <2>1. \A k \in Lists : G[k] = IF k \in D THEN <<>> ELSE F[k]
    BY <1>2, ObjectsAre
  <2>2. Filed(F)
    BY <1>1
  <2> QED BY <1>4, <2>1, <2>2, InEmptied
<1>6. Lives(n)
  <2>1. \A o \in Objects : o \notin n.live \/ o \in Nums => G[o] = <<>>
    BY <1>1, <1>2, <1>3 DEF Lives, F
  <2>2. ASSUME NEW l \in Lists, NEW e \in Range(G[l]) PROVE e \in n.live
    <3>1. l \in Objects /\ G[l] # <<>>
      <4>1. PICK i \in DOMAIN G[l] : TRUE
        BY <2>2 DEF Range
      <4> QED BY <4>1, ObjectsAre
    <3>2. l \in n.live /\ l \in m.live /\ l \notin D /\ G[l] = F[l]
      BY <1>2, <2>1, <3>1
    <3>3. m.heap[l] # "local"
      BY <1>3, <3>2
    <3>4. e \in m.live /\ m.heap[e] # "local"
      BY <1>1, <3>2, <3>3 DEF Lives, Homes, F
    <3> QED BY <1>2, <1>3, <3>4
  <2> QED BY <2>1, <2>2 DEF Lives, G
<1>7. Balances(n, u)
  <2>1. ASSUME NEW o \in n.live
        PROVE  n.contained[o] = In(G, Lists, o) + n.lost[o] /\ n.REF[o] = n.contained[o] + u[o]
    <3>1. o \in m.live /\ o \notin D /\ o \in Objects
      BY <1>1, <1>2
    <3>2. m.contained[o] = In(F, Lists, o) + m.lost[o] /\ m.REF[o] = m.contained[o] + u[o]
          /\ m.lost[o] \in Nat
      BY <1>1, <3>1 DEF Balances, F
    <3>3. n.REF[o] = m.REF[o] /\ n.contained[o] = m.contained[o]
          /\ n.lost[o] = m.lost[o] + In(F, D \cap Lists, o)
      BY <1>2, <3>1
    <3>4. /\ In(G, Lists, o) = In(F, Lists, o) - In(F, D \cap Lists, o)
          /\ In(G, Lists, o) \in Nat /\ In(F, Lists, o) \in Nat /\ In(F, D \cap Lists, o) \in Nat
      BY <1>5, <3>1
    <3> QED BY <3>2, <3>3, <3>4
  <2>2. ASSUME NEW o \in Objects, o \notin n.live PROVE u[o] = 0 /\ n.lost[o] = 0
    <3>1. CASE o \in D
      BY <1>2, <1>3, <3>1
    <3>2. CASE o \notin D
      <4>1. o \notin m.live /\ u[o] = 0 /\ m.lost[o] = 0
        BY <1>1, <1>2, <2>2, <3>2 DEF Balances
      <4>2. D \cap Lists \in SUBSET Lists /\ \A l \in D \cap Lists : o \notin Range(F[l])
        BY <1>1, <4>1 DEF Lives, F
      <4>3. In(F, D \cap Lists, o) = 0
        BY <1>1, <4>2, InType
      <4> QED BY <1>2, <3>2, <4>1, <4>3
    <3> QED BY <3>1, <3>2
  <2> QED BY <2>1, <2>2 DEF Balances, G
<1>8. Homes(n)
  <2>1. \A l \in Lists : Range(G[l]) \subseteq Range(F[l])
    BY <1>2, ObjectsAre DEF Range
  <2> QED BY <1>1, <1>2, <2>1 DEF Homes, F, G
<1> QED BY <1>1, <1>2, <1>4, <1>6, <1>7, <1>8 DEF MemOK, G

LEMMA EndStep ==
  ASSUME ListInv, End
  PROVE  ListInv'
<1> DEFINE w == Roots(value)
           new == Without(value)
           u == Roots(new)
           R == [o \in Objects |-> mem.REF[o] - Cardinality({x \in Locals : value[x] = o})]
           left == {value[x] : x \in Locals} \ ({Nil} \cup Eternals)
           a == [mem EXCEPT !.REF = R]
           D == {o \in left : R[o] = 0}
           m == Destroyed(a, D, FALSE)
           gone == {o \in m.live : m.heap[o] = "local"}
           lose == [o \in Objects |-> IF o \in gone THEN 0 ELSE
                                  Cardinality(Places(m.data, gone \cap Lists, o))]
           kept(f) == [o \in Objects |-> IF o \in gone THEN 0 ELSE f[o]]
           n == [m EXCEPT !.live = @ \ gone, !.REF = kept(@), !.contained = kept(@),
                         !.data = [o \in Objects |-> IF o \in gone THEN <<>> ELSE @[o]],
                         !.lost = [o \in Objects |-> kept(@)[o] + lose[o]]]
<1>1. running /\ mem' = n /\ value' = new /\ running' = FALSE /\ crashed' = crashed
  BY DEF End, Without
<1>2. /\ MemOK(mem, w) /\ ValueTypes /\ GlobalsHome /\ mem \in Memory /\ mem.live \in SUBSET Objects
      /\ Balances(mem, w) /\ Homes(mem) /\ mem.REF \in [Objects -> Nat]
      /\ mem.contained \in [Objects -> Nat]
  BY ListParts
<1>3. w \in [Objects -> Nat] /\ u \in [Objects -> Nat]
  BY RootsType
<1>4. /\ \A o \in Objects : w[o] = u[o] + Cardinality(Users(value, Locals, o))
                            /\ Cardinality(Users(value, Locals, o)) \in Nat
      /\ \A o \in Objects : u[o] # 0 /\ o \notin Eternals => \E v \in Globals : value[v] = o
  BY RootsWithout
<1> HIDE DEF w, u
<1>5. \A o \in Objects : R[o] = mem.REF[o] - Cardinality(Users(value, Locals, o))
  BY DEF Users
<1>6. \A o \in mem.live : R[o] = mem.contained[o] + u[o]
  <2> SUFFICES ASSUME NEW o \in mem.live PROVE R[o] = mem.contained[o] + u[o]
    OBVIOUS
  <2>1. o \in Objects /\ mem.REF[o] = mem.contained[o] + w[o] /\ mem.contained[o] \in Nat /\ u[o] \in Nat
    BY <1>2, <1>3 DEF Balances
  <2>2. /\ w[o] = u[o] + Cardinality(Users(value, Locals, o)) /\ Cardinality(Users(value, Locals, o)) \in Nat
        /\ R[o] = mem.REF[o] - Cardinality(Users(value, Locals, o))
    BY <1>4, <1>5, <2>1
  <2> HIDE DEF R
  <2> QED BY <2>1, <2>2
<1>7. \A o \in Objects \ mem.live : u[o] = 0 /\ R[o] = mem.REF[o]
  <2> SUFFICES ASSUME NEW o \in Objects, o \notin mem.live PROVE u[o] = 0 /\ R[o] = mem.REF[o]
    OBVIOUS
  <2>1. w[o] = 0 /\ u[o] \in Nat /\ mem.REF[o] \in Nat
    BY <1>2, <1>3 DEF Balances
  <2>2. /\ w[o] = u[o] + Cardinality(Users(value, Locals, o)) /\ Cardinality(Users(value, Locals, o)) \in Nat
        /\ R[o] = mem.REF[o] - Cardinality(Users(value, Locals, o))
    BY <1>4, <1>5
  <2> HIDE DEF R
  <2> QED BY <2>1, <2>2
<1>8. R \in [Objects -> Nat]
  <2>1. \A o \in Objects : R[o] \in Nat
    <3> SUFFICES ASSUME NEW o \in Objects PROVE R[o] \in Nat
      OBVIOUS
    <3> HIDE DEF R
    <3> QED BY <1>2, <1>3, <1>6, <1>7
  <2>2. DOMAIN R = Objects /\ R = [o \in Objects |-> R[o]]
    OBVIOUS
  <2> HIDE DEF R
  <2> QED BY <2>1, <2>2
<1> HIDE DEF R
<1>9. /\ a.live = mem.live /\ a.heap = mem.heap /\ a.data = mem.data /\ a.lost = mem.lost
      /\ a.contained = mem.contained /\ a.REF = R /\ a \in Memory
  BY <1>2, <1>8 DEF Memory
<1> HIDE DEF a
<1>10. MemOK(a, u)
  BY <1>2, <1>3, <1>6, <1>7, <1>9, MemRecount
<1>11. D \in SUBSET a.live /\ \A o \in D : a.REF[o] = 0
  <2>1. \A x \in Locals : value[x] # Nil => value[x] \in mem.live
    BY ValuesLive DEF Variables
  <2> QED BY <1>9, <2>1
<1> HIDE DEF D
<1>12. MemOK(m, u) /\ m.heap = a.heap
  BY <1>10, <1>11, DestroyedOK
<1> HIDE DEF m
<1>13. /\ m \in Memory /\ Filed(m.data) /\ m.live \in SUBSET Objects /\ m.REF \in [Objects -> Nat]
       /\ m.contained \in [Objects -> Nat] /\ m.lost \in [Objects -> Nat]
       /\ m.data \in [Objects -> Seq(Nums)]
  BY <1>12, MemParts
<1>14. gone = Gone(m)
  BY DEF Gone
<1>15. /\ n.live = m.live \ gone /\ n.heap = m.heap /\ n.REF = kept(m.REF)
       /\ n.contained = kept(m.contained)
       /\ n.data = [o \in Objects |-> IF o \in gone THEN <<>> ELSE m.data[o]]
       /\ n.lost = [o \in Objects |-> kept(m.lost)[o] + lose[o]]
  <2> HIDE DEF gone, kept, lose
  <2> QED BY <1>13 DEF Memory
<1>16. n.live \in SUBSET Objects /\ n.REF \in [Objects -> Nat] /\ n.contained \in [Objects -> Nat]
       /\ n.data \in [Objects -> Seq(Nums)] /\ n.lost \in [Objects -> Nat] => n \in Memory
  <2> HIDE DEF gone, kept, lose
  <2> QED BY <1>13 DEF Memory
<1> HIDE DEF n
<1>17. \A o \in Objects : lose[o] = IF o \in gone THEN 0 ELSE In(m.data, gone \cap Lists, o)
  BY DEF In
<1>18. \A o \in Objects : In(m.data, gone \cap Lists, o) \in Nat
  <2> DEFINE F == m.data
             L == gone \cap Lists
  <2>1. Filed(F) /\ L \in SUBSET Lists
    BY <1>13
  <2> HIDE DEF F, L
  <2>2. \A o : In(F, L, o) \in Nat
    BY <2>1, InType
  <2> QED BY <2>2 DEF F, L
<1> HIDE DEF gone, lose
<1>19. \A f \in [Objects -> Nat] : /\ kept(f) \in [Objects -> Nat]
                                   /\ \A o \in Objects : kept(f)[o] = IF o \in gone THEN 0 ELSE f[o]
  OBVIOUS
<1>20. /\ kept(m.REF) \in [Objects -> Nat] /\ kept(m.contained) \in [Objects -> Nat]
       /\ kept(m.lost) \in [Objects -> Nat]
       /\ \A o \in Objects : /\ kept(m.REF)[o] = IF o \in gone THEN 0 ELSE m.REF[o]
                             /\ kept(m.contained)[o] = IF o \in gone THEN 0 ELSE m.contained[o]
                             /\ kept(m.lost)[o] = IF o \in gone THEN 0 ELSE m.lost[o]
  BY <1>13
<1> HIDE DEF kept
<1>21. n.lost \in [Objects -> Nat] /\ \A o \in Objects : n.lost[o] = kept(m.lost)[o] + lose[o]
  <2>1. ASSUME NEW o \in Objects PROVE kept(m.lost)[o] + lose[o] \in Nat
    <3>1. kept(m.lost)[o] \in Nat
      BY <1>20
    <3>2. lose[o] \in Nat
      BY <1>17, <1>18
    <3> QED BY <3>1, <3>2
  <2> QED BY <1>15, <2>1
<1>22. n.data \in [Objects -> Seq(Nums)]
       /\ \A o \in Objects : n.data[o] = IF o \in gone THEN <<>> ELSE m.data[o]
  <2>1. \A o \in Objects : (IF o \in gone THEN <<>> ELSE m.data[o]) \in Seq(Nums)
    BY <1>13
  <2> QED BY <1>15, <2>1
<1>23. n \in Memory
  BY <1>13, <1>15, <1>16, <1>20, <1>21, <1>22
<1>24. Ended(n, m)
  <2>1. /\ n.live = m.live \ Gone(m) /\ n.heap = m.heap /\ n.data \in [Objects -> Seq(Nums)]
        /\ n.lost \in [Objects -> Nat] /\ n.REF \in [Objects -> Nat] /\ n.contained \in [Objects -> Nat]
    BY <1>14, <1>15, <1>20, <1>21, <1>22
  <2>2. ASSUME NEW o \in Objects
        PROVE  /\ o \in gone => n.data[o] = <<>> /\ n.lost[o] = 0
               /\ o \notin gone => /\ n.REF[o] = m.REF[o] /\ n.contained[o] = m.contained[o]
                                   /\ n.data[o] = m.data[o]
                                   /\ n.lost[o] = m.lost[o] + In(m.data, gone \cap Lists, o)
    <3>1. n.REF[o] = kept(m.REF)[o] /\ n.contained[o] = kept(m.contained)[o]
          /\ n.lost[o] = kept(m.lost)[o] + lose[o]
      BY <1>15, <1>21
    <3>2. n.data[o] = IF o \in gone THEN <<>> ELSE m.data[o]
      BY <1>22
    <3>3. /\ kept(m.REF)[o] = (IF o \in gone THEN 0 ELSE m.REF[o])
          /\ kept(m.contained)[o] = (IF o \in gone THEN 0 ELSE m.contained[o])
          /\ kept(m.lost)[o] = (IF o \in gone THEN 0 ELSE m.lost[o])
      BY <1>20
    <3>4. lose[o] = IF o \in gone THEN 0 ELSE In(m.data, gone \cap Lists, o)
      BY <1>17
    <3>5. CASE o \in gone
      BY <3>1, <3>2, <3>3, <3>4, <3>5
    <3>6. CASE o \notin gone
      BY <3>1, <3>2, <3>3, <3>4, <3>6
    <3> QED BY <3>5, <3>6
  <2> QED BY <1>14, <1>23, <2>1, <2>2 DEF Ended
<1>25. \A o \in Objects : m.heap[o] = "local" => u[o] = 0
  <2> SUFFICES ASSUME NEW o \in Objects, m.heap[o] = "local" PROVE u[o] = 0
    OBVIOUS
  <2>1. mem.heap[o] = "local" /\ o \notin Eternals
    BY <1>2, <1>9, <1>12 DEF Homes
  <2>2. ~ \E v \in Globals : value[v] = o
    BY <1>2, <2>1, ObjectsAre DEF GlobalsHome
  <2> QED BY <1>4, <2>1, <2>2
<1>26. MemOK(mem', Roots(value'))
  <2>1. MemOK(n, u)
    BY <1>12, <1>24, <1>25, EndedOK
  <2> HIDE DEF new
  <2> QED BY <1>1, <2>1 DEF u
<1>27. ValueTypes' /\ GlobalsHome'
  <2>1. \A v \in Variables : new[v] = IF v \in Locals THEN Nil ELSE value[v]
    BY DEF Without
  <2>2. new \in [Variables -> Objects \cup {Nil}]
    BY <1>2 DEF Without, ValueTypes
  <2>3. mem'.heap = mem.heap
    BY <1>1, <1>9, <1>12, <1>15
  <2> HIDE DEF new
  <2>4. ValueTypes'
    BY <1>1, <1>2, <2>1, <2>2 DEF ValueTypes, Variables
  <2>5. GlobalsHome'
    BY <1>1, <1>2, <2>1, <2>3, ListAssumption DEF GlobalsHome, Variables
  <2> QED BY <2>4, <2>5
<1> QED BY <1>26, <1>27 DEF ListInv

LEMMA ListInitOK == ListInit => ListInv
<1> SUFFICES ASSUME ListInit PROVE ListInv
  OBVIOUS
<1> DEFINE data == [o \in Objects |-> IF o \in DOMAIN Text THEN Text[o] ELSE <<>>]
           in == [o \in Objects |-> InLists(data, o)]
           r == [o \in Objects |-> in[o] + One(o \in Eternals /\ in[o] = 0)]
           w == Roots(value)
<1>1. /\ mem = [live |-> Eternals, REF |-> r, contained |-> in,
                heap |-> [o \in Objects |-> IF o \in Eternals THEN "text" ELSE "global"],
                data |-> data, lost |-> [o \in Objects |-> 0]]
      /\ value = [v \in Variables |-> Nil] /\ running = FALSE /\ crashed = FALSE
  BY DEF ListInit
<1>2. \A t \in DOMAIN Text : /\ Text[t] \in Seq(Literals) /\ Len(Text[t]) <= MaxLen
                             /\ Range(Text[t]) \subseteq Literals
  <2> SUFFICES ASSUME NEW t \in DOMAIN Text
               PROVE  /\ Text[t] \in Seq(Literals) /\ Len(Text[t]) <= MaxLen
                      /\ Range(Text[t]) \subseteq Literals
    OBVIOUS
  <2>1. Text[t] \in BoundedSeq(Literals, MaxLen) /\ MaxLen \in Nat
    BY ListAssumption
  <2>2. Text[t] \in Seq(Literals) /\ Len(Text[t]) <= MaxLen
    BY <2>1 DEF BoundedSeq, SeqOf
  <2> QED BY <2>2 DEF Range
<1>3. \A o \in Objects : /\ o \in DOMAIN Text => data[o] = Text[o]
                         /\ o \notin DOMAIN Text => data[o] = <<>>
  OBVIOUS
<1>4. data \in [Objects -> Seq(Nums)]
  <2>1. \A o \in Objects : (IF o \in DOMAIN Text THEN Text[o] ELSE <<>>) \in Seq(Nums)
    BY <1>2, ObjectsAre
  <2> QED BY <2>1
<1>5. Filed(data)
  BY <1>2, <1>3, <1>4, ObjectsAre DEF Filed
<1>6. \A o \in Objects : in[o] = In(data, Lists, o)
  BY DEF In, InLists
<1> HIDE DEF data
<1>7. \A o : In(data, Lists, o) \in Nat /\ (In(data, Lists, o) = 0 <=> \A l \in Lists : o \notin Range(data[l]))
  <2>1. Lists \in SUBSET Lists
    OBVIOUS
  <2> QED BY <1>5, <2>1, InType
<1>8. \A o \in Objects : In(data, Lists, o) = 0 <=> o \notin InText
  <2> SUFFICES ASSUME NEW o \in Objects
               PROVE  (\A l \in Lists : o \notin Range(data[l])) <=> o \notin InText
    BY <1>7
  <2>1. ASSUME NEW t \in DOMAIN Text, o \in Range(Text[t]) PROVE t \in Lists /\ o \in Range(data[t])
    BY <1>3, <2>1, ObjectsAre
  <2>2. ASSUME NEW l \in Lists, o \in Range(data[l]) PROVE l \in DOMAIN Text /\ o \in Range(Text[l])
    <3>1. l \in Objects
      BY ObjectsAre
    <3>2. l \in DOMAIN Text
      BY <1>3, <2>2, <3>1 DEF Range
    <3> QED BY <1>3, <2>2, <3>1, <3>2
  <2> QED BY <2>1, <2>2 DEF InText
<1>9. \A o \in Objects : w[o] = One(o \in Eternals /\ o \notin InText)
  <2> SUFFICES ASSUME NEW o \in Objects PROVE w[o] = One(o \in Eternals /\ o \notin InText)
    OBVIOUS
  <2>1. \A v \in Variables : value[v] # o
    BY <1>1, ObjectsAre
  <2>2. Cardinality(Users(value, Variables, o)) = 0
    <3>1. Variables \in SUBSET Variables
      OBVIOUS
    <3> QED BY <2>1, <3>1, UsersType
  <2>3. w[o] = Cardinality(Users(value, Variables, o)) + One(o \in Eternals /\ o \notin InText)
    BY RootsType
  <2> QED BY <2>2, <2>3 DEF One
<1>10. w \in [Objects -> Nat]
  BY RootsType
<1> HIDE DEF w, in
<1>11. in \in [Objects -> Nat]
  BY <1>6, <1>7 DEF in
<1>12. r \in [Objects -> Nat] /\ \A o \in Objects : r[o] = in[o] + One(o \in Eternals /\ in[o] = 0)
  <2>1. \A o \in Objects : in[o] + One(o \in Eternals /\ in[o] = 0) \in Nat
    BY <1>11 DEF One
  <2> QED BY <2>1
<1> HIDE DEF r
<1>13. /\ mem \in Memory /\ mem.live = Eternals /\ mem.REF = r /\ mem.contained = in /\ mem.data = data
       /\ \A o \in Objects : mem.lost[o] = 0 /\ mem.heap[o] = IF o \in Eternals THEN "text" ELSE "global"
  BY <1>1, <1>4, <1>11, <1>12, ObjectsAre DEF Memory
<1>14. Lives(mem)
  <2>1. \A o \in Objects : o \notin Eternals \/ o \in Nums => data[o] = <<>>
    BY <1>3, ObjectsAre DEF Eternals
  <2>2. \A l \in Lists : Range(data[l]) \subseteq Eternals
    <3> SUFFICES ASSUME NEW l \in Lists, NEW e \in Range(data[l]) PROVE e \in Eternals
      OBVIOUS
    <3>1. l \in DOMAIN Text
      BY <1>3, ObjectsAre DEF Range
    <3>2. e \in Range(Text[l])
      BY <1>3, <3>1, ObjectsAre
    <3> QED BY <1>2, <3>1, <3>2 DEF Eternals
  <2> QED BY <1>13, <2>1, <2>2 DEF Lives
<1>15. Balances(mem, w)
  <2>1. ASSUME NEW o \in Objects PROVE in[o] = In(data, Lists, o) + 0 /\ r[o] = in[o] + w[o]
    <3>1. in[o] = In(data, Lists, o) /\ In(data, Lists, o) \in Nat
      BY <1>6, <1>7
    <3>2. r[o] = in[o] + One(o \in Eternals /\ o \notin InText)
      BY <1>8, <1>12, <3>1 DEF One
    <3> QED BY <1>9, <3>1, <3>2
  <2>2. \A o \in Objects \ Eternals : w[o] = 0
    BY <1>9 DEF One
  <2> QED BY <1>13, <2>1, <2>2, ObjectsAre DEF Balances
<1>16. Homes(mem)
  <2>1. ASSUME NEW l \in Lists, NEW e \in Range(mem.data[l]) PROVE mem.heap[e] # "local"
    <3>1. e \in Objects
      BY <1>13, <1>14, ObjectsAre DEF Lives
    <3> QED BY <1>13, <3>1
  <2> QED BY <1>13, <2>1 DEF Homes
<1>17. MemOK(mem, w)
  BY <1>5, <1>10, <1>13, <1>14, <1>15, <1>16 DEF MemOK
<1>18. ValueTypes /\ GlobalsHome
  BY <1>1 DEF ValueTypes, GlobalsHome, Variables
<1> QED BY <1>17, <1>18 DEF ListInv, w

LEMMA ListNextOK ==
  ASSUME Disciplined, ListInv, [ListNext]_listVars
  PROVE  ListInv'
<1>1. CASE \E s \in Squirrels, v \in Variables, n \in Nums : MakeNumber(s, v, n)
  BY <1>1, MakeNumberStep
<1>2. CASE \E s \in Squirrels, v \in Variables, o \in Objects : Make(s, v, o)
  BY <1>2, MakeStep
<1>3. CASE \E s \in Squirrels, v \in Variables \cup {Nil}, l \in Lists,
              elems \in BoundedSeq(Nums, MaxLen) : Build(s, v, l, elems)
  BY <1>3, BuildStep
<1>4. CASE \E s \in Squirrels, l \in Lists, e \in Nums : LAppend(s, l, e)
  BY <1>4, LAppendStep
<1>5. CASE \E s \in Squirrels, l \in Lists, i \in 1..MaxLen, e \in Nums : LIndex(s, l, i, e)
  BY <1>5, LIndexStep
<1>6. CASE \E s \in Squirrels, l \in Lists, n \in Nums : LRemove(s, l, n)
  BY <1>6, LRemoveStep
<1>7. CASE \E s \in Squirrels, l \in Lists : LRemoveEmpty(s, l)
  BY <1>7, LRemoveEmptyStep
<1>8. CASE \E s \in Squirrels : Collect(s)
  BY <1>8, CollectStep
<1>9. CASE Start \/ End
  BY <1>9, StartStep, EndStep
<1>10. CASE UNCHANGED listVars
  BY <1>10 DEF listVars, ListInv, ValueTypes, GlobalsHome
<1> QED BY <1>1, <1>2, <1>3, <1>4, <1>5, <1>6, <1>7, <1>8, <1>9, <1>10 DEF ListNext

LEMMA ListIsInv == ASSUME Disciplined PROVE ListSpec => []ListInv
<1>1. ListInv /\ [ListNext]_listVars => ListInv'
  BY ListNextOK
<1> QED BY <1>1, ListInitOK, PTL DEF ListSpec

-----------------------------------------------------------------------------
(* The properties of SQIList, for functions that keep global values out of    *)
(* lists of their own and their own values out of lists of the global heap.   *)
(* The code does not keep them to it: Add2End exports a global value to the   *)
(* function's heap (SQI-list.cpp:281), lindex exports nothing                 *)
(* (SQI-listh.cpp:573), and either value goes when the function ends.         *)

(* The memory and the variables keep their types, literals stay in the heap   *)
(* of the text, and a function that does not run has no values, for any       *)
(* numbers, lists, literals, variables and lengths: the property `ListTypeOK` *)
(* of the run.                                                                *)
THEOREM ListTypeCorrect == ASSUME Disciplined PROVE ListSpec => []ListTypeOK
<1>1. ListInv => ListTypeOK
  <2> SUFFICES ASSUME ListInv PROVE ListTypeOK
    OBVIOUS
  <2>1. \A o \in Objects : mem.data[o] \in BoundedSeq(Nums, MaxLen)
    <3> SUFFICES ASSUME NEW o \in Objects PROVE mem.data[o] \in BoundedSeq(Nums, MaxLen)
      OBVIOUS
    <3> DEFINE s == mem.data[o]
               n == Len(s)
    <3>1. s \in Seq(Nums) /\ n \in Nat /\ n <= MaxLen
      BY ListParts DEF Filed
    <3>2. n \in 0..MaxLen /\ s \in [1..n -> Nums]
      BY <3>1, ListAssumption
    <3> HIDE DEF s, n
    <3>3. s \in BoundedSeq(Nums, MaxLen)
      BY <3>2, ListAssumption DEF BoundedSeq, SeqOf
    <3> QED BY <3>3 DEF s
  <2>2. mem.data \in [Objects -> BoundedSeq(Nums, MaxLen)]
    BY <2>1, ListParts
  <2>3. \A o \in Eternals : mem.heap[o] = "text"
    BY ListParts, ObjectsAre DEF Homes
  <2> QED BY <2>2, <2>3, ListParts DEF ListTypeOK, ValueTypes
<1> QED BY <1>1, ListIsInv, PTL

(* No variable refers to an object that is gone, itself or through a list,    *)
(* although functions end and take their heap along, for any program of such  *)
(* functions: the property `ValuesSurvive` of the run.                        *)
THEOREM ValuesSurviveEnds == ASSUME Disciplined PROVE ListSpec => []ValuesSurvive
<1>1. ListInv => ValuesSurvive
  <2> SUFFICES ASSUME ListInv, NEW v \in Variables, value[v] # Nil
               PROVE  value[v] \in mem.live /\ Range(mem.data[value[v]]) \subseteq mem.live
    BY DEF ValuesSurvive
  <2> DEFINE o == value[v]
  <2>1. o \in mem.live
    BY ValuesLive
  <2>2. o \in Objects /\ Lives(mem)
    BY <2>1, ListParts
  <2> HIDE DEF o
  <2>3. Range(mem.data[o]) \subseteq mem.live
    <3>1. CASE o \in Nums
      BY <2>2, <3>1 DEF Lives, Range
    <3>2. CASE o \in Lists
      BY <2>2, <3>2 DEF Lives
    <3> QED BY <2>2, <3>1, <3>2 DEF Objects
  <2> QED BY <2>1, <2>3 DEF o
<1> QED BY <1>1, ListIsInv, PTL

(* contained and REF of every object are exactly the references that lists,   *)
(* variables and statements have to it, and those a deleted heap has lost:    *)
(* the property `ElementsCounted` of the run.                                 *)
THEOREM ListElementsCounted == ASSUME Disciplined PROVE ListSpec => []ElementsCounted
<1>1. ListInv => ElementsCounted
  <2> SUFFICES ASSUME ListInv, NEW o \in mem.live
               PROVE  LET in == InLists(mem.data, o)
                      IN /\ mem.contained[o] = in + mem.lost[o]
                         /\ mem.REF[o] = in + mem.lost[o] + Cardinality({v \in Variables : value[v] = o})
                              + One(o \in Eternals
                                    /\ o \notin UNION {Range(Text[t]) : t \in DOMAIN Text})
    BY DEF ElementsCounted
  <2> DEFINE in == InLists(mem.data, o)
             u == Cardinality(Users(value, Variables, o))
             t == One(o \in Eternals /\ o \notin InText)
  <2>1. o \in Objects
    BY ListParts
  <2>2. mem.contained[o] = in + mem.lost[o] /\ mem.REF[o] = mem.contained[o] + Roots(value)[o]
    BY ListParts DEF Balances, In, InLists
  <2>3. Roots(value)[o] = u + t
    BY <2>1, RootsType
  <2>4. in \in Nat /\ mem.lost[o] \in Nat /\ u \in Nat /\ t \in Nat
    <3>1. in \in Nat
      <4>1. Lists \in SUBSET Lists /\ Filed(mem.data)
        BY ListParts
      <4> QED BY <4>1, InType DEF In, InLists
    <3>2. u \in Nat
      <4>1. Variables \in SUBSET Variables
        OBVIOUS
      <4> QED BY <4>1, UsersType
    <3> QED BY <2>1, <3>1, <3>2, ListParts DEF One
  <2> HIDE DEF in, u, t
  <2>5. mem.REF[o] = in + mem.lost[o] + u + t
    BY <2>2, <2>3, <2>4
  <2> QED BY <2>2, <2>5 DEF in, u, t, Users, InText
<1> QED BY <1>1, ListIsInv, PTL
=============================================================================
