---------------------------- MODULE SQIDataStruct ----------------------------
(***************************************************************************)
(* Vector and Dictionary of the Data Structures add-on, as one Squirrel    *)
(* uses them: what their methods do to the counts of their elements, the   *)
(* storage of a vector behind the iterator of iterate, which calls a       *)
(* function of the script for every element, and the sort.                 *)
(*                                                                         *)
(* Elements are numbers.  A reference that is counted and that no          *)
(* container, variable or call can give back is counted in lost.           *)
(***************************************************************************)
EXTENDS Integers, FiniteSets, SequencesExt

CONSTANTS
  Obj,      \* the addresses numbers are allocated at
  Val,      \* the value of the number at each of them
  Vectors,  \* the addresses vectors are allocated at
  Dico,     \* the keys a script uses in its one dictionary
  MaxSize,  \* bound: the elements of a vector
  MaxLost,  \* bound: how many references are lost
  InCall,   \* the methods the function called by iterate may use: "size" those that
            \* change the size of a vector, "same" the others
  Past,     \* what set may write to: "size" elements, "capacity" the storage,
            \* "beyond" the place after it
  NULL

ASSUME DataAssumption ==
  /\ Val \in [Obj -> Int] /\ Obj \cap Vectors = {} /\ NULL \notin Obj \cup Vectors
  /\ IsFiniteSet(Vectors) /\ IsFiniteSet(Dico)
  /\ MaxSize \in Nat /\ MaxLost \in Nat
  /\ InCall \subseteq {"size", "same"} /\ Past \in {"size", "capacity", "beyond"}

VARIABLES
  live,       \* the numbers and vectors that exist
  REF,        \* SQI_Object::REF of the numbers
  contained,  \* SQI_Object::contained of the numbers
  named,      \* the numbers and vectors that are the value of a variable
  vec,        \* VectorObject::Vector: its elements and its capacity
  dico,       \* DicoObject::Dico
  walk,       \* the call of iterate in progress
  lost,       \* references counted for ever
  fault       \* an iterator or an index left the storage

vars == <<live, REF, contained, named, vec, dico, walk, lost, fault>>

Empty  == [data |-> <<>>, cap |-> 0]
NoWalk == [over |-> NULL, pos |-> 0, arg |-> NULL, result |-> NULL, moved |-> FALSE]

TypeOK ==
  /\ live \in SUBSET (Obj \cup Vectors) /\ named \subseteq live
  /\ REF \in [Obj -> Nat] /\ contained \in [Obj -> Nat] /\ lost \in [Obj -> Nat]
  /\ \A v \in Vectors :
       /\ vec[v].data \in BoundedSeq(Obj, MaxSize)
       /\ v \in live => Len(vec[v].data) <= vec[v].cap
       /\ v \notin live => vec[v] = Empty
  /\ dico \in [Dico -> Obj \cup {NULL}]
  /\ walk = NoWalk \/ walk \in [over : Vectors, pos : 1..MaxSize, arg : Obj \cup {NULL},
                                result : Vectors, moved : BOOLEAN]
  /\ fault \in BOOLEAN

Init ==
  /\ live = {} /\ named = {}
  /\ REF = [o \in Obj |-> 0] /\ contained = [o \in Obj |-> 0] /\ lost = [o \in Obj |-> 0]
  /\ vec = [v \in Vectors |-> Empty]
  /\ dico = [k \in Dico |-> NULL]
  /\ walk = NoWalk /\ fault = FALSE

-----------------------------------------------------------------------------
Numbers    == live \cap Obj
Count(s, o) == Cardinality({i \in DOMAIN s : s[i] = o})

\* The places of the vectors of V where o is.
Held(V, o) ==
  {p \in V \X (1..MaxSize) : p[2] \in DOMAIN vec[p[1]].data /\ vec[p[1]].data[p[2]] = o}

\* The counts when the elements of s are added, and when they are given up.
Plus(R, s)  == [o \in Obj |-> R[o] + Count(s, o)]
Minus(R, s) == [o \in Obj |-> R[o] - Count(s, o)]

Add(s)  == REF' = Plus(REF, s) /\ contained' = Plus(contained, s)

\* A number that gives up its last reference dies; one in an argument does not.
GiveUp(s) ==
  /\ REF' = Minus(REF, s) /\ contained' = Minus(contained, s)
  /\ live' = live \ {o \in Range(s) : Minus(REF, s)[o] = 0}

\* Outside iterate, or in the function it calls if that may do so.
May(kind) == walk = NoWalk \/ (walk.arg # NULL /\ kind \in InCall)

\* The vectors a script can name; iterate's result is not among them yet.
Usable == named \cap Vectors

\* A number is made, and may be put in a variable, which may give it up.
New(o) ==
  /\ o \notin live /\ lost[o] = 0 /\ May("same")
  /\ live' = live \cup {o}
  /\ REF' = [REF EXCEPT ![o] = 0] /\ contained' = [contained EXCEPT ![o] = 0]
  /\ UNCHANGED <<named, vec, dico, walk, lost, fault>>

Name(o) ==
  /\ o \in Numbers \ named
  /\ named' = named \cup {o} /\ REF' = [REF EXCEPT ![o] = @ + 1]
  /\ UNCHANGED <<live, contained, vec, dico, walk, lost, fault>>

Forget(o) ==
  /\ o \in Numbers \cap named
  /\ named' = named \ {o} /\ REF' = [REF EXCEPT ![o] = @ - 1]
  /\ live' = IF REF[o] = 1 THEN live \ {o} ELSE live
  /\ UNCHANGED <<contained, vec, dico, walk, lost, fault>>

-----------------------------------------------------------------------------
\* Vector with a capacity and an initial value, or with a list.
NewVector(v, s) ==
  /\ v \notin live /\ May("same") /\ Range(s) \subseteq Numbers
  /\ live' = live \cup {v} /\ named' = named \cup {v}
  /\ vec' = [vec EXCEPT ![v] = [data |-> s, cap |-> Len(s)]]
  /\ Add(s)
  /\ UNCHANGED <<dico, walk, lost, fault>>

\* A full storage is not replaced.
GrownNot(n) == n

\* push_back: a full storage is replaced by one twice as large.
Grown(n) == IF n = 0 THEN 1 ELSE 2 * n

Pushed(b, o) ==
  [data |-> Append(b.data, o), cap |-> IF Len(b.data) = b.cap THEN Grown(b.cap) ELSE b.cap]
Filled(s) == FoldLeft(Pushed, Empty, s)

\* The copy does not count its elements.
CloneUncounted(v, w) ==
  /\ v \in Usable /\ w \notin live /\ May("same")
  /\ live' = live \cup {w} /\ named' = named \cup {w}
  /\ vec' = [vec EXCEPT ![w] = Filled(vec[v].data)]
  /\ UNCHANGED <<REF, contained, dico, walk, lost, fault>>

Clone(v, w) ==
  /\ v \in Usable /\ w \notin live /\ May("same")
  /\ live' = live \cup {w} /\ named' = named \cup {w}
  /\ vec' = [vec EXCEPT ![w] = Filled(vec[v].data)]
  /\ Add(vec[v].data)
  /\ UNCHANGED <<dico, walk, lost, fault>>

VAppend(v, o) ==
  /\ v \in Usable /\ o \in Numbers /\ May("size") /\ Len(vec[v].data) < MaxSize
  /\ vec' = [vec EXCEPT ![v] = Pushed(@, o)]
  /\ Add(<<o>>)
  /\ walk' = IF walk.over = v /\ vec'[v].cap # vec[v].cap THEN [walk EXCEPT !.moved = TRUE] ELSE walk
  /\ UNCHANGED <<live, named, dico, lost, fault>>

\* The old element is not given up.
VSetKeepsOld(v, i, o) ==
  /\ v \in Usable /\ o \in Numbers /\ May("same") /\ i \in DOMAIN vec[v].data
  /\ vec' = [vec EXCEPT ![v].data[i] = o]
  /\ Add(<<o>>)
  /\ UNCHANGED <<live, named, dico, walk, lost, fault>>

\* set with an index below the size: the old element is given up before the
\* new one is counted, but an argument of the call holds the new one.
VSet(v, i, o) ==
  LET old == vec[v].data[i]
  IN /\ v \in Usable /\ o \in Numbers /\ May("same") /\ i \in DOMAIN vec[v].data
     /\ vec' = [vec EXCEPT ![v].data[i] = o]
     /\ REF' = Plus(Minus(REF, <<old>>), <<o>>)
     /\ contained' = Plus(Minus(contained, <<old>>), <<o>>)
     /\ live' = IF REF'[old] = 0 THEN live \ {old} ELSE live
     /\ UNCHANGED <<named, dico, walk, lost, fault>>

\* set with an index from the size on, up to and including the capacity: the
\* value is counted, and no element.
VSetPast(v, i, o) ==
  /\ v \in Usable /\ o \in Numbers /\ May("same") /\ vec[v].data # <<>> /\ lost[o] < MaxLost
  /\ i > Len(vec[v].data) /\ i <= vec[v].cap + (IF Past = "beyond" THEN 1 ELSE 0)
  /\ Past # "size"
  /\ Add(<<o>>) /\ lost' = [lost EXCEPT ![o] = @ + 1]
  /\ fault' = (fault \/ i > vec[v].cap)
  /\ UNCHANGED <<live, named, vec, dico, walk>>

\* erase takes the element out of the storage and does not give it up.
VErase(v, i) ==
  LET old == vec[v].data[i]
  IN /\ v \in Usable /\ May("size") /\ i \in DOMAIN vec[v].data /\ lost[old] < MaxLost
     /\ vec' = [vec EXCEPT ![v].data = RemoveAt(@, i)]
     /\ lost' = [lost EXCEPT ![old] = @ + 1]
     /\ UNCHANGED <<live, REF, contained, named, dico, walk, fault>>

\* The variable gives the vector up, and Suicidal empties it.  The evaluator holds
\* the vector whose iterate runs.
VSuicidal(v) ==
  /\ v \in Usable \ {walk.over} /\ May("same")
  /\ REF' = Minus(REF, vec[v].data) /\ contained' = Minus(contained, vec[v].data)
  /\ live' = (live \ {v}) \ {o \in Range(vec[v].data) : REF'[o] = 0}
  /\ named' = named \ {v}
  /\ vec' = [vec EXCEPT ![v] = Empty]
  /\ UNCHANGED <<dico, walk, lost, fault>>

-----------------------------------------------------------------------------
Swap(s, f, t) == [s EXCEPT ![f] = s[t], ![t] = s[f]]

\* AscPartition and DecPartition: y stays on its side of x.
Stays(y, x, asc) == IF asc THEN Val[y] >= Val[x] ELSE Val[y] <= Val[x]

\* The loop with i advanced only after the swap is skipped.
PartitionLate(s, p, r, asc) ==
  LET s0 == Swap(s, p, (p + r) \div 2)
      Turn(a, j) == IF Stays(a.s[j], s0[p], asc) THEN a
                    ELSE [s |-> Swap(a.s, a.i, j), i |-> a.i + 1]
      end == FoldLeft(Turn, [s |-> s0, i |-> p + 1], [k \in 1..(r - p - 1) |-> p + k])
  IN [s |-> Swap(end.s, p, end.i - 1), at |-> end.i - 1]

Partition(s, p, r, asc) ==
  LET s0 == Swap(s, p, (p + r) \div 2)
      Turn(a, j) == IF Stays(a.s[j], s0[p], asc) THEN a
                    ELSE [s |-> Swap(a.s, a.i, j), i |-> a.i + 1]
      end == FoldLeft(Turn, [s |-> s0, i |-> p + 1], [k \in 1..(r - p) |-> p + k])
  IN [s |-> Swap(end.s, p, end.i - 1), at |-> end.i - 1]

\* AscSort and DecSort between two places of a vector.
Sorted(s, asc) ==
  LET n == Len(s)
      sort[c \in [s : [1..n -> Obj], f : 1..(n + 1), t : 0..n]] ==
        IF c.f >= c.t THEN c.s
        ELSE LET cut == Partition(c.s, c.f, c.t, asc)
                 low == sort[[s |-> cut.s, f |-> c.f, t |-> cut.at - 1]]
             IN sort[[s |-> low, f |-> cut.at + 1, t |-> c.t]]
  IN sort[[s |-> s, f |-> 1, t |-> n]]

Rearrange(v, s) ==
  /\ v \in Usable /\ May("same")
  /\ vec' = [vec EXCEPT ![v].data = s]
  /\ UNCHANGED <<live, REF, contained, named, dico, walk, lost, fault>>

VSort(v, asc) == Rearrange(v, Sorted(vec[v].data, asc))
VReverse(v)   == Rearrange(v, Reverse(vec[v].data))

-----------------------------------------------------------------------------
\* iterate: a vector for the results, and the first element.
Iterate(v, w) ==
  /\ walk = NoWalk /\ v \in Usable /\ vec[v].data # <<>> /\ w \notin live
  /\ live' = live \cup {w}
  /\ walk' = [NoWalk EXCEPT !.over = v, !.pos = 1, !.result = w]
  /\ UNCHANGED <<REF, contained, named, vec, dico, lost, fault>>

\* The function is called: its argument is counted while it runs.
Call ==
  LET s == vec[walk.over].data
  IN /\ walk # NoWalk /\ walk.arg = NULL
     /\ walk' = [walk EXCEPT !.arg = s[walk.pos]]
     /\ REF' = Plus(REF, <<s[walk.pos]>>)
     /\ UNCHANGED <<live, contained, named, vec, dico, lost, fault>>

\* The call returns: what it outputs, if anything, is an element of the result,
\* the argument is given up, and the iterator goes on or meets the end.  The
\* result is then in a variable.
Returned(pushed) ==
  LET n    == Len(vec[walk.over].data)
      left == walk.moved \/ walk.pos > n
  IN /\ walk.arg # NULL
     /\ REF' = Minus(Plus(REF, pushed), <<walk.arg>>)
     /\ contained' = Plus(contained, pushed)
     /\ vec' = [vec EXCEPT ![walk.result] = FoldLeft(Pushed, @, pushed)]
     /\ named' = IF walk.pos = n THEN named \cup {walk.result} ELSE named
     /\ fault' = (fault \/ left)
     /\ walk' = IF left \/ walk.pos = n THEN NoWalk ELSE [walk EXCEPT !.pos = @ + 1, !.arg = NULL]
     /\ UNCHANGED <<live, dico, lost>>

\* The results of the calls made are elements of a vector no one will give up.
Throw ==
  /\ walk.arg # NULL
  /\ REF' = Minus(REF, <<walk.arg>>)
  /\ walk' = NoWalk
  /\ UNCHANGED <<live, contained, named, vec, dico, lost, fault>>

Return(o) == o \in Numbers /\ Returned(<<o>>)
Nothing   == Returned(<<>>)

-----------------------------------------------------------------------------
\* The dictionary.  A key that is looked up and missing is entered and erased.
DSet(k, o) ==
  LET old == IF dico[k] = NULL THEN <<>> ELSE <<dico[k]>>
  IN /\ o \in Numbers /\ May("same")
     /\ dico' = [dico EXCEPT ![k] = o]
     /\ REF' = Plus(Minus(REF, old), <<o>>)
     /\ contained' = Plus(Minus(contained, old), <<o>>)
     /\ live' = live \ {p \in Range(old) : REF'[p] = 0}
     /\ UNCHANGED <<named, vec, walk, lost, fault>>

DErase(k) ==
  /\ dico[k] # NULL /\ May("same")
  /\ dico' = [dico EXCEPT ![k] = NULL]
  /\ GiveUp(<<dico[k]>>)
  /\ UNCHANGED <<named, vec, walk, lost, fault>>

\* A collection takes the numbers and the vectors nothing refers to; a vector
\* gives up its elements.
GC ==
  LET dead == (live \cap Vectors) \ (named \cup {walk.result})
      given(R) == [o \in Obj |-> R[o] - Cardinality(Held(dead, o))]
  IN /\ May("same")
     /\ REF' = given(REF) /\ contained' = given(contained)
     /\ live' = live \ (dead \cup {o \in Numbers : REF'[o] = 0})
     /\ vec' = [v \in Vectors |-> IF v \in dead THEN Empty ELSE vec[v]]
     /\ UNCHANGED <<named, dico, walk, lost, fault>>

Next ==
  \/ \E o \in Obj : New(o)
  \/ \E o \in Obj : Name(o)
  \/ \E o \in Obj : Forget(o)
  \/ \E v \in Vectors, s \in BoundedSeq(Obj, MaxSize) : NewVector(v, s)
  \/ \E v, w \in Vectors : Clone(v, w)
  \/ \E v \in Vectors, o \in Obj : VAppend(v, o)
  \/ \E v \in Vectors, i \in 1..MaxSize, o \in Obj : VSet(v, i, o)
  \/ \E v \in Vectors, i \in 1..(2 * MaxSize + 1), o \in Obj : VSetPast(v, i, o)
  \/ \E v \in Vectors, i \in 1..MaxSize : VErase(v, i)
  \/ \E v \in Vectors : VSuicidal(v)
  \/ \E v \in Vectors, asc \in BOOLEAN : VSort(v, asc)
  \/ \E v \in Vectors : VReverse(v)
  \/ \E v, w \in Vectors : Iterate(v, w)
  \/ Call
  \/ \E o \in Obj : Return(o)
  \/ Nothing
  \/ Throw
  \/ \E k \in Dico, o \in Obj : DSet(k, o)
  \/ \E k \in Dico : DErase(k)
  \/ GC

Spec == Init /\ [][Next]_vars

-----------------------------------------------------------------------------
\* How often o is an element of a vector or a value of the dictionary.
Within(o) ==
  Cardinality(Held(Vectors, o)) + Cardinality({k \in Dico : dico[k] = o})

Once(b) == IF b THEN 1 ELSE 0

(* What vectors, the dictionary, variables and the call in progress hold is
   exactly what the counts say, whatever order a script appends, sets, clones,
   iterates and drops them in, but for the references erase and a set past the
   size lose.  Lines of Append, Set, Clone, Iterate and Empty in Vector.cpp, Set
   and Erase in Dico.cpp. *)
CountsExact ==
  \A o \in Numbers :
    /\ contained[o] = Within(o) + lost[o]
    /\ REF[o] = Within(o) + lost[o] + Once(o \in named)
                  + Once(o = walk.arg)

(* Nothing a vector, the dictionary or a call of iterate still names has been
   deleted, and the iterator of iterate (Vector.cpp:705) and the index of set
   (284) never leave the storage, although functions of the script run between
   two steps of the iterator. *)
NothingStale ==
  /\ \A v \in live \cap Vectors : Range(vec[v].data) \subseteq live
  /\ Range(dico) \cup {walk.over, walk.arg, walk.result} \subseteq live \cup {NULL}
  /\ ~fault

(* What sort makes of a vector, whatever equal numbers it holds, is the same
   elements in order (AscSort and DecSort, Vector.cpp:1099). *)
SortCorrect ==
  \A v \in live \cap Vectors, asc \in BOOLEAN :
    LET s == vec[v].data
        t == Sorted(s, asc)
    IN /\ \A o \in Obj : Count(t, o) = Count(s, o)
       /\ \A i, j \in DOMAIN t : i < j => (t[i] = t[j] \/ Stays(t[j], t[i], asc))
=============================================================================
