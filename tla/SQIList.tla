------------------------------- MODULE SQIList -------------------------------
(***************************************************************************)
(* Lists shared by a program and a function it runs in a thread of its     *)
(* own.  The function's squirrel has a heap and variables of its own; when *)
(* the squirrel is deleted, its heap takes every object in it along,       *)
(* whatever its REF.  What keeps a value alive is then the heap it is in:  *)
(* make and the list primitives move values between the heaps, with        *)
(* Export.                                                                 *)
(*                                                                         *)
(* Elements are numbers.  A primitive is one step.  A value that has no    *)
(* variable is what a statement drops.                                     *)
(***************************************************************************)
EXTENDS Integers, FiniteSets, SequencesExt

CONSTANTS
  Nums,         \* the addresses of numbers
  NumVal,       \* the value of the number at each of them
  Lists,        \* the addresses of lists
  Literals,     \* those numbers that are literals of the program text
  Text,         \* the elements of each list that is a literal
  Globals,      \* the global variables
  Locals,       \* the local variables of the function
  MaxLen,       \* bound: the length of a list
  MaxStray,     \* bound: the references to one number a deleted heap loses
  ListsGlobals, \* the function puts global values into lists of its own
  IndexLocals,  \* it stores local values in global lists with lindex
  Nil           \* NULL

ASSUME ListAssumption ==
  /\ NumVal \in [Nums -> Int] /\ Literals \subseteq Nums /\ Nums \cap Lists = {}
  /\ DOMAIN Text \subseteq Lists /\ MaxLen \in Nat /\ MaxStray \in Nat
  /\ \A t \in DOMAIN Text : Text[t] \in BoundedSeq(Literals, MaxLen)
  /\ IsFiniteSet(Lists) /\ IsFiniteSet(Globals) /\ IsFiniteSet(Locals)
  /\ Globals \cap Locals = {} /\ Nil \notin Nums \cup Lists
  /\ ListsGlobals \in BOOLEAN /\ IndexLocals \in BOOLEAN

VARIABLES
  mem,      \* the objects: which are live, their REF, contained, heap and elements,
            \* and the references to each that nothing will give back
  value,    \* the values of the variables
  running,  \* the function runs
  crashed   \* the interpreter went on with a pointer that was never set

listVars == <<mem, value, running, crashed>>

Objects   == Nums \cup Lists
Eternals  == Literals \cup DOMAIN Text
Variables == Globals \cup Locals

\* The places of the lists of L where o is.
Places(data, L, o) ==
  UNION {{l} \X {i \in DOMAIN data[l] : data[l][i] = o} : l \in L}

InLists(data, o) == Cardinality(Places(data, Lists, o))
One(b) == IF b THEN 1 ELSE 0

ListTypeOK ==
  /\ mem.live \in SUBSET Objects
  /\ mem.REF \in [Objects -> Nat] /\ mem.contained \in [Objects -> Nat]
  /\ mem.lost \in [Objects -> Nat]
  /\ mem.heap \in [Objects -> {"text", "global", "local"}]
  /\ \A o \in Eternals : mem.heap[o] = "text"
  /\ mem.data \in [Objects -> BoundedSeq(Nums, MaxLen)]
  /\ value \in [Variables -> Objects \cup {Nil}]
  /\ running \in BOOLEAN /\ crashed \in BOOLEAN
  /\ ~running => \A x \in Locals : value[x] = Nil

\* The parser has made the literals: the node of a statement refers to a list,
\* and to a number that is in no list.
ListInit ==
  LET data == [o \in Objects |-> IF o \in DOMAIN Text THEN Text[o] ELSE <<>>]
      in   == [o \in Objects |-> InLists(data, o)]
  IN /\ mem = [live      |-> Eternals,
               REF       |-> [o \in Objects |-> in[o] + One(o \in Eternals /\ in[o] = 0)],
               contained |-> in,
               heap      |-> [o \in Objects |-> IF o \in Eternals THEN "text" ELSE "global"],
               data      |-> data,
               lost      |-> [o \in Objects |-> 0]]
     /\ value = [v \in Variables |-> Nil]
     /\ running = FALSE /\ crashed = FALSE

-----------------------------------------------------------------------------
\* The two squirrels, their heaps, and what their statements can name.
Squirrels   == {"main", "function"}
Runs(s)     == ~crashed /\ (s = "function" => running)
LocalHeap(s) == IF s = "main" THEN "global" ELSE "local"
Sees(s)     == Globals \cup (IF s = "main" THEN {} ELSE Locals)
Named(s)    == ({value[v] : v \in Sees(s)} \ {Nil}) \cup Eternals
Elements(s) == UNION {Range(mem.data[l]) : l \in Named(s)}
Values(s)   == (Named(s) \cup Elements(s)) \cap mem.live
NumsOf(s)   == Values(s) \cap Nums
ListsOf(s)  == Values(s) \cap Lists

-----------------------------------------------------------------------------
\* An object is allocated in heap h.
Allocated(m, o, h) ==
  [m EXCEPT !.live = @ \cup {o}, !.REF[o] = 0, !.contained[o] = 0,
            !.heap[o] = h, !.data[o] = <<>>]

\* Suicidal of the objects D: a list gives up its elements, and an element nothing
\* else refers to dies too; a literal does only with force.
Destroyed(m, D, force) ==
  LET given == [e \in Objects |-> Cardinality(Places(m.data, D \cap Lists, e))]
      last  == {e \in UNION {Range(m.data[o]) : o \in D} :
                  m.REF[e] = given[e] /\ (e \notin Eternals \/ force)}
  IN [m EXCEPT !.live = @ \ (D \cup last),
               !.REF = [e \in Objects |-> @[e] - given[e]],
               !.contained = [e \in Objects |-> @[e] - given[e]],
               !.data = [o \in Objects |-> IF o \in D THEN <<>> ELSE @[o]]]

AddRef(m, o) == [m EXCEPT !.REF[o] = @ + 1]

RemRef(m, o) ==
  LET r == [m EXCEPT !.REF[o] = @ - 1]
  IN IF r.REF[o] = 0 /\ o \notin Eternals THEN Destroyed(r, {o}, FALSE) ELSE r

\* Export that forgets the status of the object.
ExportedLiteral(m, o, h) ==
  LET moved == {o} \cup Range(m.data[o])
  IN [m EXCEPT !.heap = [e \in Objects |-> IF e \in moved THEN h ELSE @[e]]]

\* Export that forgets the elements of a list.
ExportedAlone(m, o, h) ==
  [m EXCEPT !.heap = [e \in Objects |-> IF e = o /\ o \notin Eternals THEN h ELSE @[e]]]

\* Export: a literal stays, a list takes its elements along.
Exported(m, o, h) ==
  LET moved == IF o \in Eternals THEN {} ELSE ({o} \cup Range(m.data[o])) \ Eternals
  IN [m EXCEPT !.heap = [e \in Objects |-> IF e \in moved THEN h ELSE @[e]]]

\* Add2End.
Add2End(m, l, e) ==
  Exported([AddRef(m, e) EXCEPT !.data[l] = Append(@, e), !.contained[e] = @ + 1],
           e, m.heap[l])

Built(m, l, h, elems) ==
  FoldLeft(LAMBDA r, e : Add2End(r, l, e), Allocated(m, l, h), elems)

\* make that leaves a local value where it is.
SetStay(s, m, v, o) ==
  LET new == AddRef(m, o)
  IN IF value[v] = Nil THEN new ELSE RemRef(new, value[v])

\* make: what a function gives a global variable goes to the global heap if it
\* is in the function's own.  A new value is counted before the old is released.
Set(s, m, v, o) ==
  LET here == IF v \in Globals /\ s # "main" /\ m.heap[o] = LocalHeap(s)
              THEN Exported(m, o, "global") ELSE m
      new  == AddRef(here, o)
  IN IF value[v] = Nil THEN new ELSE RemRef(new, value[v])

\* The statement makes o the value of v, or drops it.
Finish(s, m, v, o) ==
  IF v = Nil THEN mem' = m /\ UNCHANGED value
              ELSE mem' = Set(s, m, v, o) /\ value' = [value EXCEPT ![v] = o]

-----------------------------------------------------------------------------
\* make with a number just computed, or with a literal, the value of a variable
\* or an element lindex reads.
MakeNumber(s, v, n) ==
  /\ Runs(s) /\ v \in Sees(s) /\ n \notin mem.live \cup Literals
  /\ Finish(s, Allocated(mem, n, LocalHeap(s)), v, n)
  /\ UNCHANGED <<running, crashed>>

Make(s, v, o) ==
  /\ Runs(s) /\ v \in Sees(s) /\ o \in Values(s)
  /\ Finish(s, mem, v, o)
  /\ UNCHANGED <<running, crashed>>

\* A list of the function receives a value of the global heap.
Keeps(e, h) == ListsGlobals \/ h # "local" \/ mem.heap[e] # "global"

\* list.  What sentence, fput, lput, reverse, lsub, butfirst and clone make of
\* the lists they read is a list of elements in the same way.
Build(s, v, l, elems) ==
  /\ Runs(s) /\ v \in Sees(s) \cup {Nil} /\ l \notin mem.live \cup DOMAIN Text
  /\ Range(elems) \subseteq NumsOf(s) /\ \A e \in Range(elems) : Keeps(e, LocalHeap(s))
  /\ Finish(s, Built(mem, l, LocalHeap(s), elems), v, l)
  /\ UNCHANGED <<running, crashed>>

\* lappend, of one thing.
LAppend(s, l, e) ==
  /\ Runs(s) /\ l \in ListsOf(s) \ Eternals /\ e \in NumsOf(s)
  /\ Len(mem.data[l]) < MaxLen /\ Keeps(e, mem.heap[l])
  /\ mem' = Add2End(mem, l, e)
  /\ UNCHANGED <<value, running, crashed>>

\* lindex with the new element counted only.
LIndexKeepsOld(s, l, i, e) ==
  /\ Runs(s) /\ l \in ListsOf(s) \ Eternals /\ e \in NumsOf(s) /\ i \in DOMAIN mem.data[l]
  /\ IndexLocals \/ mem.heap[l] # "global" \/ mem.heap[e] # "local"
  /\ mem' = [AddRef(mem, e) EXCEPT !.contained[e] = @ + 1, !.data[l][i] = e]
  /\ UNCHANGED <<value, running, crashed>>

\* lindex with a third input: the old element is released, the new one is
\* counted and stays in the heap it is in.  An argument protects e meanwhile.
LIndex(s, l, i, e) ==
  LET old == mem.data[l][i]
      new == [AddRef(mem, e) EXCEPT !.contained[e] = @ + 1, !.data[l][i] = e]
  IN /\ Runs(s) /\ l \in ListsOf(s) \ Eternals /\ e \in NumsOf(s) /\ i \in DOMAIN mem.data[l]
     /\ IndexLocals \/ mem.heap[l] # "global" \/ mem.heap[e] # "local"
     /\ mem' = RemRef([new EXCEPT !.contained[old] = @ - 1], old)
     /\ UNCHANGED <<value, running, crashed>>

\* lremove: the first element equal to n, of a literal as well.  If it is n
\* itself the argument keeps it, for a collection to find.
LRemove(s, l, n) ==
  LET at == SelectInSeq(mem.data[l], LAMBDA e : NumVal[e] = NumVal[n])
      e  == mem.data[l][at]
      r  == [mem EXCEPT !.data[l] = RemoveAt(@, at), !.contained[e] = @ - 1]
  IN /\ Runs(s) /\ l \in ListsOf(s) /\ n \in NumsOf(s) /\ at # 0
     /\ mem' = IF e = n THEN [r EXCEPT !.REF[e] = @ - 1] ELSE RemRef(r, e)
     /\ UNCHANGED <<value, running, crashed>>

\* lremove of an empty list tests elem, which nothing has set: it outputs false,
\* or follows it.
LRemoveEmpty(s, l) ==
  /\ Runs(s) /\ l \in ListsOf(s) /\ mem.data[l] = <<>>
  /\ crashed' = TRUE
  /\ UNCHANGED <<mem, value, running>>

-----------------------------------------------------------------------------
\* gc: what nothing refers to, among the literals and in the squirrel's heap.
Collect(s) ==
  LET dead == {o \in mem.live : mem.heap[o] \in {"text", LocalHeap(s)} /\ mem.REF[o] = 0}
  IN /\ Runs(s) /\ dead # {}
     /\ mem' = Destroyed(mem, dead, TRUE)
     /\ UNCHANGED <<value, running, crashed>>

Start ==
  /\ ~crashed /\ ~running
  /\ running' = TRUE
  /\ UNCHANGED <<mem, value, crashed>>

\* The squirrel of the function is deleted: first its variables release their
\* values, then its heap deletes what it still has.  A list that goes with the
\* heap does not release its elements.
End ==
  LET R    == [o \in Objects |-> mem.REF[o] - Cardinality({x \in Locals : value[x] = o})]
      left == {value[x] : x \in Locals} \ ({Nil} \cup Eternals)
      m    == Destroyed([mem EXCEPT !.REF = R], {o \in left : R[o] = 0}, FALSE)
      gone == {o \in m.live : m.heap[o] = "local"}
      lose == [o \in Objects |-> IF o \in gone THEN 0 ELSE
                             Cardinality(Places(m.data, gone \cap Lists, o))]
      kept(f) == [o \in Objects |-> IF o \in gone THEN 0 ELSE f[o]]
  IN /\ running /\ ~crashed
     /\ \A o \in Objects : m.lost[o] + lose[o] <= MaxStray
     /\ mem' = [m EXCEPT !.live = @ \ gone, !.REF = kept(@), !.contained = kept(@),
                         !.data = [o \in Objects |-> IF o \in gone THEN <<>> ELSE @[o]],
                         !.lost = [o \in Objects |-> kept(@)[o] + lose[o]]]
     /\ value' = [v \in Variables |-> IF v \in Locals THEN Nil ELSE value[v]]
     /\ running' = FALSE
     /\ UNCHANGED crashed

ListNext ==
  \/ \E s \in Squirrels, v \in Variables, n \in Nums : MakeNumber(s, v, n)
  \/ \E s \in Squirrels, v \in Variables, o \in Objects : Make(s, v, o)
  \/ \E s \in Squirrels, v \in Variables \cup {Nil}, l \in Lists,
        elems \in BoundedSeq(Nums, MaxLen) : Build(s, v, l, elems)
  \/ \E s \in Squirrels, l \in Lists, e \in Nums : LAppend(s, l, e)
  \/ \E s \in Squirrels, l \in Lists, i \in 1..MaxLen, e \in Nums : LIndex(s, l, i, e)
  \/ \E s \in Squirrels, l \in Lists, n \in Nums : LRemove(s, l, n)
  \/ \E s \in Squirrels, l \in Lists : LRemoveEmpty(s, l)
  \/ \E s \in Squirrels : Collect(s)
  \/ Start
  \/ End

ListSpec == ListInit /\ [][ListNext]_listVars

-----------------------------------------------------------------------------
\* SQI_List::operator==: elements are the same objects; SQI_Number's compares
\* values.
Equal(l, k) == Len(mem.data[l]) = Len(mem.data[k])
               /\ \A i \in DOMAIN mem.data[l] : mem.data[l][i] = mem.data[k][i]

(* No variable, and no list a variable refers to, refers to an object that is
   gone, although functions end and take their heap along.  Make exports to the
   global heap what a global variable gets (SQI-workspace.cpp:97), and Export
   takes the elements of a list along (SQI-list.cpp:233). *)
ValuesSurvive ==
  \A v \in Variables :
    value[v] # Nil => value[v] \in mem.live /\ Range(mem.data[value[v]]) \subseteq mem.live

(* The counts of every object are those of the lists, variables and statements
   that refer to it, whatever order the primitives run in, but for the references
   of lists that went with their heap (SQI-listh.cpp:528 and 870, SQI-list.cpp:276). *)
ElementsCounted ==
  \A o \in mem.live :
    LET in == InLists(mem.data, o)
    IN /\ mem.contained[o] = in + mem.lost[o]
       /\ mem.REF[o] = in + mem.lost[o] + Cardinality({v \in Variables : value[v] = o})
                         + One(o \in Eternals /\ o \notin UNION {Range(Text[t]) : t \in DOMAIN Text})

(* A literal list stays what the program text says: lindex and lappend refuse to
   change one ("cannot mutate an Eternal object , make a clone first",
   SQI-listh.cpp:581 and 645). *)
LiteralsUnchanged == \A t \in DOMAIN Text : mem.data[t] = Text[t]

(* Two lists of equal numbers are equal ("return true if 2 list are equal",
   SQI-list.cpp:481). *)
EqualListsEqual ==
  \A l, k \in mem.live \cap Lists :
    /\ Len(mem.data[l]) = Len(mem.data[k])
    /\ \A i \in DOMAIN mem.data[l] : NumVal[mem.data[l][i]] = NumVal[mem.data[k][i]]
    => Equal(l, k)
=============================================================================
