------------------------------ MODULE SQIObject ------------------------------
(***************************************************************************)
(* The ownership discipline of the interpreter's objects, as one Squirrel  *)
(* sees it: reference counts, the cascade of deletions Suicidal starts,    *)
(* the move of a value from a heap to another, and garbage collection.     *)
(*                                                                         *)
(* A cell is a place of the program that holds a counted reference: an     *)
(* element of a list, the value of a variable, or a slot of an SQI_Args    *)
(* (which also stands for the result HopOnABlock and HopOnAUfunc protect   *)
(* with REF++ / REF--).  How a heap links its objects and in what order    *)
(* GC visits them is SQIHeap, which implements this module.                *)
(***************************************************************************)
EXTENDS Integers, FiniteSets, Sequences

CONSTANTS
  Obj,           \* the addresses objects are allocated at
  Lists,         \* those of them that hold an SQI_List
  Heaps,         \* the heaps
  EternalHeaps,  \* those whose status is SQI_ETERNAL (Tree, Eternal)
  Vars,          \* the variables
  Args,          \* the slots of the SQI_Args under construction or in use
  MaxLen,        \* bound: the length of a list
  NULL           \* no object, no heap

ASSUME ObjAssumption ==
  /\ IsFiniteSet(Obj)
  /\ Lists \subseteq Obj
  /\ NULL \notin Obj
ASSUME HeapAssumption == EternalHeaps \subseteq Heaps /\ NULL \notin Heaps
ASSUME CellAssumption ==
  /\ MaxLen \in Nat
  /\ IsFiniteSet(Vars) /\ IsFiniteSet(Args)
  /\ Vars \cap Args = {}
  /\ (Lists \X (1..MaxLen)) \cap (Vars \cup Args) = {}

VARIABLES
  live,       \* the objects allocated and not yet deleted
  REF,        \* SQI_Object::REF
  contained,  \* SQI_Object::contained
  heap,       \* SQI_Object::heap
  held,       \* what each cell refers to
  stack,      \* the activations of SQI_List::Suicidal in progress
  gc          \* the heap SQI_Heap::GC runs on, if any

vars == <<live, REF, contained, heap, held, stack, gc>>

ElemCells == Lists \X (1..MaxLen)
Cells     == ElemCells \cup Vars \cup Args
Frame     == [list : Lists, force : BOOLEAN]

TypeOK ==
  /\ live \in SUBSET Obj
  /\ REF \in [Obj -> Nat]
  /\ contained \in [Obj -> Nat]
  /\ heap \in [Obj -> Heaps]
  /\ held \in [Cells -> Obj \cup {NULL}]
  /\ stack \in Seq(Frame)
  /\ gc \in Heaps \cup {NULL}

Init ==
  /\ live = {}
  /\ REF = [o \in Obj |-> 0]
  /\ contained = [o \in Obj |-> 0]
  /\ heap \in {[o \in Obj |-> h] : h \in Heaps}
  /\ held = [c \in Cells |-> NULL]
  /\ stack = <<>>
  /\ gc = NULL

-----------------------------------------------------------------------------
IsEternal(o) == heap[o] \in EternalHeaps

\* No call of the object layer is in progress: the interpreter may start one.
Idle == stack = <<>> /\ gc = NULL

\* Two ways to get the test of Suicidal wrong: the count, or the status.
DiesWhileUsed(o, ref, force)  == ~IsEternal(o) \/ force
DiesThoughLiteral(o, ref, force) == ref = 0

\* The object Suicidal(force) acts on, when its count is down to ref.
Dies(o, ref, force) == ref = 0 /\ (~IsEternal(o) \/ force)

\* Suicidal(force) of o when its count is ref: an atom is deleted at once, a
\* list first gives up its elements.
Suicidal(o, ref, force) ==
  IF Dies(o, ref, force) /\ o \in Lists
  THEN /\ stack' = Append(stack, [list |-> o, force |-> force])
       /\ live' = live
  ELSE /\ stack' = stack
       /\ live' = IF Dies(o, ref, force) THEN live \ {o} ELSE live

\* SQI_Object::RemRef keeps the count above zero.
Less1(n) == IF n = 0 THEN 0 ELSE n - 1

-----------------------------------------------------------------------------
\* An object is allocated in heap h, with no reference to it.
New(o, h) ==
  /\ Idle
  /\ o \notin live
  /\ live' = live \cup {o}
  /\ REF' = [REF EXCEPT ![o] = 0]
  /\ contained' = [contained EXCEPT ![o] = 0]
  /\ heap' = [heap EXCEPT ![o] = h]
  /\ UNCHANGED <<held, stack, gc>>

\* Hold with AddRef forgotten.
HoldUncounted(c, o) ==
  /\ Idle
  /\ c \in Vars \cup Args
  /\ held[c] = NULL
  /\ o \in live
  /\ held' = [held EXCEPT ![c] = o]
  /\ UNCHANGED <<live, REF, contained, heap, stack, gc>>

\* SQI_VarMap::Set on a new name, and SQI_Args::push_back: the cell takes a
\* counted reference.
Hold(c, o) ==
  /\ Idle
  /\ c \in Vars \cup Args
  /\ held[c] = NULL
  /\ o \in live
  /\ held' = [held EXCEPT ![c] = o]
  /\ REF' = [REF EXCEPT ![o] = @ + 1]
  /\ UNCHANGED <<live, contained, heap, stack, gc>>

\* SQI_VarMap::Set on a name that has a value: the new value is counted before
\* the old one is released.
Replace(v, o) ==
  LET old == held[v]
      up  == [REF EXCEPT ![o] = @ + 1]
  IN /\ Idle
     /\ v \in Vars
     /\ old # NULL
     /\ o \in live
     /\ held' = [held EXCEPT ![v] = o]
     /\ REF' = [up EXCEPT ![old] = Less1(@)]
     /\ Suicidal(old, Less1(up[old]), FALSE)
     /\ UNCHANGED <<contained, heap, gc>>

\* SQI_VarMap::Remove (and Clean): the variable releases its value.
Release(v) ==
  LET old == held[v]
  IN /\ Idle
     /\ v \in Vars
     /\ old # NULL
     /\ held' = [held EXCEPT ![v] = NULL]
     /\ REF' = [REF EXCEPT ![old] = Less1(@)]
     /\ Suicidal(old, Less1(REF[old]), FALSE)
     /\ UNCHANGED <<contained, heap, gc>>

\* ~SQI_Args, and the end of a protection: REF-- alone, the object stays in
\* its heap for a later GC even when nothing refers to it any more.
DropArg(a) ==
  LET old == held[a]
  IN /\ Idle
     /\ a \in Args
     /\ old # NULL
     /\ held' = [held EXCEPT ![a] = NULL]
     /\ REF' = [REF EXCEPT ![old] = @ - 1]
     /\ UNCHANGED <<live, contained, heap, stack, gc>>

-----------------------------------------------------------------------------
\* What Export(o) moves: o and, through the lists that are not eternal,
\* everything it contains.
Closed(S) ==
  \A l \in S \cap Lists, i \in 1..MaxLen :
    held[<<l, i>>] # NULL /\ ~IsEternal(held[<<l, i>>]) => held[<<l, i>>] \in S

Exported(o) ==
  {x \in Obj : ~IsEternal(o) /\ \A S \in SUBSET Obj : o \in S /\ Closed(S) => x \in S}

MovedTo(h, S) == [o \in Obj |-> IF o \in S THEN h ELSE heap[o]]

\* Add2End with contained++ forgotten.
Add2EndUncontained(l, i, o) ==
  /\ Idle
  /\ l \in live \cap Lists /\ o \in live
  /\ IsEternal(l) => IsEternal(o) /\ REF[l] = 0 /\ o # l
  /\ l \notin Exported(o)
  /\ i \in 1..MaxLen
  /\ held[<<l, i>>] = NULL
  /\ \A j \in 1..(i - 1) : held[<<l, j>>] # NULL
  /\ held' = [held EXCEPT ![<<l, i>>] = o]
  /\ REF' = [REF EXCEPT ![o] = @ + 1]
  /\ heap' = MovedTo(heap[l], Exported(o))
  /\ UNCHANGED <<live, contained, stack, gc>>

\* SQI_List::Add2End.  lappend refuses an eternal list: only the parser extends
\* one, with eternal elements and while nothing refers to it yet.  The list must
\* not be among what it receives: Export would not return.
Add2End(l, i, o) ==
  /\ Idle
  /\ l \in live \cap Lists /\ o \in live
  /\ IsEternal(l) => IsEternal(o) /\ REF[l] = 0 /\ o # l
  /\ l \notin Exported(o)
  /\ i \in 1..MaxLen
  /\ held[<<l, i>>] = NULL
  /\ \A j \in 1..(i - 1) : held[<<l, j>>] # NULL
  /\ held' = [held EXCEPT ![<<l, i>>] = o]
  /\ REF' = [REF EXCEPT ![o] = @ + 1]
  /\ contained' = [contained EXCEPT ![o] = @ + 1]
  /\ heap' = MovedTo(heap[l], Exported(o))
  /\ UNCHANGED <<live, stack, gc>>

\* The result of a function goes to the heap of its caller, the value of a
\* global variable to the global heap.
Export(o, h) ==
  /\ Idle
  /\ o \in live /\ h \in Heaps \ EternalHeaps
  /\ heap' = MovedTo(h, Exported(o))
  /\ UNCHANGED <<live, REF, contained, held, stack, gc>>

-----------------------------------------------------------------------------
\* One turn of the loop of SQI_List::Suicidal in the innermost activation: the
\* next element is no longer contained, and loses one reference.
DropElem ==
  LET f == stack[Len(stack)]
  IN /\ stack # <<>>
     /\ \E i \in 1..MaxLen :
          LET e == held[<<f.list, i>>]
          IN /\ e # NULL
             /\ \A j \in 1..(i - 1) : held[<<f.list, j>>] = NULL
             /\ held' = [held EXCEPT ![<<f.list, i>>] = NULL]
             /\ contained' = [contained EXCEPT ![e] = @ - 1]
             /\ REF' = [REF EXCEPT ![e] = Less1(@)]
             /\ Suicidal(e, Less1(REF[e]), f.force)
     /\ UNCHANGED <<heap, gc>>

\* The loop is over: "delete this" and return to the caller.
DeleteList ==
  LET f == stack[Len(stack)]
  IN /\ stack # <<>>
     /\ \A i \in 1..MaxLen : held[<<f.list, i>>] = NULL
     /\ live' = live \ {f.list}
     /\ stack' = SubSeq(stack, 1, Len(stack) - 1)
     /\ UNCHANGED <<REF, contained, heap, held, gc>>

-----------------------------------------------------------------------------
\* A collection of heap h asks objects of h to die, with force: an eternal
\* object that nothing refers to dies too.
GCStart(h) ==
  /\ Idle
  /\ gc' = h
  /\ UNCHANGED <<live, REF, contained, heap, held, stack>>

Collect(o) ==
  /\ gc # NULL /\ stack = <<>>
  /\ o \in live /\ heap[o] = gc
  /\ REF[o] = 0
  /\ Suicidal(o, REF[o], TRUE)
  /\ UNCHANGED <<REF, contained, heap, held, gc>>

GCEnd ==
  /\ gc # NULL /\ stack = <<>>
  /\ gc' = NULL
  /\ UNCHANGED <<live, REF, contained, heap, held, stack>>

Next ==
  \/ \E o \in Obj, h \in Heaps : New(o, h)
  \/ \E c \in Vars \cup Args, o \in Obj : Hold(c, o)
  \/ \E v \in Vars, o \in Obj : Replace(v, o)
  \/ \E v \in Vars : Release(v)
  \/ \E a \in Args : DropArg(a)
  \/ \E l \in Lists, i \in 1..MaxLen, o \in Obj : Add2End(l, i, o)
  \/ \E o \in Obj, h \in Heaps : Export(o, h)
  \/ DropElem
  \/ DeleteList
  \/ \E h \in Heaps : GCStart(h)
  \/ \E o \in Obj : Collect(o)
  \/ GCEnd

Spec == Init /\ [][Next]_vars

-----------------------------------------------------------------------------
Holders(o) == {c \in Cells : held[c] = o}

(* Nothing the program can still reach was deleted: every element of a list,
   every variable and every argument refers to an object that is alive.  The
   hazard is RemRef and GC deleting a value some other holder uses. *)
NoDangling == \A c \in Cells : held[c] # NULL => held[c] \in live

(* REF is the number of counted references, so neither a leak (too high) nor
   an early death (too low) can come from the counting itself. *)
RefExact == \A o \in live : REF[o] = Cardinality(Holders(o))

(* contained is the number of list elements that are this object: what GC
   relies on when its first pass leaves the contained objects to their list. *)
ContainedExact ==
  \A o \in live : contained[o] = Cardinality({c \in ElemCells : held[c] = o})

(* A list that is being deleted is alive until its own activation deletes it,
   and no second activation for it is ever started. *)
NoDoubleDelete ==
  \A j, k \in 1..Len(stack) :
    /\ stack[j].list \in live
    /\ stack[j].list = stack[k].list => j = k

(* An eternal object (a literal of the program text) dies in a collection or
   not at all: releasing a list or a variable never deletes it. *)
EternalSurvives ==
  [][\A o \in live : IsEternal(o) /\ o \notin live' => gc # NULL]_vars
=============================================================================
