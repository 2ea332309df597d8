------------------------------- MODULE SQIHeap -------------------------------
(***************************************************************************)
(* SQI_Heap and SQI_List at the level of their pointers, as one Squirrel   *)
(* runs them: the doubly linked list of a heap's objects, Free, AddObject  *)
(* and Import on it, the recursion of SQI_List::Export, the iterator of    *)
(* SQI_List::Suicidal, and the two passes of SQI_Heap::GC with its two     *)
(* pointers.  The module implements SQIObject (see the end).               *)
(*                                                                         *)
(* GC follows "previous", which it does not always keep pointing to an     *)
(* object that is alive.  What a freed object's next then holds is         *)
(* undefined: either the NULL that Free stored in it just before, or the   *)
(* process dies; fault records it.                                         *)
(***************************************************************************)
EXTENDS Integers, FiniteSets, Sequences, SequencesExt

CONSTANTS Obj, Lists, Heaps, EternalHeaps, Vars, Args, MaxLen, NULL

ASSUME PointerAssumption ==
  /\ IsFiniteSet(Obj) /\ Lists \subseteq Obj /\ NULL \notin Obj
  /\ EternalHeaps \subseteq Heaps /\ NULL \notin Heaps
  /\ MaxLen \in Nat /\ IsFiniteSet(Vars) /\ IsFiniteSet(Args) /\ Vars \cap Args = {}
  /\ (Lists \X (1..MaxLen)) \cap (Vars \cup Args) = {}

VARIABLES
  live,       \* the objects allocated and not yet deleted
  REF,        \* SQI_Object::REF
  contained,  \* SQI_Object::contained
  links,      \* heap, next and previous of the objects; top, bottom, size of the heaps
  data,       \* SQI_List::data
  root,       \* the value of each variable and the object of each argument slot
  frames,     \* the activations of SQI_List::Suicidal: list, iterator, force
  walk,       \* the activation of SQI_Heap::GC
  fault       \* "none", "uaf" once freed memory was read, "crash" when it is over

vars == <<live, REF, contained, links, data, root, frames, walk, fault>>

Ptr   == Obj \cup {NULL}
NoGC  == [heap |-> NULL, pass |-> 0, current |-> NULL, previous |-> NULL,
          resume |-> FALSE, wasTop |-> FALSE, number |-> 0, before |-> {}]

TypeOK ==
  /\ live \in SUBSET Obj
  /\ REF \in [Obj -> Nat] /\ contained \in [Obj -> Nat]
  /\ links \in [heap : [Obj -> Heaps], next : [Obj -> Ptr], previous : [Obj -> Ptr],
                top : [Heaps -> Ptr], bottom : [Heaps -> Ptr], size : [Heaps -> Nat]]
  /\ data \in [Lists -> BoundedSeq(Obj, MaxLen)]
  /\ root \in [Vars \cup Args -> Ptr]
  /\ \A k \in 1..Len(frames) :
       frames[k] \in [list : Lists, pos : 1..(MaxLen + 1), force : BOOLEAN]
  /\ walk = NoGC \/
     walk \in [heap : Heaps, pass : {1, 2}, current : Ptr, previous : Ptr,
               resume : BOOLEAN, wasTop : BOOLEAN, number : Nat, before : SUBSET Obj]
  /\ fault \in {"none", "uaf", "crash"}

Init ==
  /\ live = {}
  /\ REF = [o \in Obj |-> 0] /\ contained = [o \in Obj |-> 0]
  /\ \E h \in Heaps :
       links = [heap |-> [o \in Obj |-> h],
                next |-> [o \in Obj |-> NULL], previous |-> [o \in Obj |-> NULL],
                top |-> [g \in Heaps |-> NULL], bottom |-> [g \in Heaps |-> NULL],
                size |-> [g \in Heaps |-> 0]]
  /\ data = [l \in Lists |-> <<>>]
  /\ root = [c \in Vars \cup Args |-> NULL]
  /\ frames = <<>> /\ walk = NoGC /\ fault = "none"

-----------------------------------------------------------------------------
\* Free with the new top still linked to the object that left.
FreeStaleTop(L, o) ==
  LET h == L.heap[o]
      S == [L EXCEPT !.size[h] = @ - 1]
      U == IF o = L.top[h]
           THEN IF L.top[h] = L.bottom[h]
                THEN [S EXCEPT !.top[h] = NULL, !.bottom[h] = NULL]
                ELSE [S EXCEPT !.top[h] = L.next[o]]
           ELSE IF o = L.bottom[h]
                THEN [S EXCEPT !.bottom[h] = L.previous[o], !.next[L.previous[o]] = NULL]
                ELSE [S EXCEPT !.next[L.previous[o]] = L.next[o],
                               !.previous[L.next[o]] = L.previous[o]]
  IN [U EXCEPT !.previous[o] = NULL, !.next[o] = NULL]

\* The doubly linked list of a heap.
Free(L, o) ==
  LET h == L.heap[o]
      S == [L EXCEPT !.size[h] = @ - 1]
      U == IF o = L.top[h]
           THEN IF L.top[h] = L.bottom[h]
                THEN [S EXCEPT !.top[h] = NULL, !.bottom[h] = NULL]
                ELSE [S EXCEPT !.top[h] = L.next[o], !.previous[L.next[o]] = NULL]
           ELSE IF o = L.bottom[h]
                THEN [S EXCEPT !.bottom[h] = L.previous[o], !.next[L.previous[o]] = NULL]
                ELSE [S EXCEPT !.next[L.previous[o]] = L.next[o],
                               !.previous[L.next[o]] = L.previous[o]]
  IN [U EXCEPT !.previous[o] = NULL, !.next[o] = NULL]

\* AddObject with size++ forgotten.
AddObjectUncounted(L, o, h) ==
  LET S == [L EXCEPT !.heap[o] = h]
  IN IF L.bottom[h] = NULL
     THEN [S EXCEPT !.bottom[h] = o, !.top[h] = o]
     ELSE [S EXCEPT !.next[L.bottom[h]] = o, !.previous[o] = L.bottom[h], !.bottom[h] = o]

AddObject(L, o, h) ==
  LET S == [L EXCEPT !.heap[o] = h, !.size[h] = @ + 1]
  IN IF L.bottom[h] = NULL
     THEN [S EXCEPT !.bottom[h] = o, !.top[h] = o]
     ELSE [S EXCEPT !.next[L.bottom[h]] = o, !.previous[o] = L.bottom[h], !.bottom[h] = o]

Import(L, o, h) == AddObject(Free(L, o), o, h)

IsEternal(o) == links.heap[o] \in EternalHeaps
IsAlone(o)   == contained[o] = 0

\* The objects SQI_List::Export visits, in order: the elements, then the list.
ExportOrder[o \in Obj] ==
  IF IsEternal(o) THEN <<>>
  ELSE IF o \in Lists
       THEN FlattenSeq([k \in 1..Len(data[o]) |-> ExportOrder[data[o][k]]]) \o <<o>>
       ELSE <<o>>

\* Export that moves a list and leaves its elements behind.
ExportShallow(o, h) == IF IsEternal(o) THEN links ELSE Import(links, o, h)

Export(o, h) == FoldLeft(LAMBDA L, x : Import(L, x, h), links, ExportOrder[o])

-----------------------------------------------------------------------------
Idle == frames = <<>> /\ walk = NoGC /\ fault # "crash"

Dies(o, ref, force) == ref = 0 /\ (~IsEternal(o) \/ force)
Less1(n) == IF n = 0 THEN 0 ELSE n - 1

\* Suicidal(force) of o whose count is ref, above the activations of below: the
\* destructor takes an atom out of its heap; a list starts on its elements.
Suicidal(o, ref, force, below) ==
  IF Dies(o, ref, force)
  THEN IF o \in Lists
       THEN /\ frames' = Append(below, [list |-> o, pos |-> 1, force |-> force])
            /\ UNCHANGED <<live, links>>
       ELSE /\ live' = live \ {o}
            /\ links' = Free(links, o)
            /\ frames' = below
  ELSE frames' = below /\ UNCHANGED <<live, links>>

New(o, h) ==
  /\ Idle /\ o \notin live
  /\ live' = live \cup {o}
  /\ REF' = [REF EXCEPT ![o] = 0]
  /\ contained' = [contained EXCEPT ![o] = 0]
  /\ links' = AddObject(links, o, h)
  /\ UNCHANGED <<data, root, frames, walk, fault>>

\* SQI_VarMap::Set on a new name; SQI_Args::push_back.
Hold(c, o) ==
  /\ Idle /\ root[c] = NULL /\ o \in live
  /\ root' = [root EXCEPT ![c] = o]
  /\ REF' = [REF EXCEPT ![o] = @ + 1]
  /\ UNCHANGED <<live, contained, links, data, frames, walk, fault>>

\* SQI_VarMap::Set on a name that has a value.
Replace(v, o) ==
  LET old == root[v]
      up  == [REF EXCEPT ![o] = @ + 1]
  IN /\ Idle /\ old # NULL /\ o \in live
     /\ root' = [root EXCEPT ![v] = o]
     /\ REF' = [up EXCEPT ![old] = Less1(@)]
     /\ Suicidal(old, Less1(up[old]), FALSE, frames)
     /\ UNCHANGED <<contained, data, walk, fault>>

\* SQI_VarMap::Remove and Clean.
Release(v) ==
  LET old == root[v]
  IN /\ Idle /\ old # NULL
     /\ root' = [root EXCEPT ![v] = NULL]
     /\ REF' = [REF EXCEPT ![old] = Less1(@)]
     /\ Suicidal(old, Less1(REF[old]), FALSE, frames)
     /\ UNCHANGED <<contained, data, walk, fault>>

\* ~SQI_Args.
DropArg(a) ==
  /\ Idle /\ root[a] # NULL
  /\ root' = [root EXCEPT ![a] = NULL]
  /\ REF' = [REF EXCEPT ![root[a]] = @ - 1]
  /\ UNCHANGED <<live, contained, links, data, frames, walk, fault>>

\* SQI_List::Add2End.  lappend refuses an eternal list: only the parser extends
\* one, with eternal elements and while nothing refers to it yet.
Add2End(l, o) ==
  /\ Idle /\ l \in live /\ o \in live
  /\ IsEternal(l) => IsEternal(o) /\ REF[l] = 0 /\ o # l
  /\ Len(data[l]) < MaxLen
  /\ l \notin Range(ExportOrder[o])
  /\ data' = [data EXCEPT ![l] = Append(@, o)]
  /\ REF' = [REF EXCEPT ![o] = @ + 1]
  /\ contained' = [contained EXCEPT ![o] = @ + 1]
  /\ links' = Export(o, links.heap[l])
  /\ UNCHANGED <<live, root, frames, walk, fault>>

\* The same call when the list is, or is in, what is appended: once the list
\* holds itself, Export calls itself until the C++ stack is exhausted.
AppendToItself(l, o) ==
  /\ Idle /\ l \in live /\ ~IsEternal(l) /\ o \in live
  /\ Len(data[l]) < MaxLen
  /\ l \in Range(ExportOrder[o])
  /\ fault' = "crash"
  /\ UNCHANGED <<live, REF, contained, links, data, root, frames, walk>>

\* make on a global variable, HopOnAUfunc on the result of a function.
ExportTo(o, h) ==
  /\ Idle /\ o \in live /\ h \in Heaps \ EternalHeaps
  /\ links' = Export(o, h)
  /\ UNCHANGED <<live, REF, contained, data, root, frames, walk, fault>>

-----------------------------------------------------------------------------
\* SQI_List::Suicidal that does not pass force on to the elements.
DropElemUnforced ==
  LET n == Len(frames)
      f == frames[n]
      e == data[f.list][f.pos]
  IN /\ frames # <<>> /\ f.pos <= Len(data[f.list])
     /\ contained' = [contained EXCEPT ![e] = @ - 1]
     /\ REF' = [REF EXCEPT ![e] = Less1(@)]
     /\ Suicidal(e, Less1(REF[e]), FALSE, [frames EXCEPT ![n].pos = @ + 1])
     /\ UNCHANGED <<data, root, walk, fault>>

\* SQI_List::Suicidal: one element, then "delete this".
DropElem ==
  LET n == Len(frames)
      f == frames[n]
      e == data[f.list][f.pos]
  IN /\ frames # <<>> /\ f.pos <= Len(data[f.list])
     /\ contained' = [contained EXCEPT ![e] = @ - 1]
     /\ REF' = [REF EXCEPT ![e] = Less1(@)]
     /\ Suicidal(e, Less1(REF[e]), f.force, [frames EXCEPT ![n].pos = @ + 1])
     /\ UNCHANGED <<data, root, walk, fault>>

DeleteList ==
  LET f == frames[Len(frames)]
  IN /\ frames # <<>> /\ f.pos > Len(data[f.list])
     /\ live' = live \ {f.list}
     /\ links' = Free(links, f.list)
     /\ data' = [data EXCEPT ![f.list] = <<>>]
     /\ frames' = Front(frames)
     /\ UNCHANGED <<REF, contained, root, walk, fault>>

-----------------------------------------------------------------------------
\* SQI_Heap::GC.
InGC == walk # NoGC /\ frames = <<>> /\ fault # "crash"

GCStart(h) ==
  /\ Idle
  /\ walk' = [heap |-> h, pass |-> 1, current |-> links.top[h], previous |-> links.top[h],
              resume |-> FALSE, wasTop |-> FALSE, number |-> links.size[h], before |-> live]
  /\ UNCHANGED <<live, REF, contained, links, data, root, frames, fault>>

\* The first pass steps over a contained object without moving previous.
GCSkip ==
  /\ InGC /\ ~walk.resume /\ walk.pass = 1 /\ walk.current # NULL
  /\ ~IsAlone(walk.current)
  /\ walk' = [walk EXCEPT !.current = links.next[@]]
  /\ UNCHANGED <<live, REF, contained, links, data, root, frames, fault>>

\* GC that does not step over a survivor.
GCVisitStuck ==
  LET o == walk.current
  IN /\ InGC /\ ~walk.resume /\ o # NULL
     /\ walk.pass = 1 => IsAlone(o)
     /\ Suicidal(o, REF[o], TRUE, frames)
     /\ walk' = IF REF[o] = 0
                THEN [walk EXCEPT !.resume = TRUE, !.wasTop = (o = links.top[walk.heap])]
                ELSE walk
     /\ UNCHANGED <<REF, contained, data, root, fault>>

\* GC that asks objects to die as a release does, without force.
GCVisitUnforced ==
  LET o == walk.current
  IN /\ InGC /\ ~walk.resume /\ o # NULL
     /\ walk.pass = 1 => IsAlone(o)
     /\ Suicidal(o, REF[o], FALSE, frames)
     /\ walk' = IF Dies(o, REF[o], FALSE)
                THEN [walk EXCEPT !.resume = TRUE, !.wasTop = (o = links.top[walk.heap])]
                ELSE [walk EXCEPT !.previous = o, !.current = links.next[o]]
     /\ UNCHANGED <<REF, contained, data, root, fault>>

GCVisit ==
  LET o == walk.current
  IN /\ InGC /\ ~walk.resume /\ o # NULL
     /\ walk.pass = 1 => IsAlone(o)
     /\ Suicidal(o, REF[o], TRUE, frames)
     /\ walk' = IF REF[o] = 0
                THEN [walk EXCEPT !.resume = TRUE, !.wasTop = (o = links.top[walk.heap])]
                ELSE [walk EXCEPT !.previous = o, !.current = links.next[o]]
     /\ UNCHANGED <<REF, contained, data, root, fault>>

\* Suicidal has returned true: the walk goes on from top, or after previous.
GCResume ==
  /\ InGC /\ walk.resume
  /\ walk.wasTop \/ walk.previous \in live
  /\ walk' = [walk EXCEPT !.resume = FALSE,
                !.current = IF walk.wasTop THEN links.top[walk.heap]
                                           ELSE links.next[walk.previous]]
  /\ UNCHANGED <<live, REF, contained, links, data, root, frames, fault>>

GCResumeStale ==
  /\ InGC /\ walk.resume /\ ~walk.wasTop /\ walk.previous \notin live
  /\ \/ fault' = "uaf" /\ walk' = [walk EXCEPT !.resume = FALSE, !.current = NULL]
     \/ fault' = "crash" /\ UNCHANGED walk
  /\ UNCHANGED <<live, REF, contained, links, data, root, frames>>

GCSecondPass ==
  /\ InGC /\ ~walk.resume /\ walk.pass = 1 /\ walk.current = NULL
  /\ walk' = [walk EXCEPT !.pass = 2, !.current = links.top[walk.heap],
                          !.previous = links.top[walk.heap]]
  /\ UNCHANGED <<live, REF, contained, links, data, root, frames, fault>>

AtGCEnd == InGC /\ ~walk.resume /\ walk.pass = 2 /\ walk.current = NULL

GCEnd ==
  /\ AtGCEnd
  /\ walk' = NoGC
  /\ fault' = "none"
  /\ UNCHANGED <<live, REF, contained, links, data, root, frames>>

Crashed == fault = "crash" /\ UNCHANGED vars

GCStep == GCSkip \/ GCVisit \/ GCResume \/ GCResumeStale \/ GCSecondPass \/ GCEnd

Next ==
  \/ \E o \in Obj, h \in Heaps : New(o, h)
  \/ \E c \in Vars \cup Args, o \in Obj : Hold(c, o)
  \/ \E v \in Vars, o \in Obj : Replace(v, o)
  \/ \E v \in Vars : Release(v)
  \/ \E a \in Args : DropArg(a)
  \/ \E l \in Lists, o \in Obj : Add2End(l, o)
  \/ \E l \in Lists, o \in Obj : AppendToItself(l, o)
  \/ \E o \in Obj, h \in Heaps : ExportTo(o, h)
  \/ DropElem
  \/ DeleteList
  \/ \E h \in Heaps : GCStart(h)
  \/ GCStep
  \/ Crashed

Spec == Init /\ [][Next]_vars

\* A call, once made, runs on: nothing in it waits.
FairSpec == Spec /\ WF_vars(DropElem \/ DeleteList \/ GCStep)

-----------------------------------------------------------------------------
\* The objects met from the top of a heap, in order.
Chain(h) ==
  LET at[n \in 1..links.size[h]] == IF n = 1 THEN links.top[h] ELSE links.next[at[n - 1]]
  IN [n \in 1..links.size[h] |-> at[n]]

(* The list of a heap is exactly its objects, each once, linked both ways and
   counted by size: what Free's three cases and Import must preserve, whatever
   the order objects die and move in.  GC, Dump and the destructor walk it. *)
WellLinked ==
  \A h \in Heaps :
    /\ Cardinality({o \in live : links.heap[o] = h}) = links.size[h]
    /\ {o \in live : links.heap[o] = h} = ToSet(Chain(h))
    /\ \A n \in 1..links.size[h] :
         links.previous[Chain(h)[n]] = IF n = 1 THEN NULL ELSE Chain(h)[n - 1]
    /\ links.bottom[h] = IF links.size[h] = 0 THEN NULL ELSE Chain(h)[links.size[h]]

(* When a collection returns without having met a freed object, every object
   left in the heap is referred to: "now we delete all the rest". *)
GCCompleteUnlessStale ==
  AtGCEnd /\ fault = "none" => \A o \in live : links.heap[o] = walk.heap => REF[o] > 0

(* "now we delete all the rest": after the second pass no unreferenced object
   is left in the heap, whatever the order of its list. *)
GCComplete ==
  AtGCEnd => \A o \in live : links.heap[o] = walk.heap => REF[o] > 0

(* The value GC returns is the "number of object deleted". *)
GCReportsDeleted ==
  AtGCEnd => walk.number - links.size[walk.heap] = Cardinality(walk.before \ live)

(* A collection ends, even though the objects it walks on are deleted under it,
   and so does the cascade of deletions a release starts, whatever lists share
   their elements. *)
WalksEnd ==
  /\ (walk # NoGC) ~> (walk = NoGC \/ fault = "crash")
  /\ (frames # <<>>) ~> (frames = <<>>)

-----------------------------------------------------------------------------
\* Every step here is a step of SQIObject, or changes nothing of it.
Consumed(l) == IF \E k \in 1..Len(frames) : frames[k].list = l
               THEN (CHOOSE k \in 1..Len(frames) : frames[k].list = l)
               ELSE 0

heldBar ==
  [c \in (Lists \X (1..MaxLen)) \cup Vars \cup Args |->
     IF c \in Vars \cup Args THEN root[c]
     ELSE LET l == c[1]  i == c[2]  k == Consumed(l)
          IN IF i <= Len(data[l]) /\ (k # 0 => i >= frames[k].pos) THEN data[l][i] ELSE NULL]

stackBar ==
  [k \in 1..Len(frames) |-> [list |-> frames[k].list, force |-> frames[k].force]]

Object == INSTANCE SQIObject WITH
  heap  <- links.heap,
  held  <- heldBar,
  stack <- stackBar,
  gc    <- walk.heap

(* The pointer-level code keeps the ownership discipline: in particular GC only
   deletes objects nothing refers to, and no list, variable or argument is left
   with a deleted object. *)
ImplementsObject == Object!Spec
=============================================================================
