------------------------------ MODULE SQIVarMap ------------------------------
(***************************************************************************)
(* One SQI_VarMap shared by the threads of an interpreter (its global      *)
(* variables): Set, Get, Remove and AddWaiting, the bindings a script puts *)
(* on the events of a variable, and what the callers of Get and AddWaiting *)
(* do with what they were given.                                           *)
(*                                                                         *)
(* Set and Remove hold the map's lock while they look the name up and      *)
(* decide, and while they change the map.  In between, ExecBinding gives   *)
(* it back and runs the function bound to the event, whose inputs are a    *)
(* field of the function's node: all threads in that binding share it.     *)
(*                                                                         *)
(* The use of a TVariable, a binding or a value after its deletion sets    *)
(* fault, and the behaviour ends.  What scripts do that leads there is not *)
(* forbidden but remembered, in marks.                                     *)
(***************************************************************************)
EXTENDS Integers, FiniteSets, Sequences, SequencesExt

CONSTANTS
  Threads,   \* the threads that run squirrels
  Keys,      \* the names of variables
  Vars,      \* the addresses TVariables are allocated at
  Objs,      \* the addresses of the values computed at run time (a literal never dies)
  True,      \* the object of the interpreter for true, which never dies
  Events,    \* the events the scripts bind, of "get", "set" and "erase"
  Outputs,   \* what bound functions output, of "nothing", "true", "old", "new"
  Waiting,   \* whether the scripts use Wait
  MaxDepth,  \* bound: how deep calls nest, in bound functions and in arguments
  NULL

ASSUME ParameterAssumption ==
  /\ Events \subseteq {"get", "set", "erase"}
  /\ Outputs \subseteq {"nothing", "true", "old", "new"}
  /\ Waiting \in BOOLEAN
  /\ MaxDepth \in Nat \ {0} /\ IsFiniteSet(Threads) /\ IsFiniteSet(Vars)
  /\ True \notin Objs
  /\ NULL \notin Threads \cup Keys \cup Vars \cup Objs \cup {True}

VARIABLES
  lock,      \* SQI_VarMap is a BLocker: its owner and how often it took the lock
  entry,     \* the hash table: the TVariable of each name
  var,       \* the TVariables: value, events with a binding, threads of update
  alloc,     \* the TVariables allocated and not yet deleted
  args,      \* SQI_Node::args of the functions bound: the inputs, or NULL
  REF,       \* SQI_Object::REF of the values
  live,      \* the values allocated and not yet deleted
  call,      \* for each thread, its calls of the map in progress, and the values
             \* its statements have in their SQI_Args
  asleep,    \* the threads suspend_thread stopped
  marks,     \* what scripts did: "overlap", statements of two threads; "reentry", a
             \* call about a variable by a function bound to it; "old", a function
             \* bound to set output the old value; "get", one bound to get ran
  fault      \* "none", or what was used after its deletion

vars == <<lock, entry, var, alloc, args, REF, live, call, asleep, marks, fault>>

Values == Objs \cup {True}
Given  == [old : Values, new : Values \cup {NULL}]
Frame  == [op : {"value", "get", "set", "erase", "bind", "wait"},
           pc : {"found", "give", "given", "bound", "back", "value", "done", "asleep"},
           key : Keys \cup {NULL}, var : Vars \cup {NULL},
           obj : Values \cup {NULL},    \* the value to set, or the value got
           old : Values \cup {NULL},    \* what the bound function is given:
           new : Values \cup {NULL},    \* the old value and the new one
           ret : Values \cup {NULL}]    \* what the bound function output

TypeOK ==
  /\ lock \in [owner : Threads \cup {NULL}, count : Nat]
  /\ entry \in [Keys -> Vars \cup {NULL}]
  /\ var \in [Vars -> [object : Values \cup {NULL}, bound : SUBSET Events,
                       update : SUBSET Threads]]
  /\ alloc \in SUBSET Vars
  /\ args \in [Vars \X Events -> Given \cup {NULL}]
  /\ REF \in [Objs -> Nat]
  /\ live \in SUBSET Objs
  /\ \A t \in Threads : Len(call[t]) <= MaxDepth /\ Range(call[t]) \subseteq Frame
  /\ asleep \in SUBSET Threads
  /\ marks \in SUBSET {"overlap", "reentry", "old", "get"}
  /\ fault \in {"none", "variable", "binding", "value", "unbound"}

NoVar == [object |-> NULL, bound |-> {}, update |-> {}]

Init ==
  /\ lock = [owner |-> NULL, count |-> 0]
  /\ entry = [k \in Keys |-> NULL]
  /\ var = [v \in Vars |-> NoVar]
  /\ alloc = {}
  /\ args = [n \in Vars \X Events |-> NULL]
  /\ REF = [o \in Objs |-> 0]
  /\ live = {}
  /\ call = [t \in Threads |-> <<>>]
  /\ asleep = {} /\ marks = {} /\ fault = "none"

-----------------------------------------------------------------------------
\* The BLocker under the map: recursive, and Unlock by another thread than the
\* owner does nothing.
CanLock(t) == lock.owner \in {NULL, t}
Locked(t)  == [owner |-> t, count |-> lock.count + 1]
Unlocked(t) ==
  IF lock.owner # t THEN lock
  ELSE IF lock.count = 1 THEN [owner |-> NULL, count |-> 0]
  ELSE [owner |-> t, count |-> lock.count - 1]

Top(t) == call[t][Len(call[t])]
At(t, op, pc) ==
  fault = "none" /\ t \notin asleep /\ call[t] # <<>> /\ Top(t).op = op /\ Top(t).pc = pc

\* A thread calls the map from a statement, from a bound function that runs, or
\* while it has the first values of a statement in its SQI_Args.
MayCall(t) ==
  /\ fault = "none" /\ t \notin asleep
  /\ call[t] # <<>> => Top(t).pc \in {"bound", "done"} /\ Len(call[t]) < MaxDepth

Entered(op, pc, k, v, o) ==
  [op |-> op, pc |-> pc, key |-> k, var |-> v, obj |-> o, old |-> NULL, new |-> NULL, ret |-> NULL]
MarkIf(m, p)    == IF p THEN {m} ELSE {}
Overlaps(t)     == call[t] = <<>> /\ \E u \in Threads \ {t} : call[u] # <<>>
Reenters(t, k)  == \E i \in 1..Len(call[t]) : call[t][i].pc = "bound" /\ call[t][i].key = k
Push(t, f) ==
  /\ call' = [call EXCEPT ![t] = Append(@, f)]
  /\ marks' = marks \cup MarkIf("overlap", Overlaps(t)) \cup MarkIf("reentry", Reenters(t, f.key))
Enter(t, op, pc, k, o) == Push(t, Entered(op, pc, k, entry[k], o))
Go(t, pc, f) == call' = [call EXCEPT ![t] = Append(Front(@), [f EXCEPT !.pc = pc])]
Return(t)    == call' = [call EXCEPT ![t] = Front(@)]

\* Memory that nothing still refers to: an address is not used again before.
FreshVar(v) == v \notin alloc /\ \A t \in Threads, i \in 1..MaxDepth :
                 i <= Len(call[t]) => call[t][i].var # v
FreshObj(o) ==
  /\ o \notin live
  /\ \A t \in Threads, i \in 1..MaxDepth : i <= Len(call[t]) =>
       o \notin {call[t][i].obj, call[t][i].old, call[t][i].new, call[t][i].ret}
  /\ \A n \in Vars \X Events : args[n] # NULL => o \notin {args[n].old, args[n].new}

Fault(what) ==
  /\ fault' = what
  /\ UNCHANGED <<lock, entry, var, alloc, args, REF, live, call, asleep, marks>>

\* Counts after AddRef(add) and RemRef(rem): RemRef deletes at zero.
AddRef(o, R) == IF o \in Objs THEN [R EXCEPT ![o] = @ + 1] ELSE R
Less1(n)     == IF n = 0 THEN 0 ELSE n - 1
RemRef(o, R) == IF o \in Objs THEN [R EXCEPT ![o] = Less1(@)] ELSE R
Survivors(o, R) == IF o \in Objs /\ R[o] = 0 THEN live \ {o} ELSE live
Dead(o) == o \in Objs \ live

-----------------------------------------------------------------------------
\* A statement computes a value and has it in its SQI_Args.
Compute(t, o) ==
  /\ MayCall(t) /\ FreshObj(o)
  /\ Push(t, Entered("value", "done", NULL, NULL, o))
  /\ REF' = AddRef(o, REF)
  /\ live' = live \cup {o}
  /\ UNCHANGED <<lock, entry, var, alloc, args, asleep, fault>>

\* The statement is over: its SQI_Args give the value up, computed or got.
ArgsDone(t) ==
  /\ fault = "none" /\ call[t] # <<>> /\ Top(t).pc = "done"
  /\ REF' = RemRef(Top(t).obj, REF)
  /\ live' = Survivors(Top(t).obj, REF')
  /\ Return(t)
  /\ UNCHANGED <<lock, entry, var, alloc, args, asleep, marks, fault>>

-----------------------------------------------------------------------------
\* ExecBinding gives the lock up and looks into the binding its caller found; the
\* inputs of the function are now its list, and no longer those of another thread.
Bound(f) == f.var \in alloc /\ f.op \in var[f.var].bound
Give(t) ==
  LET f == Top(t)
  IN /\ fault = "none" /\ call[t] # <<>> /\ f.pc = "give"
     /\ IF ~Bound(f) THEN Fault("binding")
        ELSE /\ args' = [args EXCEPT ![<<f.var, f.op>>] = [old |-> f.old, new |-> f.new]]
             /\ Go(t, "given", [f EXCEPT !.old = NULL, !.new = NULL])
             /\ UNCHANGED <<lock, entry, var, alloc, REF, live, asleep, marks, fault>>

\* The function runs, with the inputs it has now: its local variables count them.
\* Without inputs it throws, and outputs nothing.
Start(t) ==
  LET f == Top(t)
      a == args[<<f.var, f.op>>]
  IN /\ fault = "none" /\ call[t] # <<>> /\ f.pc = "given"
     /\ IF ~Bound(f) THEN Fault("binding")
        ELSE IF a = NULL
        THEN /\ Go(t, "back", f)
             /\ UNCHANGED <<lock, entry, var, alloc, args, REF, live, asleep, marks, fault>>
        ELSE IF Dead(a.old) \/ Dead(a.new) THEN Fault("value")
        ELSE /\ REF' = AddRef(a.old, AddRef(a.new, REF))
             /\ Go(t, "bound", [f EXCEPT !.old = a.old, !.new = a.new])
             /\ UNCHANGED <<lock, entry, var, alloc, args, live, asleep, marks, fault>>

\* It returns: its squirrel goes back to the pool, which releases these values;
\* the one it outputs outlives this even when nothing else refers to it.  Then
\* EmptyArgs, whichever thread's list it is.
BoundReturns(t, what) ==
  LET f   == Top(t)
      ret == CASE what = "nothing" -> NULL
               [] what = "true"    -> True
               [] what = "old"     -> f.old
               [] what = "new"     -> f.new
      R   == RemRef(f.old, RemRef(f.new, REF))
  IN /\ fault = "none" /\ call[t] # <<>> /\ f.pc = "bound"
     /\ IF ~Bound(f) THEN Fault("binding")
        ELSE /\ args' = [args EXCEPT ![<<f.var, f.op>>] = NULL]
             /\ REF' = R
             /\ live' = {o \in live : o = ret \/ R[o] > 0 \/ o \notin {f.old, f.new}}
             /\ marks' = marks \cup MarkIf("old", f.op = "set" /\ what = "old")
             /\ Go(t, "back", [f EXCEPT !.old = NULL, !.new = NULL, !.ret = ret])
             /\ UNCHANGED <<lock, entry, var, alloc, asleep, fault>>

\* ExecBinding takes the lock again.
Back(t, op) == At(t, op, "back") /\ CanLock(t)

-----------------------------------------------------------------------------
\* SQI_VarMap::Set with the value in the SQI_Args of the statement, computed for
\* it or the value of some variable: Lock, the search for the name, AddRef.
EnterSet(t, k) ==
  LET o == Top(t).obj
  IN /\ MayCall(t) /\ CanLock(t) /\ call[t] # <<>> /\ Top(t).pc = "done" /\ o # NULL
     /\ entry[k] = NULL => \E v \in Vars : FreshVar(v)
     /\ lock' = Locked(t)
     /\ REF' = AddRef(o, REF)
     /\ Enter(t, "set", "found", k, o)
     /\ UNCHANGED <<entry, var, alloc, args, live, asleep, fault>>

SetNew(t, v) ==
  LET f == Top(t)
  IN /\ At(t, "set", "found") /\ f.var = NULL /\ FreshVar(v)
     /\ entry' = [entry EXCEPT ![f.key] = v]
     /\ alloc' = alloc \cup {v}
     /\ var' = [var EXCEPT ![v] = [NoVar EXCEPT !.object = f.obj]]
     /\ lock' = Unlocked(t)
     /\ Return(t)
     /\ UNCHANGED <<args, REF, live, asleep, marks, fault>>

\* Mutant: the value replaced keeps its reference.
AssignKeepsOld(v, new, R) ==
  /\ REF' = R
  /\ live' = live
  /\ var' = [var EXCEPT ![v].object = new, ![v].update = {}]
  /\ asleep' = asleep \ var[v].update

\* The value of v is released, new takes its place with the reference it was given,
\* and the waiting threads are resumed.  R: the counts before.
Assign(v, new, R) ==
  /\ REF' = RemRef(var[v].object, R)
  /\ live' = Survivors(var[v].object, REF')
  /\ var' = [var EXCEPT ![v].object = new, ![v].update = {}]
  /\ asleep' = asleep \ var[v].update

SetReplace(t) ==
  LET f == Top(t)
  IN /\ At(t, "set", "found") /\ f.var # NULL /\ "set" \notin var[f.var].bound
     /\ Assign(f.var, f.obj, REF)
     /\ lock' = Unlocked(t)
     /\ Return(t)
     /\ UNCHANGED <<entry, alloc, args, marks, fault>>

\* Mutant: the waiting threads are resumed before the bound function has run.
SetBoundWakes(t) ==
  LET f == Top(t)
  IN /\ At(t, "set", "found") /\ f.var # NULL /\ "set" \in var[f.var].bound
     /\ lock' = Unlocked(t)
     /\ Go(t, "give", [f EXCEPT !.old = var[f.var].object, !.new = f.obj])
     /\ var' = [var EXCEPT ![f.var].update = {}]
     /\ asleep' = asleep \ var[f.var].update
     /\ UNCHANGED <<entry, alloc, args, REF, live, marks, fault>>

SetBound(t) ==
  LET f == Top(t)
  IN /\ At(t, "set", "found") /\ f.var # NULL /\ "set" \in var[f.var].bound
     /\ lock' = Unlocked(t)
     /\ Go(t, "give", [f EXCEPT !.old = var[f.var].object, !.new = f.obj])
     /\ UNCHANGED <<entry, var, alloc, args, REF, live, asleep, marks, fault>>

\* Mutant: the reference of the SQI_Args is given up as well.
SetResumeTwice(t) ==
  LET f == Top(t)
      R == [REF EXCEPT ![f.obj] = @ - 3]
  IN /\ Back(t, "set")
     /\ IF f.var \notin alloc THEN Fault("variable")
        ELSE IF Dead(f.ret) THEN Fault("value")
        ELSE /\ Assign(f.var, IF f.ret = NULL THEN f.obj ELSE f.ret, R)
             /\ Return(t)
             /\ UNCHANGED <<lock, entry, alloc, args, marks, fault>>

\* What the bound function output becomes the value, or else the value given to
\* Set, whose reference is given up.  The old value is released before the new one
\* is counted: they must not be the same object with no other reference.
SetResume(t) ==
  LET f    == Top(t)
      R    == RemRef(f.obj, REF)
      last == f.ret \in Objs /\ f.ret = var[f.var].object /\ R[f.ret] <= 1
  IN /\ Back(t, "set")
     /\ IF f.var \notin alloc THEN Fault("variable")
        ELSE IF f.ret = NULL
        THEN /\ Assign(f.var, f.obj, REF)
             /\ Return(t)
             /\ UNCHANGED <<lock, entry, alloc, args, marks, fault>>
        ELSE IF Dead(f.ret) \/ last THEN Fault("value")
        ELSE /\ Assign(f.var, f.ret, AddRef(f.ret, R))
             /\ Return(t)
             /\ UNCHANGED <<lock, entry, alloc, args, marks, fault>>

-----------------------------------------------------------------------------
\* Mutant: Get leaves the search without its Unlock.
GetLookupLocked(t, k) ==
  /\ MayCall(t) /\ CanLock(t) /\ entry[k] # NULL
  /\ lock' = Locked(t)
  /\ Enter(t, "get", "found", k, NULL)
  /\ UNCHANGED <<entry, var, alloc, args, REF, live, asleep, fault>>

\* SQI_VarMap::Get: the lock covers the search for the name only.
GetLookup(t, k) ==
  /\ MayCall(t) /\ CanLock(t) /\ entry[k] # NULL
  /\ Enter(t, "get", "found", k, NULL)
  /\ UNCHANGED <<lock, entry, var, alloc, args, REF, live, asleep, fault>>

\* ExecBinding unlocks a map its caller has unlocked already.
GetRead(t) ==
  LET f == Top(t)
      o == var[f.var].object
  IN /\ At(t, "get", "found")
     /\ IF f.var \notin alloc THEN Fault("variable")
        ELSE /\ IF "get" \in var[f.var].bound
                THEN /\ Go(t, "give", [f EXCEPT !.old = o])
                     /\ lock' = Unlocked(t)
                ELSE /\ Go(t, "value", Entered("get", "value", NULL, NULL, o))
                     /\ UNCHANGED lock
             /\ UNCHANGED <<entry, var, alloc, args, REF, live, asleep, marks, fault>>

\* ExecBinding takes the lock before it returns to Get, which keeps it.
GetResume(t) ==
  LET f == Top(t)
  IN /\ Back(t, "get")
     /\ IF f.ret = NULL /\ f.var \notin alloc THEN Fault("variable")
        ELSE /\ lock' = Locked(t)
             /\ marks' = marks \cup {"get"}
             /\ Go(t, "value", Entered("get", "value", NULL, NULL,
                                      IF f.ret = NULL THEN var[f.var].object ELSE f.ret))
             /\ UNCHANGED <<entry, var, alloc, args, REF, live, asleep, fault>>

\* The statement counts the value it got, which is now in its SQI_Args.
GetUse(t) ==
  LET f == Top(t)
  IN /\ At(t, "get", "value")
     /\ IF Dead(f.obj) THEN Fault("value")
        ELSE /\ REF' = AddRef(f.obj, REF)
             /\ Go(t, "done", Entered("value", "done", NULL, NULL, f.obj))
             /\ UNCHANGED <<lock, entry, var, alloc, args, live, asleep, marks, fault>>

-----------------------------------------------------------------------------
\* SQI_VarMap::Remove: Lock and the search for the name.
EnterErase(t, k) ==
  /\ MayCall(t) /\ CanLock(t) /\ entry[k] # NULL
  /\ lock' = Locked(t)
  /\ Enter(t, "erase", "found", k, NULL)
  /\ UNCHANGED <<entry, var, alloc, args, REF, live, asleep, fault>>

\* Mutant: the TVariable is deleted and its node stays in the hash table.
DeleteKeepsNode(k, v) ==
  /\ REF' = RemRef(var[v].object, REF)
  /\ live' = Survivors(var[v].object, REF')
  /\ alloc' = alloc \ {v}
  /\ var' = [var EXCEPT ![v] = NoVar]
  /\ args' = [n \in Vars \X Events |-> IF n[1] = v THEN NULL ELSE args[n]]
  /\ entry' = entry

\* The threads of update are forgotten with the TVariable.
Delete(k, v) ==
  /\ REF' = RemRef(var[v].object, REF)
  /\ live' = Survivors(var[v].object, REF')
  /\ alloc' = alloc \ {v}
  /\ var' = [var EXCEPT ![v] = NoVar]
  /\ args' = [n \in Vars \X Events |-> IF n[1] = v THEN NULL ELSE args[n]]
  /\ entry' = [entry EXCEPT ![k] = NULL]

RemovePlain(t) ==
  LET f == Top(t)
  IN /\ At(t, "erase", "found") /\ "erase" \notin var[f.var].bound
     /\ Delete(f.key, f.var)
     /\ lock' = Unlocked(t)
     /\ Return(t)
     /\ UNCHANGED <<asleep, marks, fault>>

RemoveBound(t) ==
  LET f == Top(t)
  IN /\ At(t, "erase", "found") /\ "erase" \in var[f.var].bound
     /\ lock' = Unlocked(t)
     /\ Go(t, "give", [f EXCEPT !.old = var[f.var].object])
     /\ UNCHANGED <<entry, var, alloc, args, REF, live, asleep, marks, fault>>

\* Only a bound function that outputs true lets the variable go.
RemoveResume(t) ==
  LET f == Top(t)
  IN /\ Back(t, "erase")
     /\ IF Dead(f.ret) THEN Fault("value")
        ELSE IF f.ret = True /\ f.var \notin alloc THEN Fault("variable")
        ELSE /\ IF f.ret = True THEN Delete(f.key, f.var)
                                ELSE UNCHANGED <<entry, var, alloc, args, REF, live>>
             /\ Return(t)
             /\ UNCHANGED <<lock, asleep, marks, fault>>

-----------------------------------------------------------------------------
\* bind and unbind of functions with extra inputs (SQIBinding has the others):
\* GetBinding, then a write without the lock.  unbind looks into the binding of
\* set or erase without a test that there is one.
BindLookup(t, k) ==
  /\ MayCall(t) /\ CanLock(t) /\ entry[k] # NULL /\ Events # {}
  /\ Enter(t, "bind", "found", k, NULL)
  /\ UNCHANGED <<lock, entry, var, alloc, args, REF, live, asleep, fault>>

Rebind(t, e, bound) ==
  LET v == Top(t).var
  IN /\ var' = [var EXCEPT ![v].bound = bound]
     /\ args' = [args EXCEPT ![<<v, e>>] = NULL]
     /\ Return(t)
     /\ UNCHANGED <<lock, entry, alloc, REF, live, asleep, marks, fault>>

Bind(t, e) ==
  LET v == Top(t).var
  IN /\ At(t, "bind", "found")
     /\ IF v \notin alloc THEN Fault("variable") ELSE Rebind(t, e, var[v].bound \cup {e})

UnBind(t, e) ==
  LET v == Top(t).var
  IN /\ At(t, "bind", "found")
     /\ IF v \notin alloc THEN Fault("variable")
        ELSE IF e # "get" /\ e \notin var[v].bound THEN Fault("unbound")
        ELSE Rebind(t, e, var[v].bound \ {e})

-----------------------------------------------------------------------------
\* Wait: AddWaiting finds the variable, takes the lock again to enlist the
\* thread, and the primitive then suspends it.
WaitLookup(t, k) ==
  /\ Waiting /\ MayCall(t) /\ CanLock(t) /\ entry[k] # NULL
  /\ Enter(t, "wait", "found", k, NULL)
  /\ UNCHANGED <<lock, entry, var, alloc, args, REF, live, asleep, fault>>

AddWaiting(t) ==
  LET v == Top(t).var
  IN /\ At(t, "wait", "found") /\ CanLock(t)
     /\ IF v \notin alloc THEN Fault("variable")
        ELSE /\ var' = [var EXCEPT ![v].update = var[v].update \cup {t}]
             /\ Go(t, "value", Entered("wait", "value", NULL, NULL, NULL))
             /\ UNCHANGED <<lock, entry, alloc, args, REF, live, asleep, marks, fault>>

Suspend(t) ==
  /\ At(t, "wait", "value")
  /\ asleep' = asleep \cup {t}
  /\ Go(t, "asleep", Top(t))
  /\ UNCHANGED <<lock, entry, var, alloc, args, REF, live, marks, fault>>

WaitDone(t) ==
  /\ At(t, "wait", "asleep")
  /\ Return(t)
  /\ UNCHANGED <<lock, entry, var, alloc, args, REF, live, asleep, marks, fault>>

\* The thread whose heap the global heap is collects it between its statements.
GC(o) ==
  /\ fault = "none" /\ o \in live /\ REF[o] = 0
  /\ live' = live \ {o}
  /\ UNCHANGED <<lock, entry, var, alloc, args, REF, call, asleep, marks, fault>>

Over == fault # "none" /\ UNCHANGED vars

\* The steps of the map's own code, once a thread is in it.
MapStep(t) ==
  \/ (\E v \in Vars : SetNew(t, v)) \/ SetReplace(t) \/ SetBound(t) \/ SetResume(t)
  \/ GetRead(t) \/ GetResume(t)
  \/ RemovePlain(t) \/ RemoveBound(t) \/ RemoveResume(t)
  \/ Give(t) \/ Start(t)

Resume(t) ==
  \/ MapStep(t)
  \/ \E what \in Outputs : BoundReturns(t, what)
  \/ GetUse(t) \/ ArgsDone(t)
  \/ \E e \in Events : Bind(t, e) \/ UnBind(t, e)
  \/ AddWaiting(t) \/ Suspend(t) \/ WaitDone(t)

Call(t) ==
  \/ \E o \in Objs : Compute(t, o)
  \/ \E k \in Keys : \/ EnterSet(t, k) \/ GetLookup(t, k) \/ EnterErase(t, k)
                      \/ BindLookup(t, k) \/ WaitLookup(t, k)

Next ==
  \/ \E t \in Threads : Call(t) \/ Resume(t)
  \/ \E o \in Objs : GC(o)
  \/ Over

Spec == Init /\ [][Next]_vars

\* A thread runs on in the map's code; the semaphore under the lock serves the
\* threads that wait for it in turn.
FairSpec == Spec /\ \A t \in Threads : SF_vars(MapStep(t))

-----------------------------------------------------------------------------
(* The hash table and the memory of TVariables agree at every moment: no name
   leads to a deleted TVariable, no two names to the same, none is leaked. *)
EntriesExact ==
  /\ {entry[k] : k \in Keys} \ {NULL} = alloc
  /\ \A j, k \in Keys : entry[j] = entry[k] /\ entry[j] # NULL => j = k

\* The calls in progress, as the pairs of a thread and a depth.
InProgress == {c \in Threads \X (1..MaxDepth) : c[2] <= Len(call[c[1]])}
Frm(c)     == call[c[1]][c[2]]

\* The references to o of these calls: of the SQI_Args or of Set; and of the local
\* variables of a bound function to its inputs.
Holding(o)   == {c \in InProgress : Frm(c).obj = o /\ (Frm(c).op = "set" \/ Frm(c).pc = "done")}
OldInput(o)  == {c \in InProgress : Frm(c).old = o /\ Frm(c).pc = "bound"}
NewInput(o)  == {c \in InProgress : Frm(c).new = o /\ Frm(c).pc = "bound"}
Protected(o) == Cardinality(Holding(o)) + Cardinality(OldInput(o)) + Cardinality(NewInput(o))

(* Whatever is shared, whatever a bound function outputs, and whichever threads
   call: REF of a value is the number of variables, arguments and inputs that
   hold it, and the value of a variable is alive. *)
ValuesCounted ==
  /\ \A o \in live : REF[o] = Cardinality({v \in alloc : var[v].object = o}) + Protected(o)
  /\ \A v \in alloc : var[v].object \in live \cup {True}

(* Table, TVariables and values agree, however calls of threads and of bound
   functions nest. *)
MapExact == EntriesExact /\ ValuesCounted

(* Nothing is used after its deletion, unless statements of two threads overlapped,
   a bound function called the map about its variable, or a function bound to set
   output the old value. *)
NoStaleUse == fault \in {"variable", "binding", "value"} => marks \cap {"overlap", "reentry", "old"} # {}

(* A thread that sleeps in Wait is known to the variable it waits for: the next
   update resumes it.  Wait: "The calling thread waits for the variable given
   as input to be updated by another thread". *)
NoLostWakeup == \A t \in asleep : \E v \in alloc : t \in var[v].update

\* The step in which a Set that a thread is in comes to its end.
SetEnds(t) == call[t] # <<>> /\ Top(t).op = "set" /\ call'[t] = Front(call[t])

(* A thread asleep in Wait is resumed by the end of a Set of the variable it waits
   for, with the value this Set gives it in place, be it another value or the same
   once more: not while the function bound to set still runs, not by an erase.
   And the end of a Set resumes all who wait. *)
ResumedByUpdate ==
  [][/\ \A t \in asleep \ asleep' : \E u \in Threads :
          /\ SetEnds(u) /\ Top(u).var \in alloc \cap alloc' /\ t \in var[Top(u).var].update
          /\ var'[Top(u).var].object = IF Top(u).ret = NULL THEN Top(u).obj ELSE Top(u).ret
     /\ \A u \in Threads : SetEnds(u) /\ Top(u).var # NULL =>
          asleep' \cap var[Top(u).var].update = {}]_vars

\* A thread is in the map's code, and not in a bound function or behind it.
InMap(t) == call[t] # <<>> /\ Top(t).pc \in {"found", "give", "given", "back"}
                           /\ Top(t).op \in {"get", "set", "erase"}

(* A call of the map goes on to the bound function and to its end: no thread waits
   for the map's lock for ever, unless a function bound to get has run, after
   which Get keeps the lock. *)
CallsReturn == \A t \in Threads : InMap(t) ~> (~InMap(t) \/ fault # "none" \/ "get" \in marks)
=============================================================================
