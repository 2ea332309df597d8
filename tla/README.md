# Squirrel99: a verification project

Squirrel is an interpreted language for BeOS, with reference-counted objects, heaps
that are garbage collected, variables a script can bind functions to, and threads.
This directory holds TLA+ modules of the parts of the interpreter whose correctness
depends on long sequences of calls or on the order in which threads run, the TLC
configurations that check them on small instances, and the theorems TLAPS proves for
every instance.

Paths are those of the repository; `S/` stands for `src/Squirrel/src/`, `A/` for
`src/AddOns/`, `G/` for `documentation/Documents/Manuals/Guide/`.

## 1. Inventory

| Component | Code | State | Operations | What makes it correct |
|---|---|---|---|---|
| Objects | `S/Include/SQI-object.h`, `S/SQI-list.cpp` | `REF`, `contained`, `heap`; a list's `data` | AddRef, RemRef, Suicidal, Alone, Contained, Export, Add2End | counts equal references; nothing in use is deleted; nothing is deleted twice; literals outlive their uses |
| Heaps | `S/SQI-heap.cpp` | a doubly linked list of objects, `size`, `status` | AddObject, Free, Import, GC, List, Dump, destructor | the list is exactly the heap's objects; a collection deletes what nothing refers to, all of it, and nothing else |
| Variables | `S/SQI-varmap.cpp` | hash table of `TVariable`, a recursive lock, threads waiting for each variable | Set, Get, Remove, ExecBinding, GetBinding, AddWaiting, WakeUp, Clean | table and variables agree; values are counted; the lock is balanced; no call goes on with what another has deleted |
| Bindings | `A/WorkSpace/SQI-workspace.cpp`, `S/SQI-varmap.cpp` | for each event of a variable: block or call, extra inputs, system function | bind, unbind, SetSystemFunc, RemoveSystemFunc, DeleteBinding | the last binding runs; references are given back once |
| Threads | `S/Threading.cpp`, `A/Threading/SQI-thread.cpp` | `TheThreads`: thread id to `SQI_Thread_Data` (squirrel, waited, terminated, output) | Thread, Thread.hop, .suspend, .kill, .waitfor (one, first, all), .hoping, Wait, priority, messages | data are deleted by one side, after the other is done with them; outputs arrive; waits end, and not early |
| Squirrel pool | `S/SQI-interp.cpp` | a stack of squirrels under a lock | Get, Put | a squirrel has one owner |
| Lock objects | `A/Threading/sqi-locker.cpp` | a kernel lock | lock, unlock | mutual exclusion of scripts |
| Function maps | `S/SQI-ufunc.cpp`, `S/SQI-builtin.cpp`, `S/SQI-defunc.cpp` | name to function | add, remove, find | no call of a removed function |
| Evaluator and tree | `S/SQI-n*.cpp`, `S/SQI-node.cpp` | the tree, local variables | execute | (the evaluator, `SQI_Squirrel`, is not in the repository) |
| Scanner, parser | `S/NestedTokenStream.cpp`, grammars, `src/pccts` | a stack of lexers | push, pop | nesting |
| Containers | `A/Data Structures/Vector.cpp`, `Dico.cpp` | a vector or a map of objects, each element counted | append, set, erase, clone, sort, reverse, iterate; set, erase | counts are exact; iterators and indices stay in the storage; sort is a sort |
| Exec | `A/Exec/SQI-exec.cpp` | descriptors 1 and 2 of the interpreter, one pipe and one monitor thread for each call | exec.wait, exec.bg, exec.launch | every line of the program arrives; descriptors come back; calls end |
| Layout of windows | `A/GUI/SQI-window.cpp`, `gluing.cpp`, `SQI-utils.cpp` | the gluing sequence, the frames, the bounds of the layout, a counter of resize messages | glue, unglue, reglue, FrameResized | no overlap, nothing outside, the layout is for the window's size |
| Hooks of the GUI | `A/GUI/SQI-window.cpp`, `SQI-menu.cpp`, `S/SQI-node.cpp`, `S/Threading.cpp` | for each event a node and an extra input; the node's field `args` | hook, unhook, events in the window's thread or in threads of their own | nodes and inputs live as long as their calls; a call gets its own inputs |
| List primitives | `A/List Processing/SQI-listh.cpp`, `S/SQI-list.cpp` | lists shared by variables, squirrels and the program text; the heap each value is in | list, lappend, lindex, lremove and others | values outlive the heap of a function that ends; counts are exact; literals do not change |
| Widgets | the rest of `A/GUI` | widgets of the system | many | thin wrappers |
| Other add-ons | `A/*` | | input, output, computation | thin wrappers |

How they interact. An *interpreter* owns the global heap, the heap of the program
text and the heap of eternal objects, the global variables, the function maps and
the pool. A *squirrel* runs code: it has a local heap and local variables, and
belongs to one thread at a time. A value moves between heaps (Export) when it is put
in a list, made global, or returned. Setting, reading or erasing a variable may call
back into a squirrel through a binding, and the map gives its lock up for this. A
thread runs a squirrel and reports its end through `SQI_Thread_Data`, which other
threads find by thread id.

What is hard here: deletion cascades through shared lists while a loop walks them;
the collector walks a list its own deletions change; the lock of a map is given up
in the middle of an operation; threads share records and a map without any lock; a
resumption may come before the suspension it is for; the one standard output of the
interpreter is redirected by several squirrels in turn, and inherited by whatever
program starts meanwhile; the calls of one hook share one field for their inputs; a
window tells its own resizes from the user's by counting messages that arrive later.
`PROJECT.json` lists these hazards at their lines with the properties that cover
them.

## 2. Modules

| Module | Models | Size of the idea |
|---|---|---|
| `SQIObject` | the ownership discipline: counted references in *cells* (list elements, variables, arguments), cascades, export, collection in any order | the abstract specification |
| `SQIObjectProofs` | theorems about `SQIObject` | |
| `SQIHeap` | the same operations at pointer level: the heap's links, the list iterator, `GC` with `current` and `previous` | implements `SQIObject` |
| `SQIVarMap` | one shared variable map, its lock, bound functions, Wait | |
| `SQIBinding` | the bindings of one variable, pointer by pointer | |
| `SQIThread` | threads, `TheThreads`, waits, kills and the pool | |
| `SQIExec` | exec.wait and exec.bg: redirection, pipes, inheritance, monitors | |
| `SQIGluing` | the layout of a window: glue, unglue, reglue, resize | |
| `SQIHook` | hooks, their nodes and inputs, with calls in several threads | |
| `SQIDataStruct` | vectors and a dictionary: counts, iterate, sort | |
| `SQIList` | lists shared by a program and functions whose heap is deleted when they end | |
| `SQIHeapProofs`, `SQIVarMapProofs`, `SQIThreadProofs`, `SQIExecProofs`, `SQIGluingProofs`, `SQIHookProofs`, `SQIDataStructProofs` | theorems about these modules; `SQIVarMapProofs` extends `SQIVarMap` and `SQIBinding`, `SQIDataStructProofs` also `SQIList` (whose names differ for that reason), and they prove about both | |
| `MC...` | model values for TLC, one module for each of the above | |

**SQIObject.** `live`, `REF`, `contained` and `heap` are the fields of the code.
`held` says what each cell refers to; `stack` holds the activations of
`SQI_List::Suicidal` (the list and `force`), so that a cascade is a sequence of
steps and not one: `DropElem` is a turn of its loop, `DeleteList` its `delete this`.
A collection is `GCStart`, any number of `Collect`, `GCEnd`: which objects are
visited, and when, is left open. `Export` moves an object and the closure of its
non-eternal elements.

**SQIHeap.** `links` holds `next`, `previous`, `top`, `bottom`, `size`. `Free`,
`AddObject` and `Import` are operators on it, as the code's functions are on the
objects. `walk` is the activation of `GC`. When `GC` goes on from a `previous` that
is freed, what it reads is undefined: the model either reads the NULL that `Free`
stored there (`fault = "uaf"`) or stops (`"crash"`). Appending a list to itself is
modelled as the crash it is.

**SQIVarMap.** A stretch of code between two points at which another thread can come in
is one action: the search for the name, what follows it under the lock, what
`ExecBinding` does before, while and after the bound function runs. A call in progress is
a frame on its thread's `call`: the name, the `TVariable` found, the values in its
hands. A statement has the values it computed or got in its `SQI_Args`, which are frames
too, and `make` passes one of them on as it is: `EnterSet` takes the value of the
statement, be it a new one (`Compute`), that of another variable, or that of the variable
itself. The values `REF` counts are those computed at run time; a literal never dies and
cannot go wrong here.

`pc = "give"` is where `ExecBinding` gives up the lock and writes the inputs of the bound
function to the field `args` of its node, which all threads in that binding share;
`"given"` is where the evaluator reads them, whoever wrote them last; `"bound"` is the
time the function runs and may call the map. It outputs nothing, true, the old or the
new value, and `EmptyArgs` then clears whatever list is there.

A frame that uses what is no longer there sets `fault`, and the behaviour ends. What
scripts do that leads there is not forbidden: `marks` remembers that statements of two
threads overlapped, that a bound function called the map about its own variable, that one
bound to set output the old value, and that one bound to get has run. The properties say
what holds until a mark, or whatever the marks. Some things are smaller than in the code:
the search of `Get` and of `GetBinding`, from Lock to Unlock, is one step, as the lock
lets nothing happen in between; a name that does not exist needs a free address in `Vars`
to be set, a bound on memory; a binding that is removed and made again while a call is on
its way to it counts as the one it found; a bound function that finds no inputs, because
another thread has cleared them, throws, as the evaluator of a missing input does.

**SQIBinding.** For each event a slot that is NULL or has a block, a call, a list of
extra inputs and a system function. `Runs(slot)` is what `ExecBinding` would run.
`last` is a history variable: what the script bound last.

**SQIThread.** `data` is what is at the address of each `SQI_Thread_Data`, `alloc`
which of them are allocated, `TheThreads` the map with the NULL entries its
`operator[]` leaves. `pc` says how far `Squirrel_Thread` is; its end is broken into
the test of `waited`, the return of the squirrel, the deletion, and the writes of
`terminated` and `output`, between which other threads run. Thread.kill reads the entry
(`Kill`), stops the thread (`KillThread`), tests `waited` (`KillTest`), deletes squirrel
and data (`KillDelete`) and erases the entry (`KillErase`), and anything may come
between. Where two accesses are one step (the test of `waited` with the write of
`terminated` behind it, the entry and the flag in Thread.waitfor), what happens between
them leads to what happens when it comes after both. Scripts may kill and wait for any
thread at any time; `late` remembers the threads that were killed after their script had
ended, or waited for after it, or a second time. Other constants say what scripts do:
which forms of waitfor they use (`Modes`), which threads they suspend (`Suspends`), which
threads run a block or end in an exception and so have no output (`NoReturn`), and
whether they go on once a thread was late (`AfterLate`).

**SQIExec.** `std` is what descriptors 1 and 2 are, `old` the duplicates a call has
made, `rd` and `wr` the open ends of the pipes, `app` the lock of `be_app`. `pc`
goes through `pipe`, `Lock`, the redirection, `load_image`, the restoration and, for
exec.wait, the reading of the pipe and the join of the monitor. A program is a
record in `child`: it inherits every write end open when it is loaded, writes its
lines when the pipe has room, may close its output, and ends. Lines are records of
who wrote them; `got` is the list given to the script, or the lines handed to its
function.

**SQIGluing.** `Contents` is the gluing sequence of the code, `frame` the frames of
the widgets, `RealBounds` the bounds the layout is for. `Dynamic`, `Again` and
`Static` are `DynamicGluing`, `ReGluing` and `StaticGluing` of one widget; they are
folded over the sequence as the code's loops go over it. `ExpandChilds` is both of
its loops, with `FindClosest` as `Room`. All coordinates are integers; a `BRect`
includes its last pixel. `messages` is the queue of FrameResized messages,
`resized_count` the code's counter of those it caused.

**SQIHook.** `hooks` is the `THook` of each event, `args` the field of `SQI_Node`
all calls of that node use. A call is a record whose `pc` follows `Squirrel_Thread`
(or `UseHook`, in the window's thread): `SetArgs`, the reading of `args` by the
evaluator, the function, the comparison `func->GetArgs() == thread->args`, the loop
of `DelArgs`, its assignment, the end. Each is a step of its own, as each reads what
another call may have written. `change` is the Hook or UnHook in progress: it gives the
old action up (`Hook`, `UnHook`), sets it to NULL (`ClearHook`, of UnHook only), gives up
the extra inputs (`FreeExtra`) and sets the new ones (`SetHook`). None of it has the
lock of the window, so events of this and of other hooks come in between. When an event
of the same hook does, while its action is the one that was given up, or a hook changes
while the window runs it, the window uses a node that is gone: `Meet` says that this can
happen, at every moment at which it can, and the behaviour ends with `met`.

**SQIDataStruct.** `vec` holds the elements and the capacity of each vector, `dico`
the dictionary, `walk` the call of `iterate` in progress with its position, argument
and result; `lost` counts references the code keeps for ever, so that `CountsExact`
can be an equation. The sort is the code's own quicksort, as a recursive function
that uses the code's partition.

**SQIList.** `mem` is the memory: which objects are live, and the fields of each. The
primitives are operators on it that compose as the calls of the code do: `Add2End`
counts and exports, `Built` folds it over the inputs, `Set` is make. Two squirrels
take steps, the program with the global heap and a function with its own; `End`
deletes the function's squirrel: its variables release their values, then
`~SQI_Heap` deletes what is left, whatever its count. What dies in one collection, or
with the variables of one function, dies in one step (`Destroyed` of a set): each list
that does gives up its elements once, so the order makes no difference. That `~SQI_Squirrel`, which is
not in the repository, does so in this order is taken from `~SQI_Interp`, and that
it does so at all from the export of a thread's output before `delete
thread->squirrel` (`A/Threading/SQI-thread.cpp:300`). What a deleted list held in
another heap stays counted (`lost`). Nested lists are left to `SQIHeap`.

External code (the kernel's threads and locks, `SQI_Args`, `SQI_Object::RemRef`,
whose sources are not in the repository) is modelled from its use in `src/`.

## 3. Runs

| Run | Instance | Shows |
|---|---|---|
| `object` | four objects, two lists of two elements, one ordinary and one eternal heap, a variable, an argument | `TypeOK`, `NoDangling`, `RefExact`, `NoDoubleDelete`, `EternalSurvives` |
| `heap` | three objects, two of them lists, two ordinary heaps and an eternal one, a variable, an argument | `TypeOK`, `WellLinked`, `GCCompleteUnlessStale`, `ImplementsObject` (refinement of `SQIObject`), and, under `FairSpec`, `WalksEnd` |
| `varmap_free` | two threads, two names, two TVariables, two values that variables and statements share; functions bound to set, with every output; Wait | `TypeOK`, `MapExact`, `ResumedByUpdate` |
| `varmap_calls` | two threads, one name, one value; functions bound to get and to erase, whose inputs the threads share | `NoStaleUse`, and, under `FairSpec`, `CallsReturn` |
| `varmap_wakeup` | Wait against Set | **violated**: `NoLostWakeup` |
| `binding_get` | the get event, three blocks, three calls with extra inputs, a system function | `BindTypeOK`, `LastBindingRuns`, `BindingsCounted` |
| `thread` | two threads, one that may have no output, two squirrels that wait for one, for the first or for all of them, kill and suspend them, in time or late | `TypeOK`, `NoStaleUse`, `SquirrelsOwned`, `WaitsDeliver`, `WaitReturns` |
| `exec` | one exec.wait, one exec.bg, a script that prints | `TypeOK`, `OutputExact`, `DescriptorsRestored`, `CallsReturn` |
| `gluing` | three widgets that differ in size, expansion and alignment, four sides, three sizes the user chooses | `LayoutSound`, which includes what its variables range over, `LayoutFollowsSize` |
| `hook` | an event of a window, one of a widget, a menu item; two functions and a block; two calls; a hook being set or removed | `TypeOK`, `NothingStale`, `CountsCover`, `WindowInputs` |
| `data` | two vectors, a dictionary of one key, two numbers | `TypeOK`, `CountsExact`, `NothingStale`, `SortCorrect` |
| `list` | two numbers and a literal that are equal, two lists and a literal list, a global and a local variable | `ListTypeOK`, `ValuesSurvive`, `ElementsCounted` |

Each property of a passing run has a mutant of the code's definitions that breaks
it.

**Bounds.** Every bound not named here is the size of a constant set.

- `SQIObject`, `SQIHeap`: `MaxLen` bounds the length of a list. Two lists and one
  atom already give a list in a list, two lists that share an element, a list that
  holds an object twice, an object met before, inside and after the list it is in,
  and a literal in an ordinary list.
- `SQIVarMap`: `MaxDepth` 2 bounds how deep calls nest, in bound functions and in the
  arguments of a statement: a statement with a value in its SQI_Args and its Set, or a
  bound function and what it calls. Two threads and two TVariables are enough for one to
  delete, and to create again, what the other is using; two names, for a value that is
  shared by two variables. Calls of a bound function about a second variable, and what
  those bind in turn, are left to the theorems, which have no bound.
- `SQIThread`: two threads and two squirrels give a wait and a kill of the same thread at
  a time, two waits, and a squirrel that comes back from the pool. `AfterLate` is FALSE:
  a script goes on with what it has begun, and starts nothing more, once a thread was
  late. The theorems are for both values.
- `SQIExec`: `PipeSize` 1 makes every pipe full at once, `MaxLines` 2 makes a
  program wait for the reader, `MaxPrints` 1 lets a script's line into a pipe. Two
  calls, one of each kind, are all it takes to redirect over each other and to
  inherit each other's descriptors.
- `SQIGluing`: widgets of one to three pixels and `MaxChanges` 2, the number of
  resizes by the user, reglues and unglues. A third widget is the first to be glued
  beside a layout that is not one frame, and two changes let a resize by the user
  meet one by the window.
- `SQIHook`: two calls are the least that share `args`; with three the run also
  passes, with eight million states. `MaxRef` bounds how often the extra input is
  counted when a hook is set or an event comes.
- `SQIDataStruct`: `MaxSize` 4 gives partitions of one element and none, and equal
  elements on both sides; `MaxLost` 1 how often a reference is lost.
- `SQIList`: `MaxLen` 2 gives lists that hold an object twice or hold equal ones;
  `MaxStray` 1 is its `MaxLost`. Numbers that are equal let lremove find another object than
  its input.

**Deadlock** is checked except where the system may really stop: in the variable
runs all threads may be asleep, or wait for the lock a bound get has left behind; in
`thread` all may be used up, or stopped with nobody to resume them; in `exec` both calls
are over, in `gluing` and `hook` all bounded inputs may be used up, or an event and a
change have met, and in `list` the interpreter may crash.

**Symmetry** is used in runs without liveness only.

**Fairness.** `SQIHeap`: weak fairness of the steps of a call in progress (one
thread, nothing it waits for). `SQIVarMap`: strong fairness of each thread's steps
inside the map's code; the kernel schedules every runnable thread, and the semaphore of a
BLocker serves the threads that wait for it in turn, so one that is free again and again
comes to each of them. Nothing is assumed about a script making calls, or about a bound
function returning. `SQIThread`: weak fairness of each thread that is not suspended, and
of the return of `wait_for_thread` after its thread has ended. `SQIExec`: weak
fairness of the squirrel of each call and its monitor (threads of the interpreter
nothing suspends), and of each program, which therefore writes its lines when there
is room and ends: a program that runs for ever keeps exec.wait waiting, as it
should. Nothing is assumed about scripts printing or the callers of exec.bg ending.

## 4. What is proved

`SQIObjectProofs` proves, for every finite set of objects, every choice of lists and
heaps, any number of variables and arguments and any `MaxLen`:

- `TypeCorrect`: `Spec => []TypeOK`.
- `NothingDangles`: no cell refers to a deleted object.
- `CountsExact`: `REF` and `contained` are the numbers of cells and of list elements
  that refer to the object.
- `DeletedOnce`: a list under deletion is alive and has one activation.
- `LiteralsSurvive`: outside a collection no eternal object dies.

The assumptions are the three named ones of `SQIObject`: sets of objects, variables
and arguments are finite, NULL is none of them, and the cells of different kinds are
distinct. The inductive invariant `IInv` is the conjunction of the first four and of
`StackOK`: an activation of Suicidal with `force` runs in a collection only, and one
of an eternal list has `force`. None is inductive alone: that a deleted object is in
no cell (`NoDangling`) follows from its count being zero and exact (`RefExact`); the
count of a cell's object can be lowered only because the cell makes it positive; and
a list on the stack has count zero, so nothing can start a second activation of it
(`DeletedOnce`). The argument about counting is in four lemmas: a count is zero iff
no cell holds the object (`CountZero`), changing one cell changes the counts of its
old and new objects by one (`CountUpdate`), and exactness is preserved by the code's
increments and decrements (`CountsAfter`). The steps of `Suicidal` are treated once
(`SuicidalEffect`, `DeathIsSafe`, `Push`, `Pop`), then there is a lemma for each
action. `LiteralsSurvive` follows from `StackOK`: an eternal object dies with
`force` only.

`SQIHeapProofs` proves that the pointers implement this discipline: `Implements` is
`Spec => ImplementsObject`, so the theorems above hold of the pointer-level heap
(`NothingDangles` there says so of its own lists, variables and arguments).

The other proofs follow the same plan: a module extends the component's module, states
an inductive invariant `IInv` as a conjunction of named parts, and shows that each action
preserves it. All bounds of section 3 are gone: the constants are any values that
satisfy the named assumption of the component's module. Those assumptions say that the
constants have the right kinds, that NULL and the like are none of the addresses, and,
where something is counted, that the set counted is finite (addresses, threads, calls of
a hook, vectors, lists and variables: what a machine has). `SQIExec` and `SQIBinding` need no such set.

Some theorems have a hypothesis about what scripts do, stated as a predicate on the
constants: restrictions of section 5, without which the code goes wrong and TLC finds
counterexamples. The instances of the runs satisfy them. Those of `SQIVarMap` and
`SQIThread` have none: there the properties themselves say what scripts must have done
(`marks`, `late`) before anything goes wrong.

| Module | Theorem | Hypothesis | States |
|---|---|---|---|
| `SQIHeapProofs` | `TypeCorrect`, `HeapsWellLinked`, `Implements` | | `TypeOK`, `WellLinked`, `ImplementsObject` |
| | `CollectionsComplete` | | `GCCompleteUnlessStale` |
| `SQIVarMapProofs` | `TypeCorrect`, `MapStaysExact`, `WaitEndsByUpdate` | | `TypeOK`, `MapExact`, `ResumedByUpdate` |
| | `OnlyMarkedIsStale` | | `NoStaleUse` |
| | `LockIsReleased` | | `LockReleased`: until a bound get has run, the lock is held once, and only from the search of a Set or Remove to what follows it |
| | `BindingTypeCorrect` | | `BindTypeOK` |
| | `GetRunsTheLastBinding`, `GetIsCounted` | `OnlyGet`: the event get, functions with extra inputs | `LastBindingRuns`, `BindingsCounted` |
| `SQIThreadProofs` | `TypeCorrect` | | `TypeOK` |
| | `OnlyLateIsStale`, `SquirrelsHaveOneOwner`, `WaitsInTimeDeliver` | | `NoStaleUse`, `SquirrelsOwned`, `WaitsDeliver` |
| `SQIGluingProofs` | `LayoutFollows` | | `LayoutFollowsSize` |
| | `LayoutIsSound` | `Roomy`: a widget that expands in height is at least 2n - 3 pixels high, n the number of widgets; `Stacked`: what is unglued and reglued is glued to the top or the bottom | `LayoutSound` |
| `SQIExecProofs` | `TypeCorrect`, `RedirectionUndone`, `OutputDelivered` | | `TypeOK`, `DescriptorsRestored`, `OutputExact` |
| `SQIHookProofs` | `TypeCorrect` | | `TypeOK` |
| | `HooksOutliveCalls`, `InputsAreCounted`, `WindowsGetTheirInputs` | `Restricted`: only events of windows bring a value | `NothingStale`, `CountsCover`, `WindowInputs` |
| `SQIDataStructProofs` | `TypeCorrect`, `ElementsAreCounted`, `SortIsRight` | | `TypeOK`, `CountsExact`, `SortCorrect` |
| | `NothingGoesStale` | `Inside`: the functions iterate calls keep the size of vectors, and set does not write behind a full storage | `NothingStale` |
| | `ListTypeCorrect`, `ValuesSurviveEnds`, `ListElementsCounted` | `Disciplined`: functions keep global values out of lists of their own, and their own values out of lists of the global heap (`ListsGlobals` and `IndexLocals` are FALSE) | `ListTypeOK`, `ValuesSurvive`, `ElementsCounted` |

What carries each induction:

- `SQIHeap`. `HInv` is the invariant of `SQIObject`, read through the refinement
  mapping, and `Lasting`, what holds of the pointers. Neither is inductive alone: that
  `Free` is given an object of its heap needs `NoDangling`, and that a step of the
  pointers is one of `SQIObject` needs the pointers to be sound. `Sound` says that the
  objects of a heap are in some order, of which `top`, `bottom`, `next`, `previous` and
  `size` are read off; `FreeOrdered` shows that Free takes one place out of the order,
  in each of its three cases, and `AddSound` and `ImportSound` follow it. That `Chain`,
  a recursive function, computes the order is shown in `ChainIs`. Export is a fold over
  a recursively defined sequence; `Ranked` (no list holds itself, however deep) makes
  that sequence exist, and `VisitedIsExported` shows that it has exactly the objects
  `SQIObject` exports. `FramesOK` relates the iterators of Suicidal to the cells already
  emptied. For `CollectionsComplete`, `Swept` says that in the second pass everything
  from the top to `previous` is referred to or being deleted, also while a deletion
  started there removes other objects of the same list: that is why a stale `previous`
  is the only way to miss an object.
- `SQIVarMap`. REF of a living value is the number of TVariables that hold it
  (`Holders`) plus what the calls in progress count of it (`Protected`, a sum over
  frames of all threads and depths); `Counts` says so, and that a dead value has
  neither. A step changes one frame, so the sum changes by its weight before and after;
  that a value is shared, or set where it is already, makes no difference to the sums.
  A Set that comes back after its bound function finds a TVariable that may be another
  thread's by now: `FramesGood` says that it is gone or still the one its name leads to
  (`Linked`), and `Exclusive` that a call which has searched under the lock is the last
  one of the lock's owner. `OnlyMarkedIsStale` adds `CallsSafe`: without a mark one
  thread is in the map (`OneCaller`), below its last call are statements and bound
  functions (`Stacked`) whose names the calls above them leave alone (`OwnKeys`), the
  value given to Set is also one of a statement below (`AllBacked`), and what each frame
  has found is still so (`FramesCurrent`). A function bound to set may output the value
  being set when it is also the one being replaced: it is then held by the variable, by
  Set and by the statement, so it does not die in between (`CountedTwice`). With the
  mark "old" it may.
- `SQIBinding`. `GetSlot` says that the slot of get holds a block or a call but not
  both, a call with its list of inputs, and that the other slots are empty; the counts
  and `last` follow step by step.
- `SQIThread`. All is about threads that are not late. `Staged` says what the data of a
  thread hold at each stage of its end, `DataLive` until when they are allocated,
  `WaitedLive` that a thread someone waits for keeps its data and has one waiter,
  `KilledLive` that one that is being killed is stopped, has one killer, and that nobody
  waits for it between the test of `waited` and the deletion (a wait there would be
  late), `OneOwner` that a squirrel belongs to the pool or to one thread that has not
  returned it, and `CountsRight` that waitfor all has counted exactly the ended threads
  whose flag it has reset.
- `SQIExec`. The lock of `be_app` makes the redirection exclusive (`Critical`), so a
  program is loaded while descriptor 1 is the pipe of its own call (`Outputs`). What
  was read followed by what is still in the pipe (`Sent`) is then, but for lines of
  scripts, exactly the first lines of that program, in order (`LinesExact`), at every
  moment; `OutputExact` is the part of it that has been read.
- `SQIGluing`. `FollowIInv` says that the window expects no more messages than are
  under way, and that the layout is for its size when it expects them all. The bounds a
  gluing computes are those of a fold over the gluing sequence; that they begin at the
  corner of the window is shown for sequences of every length (`FoldExists` builds the
  function that `FoldLeft` chooses, by induction over a set of numbers; `LoopBounds`).
  For `LayoutSound`, `LayoutIInv` says that the frames are laid out (`Laid`: inside the
  bounds, and no two cover each other), that what is glued fits into the least size of
  the window (`Fits`: each widget takes its size along one axis and at most what is
  there along the other), and that no widget has lost more of its height than expanding
  can take (`Loss`). `GluedOne` and `GluedAll` carry a layout through DynamicGluing and
  ReGluing widget by widget; `StaticLaid` shows for StaticGluing, along one axis and then
  the other, that the widgets from the first side and those from the last do not meet
  in bounds they fit into (`Axis`). `RoomAlong` and `RoomAcross` say what FindClosest
  leaves free. It leaves -1 where the edges of two neighbours share a row, so expanding
  in height can cost a widget a pixel on each side: at most `Loss(n)` for n widgets,
  hence `Roomy`.
- `SQIHook`. `Counts` is exact for nodes and covering for objects. `Shared` says why
  the exchange of lists through `args` does no harm: the calls of a node that is a
  call of a function are of one hook, and their lists hold the same, so what DelArgs
  releases, whosever list it is, is what its caller owed. `Window` says that a direct
  call, which has no reference to its node, keeps it through its hook, which is still set
  and not being changed; `Pending`, what a change relies on between its steps: the action
  is NULL before the extra inputs of an unhooked event go, and the node to be set is
  nobody's yet. `Fields` and `Own` say whose list `args` may be.

- `SQIDataStruct`. The references to a number are places: of a vector (`Held`), of the
  dictionary, a variable, the argument of iterate. `Exact` says that `REF` and
  `contained` are the numbers of these places and of the lost references, `Kept` that
  what has a place lives, and `Walking` that iterate goes over a vector that a variable
  keeps and makes one that no script can name before it is done; a step changes the
  places of one vector or of one key (`Follows`), or takes those of several vectors
  that die at once. What a loop of push_back or of the partition computes is shown turn
  by turn (`Loop`, for the folds of the model). For `SortIsRight`, what the partition
  leaves before its cut is not greater, what is behind it not less (`Parted`), so by
  induction over the length of a part (well-founded, over a set) `Sorted` leaves each
  part in order and the rest alone (`SortedPart`); that the elements are the same ones
  is that each swap only reorders them (`Order`).
- `SQIList`. `MemOK` says of a memory that its counts are exact, given how often
  variables and statements refer to each object (`Roots`): `contained` is the number of
  places in lists plus what a deleted heap has lost, `REF` adds the roots (`Balances`);
  that elements of lists live (`Lives`); and that a list outside the function's heap has
  no element in that heap (`Homes`). Each operation of the memory (`AddRef`, `RemRef`,
  `Destroyed` of a set, `Export`, `Add2End`, and the loop over it that builds a list)
  takes such a memory to one with the roots that follow from it, and each primitive is a
  chain of these. When the function ends, its variables give their roots back, so
  nothing outside its heap refers to anything in it, by `Homes` and `GlobalsHome` (no
  global variable has a value there); and a list that goes with the heap leaves behind
  exactly the references its elements elsewhere lose. Both restrictions of `Disciplined`
  are needed for `Homes`. The three properties follow from this invariant; none of them is
  inductive.

Only model-checked: all liveness (TLAPS has no rule for ENABLED). Every invariant a
passing run checks is a theorem.

## 5. What the models show of the code

One run ends in a counterexample, against what the manual says; `PROJECT.json` quotes
it. `varmap_wakeup`: Wait enlists the thread and then suspends it, and an update in
between resumes a thread that does not sleep yet (`A/Threading/SQI-thread.cpp:724`).

The passing runs hold under restrictions on scripts that the constants state, or up to
what the marks (`marks`, `late`, `met`) and the properties except, each there because the
code misbehaves otherwise. To see the counterexample, give the constant the other value
in the cfg, or take the exception out, and check the property named; "not run" marks a
definition of the module that no run checks, because it fails.

| Restriction | Without it |
|---|---|
| `SQIHeap`: `GCComplete`, not run | with five objects, a collection may stop early, as it goes on from a freed `previous` (`S/SQI-heap.cpp:115`; "now we delete all the rest", `:99`); `GCCompleteUnlessStale` is what remains |
| `SQIHeap`: `GCReportsDeleted`, not run | a collection deletes eternal elements of a dying list in another heap and does not count them, though `S/SQI-heap.cpp:55` says "number of object deleted" |
| `SQIVarMap`: `NoStaleUse` excepts `"overlap"` | a thread that sets, gets or erases a variable between the steps of another's Set, Get or Remove deletes what the other goes on with (`S/SQI-varmap.cpp:272`, `:404`); two threads in one binding share its inputs, and the function of one runs with those of the other, which may be gone, or with none (`:560-573`). A SQI_Locker around each statement rules this out |
| `SQIVarMap`: `NoStaleUse` excepts `"reentry"` | a function bound to set that erases its own variable leaves Set with a deleted TVariable (`:272`) |
| `SQIVarMap`: `NoStaleUse` excepts `"old"` | a function bound to set that outputs the old value, which nothing else holds, gives the variable a deleted one (`:276`). The behaviour ends there (`fault = "value"`), before a count is wrong, so `MapExact` needs no exception |
| `SQIVarMap`: `NoStaleUse` says nothing of `fault = "unbound"` | unbind of set or erase of a variable that has no such binding follows NULL (`A/WorkSpace/SQI-workspace.cpp:944`) |
| `SQIVarMap`: `CallsReturn` excepts `"get"` | reading a variable with a function bound to get leaves the map's lock taken (`S/SQI-varmap.cpp:401`, `:609`; `LockIsReleased` says that nothing else does), and other threads wait for ever |
| `SQIBinding`: `Modes = {"get"}` | with set, a function bound after a block does not run (`LastBindingRuns`; `A/WorkSpace/SQI-workspace.cpp:805`); with erase, a first block is bound to get (`:727`) |
| `SQIBinding`: `Extras = {TRUE}` | unbinding a function without extra inputs follows NULL (`LastBindingRuns`; `:944`) |
| `SQIThread`: `NoStaleUse`, `SquirrelsOwned` and `WaitsDeliver` except `late` threads | a thread that has ended has deleted its data and left its entry: Thread.kill and Thread.waitfor follow it (`S/Threading.cpp:85`, `A/Threading/SQI-thread.cpp:249`, `:295`); one that is killed while it ends has its squirrel in the pool and deleted (`:251`), and the next Thread runs on it; a wait that begins between Thread.kill's test and its deletion follows freed data (`:249-252`); one thread that two squirrels wait for is deleted by the first |
| `SQIThread`: `NoStaleUse` names the threads of `"garbage"` and `"unset"` and does not exclude them | `ret` has no value for a block or after an exception, and a wait exports whatever is there (`S/Threading.cpp:34`); Thread.waitfor first returns a pointer nobody has set if its thread was killed, has no output, or has set `terminated` and not yet `output` (`A/Threading/SQI-thread.cpp:321`, `:375-384`). Both happen in the passing run, for threads that nobody was late for |
| `SQIThread`: `OutputsDelivered`, not run | Thread.waitfor all goes by `terminated`, which is set before `output` (`S/Threading.cpp:89-90`): a thread between the two is counted and its output is not in the list (`A/Threading/SQI-thread.cpp:425`, `:448`), though the primitive "will wait for the end of all the threads before producing a list" (`G/threading.tex:149`) and "the output of the function will be returned" (`:29`). `WaitsDeliver` excepts `pc = "flag"` for all, and only for all |
| `SQIThread`: `AfterLate = FALSE` (a bound, not a hypothesis) | more calls after a late one; the theorems cover them |
| `SQIThread`: `Suspends # "any"` | `wait_for_thread` resumes a suspended thread, but one suspended later keeps its waiter waiting (`WaitReturns`) |
| `SQIThread`: `HopingListsRunning`, not run | Thread.hoping lists threads that have ended (`G/threading.tex:111`) |
| `SQIExec`: `StatusDelivered`, not run | a program that ends before its monitor waits for it leaves the status unset (`A/Exec/SQI-exec.cpp:49`) |
| `SQIExec`: `CallsReturn` excepts stale monitors | a caller of exec.bg that ends before its monitor has looked at it leaves its program suspended, with the pipe ends it inherited (`:80`) |
| `SQIGluing`: `Regluable = {"top", "bottom"}` | regluing never grows the height for a widget glued to the left or right, which then sticks out (`LayoutSound`; `A/GUI/SQI-window.cpp:1731`) |
| `SQIGluing`: `Roomy`, heights of widgets that expand | between two neighbours whose edges are in the rows of its own, a widget one pixel high that expands in height shrinks at both sides and is turned inside out (`LayoutSound`, with five widgets; FindClosest, `A/GUI/SQI-glue.cpp:163`) |
| `SQIGluing`: `LayoutFollowsSize` excepts `unsent` | a gluing that leaves the window its size sends no message but is counted, and the next resize by the user is ignored (`A/GUI/SQI-window.cpp:430`) |
| `SQIHook`: `Fresh` without widgets (`MCListed` has one) | a call reads, or releases, the list of another (`S/SQI-node.cpp:133`; `InputsDelivered`, not run, although "it was causing problem with widget hook running on thread", `:116`; also `NothingStale` and `CountsCover`) |
| `SQIHook`: a behaviour ends with `met` | Hook and UnHook give the action up and reassign it later, without the lock of the window (`A/GUI/SQI-window.cpp:679-707`, `:763-764`): an event in between runs a deleted node; a hook of a window that is removed while it runs, also by itself, is deleted under it (`NothingStale`) |
| `SQIDataStruct`: `InCall` without `"size"` | append or erase from the function iterate calls invalidates its iterator (`NothingStale`; `A/Data Structures/Vector.cpp:705`) |
| `SQIDataStruct`: `Past = "capacity"` | `"beyond"` is what the code allows: an index one past the storage (`NothingStale`; `:284`) |
| `SQIList`: `ListsGlobals = FALSE` | a function that puts the value of a global variable in a list of its own moves the value to its heap, and takes it along when it ends (`ValuesSurvive`; `S/SQI-list.cpp:281`) |
| `SQIList`: `IndexLocals = FALSE` | lindex does not move what it stores: a number a function stores in a global list goes with the function (`ValuesSurvive`; `A/List Processing/SQI-listh.cpp:573`) |
| `SQIList`: `LiteralsUnchanged`, not run | lremove changes a list of the program text (`:901`), which lindex and lappend refuse: "cannot mutate an Eternal object , make a clone first" (`:581`, `:645`) |
| `SQIList`: `EqualListsEqual`, not run | lists are compared by the addresses of their elements (`S/SQI-list.cpp:502`; "return true if 2 list are equal", `:481`) |

What the models record without a property against it: `pipe()` of exec.wait is
outside the lock, so the program of another call may inherit the write end, and
exec.wait then returns only after that program too; what other squirrels print
during a redirection goes into the pipe; ungluing the last widget leaves
`RealBounds`; alignment in the centre drops half a pixel; VECTOR~erase never
releases the element, nor VECTOR~set between size and capacity what it stores there
(`lost`); lremove of an empty list follows a pointer nothing has set (`crashed` of
`SQIList`, `A/List Processing/SQI-listh.cpp:899`).

Seen in reading, and in no model: a function bound to a new TBind is counted by its
creation and again by bind (`A/WorkSpace/SQI-workspace.cpp:796`); a block bound to
erase, or a function without an output, keeps the variable (`S/SQI-varmap.cpp:218`);
the number GC returns is a difference of sizes (`S/SQI-heap.cpp:130`); find.last of a
vector stops before the first element (`A/Data Structures/Vector.cpp:843`);
lfind outputs false where `G/listproc.tex:55` says 0; ljoin drops one character of a
longer separator; Max, Min and Sum of a list without numbers return a pointer that
was never set (`S/SQI-list.cpp:745`); lscan has set the first variables when it
rejects a later name.

## 6. Not modelled, and why

- Numbers, strings, images, streams, archives: conversion and formatting, no state
  of their own; they are the atoms of `SQIObject`.
- The evaluator and the parser: `SQI_Squirrel` is not in the repository and the
  parser is generated. User functions and their redefinition (`SQI_UFuncMap`) have
  their interesting half in the evaluator.
- Widgets, mail, plots, FITS, files: input and output through system libraries.
- Data races on single words (`REF++` by two threads) and on the tree of
  `TheThreads`: every access is one step here.
- SQI_Locker, the lock object of scripts: a BLocker with two members.
- Locks held by a thread that is killed: `SQIThread` has no locks and `SQIVarMap` no
  kill.
- Of Exec: exec.launch, and the splitting of long lines by fgets.
- Of the layout: the copies of the code in `SQI-box.cpp` and `SQI-frame.cpp`,
  margins, updates while hidden, zooming. `Virtual2Real` and `SQI_BWidget` are not
  in the repository; the window's user is external. The frames of the model are those the
  widgets keep: the moving of the views to them, which the return out of the first loop of
  ExpandChilds skips (`A/GUI/SQI-window.cpp:1443`), is left out. Glue adds the views to
  the window before it locks it (`A/GUI/SQI-bwindow.cpp:1654-1666`); no frame changes in
  between, and Glue is one step.
- Of the hooks: the quit hook and the end of a window (`SQI_BWindow` without its
  `MagicPtr`, `A/GUI/SQI-bwindow.cpp:133`), two changes of hooks by scripts at a time,
  Clone of a menu, which copies an action without counting it. The making of a list of
  inputs and its use by the window's thread are one step; what a change of the hook in
  between leads to is what it leads to as soon as the hook runs (`Meet`).
- Of the containers: vectors as elements, the export of elements to the heap of
  their container, iterate of the dictionary, extra inputs of iterate, the methods
  that only compute. `Vector.h` is not in the repository. The vector whose iterate runs
  keeps its variable during the call (`VSuicidal`): that a call holds its object is known
  from other add-ons' use of the evaluator only.
- Of the lists: lscan, which sets variables through the evaluator; gseq, ljoin, lfind
  and others, which only compute; the output of a thread, which the evaluator
  protects.
- Vendored code (pccts, antlr, kazlib, cfitsio), which is most of the lines of the
  tree.

## 7. Plan

Done: `SQIObject` and its proofs, `SQIHeap` and the refinement, `SQIVarMap`,
`SQIBinding`, `SQIThread`, `SQIExec`, `SQIGluing`, `SQIHook`, `SQIDataStruct`,
`SQIList`.

Proofs: `SQIObject`, `SQIHeap`, `SQIVarMap`, `SQIBinding`, `SQIThread`, `SQIExec`, `SQIHook`,
`SQIGluing`, `SQIDataStruct`, `SQIList`.

Next, in this order:

1. A composition of `SQIVarMap` with kills: a thread killed while it holds the lock
   of the map.
2. User functions: definition, redefinition and removal in `SQI_UFuncMap` while
   calls run.
3. The end of a window, and the boxes' copies of the layout.
