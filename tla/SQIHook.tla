------------------------------- MODULE SQIHook -------------------------------
(***************************************************************************)
(* The hooks of the windows, widgets and menus of the GUI add-on, while    *)
(* scripts set and remove them: a window runs its own hooks in its thread, *)
(* a widget or a menu spawns a thread for each event (Squirrel_Thread),    *)
(* and all the calls of one hook share the node they execute, with its one *)
(* field args.                                                             *)
(*                                                                         *)
(* The inputs of a call are in a list named after the call: the object     *)
(* Extra that the script gave with the hook and, for the hooks in Fresh, a *)
(* value made for this event, also named after the call.  The window or    *)
(* widget itself, the first input, is left out.                            *)
(*                                                                         *)
(* Hook and UnHook give the old node up and then change the hook, in steps *)
(* and without the lock of the window.  One script at a time changes a     *)
(* hook, and the thread of a window makes the inputs of an event and uses  *)
(* the hook in one step.  An event that comes in the middle of a change of *)
(* its hook, or a change of a hook a window is running, sets met, and the  *)
(* behaviour ends: the thread uses a node that was given up.               *)
(***************************************************************************)
EXTENDS Integers, FiniteSets

CONSTANTS
  Hooks,    \* the places a hook is set at: an event of a window or a widget, a menu item
  Direct,   \* those the window runs in its own thread: the events of a window
  Menus,    \* those that are menu items
  Fresh,    \* those whose events carry a value of their own
  Nodes,    \* the addresses of the nodes executed
  Blocks,   \* those that are blocks of the program text; the others are calls of functions
  Calls,    \* bound: how many calls are in progress, and their lists and values
  Extra,    \* the extra input
  MaxRef,   \* bound: the count of the extra input when an event comes or a hook is set
  NULL

ASSUME HookAssumption ==
  /\ Direct \subseteq Hooks /\ Menus \subseteq Hooks \ Direct /\ Fresh \subseteq Hooks \ Menus
  /\ Blocks \subseteq Nodes /\ Nodes \cap (Calls \cup {Extra}) = {}
  /\ MaxRef \in Nat /\ Extra \notin Calls /\ NULL \notin Hooks \cup Nodes \cup Calls \cup {Extra}
  /\ IsFiniteSet(Hooks) /\ IsFiniteSet(Calls)

VARIABLES
  live,   \* the nodes and objects that exist
  REF,    \* SQI_Object::REF
  hooks,  \* THook: the action and whether the list extra is there
  args,   \* SQI_Node::args
  lists,  \* the lists of inputs that exist, with what they hold
  calls,  \* the calls in progress
  held,   \* the script has a variable whose value is Extra
  change, \* the call of Hook or UnHook in progress
  met,    \* an event and a change of its hook have met
  fault   \* freed memory was used

vars == <<live, REF, hooks, args, lists, calls, held, change, met, fault>>

Objects == Calls \cup {Extra}
NoList  == {NULL}
NoChange == [pc |-> "idle", hook |-> NULL, node |-> NULL, extra |-> FALSE]
Idle    == [hook |-> NULL, node |-> NULL, pc |-> "idle", read |-> NULL, inputs |-> {}]

TypeOK ==
  /\ live \in SUBSET (Nodes \cup Objects) /\ REF \in [Nodes \cup Objects -> Nat]
  /\ hooks \in [Hooks -> [action : Nodes \cup {NULL}, extra : BOOLEAN]]
  /\ args \in [Nodes -> Calls \cup {NULL}]
  /\ lists \in [Calls -> (SUBSET Objects) \cup {NoList}]
  /\ \A c \in Calls : calls[c] = Idle => lists[c] = NoList
  /\ calls \in [Calls -> {Idle} \cup
       [hook : Hooks, node : Nodes, read : Calls \cup {NULL}, inputs : SUBSET Objects,
        pc : {"start", "set", "run", "compare", "del", "clear", "end"}]]
  /\ change \in {NoChange}
       \cup [pc : {"clear", "free"}, hook : Hooks, node : {NULL}, extra : {FALSE}]
       \cup [pc : {"free", "set"}, hook : Hooks, node : Nodes, extra : BOOLEAN]
  /\ held \in BOOLEAN /\ met \in BOOLEAN /\ fault \in BOOLEAN

Init ==
  /\ live = Blocks \cup {Extra}
  /\ REF = [o \in Nodes \cup Objects |-> IF o \in live THEN 1 ELSE 0]
  /\ hooks = [h \in Hooks |-> [action |-> NULL, extra |-> FALSE]]
  /\ args = [n \in Nodes |-> NULL]
  /\ lists = [c \in Calls |-> NoList] /\ calls = [c \in Calls |-> Idle]
  /\ held = TRUE /\ change = NoChange /\ met = FALSE /\ fault = FALSE

-----------------------------------------------------------------------------
AddRef(R, S)   == [o \in DOMAIN R |-> IF o \in S THEN R[o] + 1 ELSE R[o]]
RemRef(R, S)   == [o \in DOMAIN R |-> IF o \in S /\ R[o] > 0 THEN R[o] - 1 ELSE R[o]]
Survivors(R, S) == {o \in live : o \in S => RemRef(R, S)[o] > 0}

\* Every object of S loses a reference; one that does not exist any more is
\* freed memory.
Release(S) ==
  /\ REF' = RemRef(REF, S)
  /\ live' = Survivors(REF, S)
  /\ fault' = (fault \/ ~(S \subseteq live))

IsDirect(c)  == calls[c].hook \in Direct
Contents(k)  == IF k = NULL \/ lists[k] = NoList THEN {} ELSE lists[k]
ExtraOf(h)   == IF hooks[h].extra THEN {Extra} ELSE {}
At(c, label) == calls' = [calls EXCEPT ![c].pc = label]

\* The thread of the window is running the hook.
InUse(h) == \E c \in Calls : IsDirect(c) /\ calls[c].hook = h

\* The caller of Hook has counted the extra input; the action that was there
\* is given up first.  A menu item gets its hook once, with the item.
Hook(h, n, extra) ==
  LET old == {hooks[h].action} \ {NULL}
      new == IF extra THEN AddRef(REF, {Extra}) ELSE REF
  IN /\ change = NoChange /\ ~InUse(h) /\ (h \in Menus => hooks[h].action = NULL)
     /\ n \in Blocks \/ n \notin live
     /\ extra => held /\ REF[Extra] < MaxRef /\ ~(n \in Blocks /\ h \in Menus)
     /\ REF' = RemRef(new, old) /\ live' = Survivors(new, old)
     /\ fault' = (fault \/ ~(old \subseteq live))
     /\ change' = [pc |-> IF old = {} THEN "set" ELSE "free", hook |-> h, node |-> n, extra |-> extra]
     /\ UNCHANGED <<hooks, args, lists, calls, held, met>>

UnHook(h) ==
  /\ change = NoChange /\ ~InUse(h) /\ h \notin Menus
  /\ hooks[h].action # NULL
  /\ Release({hooks[h].action})
  /\ change' = [pc |-> "clear", hook |-> h, node |-> NULL, extra |-> FALSE]
  /\ UNCHANGED <<hooks, args, lists, calls, held, met>>

\* UnHook: the action is NULL.
ClearHook ==
  /\ change.pc = "clear" /\ change' = [change EXCEPT !.pc = "free"]
  /\ hooks' = [hooks EXCEPT ![change.hook].action = NULL]
  /\ UNCHANGED <<live, REF, args, lists, calls, held, met, fault>>

\* Both: the old extra inputs are given up, and their list.
FreeExtra ==
  /\ change.pc = "free"
  /\ change' = IF change.node = NULL THEN NoChange ELSE [change EXCEPT !.pc = "set"]
  /\ Release(ExtraOf(change.hook))
  /\ hooks' = [hooks EXCEPT ![change.hook].extra = FALSE]
  /\ UNCHANGED <<args, lists, calls, held, met>>

\* Hook: the new action and its inputs.  With a block, the extra input stays
\* counted and is forgotten (a menu ignores it).
SetHook ==
  LET n == change.node
  IN /\ change.pc = "set" /\ change' = NoChange
     /\ REF' = AddRef(IF n \in Blocks THEN REF ELSE [REF EXCEPT ![n] = 0], {n})
     /\ live' = live \cup {n}
     /\ hooks' = [hooks EXCEPT ![change.hook] =
                    [action |-> n, extra |-> change.extra /\ n \notin Blocks]]
     /\ args' = [args EXCEPT ![n] = NULL]
     /\ UNCHANGED <<lists, calls, held, met, fault>>

\* The script's own variable goes.
DropExtra ==
  /\ held /\ held' = FALSE
  /\ Release({Extra})
  /\ UNCHANGED <<hooks, args, lists, calls, change, met>>

-----------------------------------------------------------------------------
LooperIdle == \A c \in Calls : IsDirect(c) => calls[c].pc = "idle"

\* An event: the thread of the window makes the list of inputs, counts them,
\* and uses the hook.  A block takes no inputs: they are released at once.  A
\* spawned thread gets a reference to the node, the window's thread does not.
Fire(h, c) ==
  LET n     == hooks[h].action
      own   == IF h \in Fresh THEN {c} ELSE {}
      given == own \cup ExtraOf(h)
      fresh == [REF EXCEPT ![c] = 0]
  IN /\ LooperIdle /\ change.hook # h /\ REF[Extra] <= MaxRef
     /\ calls[c] = Idle /\ c \notin live /\ n # NULL
     /\ REF' = AddRef(fresh, (IF n \in Blocks THEN {} ELSE given)
                             \cup (IF h \in Direct THEN {} ELSE {n}))
     /\ live' = IF n \in Blocks THEN live ELSE live \cup own
     /\ lists' = [lists EXCEPT ![c] =
                    IF n \in Blocks \/ (h \in Menus /\ ~hooks[h].extra) THEN NoList ELSE given]
     /\ calls' = [calls EXCEPT ![c] = [Idle EXCEPT !.hook = h, !.node = n, !.pc = "start"]]
     /\ fault' = (fault \/ ~({n} \cup ExtraOf(h) \subseteq live))
     /\ UNCHANGED <<hooks, args, held, change, met>>

\* The thread of the window and a script meet at a hook: an event comes while
\* the hook still has the action that Hook or UnHook has given up, or a hook
\* changes while the window runs it.
Meet(h) ==
  /\ \/ change.hook = h /\ hooks[h].action # NULL /\ LooperIdle
     \/ change = NoChange /\ InUse(h)
  /\ met' = TRUE
  /\ UNCHANGED <<live, REF, hooks, args, lists, calls, held, change, fault>>

\* SetArgs forgotten: the call finds what another left.
SetArgsNot(c) ==
  /\ calls[c].pc = "start" /\ At(c, "set")
  /\ fault' = (fault \/ calls[c].node \notin live)
  /\ UNCHANGED <<live, REF, hooks, args, lists, held, change, met>>

\* SetArgs before the call of the function, when there is a list.
SetArgs(c) ==
  LET n == calls[c].node
  IN /\ calls[c].pc = "start" /\ At(c, "set")
     /\ args' = IF lists[c] = NoList THEN args ELSE [args EXCEPT ![n] = c]
     /\ fault' = (fault \/ n \notin live)
     /\ UNCHANGED <<live, REF, hooks, lists, held, change, met>>

\* The evaluator takes the inputs from the node, whoever put them there, and
\* counts them for as long as the function runs.
Read(c) ==
  LET n == calls[c].node
      k == args[n]
      S == IF n \in Blocks THEN {} ELSE Contents(k)
  IN /\ calls[c].pc = "set"
     /\ calls' = [calls EXCEPT ![c].pc = "run", ![c].read = k, ![c].inputs = S]
     /\ REF' = AddRef(REF, S)
     /\ fault' = (fault \/ n \notin live \/ ~(S \subseteq live)
                        \/ (n \notin Blocks /\ k # NULL /\ lists[k] = NoList))
     /\ UNCHANGED <<live, hooks, args, lists, held, change, met>>

\* What follows the call of the function: DelArgs after an exception, and
\* always in the thread of a window.  A spawned thread that returns asks first.
Then(c, thrown) ==
  IF calls[c].node \in Blocks \/ lists[c] = NoList THEN "end"
  ELSE IF IsDirect(c) \/ thrown THEN "del" ELSE "compare"

Finish(c) ==
  /\ calls[c].pc = "run"
  /\ Release(calls[c].inputs)
  /\ \E thrown \in BOOLEAN :
       calls' = [calls EXCEPT ![c].pc = Then(c, thrown), ![c].inputs = {}]
  /\ UNCHANGED <<hooks, args, lists, held, change, met>>

\* The own list released whatever the node holds.
CompareTwice(c) ==
  /\ calls[c].pc = "compare"
  /\ At(c, IF args[calls[c].node] = c THEN "del" ELSE "end")
  /\ Release(lists[c])
  /\ UNCHANGED <<hooks, args, lists, held, change, met>>

\* "if(func->GetArgs() == thread->args)", and the release of its own list if not.
Compare(c) ==
  /\ calls[c].pc = "compare"
  /\ IF args[calls[c].node] = c
     THEN At(c, "del") /\ UNCHANGED <<live, REF, fault>>
     ELSE At(c, "end") /\ Release(lists[c])
  /\ UNCHANGED <<hooks, args, lists, held, change, met>>

\* DelArgs: its loop, over whatever list the node holds then, and args = NULL.
DelArgs(c) ==
  LET n == calls[c].node
  IN /\ calls[c].pc = "del" /\ At(c, "clear")
     /\ REF' = RemRef(REF, Contents(args[n]))
     /\ live' = Survivors(REF, Contents(args[n]))
     /\ fault' = (fault \/ n \notin live \/ ~(Contents(args[n]) \subseteq live)
                        \/ (args[n] # NULL /\ lists[args[n]] = NoList))
     /\ UNCHANGED <<hooks, args, lists, held, change, met>>

\* args left pointing to the list.
ClearArgsNot(c) ==
  /\ calls[c].pc = "clear" /\ At(c, "end")
  /\ UNCHANGED <<live, REF, hooks, args, lists, held, change, met, fault>>

ClearArgs(c) ==
  /\ calls[c].pc = "clear" /\ At(c, "end")
  /\ args' = [args EXCEPT ![calls[c].node] = NULL]
  /\ fault' = (fault \/ calls[c].node \notin live)
  /\ UNCHANGED <<live, REF, hooks, lists, held, change, met>>

\* The list forgotten.
EndCallKeepsList(c) ==
  /\ calls[c].pc = "end"
  /\ calls' = [calls EXCEPT ![c] = Idle]
  /\ IF IsDirect(c) THEN UNCHANGED <<live, REF, fault>> ELSE Release({calls[c].node})
  /\ UNCHANGED <<lists, hooks, args, held, change, met>>

\* The list is deleted; a spawned thread gives its reference to the node back.
EndCall(c) ==
  /\ calls[c].pc = "end"
  /\ calls' = [calls EXCEPT ![c] = Idle]
  /\ lists' = [lists EXCEPT ![c] = NoList]
  /\ IF IsDirect(c) THEN UNCHANGED <<live, REF, fault>> ELSE Release({calls[c].node})
  /\ UNCHANGED <<hooks, args, held, change, met>>

Next ==
  /\ ~met
  /\ \/ \E h \in Hooks, n \in Nodes, extra \in BOOLEAN : Hook(h, n, extra)
     \/ \E h \in Hooks : UnHook(h)
     \/ ClearHook
     \/ FreeExtra
     \/ SetHook
     \/ DropExtra
     \/ \E h \in Hooks, c \in Calls : Fire(h, c)
     \/ \E h \in Hooks : Meet(h)
     \/ \E c \in Calls : SetArgs(c)
     \/ \E c \in Calls : Read(c)
     \/ \E c \in Calls : Finish(c)
     \/ \E c \in Calls : Compare(c)
     \/ \E c \in Calls : DelArgs(c)
     \/ \E c \in Calls : ClearArgs(c)
     \/ \E c \in Calls : EndCall(c)

Spec == Init /\ [][Next]_vars

-----------------------------------------------------------------------------
\* The calls that have not released a list of inputs yet, their own or one
\* another call put in its place.
Owing(o) ==
  {c \in Calls : o \in Contents(c) /\ calls[c].pc \in {"start", "set", "run", "compare", "del"}}

(* No call executes a deleted node, reads a deleted list or uses a deleted
   input, although hooks are replaced and removed, in steps, under running
   calls and the calls of one hook exchange their lists through args: until the
   thread of a window and a script meet at a hook (met), nothing does. *)
NothingStale == ~fault

(* An input is never counted less than it is used: by the variable, by the
   hooks, by the one being set and by the calls that still owe a release or
   have it as an input.  A node is counted once by each hook that has not given
   it up and by each spawned call, and a block by the program. *)
CountsCover ==
  /\ \A o \in Objects \cap live :
       REF[o] >= Cardinality({h \in Hooks : hooks[h].extra /\ o = Extra}) + Cardinality(Owing(o))
                 + Cardinality({c \in Calls : o \in calls[c].inputs})
                 + (IF held /\ o = Extra THEN 1 ELSE 0)
                 + (IF change.extra /\ o = Extra THEN 1 ELSE 0)
  /\ \A n \in Nodes \cap live :
       REF[n] = Cardinality({h \in Hooks : hooks[h].action = n /\ change.hook # h})
                + Cardinality({c \in Calls : calls[c].node = n /\ ~IsDirect(c)})
                + (IF n \in Blocks THEN 1 ELSE 0)

GetsItsInputs(c) ==
  calls[c].pc = "run" /\ calls[c].node \notin Blocks /\ lists[c] # NoList => calls[c].read = c

(* A hook of a window is called with the list made for its event, whatever
   the threads of other hooks do meanwhile. *)
WindowInputs == \A c \in Calls : IsDirect(c) => GetsItsInputs(c)

(* Every call of a hook gets the list made for its event.  The calls of one
   widget's hook share one field, and lose or exchange their lists. *)
InputsDelivered == \A c \in Calls : GetsItsInputs(c)
=============================================================================
