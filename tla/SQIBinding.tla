----------------------------- MODULE SQIBinding -----------------------------
(***************************************************************************)
(* The bindings of one variable: bind and unbind, the functions the C++    *)
(* side installs, and the deletion of the variable.  A TBind holds a block *)
(* or a function call with a list of extra inputs (or no list), and a      *)
(* system function; the pointers are what matters here, so a block or call *)
(* is an address with its REF.  The tree of the script keeps blocks alive; *)
(* what ExecBinding does to the map meanwhile is in SQIVarMap.             *)
(***************************************************************************)
EXTENDS Integers, FiniteSets

CONSTANTS
  Blocks,   \* the blocks the scripts bind
  Calls,    \* the addresses of the calls interp->FindCall makes
  Modes,    \* the events the scripts name, of "get", "set" and "erase"
  Extras,   \* whether functions are bound with extra inputs: of TRUE and FALSE
  None      \* NULL: no TBind, block, function or binding

Slots  == {"get", "set", "erase"}
TBind  == [block : Blocks \cup {None}, function : Calls \cup {None},
           args : BOOLEAN,    \* args # NULL
           func : BOOLEAN]    \* func # NULL

ASSUME BindingAssumption ==
  /\ Modes \subseteq Slots /\ Extras \subseteq BOOLEAN
  /\ Blocks \cap Calls = {} /\ None \notin Blocks \cup Calls \cup TBind

VARIABLES
  bind,     \* TVariable::get, set and erase: None or a TBind
  refs,     \* SQI_Object::REF, as far as the bindings are concerned
  last,     \* history: what the script bound last to each event
  crashed   \* whether a NULL pointer was followed

bindVars == <<bind, refs, last, crashed>>

BindTypeOK ==
  /\ bind \in [Slots -> TBind \cup {None}]
  /\ refs \in [Blocks \cup Calls -> Nat]
  /\ last \in [Slots -> Blocks \cup Calls \cup {None}]
  /\ crashed \in BOOLEAN

Unbound == [e \in Slots |-> None]
BindInit ==
  /\ bind = Unbound /\ last = Unbound
  /\ refs = [o \in Blocks \cup Calls |-> 0]
  /\ crashed = FALSE

-----------------------------------------------------------------------------
NewBind  == [block |-> None, function |-> None, args |-> FALSE, func |-> FALSE]
Fewer(n) == IF n = 0 THEN 0 ELSE n - 1

\* RemRef and AddRef.
WithoutRef(o, R) == IF o = None THEN R ELSE [R EXCEPT ![o] = Fewer(@)]
WithRef(o, R)    == [R EXCEPT ![o] = @ + 1]

Crash == crashed' = TRUE /\ UNCHANGED <<bind, refs, last>>

\* What a slot runs now gives its reference back: its block, or else its call.
Runs(slot) == IF slot = None THEN None
              ELSE IF slot.block # None THEN slot.block ELSE slot.function

\* bind "variable "e {block}.  The list of extra inputs of a function it takes
\* the place of is walked, be there one or not.  A first block for erase lands
\* in the slot of get.
BindBlock(e, b) ==
  LET slot == bind[e]
  IN /\ ~crashed
     /\ IF slot = None
        THEN /\ bind' = [bind EXCEPT ![IF e = "erase" THEN "get" ELSE e] =
                           [NewBind EXCEPT !.block = b]]
             /\ refs' = WithRef(b, refs)
             /\ last' = [last EXCEPT ![e] = b]
             /\ UNCHANGED crashed
        ELSE IF slot.block = None /\ slot.function # None /\ ~slot.args THEN Crash
        ELSE /\ bind' = [bind EXCEPT ![e] =
                  IF slot.block # None THEN [slot EXCEPT !.block = b]
                  ELSE [slot EXCEPT !.block = b, !.function = None, !.args = FALSE]]
             /\ refs' = WithRef(b, WithoutRef(Runs(slot), refs))
             /\ last' = [last EXCEPT ![e] = b]
             /\ UNCHANGED crashed

\* Mutant: get treats its block as the code treats that of set and erase.
BindFunctionKeepsBlock(e, c, extra) ==
  LET slot == bind[e]
  IN /\ ~crashed
     /\ \A d \in Slots : bind[d] # None => bind[d].function # c
     /\ bind' = [bind EXCEPT ![e] = [(IF slot = None THEN NewBind ELSE slot)
                   EXCEPT !.function = c, !.args = extra]]
     /\ refs' = [WithoutRef(Runs(slot), refs) EXCEPT ![c] = IF slot = None THEN 2 ELSE 1]
     /\ last' = [last EXCEPT ![e] = c]
     /\ UNCHANGED crashed

\* bind "variable "e "function inputs.  Only get forgets the block it had; a call
\* in a new TBind is counted twice.
BindFunction(e, c, extra) ==
  LET slot == bind[e]
      kept == IF slot = None THEN NewBind
              ELSE IF e = "get" THEN [slot EXCEPT !.block = None] ELSE slot
  IN /\ ~crashed
     /\ \A d \in Slots : bind[d] # None => bind[d].function # c
     /\ bind' = [bind EXCEPT ![e] = [kept EXCEPT !.function = c, !.args = extra]]
     /\ refs' = [WithoutRef(Runs(slot), refs) EXCEPT ![c] = IF slot = None THEN 2 ELSE 1]
     /\ last' = [last EXCEPT ![e] = c]
     /\ UNCHANGED crashed

\* unbind "variable "e: only get is tested for a TBind, and a list of extra inputs
\* is walked, be there one or not.  The TBind stays for its system function.
Unbind(e) ==
  LET slot == bind[e]
      left == IF slot.block # None THEN [slot EXCEPT !.block = None]
              ELSE [slot EXCEPT !.function = None, !.args = FALSE]
  IN /\ ~crashed
     /\ IF slot = None
        THEN IF e = "get" THEN UNCHANGED bindVars ELSE Crash
        ELSE IF slot.block = None /\ slot.function # None /\ ~slot.args THEN Crash
        ELSE /\ bind' = [bind EXCEPT ![e] = IF slot.func THEN left ELSE None]
             /\ refs' = WithoutRef(Runs(slot), refs)
             /\ last' = [last EXCEPT ![e] = None]
             /\ UNCHANGED crashed

\* SQI_VarMap::SetSystemFunc and RemoveSystemFunc, for the event e.
SetSystemFunc(e) ==
  /\ ~crashed
  /\ bind' = [bind EXCEPT ![e] = [(IF @ = None THEN NewBind ELSE @) EXCEPT !.func = TRUE]]
  /\ UNCHANGED <<refs, last, crashed>>

RemoveSystemFunc(e) ==
  /\ ~crashed /\ bind[e] # None
  /\ bind' = [bind EXCEPT ![e].func = FALSE]
  /\ UNCHANGED <<refs, last, crashed>>

\* Mutant: the blocks keep their references when the variable goes.
DeleteBindingCallsOnly ==
  /\ ~crashed /\ bind # Unbound
  /\ refs' = [o \in DOMAIN refs |->
       IF \E e \in Slots : bind[e] # None /\ bind[e].function = o THEN Fewer(refs[o]) ELSE refs[o]]
  /\ bind' = Unbound /\ last' = Unbound
  /\ UNCHANGED crashed

\* Mutant: whatever a TBind runs gives its reference back once for each event.
DeleteBindingPerEvent ==
  LET runs == {Runs(bind[e]) : e \in Slots}
  IN /\ ~crashed /\ bind # Unbound
     /\ refs' = [o \in DOMAIN refs |-> IF o \in runs THEN refs[o] - Cardinality(Slots) ELSE refs[o]]
     /\ bind' = Unbound /\ last' = Unbound
     /\ UNCHANGED crashed

\* DeleteBinding, and a new variable of the same name: of each TBind the function
\* gives its reference back, or else the block.
DeleteBinding ==
  LET holds(o) == {e \in Slots : bind[e] # None /\
                     \/ bind[e].function = o
                     \/ bind[e].function = None /\ bind[e].block = o}
      less(n, m) == IF n <= m THEN 0 ELSE n - m
  IN /\ ~crashed /\ bind # Unbound
     /\ refs' = [o \in DOMAIN refs |-> less(refs[o], Cardinality(holds(o)))]
     /\ bind' = Unbound /\ last' = Unbound
     /\ UNCHANGED crashed

BindNext ==
  \/ \E e \in Modes :
       \/ \E b \in Blocks : BindBlock(e, b)
       \/ \E c \in Calls, extra \in Extras : BindFunction(e, c, extra)
       \/ Unbind(e) \/ SetSystemFunc(e) \/ RemoveSystemFunc(e)
  \/ DeleteBinding

BindSpec == BindInit /\ [][BindNext]_bindVars

-----------------------------------------------------------------------------
(* "A variable accepts only one binding for each event. If we set two binding
   sequentially on a variable, only the last one will be executed" (Variable
   Binding): what ExecBinding finds first in the slot of an event is what the
   script bound to it last, whatever was bound and unbound before, and no such
   sequence follows a NULL pointer. *)
LastBindingRuns == ~crashed /\ \A e \in Slots : Runs(bind[e]) = last[e]

(* A block is counted once for each event that may run it, so that it is given
   back exactly as often; a call that may run is still counted. *)
BindingsCounted ==
  /\ \A b \in Blocks : refs[b] = Cardinality({e \in Slots : bind[e] # None /\ bind[e].block = b})
  /\ \A e \in Slots : bind[e] # None /\ bind[e].function # None => refs[bind[e].function] > 0
=============================================================================
