---------------------------- MODULE SQIHookProofs ----------------------------
(***************************************************************************)
(* SQIHook: the types hold for every value of the constants; that nothing  *)
(* freed is used, that the counts cover the uses and that a window's hook  *)
(* gets its inputs hold when the constants are Restricted.                 *)
(*                                                                         *)
(* The calls of one node share its field args, so a call may release the   *)
(* list of another.  IInv says why that is no harm: the calls of a node    *)
(* that is a call of a function are all of one hook and their lists hold   *)
(* the same (Shared), so that what DelArgs releases, whosever list it is,  *)
(* is what the call owed; and a direct call, which has no reference to its *)
(* node, keeps it through its hook, which is still set and not being       *)
(* changed (Window).  Pending is what a change relies on between its steps. *)
(***************************************************************************)
EXTENDS SQIHook, FiniteSetTheorems, TLAPS

Labels  == {"start", "set", "run", "compare", "del", "clear", "end"}
CallRec == [hook : Hooks, node : Nodes, read : Calls \cup {NULL}, inputs : SUBSET Objects, pc : Labels]

LEMMA Apart ==
  /\ NULL \notin Hooks /\ NULL \notin Nodes /\ NULL \notin Calls /\ NULL \notin Objects
  /\ Extra \notin Calls /\ Nodes \cap Objects = {} /\ Calls \subseteq Objects /\ Extra \in Objects
  /\ Blocks \subseteq Nodes /\ Direct \subseteq Hooks
  /\ Menus \subseteq Hooks \ Direct /\ Fresh \subseteq Hooks \ Menus
BY HookAssumption DEF Objects

LEMMA IdleIs ==
  /\ Idle.hook = NULL /\ Idle.node = NULL /\ Idle.pc = "idle" /\ Idle.inputs = {}
  /\ \A r \in CallRec : r.pc # "idle" /\ r # Idle
<1>1. Idle.hook = NULL /\ Idle.node = NULL /\ Idle.pc = "idle" /\ Idle.inputs = {}
  BY DEF Idle
<1>2. \A r \in CallRec : r.pc \in Labels
  BY DEF CallRec
<1>3. "idle" \notin Labels
  BY DEF Labels
<1> QED BY <1>1, <1>2, <1>3

CallFields(r) == /\ r.hook \in Hooks /\ r.node \in Nodes /\ r.read \in Calls \cup {NULL}
                 /\ r.inputs \in SUBSET Objects /\ r.pc \in Labels

LEMMA FieldsAre == \A r \in CallRec : CallFields(r)
BY DEF CallRec, CallFields

CallsType == calls \in [Calls -> {Idle} \cup CallRec]
ListsType == /\ lists \in [Calls -> (SUBSET Objects) \cup {NoList}]
             /\ \A c \in Calls : calls[c] = Idle => lists[c] = NoList
Removing == [pc : {"clear", "free"}, hook : Hooks, node : {NULL}, extra : {FALSE}]
Setting  == [pc : {"free", "set"}, hook : Hooks, node : Nodes, extra : BOOLEAN]
Plain ==
  /\ live \in SUBSET (Nodes \cup Objects) /\ REF \in [Nodes \cup Objects -> Nat]
  /\ hooks \in [Hooks -> [action : Nodes \cup {NULL}, extra : BOOLEAN]]
  /\ args \in [Nodes -> Calls \cup {NULL}]
  /\ change \in {NoChange} \cup Removing \cup Setting
  /\ held \in BOOLEAN /\ met \in BOOLEAN /\ fault \in BOOLEAN

LEMMA TypeIs == TypeOK <=> Plain /\ CallsType /\ ListsType
BY DEF TypeOK, Plain, CallsType, ListsType, CallRec, Labels, Removing, Setting

LEMMA ListIs ==
  ASSUME ListsType, NEW c \in Calls
  PROVE  /\ Contents(c) \subseteq Objects /\ NoList # {}
         /\ lists[c] # NoList => Contents(c) = lists[c]
         /\ lists[c] = NoList => Contents(c) = {}
<1>1. lists[c] \in (SUBSET Objects) \cup {NoList} /\ c # NULL /\ NULL \notin Objects
  BY Apart DEF ListsType
<1>2. lists[c] # NoList => Contents(c) = lists[c]
  BY <1>1 DEF Contents
<1>3. lists[c] = NoList => Contents(c) = {}
  BY DEF Contents
<1>4. NoList # {}
  BY DEF NoList
<1>5. Contents(c) \subseteq Objects
  <2>1. CASE lists[c] = NoList
    BY <2>1, <1>3
  <2>2. CASE lists[c] # NoList
    BY <2>2, <1>1, <1>2
  <2> QED BY <2>1, <2>2
<1> QED BY <1>2, <1>3, <1>4, <1>5

-----------------------------------------------------------------------------
(* A call in progress.                                                     *)

LEMMA CallIs ==
  ASSUME CallsType, NEW c \in Calls
  PROVE  /\ calls[c] # Idle <=> calls[c] \in CallRec
         /\ calls[c].pc # "idle" <=> calls[c] # Idle
         /\ calls[c].node \in Nodes \/ calls[c].hook \in Hooks => calls[c] # Idle
         /\ calls[c] # Idle => CallFields(calls[c])
         /\ calls[c] = Idle => calls[c].hook = NULL /\ calls[c].node = NULL /\ calls[c].inputs = {}
                               /\ calls[c].pc = "idle"
         /\ IsDirect(c) => calls[c] # Idle /\ calls[c].hook \in Hooks
BY IdleIs, FieldsAre, Apart DEF CallsType, IsDirect

\* The call c goes on to the record r, the others stay where they are.
Moves(c, r) ==
  /\ c \in Calls /\ calls[c] # Idle /\ r \in CallRec
  /\ r.hook = calls[c].hook /\ r.node = calls[c].node
  /\ calls'[c] = r /\ \A d \in Calls \ {c} : calls'[d] = calls[d]
  /\ CallsType'

LEMMA Moved ==
  ASSUME CallsType, NEW c \in Calls, calls[c] # Idle, NEW label \in Labels, At(c, label)
  PROVE  \E r \in CallRec : Moves(c, r) /\ r.pc = label /\ r.read = calls[c].read
                            /\ r.inputs = calls[c].inputs
<1> PICK q : q = calls[c]
  OBVIOUS
<1>1. q \in CallRec
  BY CallIs
<1> DEFINE s == [q EXCEPT !.pc = label]
<1>2. /\ s \in CallRec /\ s.pc = label /\ s.hook = q.hook /\ s.node = q.node /\ s.read = q.read
      /\ s.inputs = q.inputs
  BY <1>1 DEF CallRec
<1> HIDE DEF s
<1>3. calls' = [calls EXCEPT ![c] = s]
  BY DEF At, s
<1>4. calls'[c] = s /\ (\A d \in Calls \ {c} : calls'[d] = calls[d]) /\ CallsType'
  BY <1>2, <1>3 DEF CallsType
<1> QED BY <1>2, <1>4 DEF Moves

Reading(c, k, S) == calls' = [calls EXCEPT ![c].pc = "run", ![c].read = k, ![c].inputs = S]

LEMMA MovedReading ==
  ASSUME CallsType, NEW c \in Calls, calls[c] # Idle, NEW k \in Calls \cup {NULL}, NEW S \in SUBSET Objects,
         Reading(c, k, S)
  PROVE  \E r \in CallRec : Moves(c, r) /\ r.pc = "run" /\ r.read = k /\ r.inputs = S
<1> PICK q : q = calls[c]
  OBVIOUS
<1>1. q \in CallRec
  BY CallIs
<1> DEFINE s == [q EXCEPT !.pc = "run", !.read = k, !.inputs = S]
<1>2. s \in CallRec /\ s.pc = "run" /\ s.hook = q.hook /\ s.node = q.node /\ s.read = k /\ s.inputs = S
  BY <1>1 DEF CallRec, Labels
<1> HIDE DEF s
<1>3. calls' = [calls EXCEPT ![c] = s]
  BY DEF s, CallsType, Reading
<1>4. calls'[c] = s /\ (\A d \in Calls \ {c} : calls'[d] = calls[d]) /\ CallsType'
  BY <1>2, <1>3 DEF CallsType
<1> QED BY <1>2, <1>4 DEF Moves

LEMMA MovedFinishing ==
  ASSUME CallsType, NEW c \in Calls, calls[c] # Idle, NEW label \in Labels,
         calls' = [calls EXCEPT ![c].pc = label, ![c].inputs = {}]
  PROVE  \E r \in CallRec : Moves(c, r) /\ r.pc = label /\ r.inputs = {}
<1> PICK q : q = calls[c]
  OBVIOUS
<1>1. q \in CallRec
  BY CallIs
<1> DEFINE s == [q EXCEPT !.pc = label, !.inputs = {}]
<1>2. s \in CallRec /\ s.pc = label /\ s.hook = q.hook /\ s.node = q.node /\ s.inputs = {}
  BY <1>1 DEF CallRec
<1> HIDE DEF s
<1>3. calls' = [calls EXCEPT ![c] = s]
  BY DEF s, CallsType
<1>4. calls'[c] = s /\ (\A d \in Calls \ {c} : calls'[d] = calls[d]) /\ CallsType'
  BY <1>2, <1>3 DEF CallsType
<1> QED BY <1>2, <1>4 DEF Moves

Bit(p) == IF p THEN 1 ELSE 0

LEMMA RefIs ==
  ASSUME NEW R \in [Nodes \cup Objects -> Nat], NEW S
  PROVE  /\ AddRef(R, S) \in [Nodes \cup Objects -> Nat] /\ RemRef(R, S) \in [Nodes \cup Objects -> Nat]
         /\ \A o \in Nodes \cup Objects :
              /\ AddRef(R, S)[o] = IF o \in S THEN R[o] + 1 ELSE R[o]
              /\ RemRef(R, S)[o] = IF o \in S /\ R[o] > 0 THEN R[o] - 1 ELSE R[o]
BY DEF AddRef, RemRef

LEMMA MovedTypes ==
  ASSUME TypeOK, NEW c \in Calls, NEW r, Moves(c, r), lists' = lists
  PROVE  CallsType' /\ ListsType'
<1>1. calls'[c] # Idle
  BY IdleIs DEF Moves
<1>2. \A d \in Calls : calls'[d] = Idle => calls[d] = Idle
  BY <1>1 DEF Moves
<1> QED BY <1>2, TypeIs DEF Moves, ListsType

LEMMA ReleaseTypes ==
  ASSUME Plain, NEW S, REF' = RemRef(REF, S), live' = Survivors(REF, S)
  PROVE  /\ live' \in SUBSET (Nodes \cup Objects) /\ REF' \in [Nodes \cup Objects -> Nat]
BY RefIs DEF Plain, Survivors

-----------------------------------------------------------------------------
(* The types, whatever the hooks and the calls are.                        *)

LEMMA TypeAfter == Plain' /\ CallsType' /\ ListsType' => TypeOK'
BY TypeIs, PTL

\* What a change in progress is.
LEMMA ChangeIs ==
  ASSUME Plain
  PROVE  /\ change.pc = "set" => change.hook \in Hooks /\ change.node \in Nodes /\ change.extra \in BOOLEAN
         /\ change.pc = "clear" => change.hook \in Hooks /\ change.node = NULL /\ change.extra = FALSE
                                  /\ [change EXCEPT !.pc = "free"] \in Removing
                                  /\ [change EXCEPT !.pc = "free"].hook = change.hook
                                  /\ [change EXCEPT !.pc = "free"].node = NULL
                                  /\ [change EXCEPT !.pc = "free"].extra = FALSE
         /\ change.pc = "free" => /\ change.hook \in Hooks
                                  /\ change.node = NULL => change.extra = FALSE
                                  /\ change.node # NULL => /\ [change EXCEPT !.pc = "set"] \in Setting
                                                           /\ [change EXCEPT !.pc = "set"].hook = change.hook
                                                           /\ [change EXCEPT !.pc = "set"].node = change.node
                                                           /\ [change EXCEPT !.pc = "set"].extra = change.extra
         /\ NoChange.hook = NULL /\ NoChange.node = NULL /\ NoChange.extra = FALSE /\ NoChange.pc = "idle"
         /\ change.node \in Nodes \cup {NULL} /\ change.hook \in Hooks \cup {NULL}
<1> PICK q : q = change
  OBVIOUS
<1>1. q = NoChange \/ q \in Removing \/ q \in Setting
  BY DEF Plain
<1>2. NoChange.hook = NULL /\ NoChange.node = NULL /\ NoChange.extra = FALSE /\ NoChange.pc = "idle"
  BY DEF NoChange
<1>3. CASE q = NoChange
  BY <1>2, <1>3
<1>4. CASE q \in Removing
  <2>1. /\ q.pc \in {"clear", "free"} /\ q.hook \in Hooks /\ q.node = NULL /\ q.extra = FALSE
    BY <1>4 DEF Removing
  <2>2. q.pc # "set" /\ NULL \notin Nodes
    BY <2>1, Apart
  <2>3. /\ [q EXCEPT !.pc = "free"] \in Removing /\ [q EXCEPT !.pc = "free"].hook = q.hook
        /\ [q EXCEPT !.pc = "free"].node = q.node /\ [q EXCEPT !.pc = "free"].extra = q.extra
    BY <1>4 DEF Removing
  <2> QED BY <1>2, <2>1, <2>2, <2>3
<1>5. CASE q \in Setting
  <2>1. /\ q.pc \in {"free", "set"} /\ q.hook \in Hooks /\ q.node \in Nodes /\ q.extra \in BOOLEAN
    BY <1>5 DEF Setting
  <2>2. q.pc # "clear" /\ q.node # NULL
    BY <2>1, Apart
  <2>3. /\ [q EXCEPT !.pc = "set"] \in Setting /\ [q EXCEPT !.pc = "set"].hook = q.hook
        /\ [q EXCEPT !.pc = "set"].node = q.node /\ [q EXCEPT !.pc = "set"].extra = q.extra
    BY <1>5 DEF Setting
  <2> QED BY <1>2, <2>1, <2>2, <2>3
<1> QED BY <1>1, <1>3, <1>4, <1>5

LEMMA HookTypes ==
  ASSUME TypeOK, NEW h \in Hooks, NEW n \in Nodes, NEW extra \in BOOLEAN, Hook(h, n, extra)
  PROVE  TypeOK'
<1> PICK old : old = {hooks[h].action} \ {NULL}
  OBVIOUS
<1> PICK new : new = IF extra THEN AddRef(REF, {Extra}) ELSE REF
  OBVIOUS
<1>1. Plain /\ CallsType /\ ListsType
  BY TypeIs
<1>2. /\ REF' = RemRef(new, old) /\ live' = Survivors(new, old) /\ fault' = (fault \/ ~(old \subseteq live))
      /\ UNCHANGED <<hooks, args, lists, calls, held, met>>
      /\ change' = [pc |-> IF old = {} THEN "set" ELSE "free", hook |-> h, node |-> n, extra |-> extra]
  BY DEF Hook
<1>3. new \in [Nodes \cup Objects -> Nat]
  BY <1>1, RefIs DEF Plain
<1>4. REF' \in [Nodes \cup Objects -> Nat] /\ live' \in SUBSET (Nodes \cup Objects)
  <2>1. RemRef(new, old) \in [Nodes \cup Objects -> Nat]
    BY <1>3 DEF RemRef
  <2>2. Survivors(new, old) \subseteq live
    BY DEF Survivors
  <2> QED BY <1>1, <1>2, <2>1, <2>2 DEF Plain
<1>5. change' \in Setting
  BY <1>2 DEF Setting
<1>6. Plain'
  BY <1>1, <1>2, <1>4, <1>5 DEF Plain
<1>7. CallsType' /\ ListsType'
  BY <1>1, <1>2 DEF CallsType, ListsType
<1> QED BY <1>6, <1>7, TypeAfter

LEMMA UnHookTypes ==
  ASSUME TypeOK, NEW h \in Hooks, UnHook(h)
  PROVE  TypeOK'
<1>1. Plain /\ CallsType /\ ListsType
  BY TypeIs
<1>2. live' \in SUBSET (Nodes \cup Objects) /\ REF' \in [Nodes \cup Objects -> Nat]
  BY <1>1, ReleaseTypes DEF UnHook, Release
<1>3. change' \in Removing
  BY DEF UnHook, Removing
<1>4. Plain'
  BY <1>1, <1>2, <1>3 DEF UnHook, Plain, Release
<1>5. CallsType' /\ ListsType'
  BY <1>1 DEF UnHook, CallsType, ListsType
<1> QED BY <1>4, <1>5, TypeAfter

\* What the hook of the change in progress becomes.
LEMMA ChangedHook ==
  ASSUME Plain, NEW h \in Hooks, NEW n \in Nodes \cup {NULL}, NEW x \in BOOLEAN
  PROVE  /\ hooks' = [hooks EXCEPT ![h] = [action |-> n, extra |-> x]] =>
              /\ hooks' \in [Hooks -> [action : Nodes \cup {NULL}, extra : BOOLEAN]]
              /\ hooks'[h].action = n /\ hooks'[h].extra = x /\ \A g \in Hooks \ {h} : hooks'[g] = hooks[g]
         /\ hooks' = [hooks EXCEPT ![h].extra = x] =>
              /\ hooks' \in [Hooks -> [action : Nodes \cup {NULL}, extra : BOOLEAN]]
              /\ hooks'[h].action = hooks[h].action /\ hooks'[h].extra = x
              /\ \A g \in Hooks \ {h} : hooks'[g] = hooks[g]
         /\ hooks' = [hooks EXCEPT ![h].action = n] =>
              /\ hooks' \in [Hooks -> [action : Nodes \cup {NULL}, extra : BOOLEAN]]
              /\ hooks'[h].action = n /\ hooks'[h].extra = hooks[h].extra
              /\ \A g \in Hooks \ {h} : hooks'[g] = hooks[g]
<1>1. hooks \in [Hooks -> [action : Nodes \cup {NULL}, extra : BOOLEAN]]
  BY DEF Plain
<1>2. CASE hooks' = [hooks EXCEPT ![h] = [action |-> n, extra |-> x]]
  BY <1>1, <1>2
<1>3. CASE hooks' = [hooks EXCEPT ![h].extra = x]
  BY <1>1, <1>3
<1>4. CASE hooks' = [hooks EXCEPT ![h].action = n]
  BY <1>1, <1>4
<1> QED BY <1>2, <1>3, <1>4

LEMMA ClearHookTypes ==
  ASSUME TypeOK, ClearHook
  PROVE  TypeOK'
<1>1. Plain /\ CallsType /\ ListsType
  BY TypeIs
<1>2. /\ change.pc = "clear" /\ hooks' = [hooks EXCEPT ![change.hook].action = NULL]
      /\ change' = [change EXCEPT !.pc = "free"] /\ UNCHANGED <<live, REF, args, lists, calls, held, met, fault>>
  BY DEF ClearHook
<1>3. change.hook \in Hooks /\ change' \in Removing
  BY <1>1, <1>2, ChangeIs
<1>4. hooks' \in [Hooks -> [action : Nodes \cup {NULL}, extra : BOOLEAN]]
  <2>1. \A x \in BOOLEAN : hooks' \in [Hooks -> [action : Nodes \cup {NULL}, extra : BOOLEAN]]
    BY <1>1, <1>2, <1>3, ChangedHook
  <2> QED BY <2>1
<1>5. Plain'
  BY <1>1, <1>2, <1>3, <1>4 DEF Plain
<1>6. CallsType' /\ ListsType'
  BY <1>1, <1>2 DEF CallsType, ListsType
<1> QED BY <1>5, <1>6, TypeAfter

LEMMA FreeExtraTypes ==
  ASSUME TypeOK, FreeExtra
  PROVE  TypeOK'
<1>1. Plain /\ CallsType /\ ListsType
  BY TypeIs
<1> PICK no \in BOOLEAN : no = FALSE
  OBVIOUS
<1>2. /\ change.pc = "free" /\ hooks' = [hooks EXCEPT ![change.hook].extra = no]
      /\ change' = IF change.node = NULL THEN NoChange ELSE [change EXCEPT !.pc = "set"]
      /\ UNCHANGED <<args, lists, calls, held, met>> /\ Release(ExtraOf(change.hook))
  BY DEF FreeExtra
<1>3. change.hook \in Hooks /\ change' \in {NoChange} \cup Setting
  BY <1>1, <1>2, ChangeIs
<1>4. hooks' \in [Hooks -> [action : Nodes \cup {NULL}, extra : BOOLEAN]]
  <2>1. \A n \in Nodes \cup {NULL} : hooks' \in [Hooks -> [action : Nodes \cup {NULL}, extra : BOOLEAN]]
    BY <1>1, <1>2, <1>3, ChangedHook
  <2> QED BY <2>1
<1>5. live' \in SUBSET (Nodes \cup Objects) /\ REF' \in [Nodes \cup Objects -> Nat]
  BY <1>1, <1>2, ReleaseTypes DEF Release
<1>6. Plain'
  BY <1>1, <1>2, <1>3, <1>4, <1>5 DEF Plain, Release
<1>7. CallsType' /\ ListsType'
  BY <1>1, <1>2 DEF CallsType, ListsType
<1> QED BY <1>6, <1>7, TypeAfter

LEMMA SetHookTypes ==
  ASSUME TypeOK, SetHook
  PROVE  TypeOK'
<1>1. Plain /\ CallsType /\ ListsType
  BY TypeIs
<1> PICK n : n = change.node
  OBVIOUS
<1> PICK x : x = (change.extra /\ n \notin Blocks)
  OBVIOUS
<1> PICK base : base = IF n \in Blocks THEN REF ELSE [REF EXCEPT ![n] = 0]
  OBVIOUS
<1>2. /\ change.pc = "set" /\ hooks' = [hooks EXCEPT ![change.hook] = [action |-> n, extra |-> x]]
      /\ change' = NoChange /\ args' = [args EXCEPT ![n] = NULL]
      /\ REF' = AddRef(base, {n}) /\ live' = live \cup {n}
      /\ UNCHANGED <<lists, calls, held, met, fault>>
  BY DEF SetHook
<1>3. change.hook \in Hooks /\ n \in Nodes /\ x \in BOOLEAN
  BY <1>1, <1>2, ChangeIs
<1>4. hooks' \in [Hooks -> [action : Nodes \cup {NULL}, extra : BOOLEAN]]
  BY <1>1, <1>2, <1>3, ChangedHook
<1>5. base \in [Nodes \cup Objects -> Nat] /\ args' \in [Nodes -> Calls \cup {NULL}]
  BY <1>1, <1>2 DEF Plain
<1>6. live' \in SUBSET (Nodes \cup Objects) /\ REF' \in [Nodes \cup Objects -> Nat]
  BY <1>1, <1>2, <1>3, <1>5, RefIs DEF Plain
<1>7. Plain'
  BY <1>1, <1>2, <1>4, <1>5, <1>6 DEF Plain
<1>8. CallsType' /\ ListsType'
  BY <1>1, <1>2 DEF CallsType, ListsType
<1> QED BY <1>7, <1>8, TypeAfter

LEMMA MeetTypes ==
  ASSUME TypeOK, NEW h \in Hooks, Meet(h)
  PROVE  TypeOK'
<1>1. Plain /\ CallsType /\ ListsType
  BY TypeIs
<1>2. met' = TRUE /\ UNCHANGED <<live, REF, hooks, args, lists, calls, held, change, fault>>
  BY DEF Meet
<1>3. Plain'
  BY <1>1, <1>2 DEF Plain
<1>4. CallsType' /\ ListsType'
  BY <1>1, <1>2 DEF CallsType, ListsType
<1> QED BY <1>3, <1>4, TypeAfter

LEMMA DropTypes == TypeOK /\ DropExtra => TypeOK'
<1> SUFFICES ASSUME TypeOK, DropExtra PROVE TypeOK'
  OBVIOUS
<1>1. Plain /\ CallsType /\ ListsType
  BY TypeIs
<1>2. live' \in SUBSET (Nodes \cup Objects) /\ REF' \in [Nodes \cup Objects -> Nat]
  BY <1>1, ReleaseTypes DEF DropExtra, Release
<1>4. Plain'
  BY <1>1, <1>2 DEF DropExtra, Plain, Release
<1>5. CallsType' /\ ListsType'
  BY <1>1 DEF DropExtra, CallsType, ListsType
<1> QED BY <1>4, <1>5, TypeAfter

\* The call Fire begins, and the list it makes.
Begun(h) == [Idle EXCEPT !.hook = h, !.node = hooks[h].action, !.pc = "start"]
OwnOf(h, c) == IF h \in Fresh THEN {c} ELSE {}
ListFor(h, c) == IF h \in Menus /\ ~hooks[h].extra THEN NoList ELSE OwnOf(h, c) \cup ExtraOf(h)

LEMMA BegunIs ==
  ASSUME TypeOK, NEW h \in Hooks, hooks[h].action # NULL
  PROVE  /\ Begun(h) \in CallRec /\ Begun(h) # Idle /\ hooks[h].action \in Nodes
         /\ Begun(h).hook = h /\ Begun(h).node = hooks[h].action /\ Begun(h).pc = "start"
         /\ Begun(h).inputs = {}
<1> PICK n : n = hooks[h].action
  OBVIOUS
<1>1. n \in Nodes
  BY TypeIs DEF Plain
<1> DEFINE s == [Idle EXCEPT !.hook = h, !.node = n, !.pc = "start"]
<1>2. s \in CallRec /\ s.hook = h /\ s.node = n /\ s.pc = "start" /\ s.inputs = {}
  BY <1>1 DEF CallRec, Labels, Idle
<1>3. Begun(h) = s
  BY DEF Begun
<1> HIDE DEF s
<1> QED BY <1>1, <1>2, <1>3, IdleIs

LEMMA FireTypes ==
  ASSUME TypeOK, NEW h \in Hooks, NEW c \in Calls, Fire(h, c)
  PROVE  /\ TypeOK'
         /\ calls'[c] = Begun(h) /\ \A d \in Calls \ {c} : calls'[d] = calls[d]
         /\ lists'[c] = IF hooks[h].action \in Blocks THEN NoList ELSE ListFor(h, c)
         /\ \A d \in Calls \ {c} : lists'[d] = lists[d]
<1>1. Plain /\ CallsType /\ ListsType
  BY TypeIs
<1> PICK n : n = hooks[h].action
  OBVIOUS
<1> DEFINE given == OwnOf(h, c) \cup ExtraOf(h)
           list == IF n \in Blocks THEN NoList ELSE ListFor(h, c)
           fresh == [REF EXCEPT ![c] = 0]
           gain == (IF n \in Blocks THEN {} ELSE given) \cup (IF h \in Direct THEN {} ELSE {n})
<1>2. given \subseteq Objects /\ c \in Nodes \cup Objects
  BY Apart DEF OwnOf, ExtraOf
<1>3. fresh \in [Nodes \cup Objects -> Nat]
  BY <1>1 DEF Plain
<1>4. REF' = AddRef(fresh, gain) /\ live' = IF n \in Blocks THEN live ELSE live \cup OwnOf(h, c)
  BY DEF Fire, OwnOf
<1>5. list \in (SUBSET Objects) \cup {NoList} /\ lists' = [lists EXCEPT ![c] = list]
  BY <1>2 DEF Fire, OwnOf, ListFor
<1>6. n # NULL /\ calls' = [calls EXCEPT ![c] = Begun(h)] /\ n = hooks[h].action
  BY DEF Fire, Begun
<1>7. Begun(h) \in CallRec /\ Begun(h) # Idle
  BY <1>6, BegunIs
<1>8. OwnOf(h, c) \subseteq Nodes \cup Objects
  BY Apart DEF OwnOf
<1>9. list = IF hooks[h].action \in Blocks THEN NoList ELSE ListFor(h, c)
  BY <1>6
<1> HIDE DEF given, list, fresh, gain
<1>10. Plain'
  <2>1. REF' \in [Nodes \cup Objects -> Nat]
    BY <1>3, <1>4, RefIs
  <2>2. live' \in SUBSET (Nodes \cup Objects)
    BY <1>1, <1>4, <1>8 DEF Plain
  <2>3. UNCHANGED <<hooks, args, held, change, met>> /\ fault' \in BOOLEAN
    BY <1>1 DEF Fire, Plain
  <2> QED BY <1>1, <2>1, <2>2, <2>3 DEF Plain
<1>11. /\ calls'[c] = Begun(h) /\ \A d \in Calls \ {c} : calls'[d] = calls[d]
       /\ CallsType'
  BY <1>1, <1>6, <1>7 DEF CallsType
<1>12. /\ lists'[c] = list /\ \A d \in Calls \ {c} : lists'[d] = lists[d]
       /\ lists' \in [Calls -> (SUBSET Objects) \cup {NoList}]
  BY <1>1, <1>5 DEF ListsType
<1>13. ListsType'
  BY <1>1, <1>7, <1>11, <1>12 DEF ListsType
<1> QED BY <1>9, <1>10, <1>11, <1>12, <1>13, TypeAfter

\* What a step of a call in progress does to it: it goes on to the label, its
\* list and the hooks stay.
Goes(c, label) == /\ UNCHANGED <<hooks, lists, held, change>>
                  /\ \E r \in CallRec : Moves(c, r) /\ r.pc = label

LEMMA RunningIs ==
  ASSUME CallsType, NEW c \in Calls, calls[c].pc \in Labels
  PROVE  calls[c] # Idle /\ CallFields(calls[c])
<1>1. calls[c].pc # "idle"
  BY DEF Labels
<1> QED BY <1>1, CallIs

LEMMA SetTypes ==
  ASSUME TypeOK, NEW c \in Calls, SetArgs(c)
  PROVE  TypeOK'
<1>1. Plain /\ CallsType /\ ListsType
  BY TypeIs
<1>2. calls[c].pc \in Labels /\ At(c, "set") /\ "set" \in Labels
  BY DEF SetArgs, Labels
<1>3. calls[c] # Idle /\ CallFields(calls[c])
  BY <1>1, <1>2, RunningIs
<1>4. CallsType' /\ ListsType'
  BY <1>1, <1>2, <1>3, Moved, MovedTypes DEF SetArgs
<1>5. calls[c].node \in Nodes
  BY <1>3 DEF CallFields
<1>6. Plain'
  BY <1>1, <1>5 DEF SetArgs, Plain
<1> QED BY <1>4, <1>6, TypeAfter

LEMMA ReadIs ==
  ASSUME TypeOK, NEW c \in Calls, Read(c)
  PROVE  LET n == calls[c].node
             S == IF n \in Blocks THEN {} ELSE Contents(args[n])
         IN /\ S \in SUBSET Objects /\ REF' = AddRef(REF, S)
            /\ \E r \in CallRec : Moves(c, r) /\ r.pc = "run" /\ r.read = args[n] /\ r.inputs = S
<1>1. Plain /\ CallsType /\ ListsType
  BY TypeIs
<1>2. calls[c].pc \in Labels
  BY DEF Read, Labels
<1>3. calls[c] # Idle /\ calls[c].node \in Nodes
  BY <1>1, <1>2, RunningIs DEF CallFields
<1> PICK k : k = args[calls[c].node]
  OBVIOUS
<1> DEFINE S == IF calls[c].node \in Blocks THEN {} ELSE Contents(k)
<1>4. k \in Calls \cup {NULL}
  BY <1>1, <1>3 DEF Plain
<1>5. S \in SUBSET Objects
  BY <1>1, <1>4, ListIs DEF Contents
<1>6. calls' = [calls EXCEPT ![c].pc = "run", ![c].read = k, ![c].inputs = S] /\ REF' = AddRef(REF, S)
  BY DEF Read
<1>7. \E r \in CallRec : Moves(c, r) /\ r.pc = "run" /\ r.read = k /\ r.inputs = S
  <2> PICK I : I = S
    OBVIOUS
  <2>1. Reading(c, k, I)
    BY <1>6 DEF Reading
  <2>2. I \in SUBSET Objects
    BY <1>5
  <2> HIDE DEF S
  <2>3. \E r \in CallRec : Moves(c, r) /\ r.pc = "run" /\ r.read = k /\ r.inputs = I
    BY <1>1, <1>3, <1>4, <2>1, <2>2, MovedReading
  <2> QED BY <2>3
<1> QED BY <1>5, <1>6, <1>7

LEMMA ReadTypes ==
  ASSUME TypeOK, NEW c \in Calls, Read(c)
  PROVE  TypeOK'
<1>1. Plain /\ CallsType /\ ListsType
  BY TypeIs
<1>2. CallsType' /\ ListsType'
  <2>1. PICK r \in CallRec : Moves(c, r)
    BY ReadIs
  <2> QED BY <2>1, MovedTypes DEF Read
<1>3. REF' \in [Nodes \cup Objects -> Nat]
  <2>1. REF \in [Nodes \cup Objects -> Nat]
    BY <1>1 DEF Plain
  <2> QED BY <2>1, ReadIs DEF AddRef
<1>4. fault' \in BOOLEAN /\ UNCHANGED <<live, hooks, args, held, change, met>>
  BY <1>1 DEF Read, Plain
<1>5. Plain'
  BY <1>1, <1>3, <1>4 DEF Plain
<1> QED BY <1>2, <1>5, TypeAfter

LEMMA ThenIs == \A c \in Calls, t \in BOOLEAN : Then(c, t) \in Labels
BY DEF Then, Labels

LEMMA FinishTypes ==
  ASSUME TypeOK, NEW c \in Calls, Finish(c)
  PROVE  TypeOK'
<1>1. Plain /\ CallsType /\ ListsType
  BY TypeIs
<1>2. calls[c].pc \in Labels
  BY DEF Finish, Labels
<1>3. calls[c] # Idle
  BY <1>1, <1>2, RunningIs
<1> PICK t \in BOOLEAN : calls' = [calls EXCEPT ![c].pc = Then(c, t), ![c].inputs = {}]
  BY DEF Finish
<1>4. CallsType' /\ ListsType'
  BY <1>1, <1>3, ThenIs, MovedFinishing, MovedTypes DEF Finish
<1>5. live' \in SUBSET (Nodes \cup Objects) /\ REF' \in [Nodes \cup Objects -> Nat]
  BY <1>1, ReleaseTypes DEF Finish, Release
<1>6. Plain'
  BY <1>1, <1>5 DEF Finish, Plain, Release
<1> QED BY <1>4, <1>6, TypeAfter

LEMMA CompareTypes ==
  ASSUME TypeOK, NEW c \in Calls, Compare(c)
  PROVE  TypeOK'
<1>1. Plain /\ CallsType /\ ListsType
  BY TypeIs
<1>2. calls[c].pc \in Labels /\ "del" \in Labels /\ "end" \in Labels
  BY DEF Compare, Labels
<1>3. calls[c] # Idle
  BY <1>1, <1>2, RunningIs
<1>4. At(c, "del") \/ At(c, "end")
  BY DEF Compare
<1>5. CallsType' /\ ListsType'
  BY <1>1, <1>2, <1>3, <1>4, Moved, MovedTypes DEF Compare
<1>6. live' \in SUBSET (Nodes \cup Objects) /\ REF' \in [Nodes \cup Objects -> Nat] /\ fault' \in BOOLEAN
  BY <1>1, ReleaseTypes DEF Compare, Release, Plain
<1>7. Plain'
  BY <1>1, <1>6 DEF Compare, Plain
<1> QED BY <1>5, <1>7, TypeAfter

LEMMA DelTypes ==
  ASSUME TypeOK, NEW c \in Calls, DelArgs(c)
  PROVE  TypeOK'
<1>1. Plain /\ CallsType /\ ListsType
  BY TypeIs
<1>2. calls[c].pc \in Labels /\ "clear" \in Labels /\ At(c, "clear")
  BY DEF DelArgs, Labels
<1>3. calls[c] # Idle
  BY <1>1, <1>2, RunningIs
<1>5. CallsType' /\ ListsType'
  BY <1>1, <1>2, <1>3, Moved, MovedTypes DEF DelArgs
<1>6. live' \in SUBSET (Nodes \cup Objects) /\ REF' \in [Nodes \cup Objects -> Nat]
  BY <1>1, ReleaseTypes DEF DelArgs
<1>7. Plain'
  BY <1>1, <1>6 DEF DelArgs, Plain
<1> QED BY <1>5, <1>7, TypeAfter

LEMMA ClearTypes ==
  ASSUME TypeOK, NEW c \in Calls, ClearArgs(c)
  PROVE  TypeOK'
<1>1. Plain /\ CallsType /\ ListsType
  BY TypeIs
<1>2. calls[c].pc \in Labels /\ "end" \in Labels /\ At(c, "end")
  BY DEF ClearArgs, Labels
<1>3. calls[c] # Idle
  BY <1>1, <1>2, RunningIs
<1>5. CallsType' /\ ListsType'
  BY <1>1, <1>2, <1>3, Moved, MovedTypes DEF ClearArgs
<1>7. Plain'
  BY <1>1 DEF ClearArgs, Plain
<1> QED BY <1>5, <1>7, TypeAfter

LEMMA EndTypes ==
  ASSUME TypeOK, NEW c \in Calls, EndCall(c)
  PROVE  TypeOK'
<1>1. Plain /\ CallsType /\ ListsType
  BY TypeIs
<1>2. CallsType' /\ ListsType'
  BY <1>1 DEF EndCall, CallsType, ListsType
<1>3. live' \in SUBSET (Nodes \cup Objects) /\ REF' \in [Nodes \cup Objects -> Nat] /\ fault' \in BOOLEAN
  BY <1>1, ReleaseTypes DEF EndCall, Release, Plain
<1>4. Plain'
  BY <1>1, <1>3 DEF EndCall, Plain
<1> QED BY <1>2, <1>4, TypeAfter

\* Every variable of SQIHook has its type.
THEOREM TypeCorrect == Spec => []TypeOK
<1>1. Init => TypeOK
  <2> SUFFICES ASSUME Init PROVE TypeOK
    OBVIOUS
  <2>1. Plain
    BY Apart DEF Init, Plain
  <2>2. CallsType /\ ListsType
    BY DEF Init, CallsType, ListsType
  <2> QED BY <2>1, <2>2, TypeIs
<1>2. TypeOK /\ [Next]_vars => TypeOK'
  <2> SUFFICES ASSUME TypeOK, [Next]_vars PROVE TypeOK'
    OBVIOUS
  <2>1. CASE Next
    BY <2>1, HookTypes, UnHookTypes, ClearHookTypes, FreeExtraTypes, SetHookTypes, MeetTypes, DropTypes, FireTypes, SetTypes, ReadTypes, FinishTypes,
       CompareTypes, DelTypes, ClearTypes, EndTypes DEF Next
  <2>2. CASE UNCHANGED vars
    BY <2>2 DEF vars, TypeOK
  <2> QED BY <2>1, <2>2
<1> QED BY <1>1, <1>2, PTL DEF Spec

-----------------------------------------------------------------------------
(* Counting.                                                               *)

\* The hooks that hold the node n: one that is being changed has given its own up.
Setters(n) == {h \in Hooks : hooks[h].action = n /\ change.hook # h}
Spawned(n) == {c \in Calls : calls[c].node = n /\ ~IsDirect(c)}
Givers(o)  == {h \in Hooks : hooks[h].extra /\ o = Extra}
Readers(o) == {c \in Calls : o \in calls[c].inputs}

\* The variable of the script and the hook being set.
Kept(o) == Bit(held /\ o = Extra) + Bit(change.extra /\ o = Extra)

NodeUses(n) == Cardinality(Setters(n)) + Cardinality(Spawned(n)) + Bit(n \in Blocks)
Uses(o) == Cardinality(Givers(o)) + Cardinality(Owing(o)) + Cardinality(Readers(o)) + Kept(o)

\* What exists is counted, exactly for a node, and what does not exist is not used.
NodesCounted   == \A n \in Nodes : IF n \in live THEN REF[n] = NodeUses(n) ELSE NodeUses(n) = 0
ObjectsCounted == \A o \in Objects : IF o \in live THEN REF[o] >= Uses(o) ELSE Uses(o) = 0
Counts == NodesCounted /\ ObjectsCounted

LEMMA CardStep ==
  ASSUME NEW U, IsFiniteSet(U), NEW A \in SUBSET U, NEW B \in SUBSET U, NEW x \in U,
         \A y \in U \ {x} : y \in A <=> y \in B
  PROVE  /\ Cardinality(A) \in Nat /\ Cardinality(B) \in Nat
         /\ Cardinality(B) + Bit(x \in A) = Cardinality(A) + Bit(x \in B)
<1>1. IsFiniteSet(A) /\ IsFiniteSet(B)
  BY FS_Subset
<1>2. Cardinality(A) \in Nat /\ Cardinality(B) \in Nat
  BY <1>1, FS_CardinalityType
<1>3. CASE x \in A <=> x \in B
  <2>1. A = B
    BY <1>3
  <2> QED BY <1>2, <2>1
<1>4. CASE x \in A /\ x \notin B
  <2>1. A = B \cup {x}
    BY <1>4
  <2> QED BY <1>1, <1>2, <1>4, <2>1, FS_AddElement DEF Bit
<1>5. CASE x \notin A /\ x \in B
  <2>1. B = A \cup {x}
    BY <1>5
  <2> QED BY <1>1, <1>2, <1>5, <2>1, FS_AddElement DEF Bit
<1> QED BY <1>3, <1>4, <1>5

LEMMA CardFew ==
  ASSUME NEW U, IsFiniteSet(U), NEW A \in SUBSET U
  PROVE  /\ Cardinality(A) \in Nat
         /\ \A x \in A : Cardinality(A) >= 1
         /\ (\A x \in U : x \notin A) => Cardinality(A) = 0
<1>1. IsFiniteSet(A)
  BY FS_Subset
<1>2. Cardinality(A) \in Nat
  BY <1>1, FS_CardinalityType
<1>3. ASSUME NEW x \in A PROVE Cardinality(A) >= 1
  BY <1>1, <1>2, <1>3, FS_EmptySet
<1>4. ASSUME \A x \in U : x \notin A PROVE Cardinality(A) = 0
  BY <1>4, FS_EmptySet
<1> QED BY <1>2, <1>3, <1>4

LEMMA FiniteSets == IsFiniteSet(Hooks) /\ IsFiniteSet(Calls)
BY HookAssumption

LEMMA BitIs == \A p \in BOOLEAN : Bit(p) = (IF p THEN 1 ELSE 0) /\ Bit(p) \in Nat
BY DEF Bit

\* The four sets, with what a member and its absence say of their sizes.
LEMMA SetsAre ==
  ASSUME NEW o
  PROVE  /\ Setters(o) \in SUBSET Hooks /\ Spawned(o) \in SUBSET Calls /\ Givers(o) \in SUBSET Hooks
         /\ Owing(o) \in SUBSET Calls /\ Readers(o) \in SUBSET Calls
         /\ Cardinality(Setters(o)) \in Nat /\ Cardinality(Spawned(o)) \in Nat
         /\ Cardinality(Givers(o)) \in Nat /\ Cardinality(Owing(o)) \in Nat
         /\ Cardinality(Readers(o)) \in Nat
         /\ NodeUses(o) \in Nat /\ Uses(o) \in Nat
<1>1. /\ Setters(o) \in SUBSET Hooks /\ Spawned(o) \in SUBSET Calls /\ Givers(o) \in SUBSET Hooks
      /\ Owing(o) \in SUBSET Calls /\ Readers(o) \in SUBSET Calls
  BY DEF Setters, Spawned, Givers, Owing, Readers
<1>2. /\ Cardinality(Setters(o)) \in Nat /\ Cardinality(Spawned(o)) \in Nat
      /\ Cardinality(Givers(o)) \in Nat /\ Cardinality(Owing(o)) \in Nat
      /\ Cardinality(Readers(o)) \in Nat
  BY <1>1, FiniteSets, CardFew
<1> QED BY <1>1, <1>2 DEF NodeUses, Uses, Kept, Bit

LEMMA NodeUsed ==
  ASSUME NEW n \in Nodes, NodesCounted
  PROVE  /\ (\E h \in Hooks : hooks[h].action = n /\ change.hook # h) => n \in live
         /\ (\E c \in Calls : calls[c].node = n /\ ~IsDirect(c)) => n \in live
         /\ n \in Blocks => n \in live
<1>1. (\E h \in Hooks : hooks[h].action = n /\ change.hook # h) => Cardinality(Setters(n)) >= 1
  BY SetsAre, FiniteSets, CardFew DEF Setters
<1>2. (\E c \in Calls : calls[c].node = n /\ ~IsDirect(c)) => Cardinality(Spawned(n)) >= 1
  BY SetsAre, FiniteSets, CardFew DEF Spawned
<1>3. n \notin live => Cardinality(Setters(n)) + Cardinality(Spawned(n)) + Bit(n \in Blocks) = 0
  BY DEF NodesCounted, NodeUses
<1> QED BY <1>1, <1>2, <1>3, SetsAre DEF Bit

\* The calls that owe the release of their list.
Debt == {"start", "set", "run", "compare", "del"}

LEMMA ObjectUsed ==
  ASSUME NEW o \in Objects, ObjectsCounted
  PROVE  /\ (\E h \in Hooks : hooks[h].extra) /\ o = Extra => Uses(o) >= 1
         /\ (\E c \in Calls : o \in Contents(c) /\ calls[c].pc \in Debt) => Uses(o) >= 1
         /\ (\E c \in Calls : o \in calls[c].inputs) => Uses(o) >= 1
         /\ (held \/ change.extra) /\ o = Extra => Uses(o) >= 1
         /\ Uses(o) >= 1 => o \in live
<1>1. (\E h \in Hooks : hooks[h].extra) /\ o = Extra => Cardinality(Givers(o)) >= 1
  BY SetsAre, FiniteSets, CardFew DEF Givers
<1>2. (\E c \in Calls : o \in Contents(c) /\ calls[c].pc \in Debt) => Cardinality(Owing(o)) >= 1
  BY SetsAre, FiniteSets, CardFew DEF Owing, Debt
<1>3. (\E c \in Calls : o \in calls[c].inputs) => Cardinality(Readers(o)) >= 1
  BY SetsAre, FiniteSets, CardFew DEF Readers
<1>4. o \notin live => Uses(o) = 0
  BY DEF ObjectsCounted
<1>5. Kept(o) \in Nat /\ ((held \/ change.extra) /\ o = Extra => Kept(o) >= 1)
  BY DEF Kept, Bit
<1> QED BY <1>1, <1>2, <1>3, <1>4, <1>5, SetsAre DEF Uses

LEMMA SizesNext ==
  ASSUME NEW o
  PROVE  NodeUses(o)' \in Nat /\ Uses(o)' \in Nat
<1>1. /\ Setters(o)' \in SUBSET Hooks /\ Spawned(o)' \in SUBSET Calls /\ Givers(o)' \in SUBSET Hooks
      /\ Owing(o)' \in SUBSET Calls /\ Readers(o)' \in SUBSET Calls
  BY DEF Setters, Spawned, Givers, Owing, Readers
<1>2. /\ Cardinality(Setters(o)') \in Nat /\ Cardinality(Spawned(o)') \in Nat
      /\ Cardinality(Givers(o)') \in Nat /\ Cardinality(Owing(o)') \in Nat
      /\ Cardinality(Readers(o)') \in Nat
  BY <1>1, FiniteSets, CardFew
<1> QED BY <1>1, <1>2 DEF NodeUses, Uses, Kept, Bit

\* A release of what has been used once less: nothing freed is touched, and
\* what goes is not used any more.
LEMMA ReleaseCounts ==
  ASSUME Plain, Counts, NEW S \in SUBSET (Nodes \cup Objects),
         REF' = RemRef(REF, S), live' = Survivors(REF, S),
         \A n \in Nodes : NodeUses(n)' + Bit(n \in S) = NodeUses(n),
         \A o \in Objects : Uses(o)' + Bit(o \in S) <= Uses(o)
  PROVE  Counts' /\ S \subseteq live
<1>1. \A o \in Nodes \cup Objects : REF[o] \in Nat /\ REF'[o] = IF o \in S /\ REF[o] > 0 THEN REF[o] - 1 ELSE REF[o]
  <2>1. REF \in [Nodes \cup Objects -> Nat]
    BY DEF Plain
  <2>2. \A o \in Nodes \cup Objects : RemRef(REF, S)[o] = IF o \in S /\ REF[o] > 0 THEN REF[o] - 1 ELSE REF[o]
    BY <2>1, RefIs
  <2> QED BY <2>1, <2>2
<1>2. \A o : o \in live' <=> o \in live /\ (o \in S => REF'[o] > 0)
  BY DEF Survivors
<1>3. ASSUME NEW n \in Nodes
      PROVE  /\ IF n \in live' THEN REF'[n] = NodeUses(n)' ELSE NodeUses(n)' = 0
             /\ n \in S => n \in live
  <2>1. NodeUses(n) \in Nat /\ NodeUses(n)' \in Nat /\ NodeUses(n)' + Bit(n \in S) = NodeUses(n)
    BY SetsAre, SizesNext
  <2>2. IF n \in live THEN REF[n] = NodeUses(n) ELSE NodeUses(n) = 0
    BY DEF Counts, NodesCounted
  <2>3. CASE n \in S
    BY <1>1, <1>2, <2>1, <2>2, <2>3 DEF Bit
  <2>4. CASE n \notin S
    BY <1>1, <1>2, <2>1, <2>2, <2>4 DEF Bit
  <2> QED BY <2>3, <2>4
<1>4. ASSUME NEW o \in Objects
      PROVE  /\ IF o \in live' THEN REF'[o] >= Uses(o)' ELSE Uses(o)' = 0
             /\ o \in S => o \in live
  <2>1. Uses(o) \in Nat /\ Uses(o)' \in Nat /\ Uses(o)' + Bit(o \in S) <= Uses(o)
    BY SetsAre, SizesNext
  <2>2. IF o \in live THEN REF[o] >= Uses(o) ELSE Uses(o) = 0
    BY DEF Counts, ObjectsCounted
  <2>3. CASE o \in S
    BY <1>1, <1>2, <2>1, <2>2, <2>3 DEF Bit
  <2>4. CASE o \notin S
    BY <1>1, <1>2, <2>1, <2>2, <2>4 DEF Bit
  <2> QED BY <2>3, <2>4
<1>5. NodesCounted' /\ ObjectsCounted'
  BY <1>3, <1>4 DEF NodesCounted, ObjectsCounted
<1> QED BY <1>3, <1>4, <1>5 DEF Counts

\* What a call that goes on does to the counts: only its list and its inputs
\* matter.
LEMMA MovedUses ==
  ASSUME CallsType, ListsType, NEW c \in Calls, NEW r \in CallRec, Moves(c, r),
         UNCHANGED <<hooks, lists, held, change>>
  PROVE  /\ \A n \in Nodes : NodeUses(n)' = NodeUses(n)
         /\ \A o \in Objects :
              Uses(o)' + Bit(o \in Contents(c) /\ calls[c].pc \in Debt) + Bit(o \in calls[c].inputs)
                = Uses(o) + Bit(o \in Contents(c) /\ r.pc \in Debt) + Bit(o \in r.inputs)
<1>1. /\ calls'[c] = r /\ r.hook = calls[c].hook /\ r.node = calls[c].node
      /\ \A d \in Calls \ {c} : calls'[d] = calls[d]
  BY DEF Moves
<1>2. \A d \in Calls : calls'[d].hook = calls[d].hook /\ calls'[d].node = calls[d].node
  BY <1>1
<1>3. ASSUME NEW n \in Nodes PROVE NodeUses(n)' = NodeUses(n)
  <2>1. Setters(n)' = Setters(n)
    BY DEF Setters
  <2>2. Spawned(n)' = Spawned(n)
    BY <1>2 DEF Spawned, IsDirect
  <2> QED BY <2>1, <2>2 DEF NodeUses
<1>4. ASSUME NEW o \in Objects
      PROVE Uses(o)' + Bit(o \in Contents(c) /\ calls[c].pc \in Debt) + Bit(o \in calls[c].inputs)
              = Uses(o) + Bit(o \in Contents(c) /\ r.pc \in Debt) + Bit(o \in r.inputs)
  <2>1. Givers(o)' = Givers(o)
    BY DEF Givers
  <2>2. \A d \in Calls : Contents(d)' = Contents(d)
    BY DEF Contents
  <2>3. /\ \A d \in Calls : d \in Owing(o) <=> o \in Contents(d) /\ calls[d].pc \in Debt
        /\ \A d \in Calls : d \in Owing(o)' <=> o \in Contents(d) /\ calls'[d].pc \in Debt
    BY <2>2 DEF Owing, Debt
  <2>4. /\ \A d \in Calls : d \in Readers(o) <=> o \in calls[d].inputs
        /\ \A d \in Calls : d \in Readers(o)' <=> o \in calls'[d].inputs
    BY DEF Readers
  <2>5. Owing(o) \in SUBSET Calls /\ Owing(o)' \in SUBSET Calls /\ Readers(o) \in SUBSET Calls
        /\ Readers(o)' \in SUBSET Calls /\ Cardinality(Givers(o)) \in Nat
    BY SetsAre DEF Owing, Readers
  <2>6. /\ Cardinality(Owing(o)) \in Nat /\ Cardinality(Owing(o)') \in Nat
        /\ Cardinality(Owing(o)') + Bit(c \in Owing(o)) = Cardinality(Owing(o)) + Bit(c \in Owing(o)')
    BY <1>1, <2>3, <2>5, FiniteSets, CardStep
  <2>7. /\ Cardinality(Readers(o)) \in Nat /\ Cardinality(Readers(o)') \in Nat
        /\ Cardinality(Readers(o)') + Bit(c \in Readers(o)) = Cardinality(Readers(o)) + Bit(c \in Readers(o)')
    BY <1>1, <2>4, <2>5, FiniteSets, CardStep
  <2>8. /\ c \in Owing(o) <=> o \in Contents(c) /\ calls[c].pc \in Debt
        /\ c \in Owing(o)' <=> o \in Contents(c) /\ r.pc \in Debt
        /\ c \in Readers(o) <=> o \in calls[c].inputs
        /\ c \in Readers(o)' <=> o \in r.inputs
    BY <1>1, <2>3, <2>4
  <2>9. /\ Bit(c \in Owing(o)) = Bit(o \in Contents(c) /\ calls[c].pc \in Debt)
        /\ Bit(c \in Owing(o)') = Bit(o \in Contents(c) /\ r.pc \in Debt)
        /\ Bit(c \in Readers(o)) = Bit(o \in calls[c].inputs)
        /\ Bit(c \in Readers(o)') = Bit(o \in r.inputs)
    BY <2>8 DEF Bit
  <2>10. /\ Uses(o) = Cardinality(Givers(o)) + Cardinality(Owing(o)) + Cardinality(Readers(o)) + Kept(o)
         /\ Uses(o)' = Cardinality(Givers(o)) + Cardinality(Owing(o)') + Cardinality(Readers(o)') + Kept(o)
         /\ Kept(o) \in Nat
    BY <2>1 DEF Uses, Kept, Bit
  <2>11. /\ Bit(o \in Contents(c) /\ calls[c].pc \in Debt) \in Nat /\ Bit(o \in Contents(c) /\ r.pc \in Debt) \in Nat
         /\ Bit(o \in calls[c].inputs) \in Nat /\ Bit(o \in r.inputs) \in Nat
    BY DEF Bit
  <2> QED BY <2>5, <2>6, <2>7, <2>9, <2>10, <2>11
<1> QED BY <1>3, <1>4

-----------------------------------------------------------------------------
(* The inductive invariant.                                                *)

\* Only the events of a window carry a value of their own.
Restricted == Fresh \subseteq Direct

\* The window runs one hook at a time, which is still set and not being changed.
Window == /\ \A c \in Calls : IsDirect(c) =>
               hooks[calls[c].hook].action = calls[c].node /\ change.hook # calls[c].hook
          /\ \A c, d \in Calls : IsDirect(c) /\ IsDirect(d) => c = d

\* A node that is a call of a function is of one hook, and its calls have
\* lists that hold the same.
SharedNode(n) ==
  /\ \A h, g \in Setters(n) : h = g
  /\ \A c \in Calls, h \in Setters(n) : calls[c].node = n =>
       calls[c].hook = h /\ lists[c] = ListFor(h, c)
  /\ \A c, d \in Calls : calls[c].node = n /\ calls[d].node = n =>
       calls[c].hook = calls[d].hook /\ lists[c] = lists[d]
Shared == \A n \in Nodes \ Blocks : SharedNode(n)

BlockLists == \A c \in Calls : calls[c].node \in Blocks => lists[c] = NoList

Shape == Window /\ Shared /\ BlockLists

\* Where args may point to a call, and where the call still needs its list.
Held    == {"set", "run", "compare", "del", "clear"}
Leaving == {"compare", "del", "clear"}

Fields == /\ \A n \in Nodes : args[n] # NULL =>
               /\ calls[args[n]].node = n /\ lists[args[n]] # NoList /\ calls[args[n]].pc \in Held
          /\ \A c \in Calls : calls[c].pc \in Leaving => lists[c] # NoList

OwnList(c) == /\ calls[c].pc = "set" => args[calls[c].node] = c
              /\ calls[c].pc = "run" => calls[c].read = c
WithList(c) == IsDirect(c) /\ calls[c].node \notin Blocks /\ lists[c] # NoList
Own == \A c \in Calls : WithList(c) => OwnList(c)

IInv == TypeOK /\ Counts /\ Shape /\ Fields /\ Own /\ NothingStale

LEMMA KeepsShape ==
  ASSUME TypeOK, Shape, NEW c \in Calls, NEW r \in CallRec, Moves(c, r), UNCHANGED <<hooks, lists, change>>
  PROVE  Shape'
<1>1. \A d \in Calls : calls'[d].hook = calls[d].hook /\ calls'[d].node = calls[d].node
  BY DEF Moves
<1>2. Window'
  BY <1>1 DEF Shape, Window, IsDirect
<1>3. \A h \in Hooks, d \in Calls : ListFor(h, d)' = ListFor(h, d)
  BY DEF ListFor, OwnOf, ExtraOf
<1>4. ASSUME NEW n \in Nodes \ Blocks PROVE SharedNode(n)'
  <2>1. SharedNode(n)
    BY DEF Shape, Shared
  <2> QED BY <1>1, <1>3, <2>1 DEF SharedNode, Setters
<1>5. Shared'
  BY <1>4 DEF Shared
<1>6. BlockLists'
  BY <1>1 DEF Shape, BlockLists
<1> QED BY <1>2, <1>5, <1>6 DEF Shape

LEMMA KeepsFields ==
  ASSUME TypeOK, Fields, NEW c \in Calls, NEW r \in CallRec, Moves(c, r), UNCHANGED <<lists, args>>,
         r.pc \in Held \/ \A m \in Nodes : args[m] # c,
         r.pc \in Leaving => lists[c] # NoList
  PROVE  Fields'
<1>1. /\ calls'[c] = r /\ r.node = calls[c].node
      /\ \A d \in Calls \ {c} : calls'[d] = calls[d]
  BY DEF Moves
<1>2. \A m \in Nodes : args[m] \in Calls \cup {NULL}
  BY TypeIs DEF Plain
<1>3. ASSUME NEW m \in Nodes, args[m] # NULL
      PROVE  calls'[args[m]].node = m /\ lists[args[m]] # NoList /\ calls'[args[m]].pc \in Held
  <2>1. calls[args[m]].node = m /\ lists[args[m]] # NoList /\ calls[args[m]].pc \in Held /\ args[m] \in Calls
    BY <1>2, <1>3 DEF Fields
  <2>2. CASE args[m] = c
    BY <1>1, <2>1, <2>2
  <2>3. CASE args[m] # c
    BY <1>1, <2>1, <2>3
  <2> QED BY <2>2, <2>3
<1>4. \A d \in Calls : calls'[d].pc \in Leaving => lists[d] # NoList
  BY <1>1 DEF Fields
<1> QED BY <1>3, <1>4 DEF Fields

\* The calls of the node of the call c, when one of them is direct.
LEMMA OnlyOne ==
  ASSUME TypeOK, Shape, NEW c \in Calls, NEW d \in Calls, WithList(d), calls[c].node = calls[d].node
  PROVE  c = d
<1>1. calls[d].node \in Nodes \ Blocks
  BY TypeIs, CallIs DEF WithList, CallFields
<1>2. SharedNode(calls[d].node)
  BY <1>1 DEF Shape, Shared
<1>3. calls[c].hook = calls[d].hook
  BY <1>2 DEF SharedNode, Setters
<1> QED BY <1>3 DEF Shape, Window, WithList, IsDirect

LEMMA KeepsOwn ==
  ASSUME TypeOK, Shape, Own, NEW c \in Calls, NEW r \in CallRec, Moves(c, r), UNCHANGED lists,
         \A m \in Nodes \ {calls[c].node} : args'[m] = args[m],
         WithList(c) => /\ r.pc = "set" => args'[calls[c].node] = c
                        /\ r.pc = "run" => r.read = c
  PROVE  Own'
<1>1. /\ calls'[c] = r /\ r.node = calls[c].node /\ r.hook = calls[c].hook
      /\ \A d \in Calls \ {c} : calls'[d] = calls[d]
  BY DEF Moves
<1>2. \A d \in Calls : WithList(d)' <=> WithList(d)
  BY <1>1 DEF WithList, IsDirect
<1>3. ASSUME NEW d \in Calls, WithList(d) PROVE OwnList(d)'
  <2>1. CASE d = c
    BY <1>1, <1>3, <2>1 DEF OwnList
  <2>2. CASE d # c
    <3>1. calls[d].node # calls[c].node
      BY <1>3, <2>2, OnlyOne
    <3>2. calls[d].node \in Nodes
      BY <1>3, TypeIs, CallIs DEF WithList, CallFields
    <3>3. OwnList(d)
      BY <1>3 DEF Own
    <3> QED BY <1>1, <2>2, <3>1, <3>2, <3>3 DEF OwnList
  <2> QED BY <2>1, <2>2
<1> QED BY <1>2, <1>3 DEF Own

-----------------------------------------------------------------------------
(* The steps of a call in progress keep the invariant.                     *)

\* A call in progress has a node that exists.
LEMMA NodeLives ==
  ASSUME TypeOK, Counts, Window, NEW c \in Calls, calls[c] # Idle
  PROVE  calls[c].node \in Nodes /\ calls[c].node \in live
<1>1. CallsType /\ CallFields(calls[c])
  BY TypeIs, CallIs
<1>2. calls[c].node \in Nodes
  BY <1>1 DEF CallFields
<1>3. CASE IsDirect(c)
  <2>1. hooks[calls[c].hook].action = calls[c].node /\ calls[c].hook \in Hooks /\ change.hook # calls[c].hook
    BY <1>1, <1>3 DEF Window, CallFields
  <2> QED BY <1>2, <2>1, NodeUsed DEF Counts
<1>4. CASE ~IsDirect(c)
  BY <1>2, <1>4, NodeUsed DEF Counts
<1> QED BY <1>2, <1>3, <1>4

\* The list a call finds in the field of its node holds what its own does.
LEMMA FoundList ==
  ASSUME TypeOK, Shape, Fields, NEW c \in Calls, calls[c] # Idle, calls[c].node \notin Blocks,
         args[calls[c].node] # NULL
  PROVE  LET k == args[calls[c].node]
         IN /\ k \in Calls /\ lists[k] = lists[c] /\ lists[c] # NoList /\ Contents(k) = Contents(c)
<1> PICK n : n = calls[c].node
  OBVIOUS
<1> PICK k : k = args[n]
  OBVIOUS
<1>1. n \in Nodes \ Blocks
  BY TypeIs, CallIs DEF CallFields
<1>2. k \in Calls /\ calls[k].node = n /\ lists[k] # NoList
  BY <1>1, TypeIs DEF Plain, Fields
<1>3. lists[k] = lists[c]
  BY <1>1, <1>2 DEF Shape, Shared, SharedNode, Setters
<1>4. Contents(k) = Contents(c)
  BY <1>2, <1>3, TypeIs, ListIs
<1> QED BY <1>2, <1>3, <1>4

\* A step that changes no count: the call goes on, with the list it owed.
LEMMA KeepsCounts ==
  ASSUME TypeOK, Counts, NEW c \in Calls, NEW r \in CallRec, Moves(c, r),
         UNCHANGED <<live, REF, hooks, lists, held, change>>, r.inputs = calls[c].inputs,
         calls[c].pc \in Debt \/ r.pc \notin Debt
  PROVE  Counts'
<1>1. CallsType /\ ListsType
  BY TypeIs
<1>2. /\ \A n \in Nodes : NodeUses(n)' = NodeUses(n)
      /\ \A o \in Objects :
           Uses(o)' + Bit(o \in Contents(c) /\ calls[c].pc \in Debt) + Bit(o \in calls[c].inputs)
             = Uses(o) + Bit(o \in Contents(c) /\ r.pc \in Debt) + Bit(o \in calls[c].inputs)
  BY <1>1, MovedUses
<1>3. ASSUME NEW o \in Objects PROVE Uses(o)' <= Uses(o)
  <2>1. Bit(o \in Contents(c) /\ r.pc \in Debt) <= Bit(o \in Contents(c) /\ calls[c].pc \in Debt)
    BY DEF Bit
  <2>2. /\ Bit(o \in Contents(c) /\ r.pc \in Debt) \in Nat /\ Bit(o \in Contents(c) /\ calls[c].pc \in Debt) \in Nat
        /\ Bit(o \in calls[c].inputs) \in Nat /\ Uses(o) \in Nat /\ Uses(o)' \in Nat
    BY SetsAre, SizesNext DEF Bit
  <2> QED BY <1>2, <2>1, <2>2
<1>4. \A o \in Objects : Uses(o) \in Nat /\ Uses(o)' \in Nat /\ REF[o] \in Nat
  BY SetsAre, SizesNext, TypeIs DEF Plain
<1>5. NodesCounted'
  BY <1>2 DEF Counts, NodesCounted
<1>6. ObjectsCounted'
  BY <1>3, <1>4 DEF Counts, ObjectsCounted
<1> QED BY <1>5, <1>6 DEF Counts

LEMMA SetKeeps ==
  ASSUME IInv, NEW c \in Calls, SetArgs(c)
  PROVE  IInv'
<1>1. TypeOK /\ Counts /\ Shape /\ Fields /\ Own /\ NothingStale /\ TypeOK'
  BY SetTypes DEF IInv
<1>2. calls[c].pc = "start" /\ calls[c].pc \in Labels /\ At(c, "set") /\ "set" \in Labels
  BY DEF SetArgs, Labels
<1>3. CallsType /\ calls[c] # Idle
  BY <1>1, <1>2, TypeIs, RunningIs
<1> PICK r \in CallRec : Moves(c, r) /\ r.pc = "set" /\ r.inputs = calls[c].inputs
  BY <1>2, <1>3, Moved
<1> PICK n : n = calls[c].node
  OBVIOUS
<1>4. n \in Nodes /\ n \in live
  BY <1>1, <1>3, NodeLives DEF Shape
<1>5. /\ UNCHANGED <<live, REF, hooks, lists, held, change>>
      /\ args' = IF lists[c] = NoList THEN args ELSE [args EXCEPT ![n] = c]
      /\ fault' = (fault \/ n \notin live)
  BY DEF SetArgs
<1>6. NothingStale'
  BY <1>1, <1>4, <1>5 DEF NothingStale
<1>7. Counts'
  <2>1. calls[c].pc \in Debt
    BY <1>2 DEF Debt
  <2> QED BY <1>1, <1>5, <2>1, KeepsCounts
<1>8. Shape'
  BY <1>1, <1>5, KeepsShape
<1>9. args \in [Nodes -> Calls \cup {NULL}] /\ c # NULL
  BY <1>1, TypeIs, Apart DEF Plain
<1>10. Own'
  <2>1. \A m \in Nodes \ {n} : args'[m] = args[m]
    BY <1>5, <1>9
  <2>2. WithList(c) => args'[n] = c
    BY <1>4, <1>5, <1>9 DEF WithList
  <2> QED BY <1>1, <1>5, <2>1, <2>2, KeepsOwn
<1>11. Fields'
  <2>1. /\ calls'[c] = r /\ r.node = n /\ \A d \in Calls \ {c} : calls'[d] = calls[d]
    BY DEF Moves
  <2>2. ASSUME NEW m \in Nodes, args'[m] # NULL
        PROVE  calls'[args'[m]].node = m /\ lists[args'[m]] # NoList /\ calls'[args'[m]].pc \in Held
    <3>1. CASE m = n /\ lists[c] # NoList
      <4>1. args'[m] = c
        BY <1>4, <1>5, <1>9, <3>1
      <4> QED BY <2>1, <3>1, <4>1 DEF Held
    <3>2. CASE ~(m = n /\ lists[c] # NoList)
      <4>1. args'[m] = args[m]
        BY <1>5, <1>9, <3>2
      <4>2. args[m] # NULL /\ args[m] \in Calls
        BY <1>9, <2>2, <4>1
      <4>3. calls[args[m]].node = m /\ lists[args[m]] # NoList /\ calls[args[m]].pc \in Held
        BY <1>1, <4>2 DEF Fields
      <4>4. args[m] # c
        BY <1>2, <4>3 DEF Held
      <4> QED BY <2>1, <4>1, <4>2, <4>3, <4>4
    <3> QED BY <3>1, <3>2
  <2>3. \A d \in Calls : calls'[d].pc \in Leaving => lists[d] # NoList
    <3>1. "set" \notin Leaving
      BY DEF Leaving
    <3> QED BY <1>1, <2>1, <3>1 DEF Fields
  <2> QED BY <1>5, <2>2, <2>3 DEF Fields
<1> QED BY <1>1, <1>6, <1>7, <1>8, <1>10, <1>11 DEF IInv

LEMMA AcquireMoved ==
  ASSUME TypeOK, Counts, NEW c \in Calls, NEW r \in CallRec, Moves(c, r),
         UNCHANGED <<live, hooks, lists, held, change>>, NEW S \in SUBSET Objects, S \subseteq live,
         REF' = AddRef(REF, S), r.inputs = S, calls[c].pc \in Debt, r.pc \in Debt
  PROVE  Counts'
<1>1. Plain /\ CallsType /\ ListsType
  BY TypeIs
<1>2. /\ \A m \in Nodes : NodeUses(m)' = NodeUses(m)
      /\ \A o \in Objects :
           Uses(o)' + Bit(o \in Contents(c) /\ calls[c].pc \in Debt) + Bit(o \in calls[c].inputs)
             = Uses(o) + Bit(o \in Contents(c) /\ r.pc \in Debt) + Bit(o \in S)
  BY <1>1, MovedUses
<1>3. REF \in [Nodes \cup Objects -> Nat]
  BY <1>1 DEF Plain
<1>4. \A o \in Nodes \cup Objects : REF[o] \in Nat /\ REF'[o] = IF o \in S THEN REF[o] + 1 ELSE REF[o]
  BY <1>3 DEF AddRef
<1>5. \A m \in Nodes : m \notin S
  BY Apart
<1>6. NodesCounted'
  BY <1>2, <1>4, <1>5 DEF Counts, NodesCounted
<1>7. ASSUME NEW o \in Objects
      PROVE IF o \in live THEN REF'[o] >= Uses(o)' ELSE Uses(o)' = 0
  <2>1. Uses(o) \in Nat /\ Uses(o)' \in Nat
    BY SetsAre, SizesNext
  <2>2. IF o \in live THEN REF[o] >= Uses(o) ELSE Uses(o) = 0
    BY DEF Counts, ObjectsCounted
  <2>3. Bit(o \in Contents(c) /\ calls[c].pc \in Debt) = Bit(o \in Contents(c) /\ r.pc \in Debt)
        /\ Bit(o \in Contents(c) /\ r.pc \in Debt) \in Nat /\ Bit(o \in calls[c].inputs) \in Nat
    BY DEF Bit
  <2>4. Bit(o \in S) = (IF o \in S THEN 1 ELSE 0)
    BY DEF Bit
  <2>5. Uses(o)' <= Uses(o) + (IF o \in S THEN 1 ELSE 0)
    BY <1>2, <2>1, <2>3, <2>4
  <2> QED BY <1>4, <2>1, <2>2, <2>5
<1> QED BY <1>6, <1>7 DEF Counts, ObjectsCounted

LEMMA ReadKeeps ==
  ASSUME IInv, NEW c \in Calls, Read(c)
  PROVE  IInv'
<1>1. TypeOK /\ Counts /\ Shape /\ Fields /\ Own /\ NothingStale /\ TypeOK'
  BY ReadTypes DEF IInv
<1>2. calls[c].pc = "set" /\ calls[c].pc \in Labels
  BY DEF Read, Labels
<1>3. Plain /\ CallsType /\ ListsType /\ calls[c] # Idle /\ CallFields(calls[c])
  BY <1>1, <1>2, TypeIs, RunningIs
<1> PICK n : n = calls[c].node
  OBVIOUS
<1> PICK k : k = args[n]
  OBVIOUS
<1> PICK S : S = IF n \in Blocks THEN {} ELSE Contents(k)
  OBVIOUS
<1>4. n \in Nodes /\ n \in live
  BY <1>1, <1>3, NodeLives DEF Shape
<1>5. k \in Calls \cup {NULL}
  BY <1>3, <1>4 DEF Plain
<1>6. k # NULL /\ n \notin Blocks => k \in Calls /\ lists[k] = lists[c] /\ lists[c] # NoList /\ Contents(k) = Contents(c)
  BY <1>1, <1>3, FoundList
<1>7. k = NULL => Contents(k) = {}
  BY DEF Contents
<1>8. S \subseteq Contents(c)
  BY <1>3, <1>5, <1>6, <1>7, ListIs
<1>9. /\ fault' = (fault \/ n \notin live \/ ~(S \subseteq live)
                         \/ (n \notin Blocks /\ k # NULL /\ lists[k] = NoList))
      /\ UNCHANGED <<live, hooks, args, lists, held, change>>
  BY DEF Read
<1>10. /\ S \in SUBSET Objects /\ REF' = AddRef(REF, S)
       /\ \E r \in CallRec : Moves(c, r) /\ r.pc = "run" /\ r.read = k /\ r.inputs = S
  BY <1>1, ReadIs
<1> PICK r \in CallRec : Moves(c, r) /\ r.pc = "run" /\ r.read = k /\ r.inputs = S
  BY <1>10
<1>11. calls[c].pc \in Debt /\ r.pc \in Debt /\ r.pc \in Held /\ r.pc \notin Leaving
  BY <1>2 DEF Debt, Held, Leaving
<1>12. S \subseteq live
  <2>1. ASSUME NEW o \in S PROVE o \in live
    BY <1>1, <1>8, <1>10, <1>11, ObjectUsed DEF Counts
  <2> QED BY <2>1
<1>13. NothingStale'
  BY <1>1, <1>4, <1>6, <1>9, <1>12 DEF NothingStale
<1>14. Counts'
  BY <1>1, <1>9, <1>10, <1>11, <1>12, AcquireMoved
<1>15. Shape'
  BY <1>1, <1>9, KeepsShape
<1>16. Fields'
  BY <1>1, <1>9, <1>11, KeepsFields
<1>17. Own'
  <2>1. WithList(c) => k = c
    BY <1>1, <1>2 DEF Own, OwnList
  <2> QED BY <1>1, <1>9, <2>1, KeepsOwn
<1> QED BY <1>1, <1>13, <1>14, <1>15, <1>16, <1>17 DEF IInv

LEMMA ReleaseMoved ==
  ASSUME TypeOK, Counts, NEW c \in Calls, NEW r \in CallRec, Moves(c, r),
         UNCHANGED <<hooks, lists, held, change>>, NEW S \in SUBSET Objects,
         REF' = RemRef(REF, S), live' = Survivors(REF, S),
         \A o \in Objects :
           Bit(o \in Contents(c) /\ r.pc \in Debt) + Bit(o \in r.inputs) + Bit(o \in S)
             <= Bit(o \in Contents(c) /\ calls[c].pc \in Debt) + Bit(o \in calls[c].inputs)
  PROVE  Counts' /\ S \subseteq live
<1>1. Plain /\ CallsType /\ ListsType
  BY TypeIs
<1>2. /\ \A n \in Nodes : NodeUses(n)' = NodeUses(n)
      /\ \A o \in Objects :
           Uses(o)' + Bit(o \in Contents(c) /\ calls[c].pc \in Debt) + Bit(o \in calls[c].inputs)
             = Uses(o) + Bit(o \in Contents(c) /\ r.pc \in Debt) + Bit(o \in r.inputs)
  BY <1>1, MovedUses
<1>3. ASSUME NEW o \in Objects PROVE Uses(o)' + Bit(o \in S) <= Uses(o)
  <2>1. /\ Bit(o \in Contents(c) /\ r.pc \in Debt) \in Nat /\ Bit(o \in Contents(c) /\ calls[c].pc \in Debt) \in Nat
        /\ Bit(o \in calls[c].inputs) \in Nat /\ Bit(o \in r.inputs) \in Nat /\ Bit(o \in S) \in Nat
        /\ Uses(o) \in Nat /\ Uses(o)' \in Nat
    BY SetsAre, SizesNext DEF Bit
  <2> QED BY <1>2, <2>1
<1>4. \A n \in Nodes : NodeUses(n)' + Bit(n \in S) = NodeUses(n)
  <2>1. ASSUME NEW n \in Nodes PROVE Bit(n \in S) = 0 /\ NodeUses(n) \in Nat
    BY SetsAre, Apart DEF Bit
  <2> QED BY <1>2, <2>1
<1> QED BY <1>1, <1>3, <1>4, ReleaseCounts

LEMMA FinishKeeps ==
  ASSUME IInv, NEW c \in Calls, Finish(c)
  PROVE  IInv'
<1>1. TypeOK /\ Counts /\ Shape /\ Fields /\ Own /\ NothingStale /\ TypeOK'
  BY FinishTypes DEF IInv
<1>2. calls[c].pc = "run" /\ calls[c].pc \in Labels
  BY DEF Finish, Labels
<1>3. Plain /\ CallsType /\ ListsType /\ calls[c] # Idle /\ CallFields(calls[c])
  BY <1>1, <1>2, TypeIs, RunningIs
<1> PICK t \in BOOLEAN : calls' = [calls EXCEPT ![c].pc = Then(c, t), ![c].inputs = {}]
  BY DEF Finish
<1> PICK r \in CallRec : Moves(c, r) /\ r.pc = Then(c, t) /\ r.inputs = {}
  BY <1>3, ThenIs, MovedFinishing
<1> PICK S : S = calls[c].inputs
  OBVIOUS
<1>4. /\ S \in SUBSET Objects /\ REF' = RemRef(REF, S) /\ live' = Survivors(REF, S)
      /\ fault' = (fault \/ ~(S \subseteq live)) /\ UNCHANGED <<hooks, args, lists, held, change>>
  BY <1>3 DEF Finish, Release, CallFields
<1>5. Counts' /\ S \subseteq live
  <2>1. calls[c].pc \in Debt
    BY <1>2 DEF Debt
  <2>2. ASSUME NEW o \in Objects
        PROVE Bit(o \in Contents(c) /\ r.pc \in Debt) + Bit(o \in r.inputs) + Bit(o \in S)
                <= Bit(o \in Contents(c) /\ calls[c].pc \in Debt) + Bit(o \in calls[c].inputs)
    BY <2>1 DEF Bit
  <2> QED BY <1>1, <1>4, <2>2, ReleaseMoved
<1>6. NothingStale'
  BY <1>1, <1>4, <1>5 DEF NothingStale
<1>7. Shape'
  BY <1>1, <1>4, KeepsShape
<1>8. Fields'
  <2>1. CASE calls[c].node \in Blocks \/ lists[c] = NoList
    <3>1. lists[c] = NoList
      BY <1>1, <2>1 DEF Shape, BlockLists
    <3>2. \A m \in Nodes : args[m] # c
      BY <1>1, <3>1, Apart DEF Fields
    <3>3. r.pc \notin Leaving
      BY <2>1 DEF Then, Leaving
    <3> QED BY <1>1, <1>4, <3>2, <3>3, KeepsFields
  <2>2. CASE ~(calls[c].node \in Blocks \/ lists[c] = NoList)
    <3>1. r.pc \in Held
      BY <2>2 DEF Then, Held
    <3> QED BY <1>1, <1>4, <2>2, <3>1, KeepsFields
  <2> QED BY <2>1, <2>2
<1>9. Own'
  <2>1. r.pc # "set" /\ r.pc # "run"
    BY DEF Then
  <2> QED BY <1>1, <1>4, <2>1, KeepsOwn
<1> QED BY <1>1, <1>5, <1>6, <1>7, <1>8, <1>9 DEF IInv

LEMMA CompareKeeps ==
  ASSUME IInv, NEW c \in Calls, Compare(c)
  PROVE  IInv'
<1>1. TypeOK /\ Counts /\ Shape /\ Fields /\ Own /\ NothingStale /\ TypeOK'
  BY CompareTypes DEF IInv
<1>2. calls[c].pc = "compare" /\ calls[c].pc \in Labels /\ "del" \in Labels /\ "end" \in Labels
  BY DEF Compare, Labels
<1>3. Plain /\ CallsType /\ ListsType /\ calls[c] # Idle /\ CallFields(calls[c])
  BY <1>1, <1>2, TypeIs, RunningIs
<1> PICK n : n = calls[c].node
  OBVIOUS
<1>4. lists[c] # NoList /\ Contents(c) = lists[c] /\ Contents(c) \in SUBSET Objects
  BY <1>1, <1>2, <1>3, ListIs DEF Fields, Leaving
<1>5. UNCHANGED <<hooks, args, lists, held, change>>
  BY DEF Compare
<1>6. calls[c].pc \in Debt
  BY <1>2 DEF Debt
<1>7. CASE args[n] = c
  <2>1. At(c, "del") /\ UNCHANGED <<live, REF, fault>>
    BY <1>7 DEF Compare
  <2> PICK r \in CallRec : Moves(c, r) /\ r.pc = "del" /\ r.inputs = calls[c].inputs
    BY <1>2, <1>3, <2>1, Moved
  <2>2. r.pc \in Held /\ r.pc # "set" /\ r.pc # "run"
    BY DEF Held
  <2>3. Counts'
    BY <1>1, <1>5, <1>6, <2>1, KeepsCounts
  <2>4. Shape' /\ Fields' /\ Own'
    BY <1>1, <1>4, <1>5, <2>2, KeepsShape, KeepsFields, KeepsOwn
  <2> QED BY <1>1, <2>1, <2>3, <2>4 DEF IInv, NothingStale
<1>8. CASE args[n] # c
  <2> PICK S : S = lists[c]
    OBVIOUS
  <2>1. /\ At(c, "end") /\ REF' = RemRef(REF, S) /\ live' = Survivors(REF, S)
        /\ fault' = (fault \/ ~(S \subseteq live))
    BY <1>8 DEF Compare, Release
  <2> PICK r \in CallRec : Moves(c, r) /\ r.pc = "end" /\ r.inputs = calls[c].inputs
    BY <1>2, <1>3, <2>1, Moved
  <2>2. r.pc \notin Debt /\ r.pc \notin Leaving /\ r.pc # "set" /\ r.pc # "run"
    BY DEF Debt, Leaving
  <2>3. \A o \in Objects :
          Bit(o \in Contents(c) /\ r.pc \in Debt) + Bit(o \in r.inputs) + Bit(o \in S)
            <= Bit(o \in Contents(c) /\ calls[c].pc \in Debt) + Bit(o \in calls[c].inputs)
    BY <1>4, <1>6, <2>2 DEF Bit
  <2>4. Counts' /\ S \subseteq live
    BY <1>1, <1>4, <1>5, <2>1, <2>3, ReleaseMoved
  <2>5. \A m \in Nodes : args[m] # c
    <3>1. ASSUME NEW m \in Nodes, args[m] = c PROVE FALSE
      <4>1. m = n
        BY <1>1, <3>1, Apart DEF Fields
      <4> QED BY <1>8, <3>1, <4>1
    <3> QED BY <3>1
  <2>6. Shape' /\ Fields' /\ Own'
    BY <1>1, <1>5, <2>2, <2>5, KeepsShape, KeepsFields, KeepsOwn
  <2> QED BY <1>1, <2>1, <2>4, <2>6 DEF IInv, NothingStale
<1> QED BY <1>7, <1>8

LEMMA DelKeeps ==
  ASSUME IInv, NEW c \in Calls, DelArgs(c)
  PROVE  IInv'
<1>1. TypeOK /\ Counts /\ Shape /\ Fields /\ Own /\ NothingStale /\ TypeOK'
  BY DelTypes DEF IInv
<1>2. calls[c].pc = "del" /\ calls[c].pc \in Labels /\ "clear" \in Labels /\ At(c, "clear")
  BY DEF DelArgs, Labels
<1>3. Plain /\ CallsType /\ ListsType /\ calls[c] # Idle /\ CallFields(calls[c])
  BY <1>1, <1>2, TypeIs, RunningIs
<1> PICK n : n = calls[c].node
  OBVIOUS
<1> PICK k : k = args[n]
  OBVIOUS
<1> PICK S : S = Contents(k)
  OBVIOUS
<1>4. n \in Nodes /\ n \in live
  BY <1>1, <1>3, NodeLives DEF Shape
<1>5. lists[c] # NoList /\ n \notin Blocks
  BY <1>1, <1>2 DEF Fields, Leaving, Shape, BlockLists
<1>6. k # NULL => k \in Calls /\ lists[k] = lists[c] /\ Contents(k) = Contents(c)
  BY <1>1, <1>3, <1>5, FoundList
<1>7. k = NULL => Contents(k) = {}
  BY DEF Contents
<1>8. S \subseteq Contents(c) /\ S \in SUBSET Objects
  BY <1>3, <1>6, <1>7, ListIs
<1>9. /\ REF' = RemRef(REF, S) /\ live' = Survivors(REF, S)
      /\ fault' = (fault \/ n \notin live \/ ~(S \subseteq live) \/ (k # NULL /\ lists[k] = NoList))
      /\ UNCHANGED <<hooks, args, lists, held, change>>
  BY DEF DelArgs
<1> PICK r \in CallRec : Moves(c, r) /\ r.pc = "clear" /\ r.inputs = calls[c].inputs
  BY <1>2, <1>3, Moved
<1>10. calls[c].pc \in Debt /\ r.pc \notin Debt /\ r.pc \in Held /\ r.pc # "set" /\ r.pc # "run"
  BY <1>2 DEF Debt, Held
<1>11. \A o \in Objects :
         Bit(o \in Contents(c) /\ r.pc \in Debt) + Bit(o \in r.inputs) + Bit(o \in S)
           <= Bit(o \in Contents(c) /\ calls[c].pc \in Debt) + Bit(o \in calls[c].inputs)
  BY <1>8, <1>10 DEF Bit
<1>12. Counts' /\ S \subseteq live
  BY <1>1, <1>8, <1>9, <1>11, ReleaseMoved
<1>13. NothingStale'
  BY <1>1, <1>4, <1>5, <1>6, <1>9, <1>12 DEF NothingStale
<1>14. Shape' /\ Fields' /\ Own'
  BY <1>1, <1>5, <1>9, <1>10, KeepsShape, KeepsFields, KeepsOwn
<1> QED BY <1>1, <1>12, <1>13, <1>14 DEF IInv

LEMMA ClearKeeps ==
  ASSUME IInv, NEW c \in Calls, ClearArgs(c)
  PROVE  IInv'
<1>1. TypeOK /\ Counts /\ Shape /\ Fields /\ Own /\ NothingStale /\ TypeOK'
  BY ClearTypes DEF IInv
<1>2. calls[c].pc = "clear" /\ calls[c].pc \in Labels /\ "end" \in Labels /\ At(c, "end")
  BY DEF ClearArgs, Labels
<1>3. Plain /\ CallsType /\ ListsType /\ calls[c] # Idle
  BY <1>1, <1>2, TypeIs, RunningIs
<1> PICK n : n = calls[c].node
  OBVIOUS
<1>4. n \in Nodes /\ n \in live
  BY <1>1, <1>3, NodeLives DEF Shape
<1>5. /\ args' = [args EXCEPT ![n] = NULL] /\ fault' = (fault \/ n \notin live)
      /\ UNCHANGED <<live, REF, hooks, lists, held, change>>
  BY DEF ClearArgs
<1>6. args'[n] = NULL /\ \A m \in Nodes \ {n} : args'[m] = args[m]
  BY <1>3, <1>4, <1>5 DEF Plain
<1> PICK r \in CallRec : Moves(c, r) /\ r.pc = "end" /\ r.inputs = calls[c].inputs
  BY <1>2, <1>3, Moved
<1>7. r.pc \notin Debt /\ r.pc \notin Leaving /\ r.pc # "set" /\ r.pc # "run"
  BY DEF Debt, Leaving
<1>8. Counts'
  BY <1>1, <1>5, <1>7, KeepsCounts
<1>9. NothingStale'
  BY <1>1, <1>4, <1>5 DEF NothingStale
<1>10. Shape' /\ Own'
  BY <1>1, <1>5, <1>6, <1>7, KeepsShape, KeepsOwn
<1>11. Fields'
  <2>1. /\ calls'[c] = r /\ \A d \in Calls \ {c} : calls'[d] = calls[d]
    BY DEF Moves
  <2>2. ASSUME NEW m \in Nodes, args'[m] # NULL
        PROVE  calls'[args'[m]].node = m /\ lists[args'[m]] # NoList /\ calls'[args'[m]].pc \in Held
    <3>1. m # n /\ args'[m] = args[m] /\ args[m] \in Calls
      BY <1>3, <1>6, <2>2 DEF Plain
    <3>2. calls[args[m]].node = m /\ lists[args[m]] # NoList /\ calls[args[m]].pc \in Held
      BY <1>1, <2>2, <3>1 DEF Fields
    <3>3. args[m] # c
      BY <3>1, <3>2
    <3> QED BY <2>1, <3>1, <3>2, <3>3
  <2>3. \A d \in Calls : calls'[d].pc \in Leaving => lists[d] # NoList
    BY <1>1, <1>7, <2>1 DEF Fields
  <2> QED BY <1>5, <2>2, <2>3 DEF Fields
<1> QED BY <1>1, <1>8, <1>9, <1>10, <1>11 DEF IInv

LEMMA EndKeeps ==
  ASSUME IInv, NEW c \in Calls, EndCall(c)
  PROVE  IInv'
<1>1. TypeOK /\ Counts /\ Shape /\ Fields /\ Own /\ NothingStale /\ TypeOK'
  BY EndTypes DEF IInv
<1>2. calls[c].pc = "end" /\ calls[c].pc \in Labels
  BY DEF EndCall, Labels
<1>3. Plain /\ CallsType /\ ListsType /\ calls[c] # Idle
  BY <1>1, <1>2, TypeIs, RunningIs
<1> PICK n : n = calls[c].node
  OBVIOUS
<1>4. n \in Nodes /\ n \in live
  BY <1>1, <1>3, NodeLives DEF Shape
<1>5. /\ calls'[c] = Idle /\ \A d \in Calls \ {c} : calls'[d] = calls[d]
      /\ lists'[c] = NoList /\ \A d \in Calls \ {c} : lists'[d] = lists[d]
      /\ UNCHANGED <<hooks, args, held, change>>
  BY <1>3 DEF EndCall, CallsType, ListsType
<1>6. \A d \in Calls : calls'[d].node \in Nodes \/ calls'[d].hook \in Hooks => d # c /\ calls'[d] = calls[d] /\ lists'[d] = lists[d]
  BY <1>5, IdleIs, Apart
<1>7. \A d \in Calls : IsDirect(d)' => d # c /\ IsDirect(d)
  BY <1>5, IdleIs, Apart DEF IsDirect
<1>8. Shape'
  <2>1. Window'
    BY <1>1, <1>5, <1>7 DEF Shape, Window
  <2>2. \A h \in Hooks, d \in Calls : ListFor(h, d)' = ListFor(h, d)
    BY <1>5 DEF ListFor, OwnOf, ExtraOf
  <2>3. ASSUME NEW m \in Nodes \ Blocks PROVE SharedNode(m)'
    <3>1. SharedNode(m)
      BY <1>1 DEF Shape, Shared
    <3>2. \A d \in Calls : calls'[d].node = m => calls'[d] = calls[d] /\ lists'[d] = lists[d]
      BY <1>6
    <3> QED BY <1>5, <2>2, <3>1, <3>2 DEF SharedNode, Setters
  <2>4. BlockLists'
    BY <1>1, <1>6, Apart DEF Shape, BlockLists
  <2> QED BY <2>1, <2>3, <2>4 DEF Shape, Shared
<1>9. Fields'
  <2>1. ASSUME NEW m \in Nodes, args[m] # NULL
        PROVE  calls'[args[m]].node = m /\ lists'[args[m]] # NoList /\ calls'[args[m]].pc \in Held
    <3>1. calls[args[m]].node = m /\ lists[args[m]] # NoList /\ calls[args[m]].pc \in Held /\ args[m] \in Calls
      BY <1>1, <1>3, <2>1 DEF Fields, Plain
    <3>2. args[m] # c
      BY <1>2, <3>1 DEF Held
    <3> QED BY <1>5, <3>1, <3>2
  <2>2. ASSUME NEW d \in Calls, calls'[d].pc \in Leaving PROVE lists'[d] # NoList
    <3>1. d # c
      BY <1>5, <2>2, IdleIs DEF Leaving
    <3> QED BY <1>1, <1>5, <2>2, <3>1 DEF Fields
  <2> QED BY <1>5, <2>1, <2>2 DEF Fields
<1>10. Own'
  <2>1. ASSUME NEW d \in Calls, WithList(d)' PROVE OwnList(d)'
    <3>1. d # c
      BY <1>7, <2>1 DEF WithList
    <3>2. WithList(d)
      BY <1>5, <1>7, <2>1, <3>1 DEF WithList
    <3> QED BY <1>1, <1>5, <3>1, <3>2 DEF Own, OwnList
  <2> QED BY <2>1 DEF Own
<1>11. /\ \A m \in Nodes : NodeUses(m)' + Bit(m = n /\ ~IsDirect(c)) = NodeUses(m)
       /\ \A o \in Objects : Uses(o)' <= Uses(o)
  <2>1. ASSUME NEW m \in Nodes PROVE NodeUses(m)' + Bit(m = n /\ ~IsDirect(c)) = NodeUses(m)
    <3>1. Setters(m)' = Setters(m)
      BY <1>5 DEF Setters
    <3>2. /\ c \in Spawned(m) <=> m = n /\ ~IsDirect(c)
          /\ c \notin Spawned(m)'
      BY <1>5, IdleIs, Apart DEF Spawned
    <3>3. \A d \in Calls \ {c} : d \in Spawned(m) <=> d \in Spawned(m)'
      BY <1>5 DEF Spawned, IsDirect
    <3>4. Spawned(m) \in SUBSET Calls /\ Spawned(m)' \in SUBSET Calls
      BY DEF Spawned
    <3>5. /\ Cardinality(Spawned(m)) \in Nat /\ Cardinality(Spawned(m)') \in Nat
          /\ Cardinality(Spawned(m)') + Bit(c \in Spawned(m)) = Cardinality(Spawned(m)) + Bit(c \in Spawned(m)')
      BY <3>3, <3>4, FiniteSets, CardStep
    <3>6. Cardinality(Setters(m)) \in Nat
      BY SetsAre
    <3> QED BY <3>1, <3>2, <3>5, <3>6 DEF NodeUses, Bit
  <2>2. ASSUME NEW o \in Objects PROVE Uses(o)' <= Uses(o)
    <3>1. Givers(o)' = Givers(o)
      BY <1>5 DEF Givers
    <3>2. \A d \in Calls \ {c} : Contents(d)' = Contents(d)
      BY <1>5 DEF Contents
    <3>3. c \notin Owing(o)' /\ c \notin Readers(o)'
      BY <1>5, IdleIs DEF Owing, Readers
    <3>4. \A d \in Calls \ {c} : (d \in Owing(o) <=> d \in Owing(o)') /\ (d \in Readers(o) <=> d \in Readers(o)')
      BY <1>5, <3>2 DEF Owing, Readers
    <3>5. Owing(o) \in SUBSET Calls /\ Owing(o)' \in SUBSET Calls /\ Readers(o) \in SUBSET Calls
          /\ Readers(o)' \in SUBSET Calls /\ Cardinality(Givers(o)) \in Nat
      BY SetsAre DEF Owing, Readers
    <3>6. /\ Cardinality(Owing(o)) \in Nat /\ Cardinality(Owing(o)') \in Nat
          /\ Cardinality(Owing(o)') + Bit(c \in Owing(o)) = Cardinality(Owing(o)) + Bit(c \in Owing(o)')
      BY <3>4, <3>5, FiniteSets, CardStep
    <3>7. /\ Cardinality(Readers(o)) \in Nat /\ Cardinality(Readers(o)') \in Nat
          /\ Cardinality(Readers(o)') + Bit(c \in Readers(o)) = Cardinality(Readers(o)) + Bit(c \in Readers(o)')
      BY <3>4, <3>5, FiniteSets, CardStep
    <3>8. Cardinality(Owing(o)') <= Cardinality(Owing(o)) /\ Cardinality(Readers(o)') <= Cardinality(Readers(o))
      BY <3>3, <3>6, <3>7 DEF Bit
    <3>9. /\ Uses(o) = Cardinality(Givers(o)) + Cardinality(Owing(o)) + Cardinality(Readers(o)) + Kept(o)
          /\ Uses(o)' = Cardinality(Givers(o)) + Cardinality(Owing(o)') + Cardinality(Readers(o)') + Kept(o)
          /\ Kept(o) \in Nat
      BY <1>5, <3>1 DEF Uses, Kept, Bit
    <3> QED BY <3>5, <3>6, <3>7, <3>8, <3>9
  <2> QED BY <2>1, <2>2
<1>12. Counts' /\ NothingStale'
  <2>1. CASE IsDirect(c)
    <3>1. UNCHANGED <<live, REF, fault>>
      BY <2>1 DEF EndCall
    <3>2. \A m \in Nodes : NodeUses(m)' = NodeUses(m)
      <4>1. \A m \in Nodes : Bit(m = n /\ ~IsDirect(c)) = 0 /\ NodeUses(m)' \in Nat
        BY <2>1, SizesNext DEF Bit
      <4> QED BY <1>11, <4>1
    <3>3. \A o \in Objects : Uses(o) \in Nat /\ Uses(o)' \in Nat /\ REF[o] \in Nat
      BY <1>3, SetsAre, SizesNext DEF Plain
    <3>4. NodesCounted' /\ ObjectsCounted'
      BY <1>1, <1>11, <3>1, <3>2, <3>3 DEF Counts, NodesCounted, ObjectsCounted
    <3> QED BY <1>1, <3>1, <3>4 DEF Counts, NothingStale
  <2>2. CASE ~IsDirect(c)
    <3> PICK S : S = {n}
      OBVIOUS
    <3>1. REF' = RemRef(REF, S) /\ live' = Survivors(REF, S) /\ fault' = (fault \/ ~(S \subseteq live))
      BY <2>2 DEF EndCall, Release
    <3>2. \A m \in Nodes : NodeUses(m)' + Bit(m \in S) = NodeUses(m)
      <4>1. \A m \in Nodes : Bit(m \in S) = Bit(m = n /\ ~IsDirect(c))
        BY <2>2 DEF Bit
      <4> QED BY <1>11, <4>1
    <3>3. \A o \in Objects : Uses(o)' + Bit(o \in S) <= Uses(o)
      <4>1. \A o \in Objects : Bit(o \in S) = 0 /\ Uses(o)' \in Nat
        BY <1>4, Apart, SizesNext DEF Bit
      <4> QED BY <1>11, <4>1
    <3>4. S \in SUBSET (Nodes \cup Objects)
      BY <1>4
    <3>5. Counts' /\ S \subseteq live
      BY <1>1, <1>3, <3>1, <3>2, <3>3, <3>4, ReleaseCounts
    <3> QED BY <1>1, <3>1, <3>5 DEF NothingStale
  <2> QED BY <2>1, <2>2
<1> QED BY <1>1, <1>8, <1>9, <1>10, <1>12 DEF IInv

-----------------------------------------------------------------------------
(* The steps that set and remove hooks.                                    *)

\* Of the hooks only h may change, and its list extra is there if x; only h can
\* begin or end to be changed.
Rehooked(h, x) ==
  /\ hooks'[h].extra = x
  /\ \A g \in Hooks \ {h} : hooks'[g] = hooks[g] /\ (change'.hook # g <=> change.hook # g)
  /\ UNCHANGED <<lists, calls, held>>

LEMMA HookCounts ==
  ASSUME Plain, NEW h \in Hooks, NEW x \in BOOLEAN, Rehooked(h, x)
  PROVE  /\ \A m \in Nodes : NodeUses(m)' + Bit(h \in Setters(m)) = NodeUses(m) + Bit(h \in Setters(m)')
         /\ \A o \in Objects :
              Uses(o)' + Bit(hooks[h].extra /\ o = Extra) + Bit(change.extra /\ o = Extra)
                = Uses(o) + Bit(x /\ o = Extra) + Bit(change'.extra /\ o = Extra)
<1>1. ASSUME NEW m \in Nodes
      PROVE NodeUses(m)' + Bit(h \in Setters(m)) = NodeUses(m) + Bit(h \in Setters(m)')
  <2>1. Spawned(m)' = Spawned(m)
    BY DEF Rehooked, Spawned, IsDirect
  <2>3. \A g \in Hooks \ {h} : g \in Setters(m) <=> g \in Setters(m)'
    BY DEF Setters, Rehooked
  <2>4. Setters(m) \in SUBSET Hooks /\ Setters(m)' \in SUBSET Hooks
    BY DEF Setters
  <2>5. /\ Cardinality(Setters(m)) \in Nat /\ Cardinality(Setters(m)') \in Nat
        /\ Cardinality(Setters(m)') + Bit(h \in Setters(m)) = Cardinality(Setters(m)) + Bit(h \in Setters(m)')
    BY <2>3, <2>4, FiniteSets, CardStep
  <2>6. Cardinality(Spawned(m)) \in Nat
    BY SetsAre
  <2> QED BY <2>1, <2>5, <2>6 DEF NodeUses, Bit
<1>2. ASSUME NEW o \in Objects
      PROVE Uses(o)' + Bit(hooks[h].extra /\ o = Extra) + Bit(change.extra /\ o = Extra)
              = Uses(o) + Bit(x /\ o = Extra) + Bit(change'.extra /\ o = Extra)
  <2>1. Owing(o)' = Owing(o) /\ Readers(o)' = Readers(o)
    BY DEF Rehooked, Owing, Contents, Readers
  <2>2. /\ h \in Givers(o) <=> hooks[h].extra /\ o = Extra
        /\ h \in Givers(o)' <=> x /\ o = Extra
    BY DEF Givers, Rehooked
  <2>3. \A g \in Hooks \ {h} : g \in Givers(o) <=> g \in Givers(o)'
    BY DEF Givers, Rehooked
  <2>4. Givers(o) \in SUBSET Hooks /\ Givers(o)' \in SUBSET Hooks
    BY DEF Givers
  <2>5. /\ Cardinality(Givers(o)) \in Nat /\ Cardinality(Givers(o)') \in Nat
        /\ Cardinality(Givers(o)') + Bit(h \in Givers(o)) = Cardinality(Givers(o)) + Bit(h \in Givers(o)')
    BY <2>3, <2>4, FiniteSets, CardStep
  <2>6. Cardinality(Owing(o)) \in Nat /\ Cardinality(Readers(o)) \in Nat
    BY SetsAre
  <2>7. /\ Uses(o) = Cardinality(Givers(o)) + Cardinality(Owing(o)) + Cardinality(Readers(o)) + Kept(o)
        /\ Uses(o)' = Cardinality(Givers(o)') + Cardinality(Owing(o)) + Cardinality(Readers(o)) + Kept(o)'
    BY <2>1 DEF Uses
  <2>8. Bit(h \in Givers(o)) = Bit(hooks[h].extra /\ o = Extra) /\ Bit(h \in Givers(o)') = Bit(x /\ o = Extra)
        /\ Bit(hooks[h].extra /\ o = Extra) \in Nat /\ Bit(x /\ o = Extra) \in Nat
    BY <2>2 DEF Bit
  <2>9. /\ Kept(o)' + Bit(change.extra /\ o = Extra) = Kept(o) + Bit(change'.extra /\ o = Extra)
        /\ Kept(o) \in Nat /\ Kept(o)' \in Nat
        /\ Bit(change.extra /\ o = Extra) \in Nat /\ Bit(change'.extra /\ o = Extra) \in Nat
    BY DEF Kept, Bit, Rehooked
  <2> QED BY <2>5, <2>6, <2>7, <2>8, <2>9
<1> QED BY <1>1, <1>2

\* A node nothing refers to.
Unused(n) == (\A g \in Hooks : g \notin Setters(n)) /\ \A c \in Calls : calls[c].node # n

LEMMA HookShape ==
  ASSUME TypeOK, Shape, NEW h \in Hooks, NEW x \in BOOLEAN, Rehooked(h, x), ~InUse(h),
         \A m \in Nodes \ Blocks : h \in Setters(m)' => Unused(m)
  PROVE  Shape'
<1>1. /\ \A g \in Hooks \ {h} : hooks'[g] = hooks[g] /\ (change'.hook # g <=> change.hook # g)
      /\ lists' = lists /\ calls' = calls
  BY DEF Rehooked
<1>2. Window'
  <2>1. \A c \in Calls : IsDirect(c)' <=> IsDirect(c)
    BY <1>1 DEF IsDirect
  <2>2. \A c \in Calls : IsDirect(c) => calls[c].hook \in Hooks \ {h}
    BY TypeIs, CallIs DEF InUse
  <2> QED BY <1>1, <2>1, <2>2 DEF Shape, Window
<1>3. ASSUME NEW m \in Nodes \ Blocks PROVE SharedNode(m)'
  <2>1. SharedNode(m)
    BY DEF Shape, Shared
  <2>2. \A g \in Hooks \ {h}, d \in Calls : ListFor(g, d)' = ListFor(g, d)
    BY <1>1 DEF ListFor, OwnOf, ExtraOf
  <2>3. \A g \in Hooks \ {h} : g \in Setters(m)' <=> g \in Setters(m)
    BY <1>1 DEF Setters
  <2>4. Setters(m)' \subseteq Hooks
    BY DEF Setters
  <2>5. CASE h \in Setters(m)'
    <3>1. \A g \in Setters(m)' : g = h
      BY <2>3, <2>4, <2>5 DEF Unused
    <3>2. \A c \in Calls : calls'[c].node # m
      BY <1>1, <2>5 DEF Unused
    <3> QED BY <3>1, <3>2 DEF SharedNode
  <2>6. CASE h \notin Setters(m)'
    <3>1. \A g \in Setters(m)' : g \in Setters(m) /\ g # h /\ \A d \in Calls : ListFor(g, d)' = ListFor(g, d)
      BY <2>2, <2>3, <2>4, <2>6
    <3> QED BY <1>1, <2>1, <3>1 DEF SharedNode
  <2> QED BY <2>5, <2>6
<1>4. BlockLists'
  BY <1>1 DEF Shape, BlockLists
<1> QED BY <1>2, <1>3, <1>4 DEF Shape, Shared

\* What a hook holds exists, unless it is being changed.
LEMMA HookHolds ==
  ASSUME TypeOK, Counts, NEW h \in Hooks
  PROVE  /\ hooks[h].action \in Nodes \cup {NULL} /\ hooks[h].extra \in BOOLEAN
         /\ hooks[h].action # NULL /\ change.hook # h => hooks[h].action \in live
         /\ ExtraOf(h) \subseteq live
<1>1. hooks[h].action \in Nodes \cup {NULL} /\ hooks[h].extra \in BOOLEAN
  BY TypeIs DEF Plain
<1>2. hooks[h].action # NULL /\ change.hook # h => hooks[h].action \in live
  BY <1>1, NodeUsed DEF Counts
<1>3. hooks[h].extra => Extra \in live
  BY Apart, ObjectUsed DEF Counts
<1> QED BY <1>1, <1>2, <1>3 DEF ExtraOf

\* A hook being changed is not in use.
LEMMA ChangingNotInUse ==
  ASSUME Shape, NEW h, change.hook = h
  PROVE  ~InUse(h)
BY DEF Shape, Window, InUse

LEMMA UnHookKeeps ==
  ASSUME IInv, NEW h \in Hooks, UnHook(h)
  PROVE  IInv'
<1>1. TypeOK /\ Counts /\ Shape /\ Fields /\ Own /\ NothingStale /\ TypeOK' /\ Plain
  BY UnHookTypes, TypeIs DEF IInv
<1> PICK a : a = hooks[h].action
  OBVIOUS
<1> PICK S : S = {a}
  OBVIOUS
<1> PICK x \in BOOLEAN : x = hooks[h].extra
  BY <1>1, HookHolds
<1>2. /\ change = NoChange /\ ~InUse(h) /\ a # NULL /\ REF' = RemRef(REF, S) /\ live' = Survivors(REF, S)
      /\ fault' = (fault \/ ~(S \subseteq live)) /\ UNCHANGED <<hooks, args, lists, calls, held, met>>
      /\ change'.hook = h /\ change'.extra = FALSE
  BY DEF UnHook, Release
<1>3. change.hook = NULL /\ change.extra = FALSE /\ h # NULL /\ \A g \in Hooks : g # NULL
  BY <1>2, Apart DEF NoChange
<1>4. Rehooked(h, x)
  BY <1>2, <1>3 DEF Rehooked
<1>5. a \in Nodes
  BY <1>1, <1>2, HookHolds
<1>6. \A m \in Nodes : (h \in Setters(m) <=> m = a) /\ h \notin Setters(m)'
  BY <1>2, <1>3 DEF Setters
<1>7. Counts' /\ S \subseteq live
  <2>1. /\ \A m \in Nodes : NodeUses(m)' + Bit(h \in Setters(m)) = NodeUses(m) + Bit(h \in Setters(m)')
        /\ \A o \in Objects : Uses(o)' + Bit(hooks[h].extra /\ o = Extra) + Bit(change.extra /\ o = Extra)
                                = Uses(o) + Bit(x /\ o = Extra) + Bit(change'.extra /\ o = Extra)
    BY <1>1, <1>4, HookCounts
  <2>2. \A m \in Nodes : Bit(h \in Setters(m)') = 0 /\ Bit(m \in S) = Bit(h \in Setters(m)) /\ NodeUses(m) \in Nat
    BY <1>6, SetsAre DEF Bit
  <2>3. \A o \in Objects : /\ Bit(change.extra /\ o = Extra) = 0 /\ Bit(change'.extra /\ o = Extra) = 0
                           /\ Bit(hooks[h].extra /\ o = Extra) = Bit(x /\ o = Extra)
                           /\ Bit(x /\ o = Extra) \in Nat /\ Bit(o \in S) = 0
                           /\ Uses(o) \in Nat /\ Uses(o)' \in Nat
    BY <1>2, <1>3, <1>5, Apart, SetsAre, SizesNext DEF Bit
  <2>4. /\ \A m \in Nodes : NodeUses(m)' + Bit(m \in S) = NodeUses(m)
        /\ \A o \in Objects : Uses(o)' + Bit(o \in S) <= Uses(o)
    BY <2>1, <2>2, <2>3
  <2>5. S \in SUBSET (Nodes \cup Objects)
    BY <1>5
  <2> QED BY <1>1, <1>2, <2>4, <2>5, ReleaseCounts
<1>8. Shape'
  BY <1>1, <1>2, <1>4, <1>6, HookShape
<1>9. Fields' /\ Own'
  BY <1>1, <1>2 DEF Fields, Own, OwnList, WithList, IsDirect
<1> QED BY <1>1, <1>2, <1>7, <1>8, <1>9 DEF IInv, NothingStale

\* Nothing is released or taken: the counts need only not be overtaken.
LEMMA StillCounts ==
  ASSUME Plain, Counts, UNCHANGED <<live, REF>>,
         \A n \in Nodes : NodeUses(n)' = NodeUses(n), \A o \in Objects : Uses(o)' <= Uses(o)
  PROVE  Counts'
<1>1. \A o \in Objects : Uses(o) \in Nat /\ Uses(o)' \in Nat /\ REF[o] \in Nat
  BY SetsAre, SizesNext DEF Plain
<1>2. NodesCounted'
  BY DEF Counts, NodesCounted
<1>3. ObjectsCounted'
  BY <1>1 DEF Counts, ObjectsCounted
<1> QED BY <1>2, <1>3 DEF Counts

LEMMA ClearHookKeeps ==
  ASSUME IInv, ClearHook
  PROVE  IInv'
<1>1. TypeOK /\ Counts /\ Shape /\ Fields /\ Own /\ NothingStale /\ TypeOK' /\ Plain
  BY ClearHookTypes, TypeIs DEF IInv
<1> PICK h : h = change.hook
  OBVIOUS
<1>2. /\ change.pc = "clear" /\ hooks' = [hooks EXCEPT ![h].action = NULL]
      /\ change' = [change EXCEPT !.pc = "free"] /\ UNCHANGED <<live, REF, args, lists, calls, held, met, fault>>
  BY DEF ClearHook
<1>3. h \in Hooks /\ change'.hook = h /\ change.extra = FALSE /\ change'.extra = FALSE
  BY <1>1, <1>2, ChangeIs
<1> PICK x \in BOOLEAN : x = hooks[h].extra
  BY <1>1, <1>3, HookHolds
<1>4. hooks'[h].extra = x /\ \A g \in Hooks \ {h} : hooks'[g] = hooks[g]
  <2> PICK n \in Nodes \cup {NULL} : n = NULL
    OBVIOUS
  <2>1. hooks' = [hooks EXCEPT ![h].action = n]
    BY <1>2
  <2> QED BY <1>1, <1>3, <2>1, ChangedHook
<1>5. Rehooked(h, x)
  BY <1>2, <1>3, <1>4 DEF Rehooked
<1>6. \A m \in Nodes : h \notin Setters(m) /\ h \notin Setters(m)'
  BY <1>3 DEF Setters
<1>7. Counts'
  <2>1. /\ \A m \in Nodes : NodeUses(m)' + Bit(h \in Setters(m)) = NodeUses(m) + Bit(h \in Setters(m)')
        /\ \A o \in Objects : Uses(o)' + Bit(hooks[h].extra /\ o = Extra) + Bit(change.extra /\ o = Extra)
                                = Uses(o) + Bit(x /\ o = Extra) + Bit(change'.extra /\ o = Extra)
    BY <1>1, <1>3, <1>5, HookCounts
  <2>2. \A m \in Nodes : Bit(h \in Setters(m)') = 0 /\ Bit(h \in Setters(m)) = 0
                         /\ NodeUses(m) \in Nat /\ NodeUses(m)' \in Nat
    BY <1>6, SetsAre, SizesNext DEF Bit
  <2>3. \A o \in Objects : /\ Bit(change.extra /\ o = Extra) = 0 /\ Bit(change'.extra /\ o = Extra) = 0
                           /\ Bit(hooks[h].extra /\ o = Extra) = Bit(x /\ o = Extra)
                           /\ Bit(x /\ o = Extra) \in Nat /\ Uses(o) \in Nat /\ Uses(o)' \in Nat
    BY <1>3, SetsAre, SizesNext DEF Bit
  <2>4. /\ \A m \in Nodes : NodeUses(m)' = NodeUses(m)
        /\ \A o \in Objects : Uses(o)' <= Uses(o)
    BY <2>1, <2>2, <2>3
  <2> QED BY <1>1, <1>2, <2>4, StillCounts
<1>8. Shape'
  <2>1. ~InUse(h)
    BY <1>1, ChangingNotInUse
  <2> QED BY <1>1, <1>3, <1>5, <1>6, <2>1, HookShape
<1>9. Fields' /\ Own'
  BY <1>1, <1>2 DEF Fields, Own, OwnList, WithList, IsDirect
<1> QED BY <1>1, <1>2, <1>7, <1>8, <1>9 DEF IInv, NothingStale

\* What a change in progress will do is still right: the hook it removes has
\* lost its action, and the node it will set, unless a block, exists for
\* nobody else.
Pending == /\ change.pc = "free" /\ change.node = NULL => hooks[change.hook].action = NULL
           /\ change.node \in Nodes \ Blocks => change.node \notin live

LEMMA FreeExtraKeeps ==
  ASSUME IInv, Pending, FreeExtra
  PROVE  IInv'
<1>1. TypeOK /\ Counts /\ Shape /\ Fields /\ Own /\ NothingStale /\ TypeOK' /\ Plain
  BY FreeExtraTypes, TypeIs DEF IInv
<1> PICK h : h = change.hook
  OBVIOUS
<1> PICK S : S = ExtraOf(h)
  OBVIOUS
<1> PICK x \in BOOLEAN : x = FALSE
  OBVIOUS
<1>2. /\ change.pc = "free" /\ hooks' = [hooks EXCEPT ![h].extra = x]
      /\ change' = IF change.node = NULL THEN NoChange ELSE [change EXCEPT !.pc = "set"]
      /\ UNCHANGED <<args, lists, calls, held, met>>
      /\ REF' = RemRef(REF, S) /\ live' = Survivors(REF, S) /\ fault' = (fault \/ ~(S \subseteq live))
  BY DEF FreeExtra, Release
<1>3. h \in Hooks /\ change'.extra = change.extra
  BY <1>1, <1>2, ChangeIs
<1>4. change.node # NULL => change'.hook = h
  BY <1>1, <1>2, ChangeIs
<1>5. change.node = NULL => change'.hook = NULL /\ hooks[h].action = NULL
  BY <1>1, <1>2, ChangeIs DEF Pending
<1>6. hooks'[h].extra = x /\ hooks'[h].action = hooks[h].action /\ \A g \in Hooks \ {h} : hooks'[g] = hooks[g]
  <2> PICK n \in Nodes \cup {NULL} : n = NULL
    OBVIOUS
  <2> QED BY <1>1, <1>2, <1>3, ChangedHook
<1>7. Rehooked(h, x)
  BY <1>2, <1>4, <1>5, <1>6, Apart DEF Rehooked
<1>8. \A m \in Nodes : h \notin Setters(m) /\ h \notin Setters(m)'
  BY <1>4, <1>5, <1>6, Apart DEF Setters
<1>9. S \subseteq Objects
  BY Apart DEF ExtraOf
<1>10. Counts' /\ S \subseteq live
  <2>1. /\ \A m \in Nodes : NodeUses(m)' + Bit(h \in Setters(m)) = NodeUses(m) + Bit(h \in Setters(m)')
        /\ \A o \in Objects : Uses(o)' + Bit(hooks[h].extra /\ o = Extra) + Bit(change.extra /\ o = Extra)
                                = Uses(o) + Bit(x /\ o = Extra) + Bit(change'.extra /\ o = Extra)
    BY <1>1, <1>3, <1>7, HookCounts
  <2>2. \A m \in Nodes : Bit(h \in Setters(m)') = 0 /\ Bit(h \in Setters(m)) = 0 /\ Bit(m \in S) = 0
                         /\ NodeUses(m) \in Nat /\ NodeUses(m)' \in Nat
    BY <1>8, <1>9, Apart, SetsAre, SizesNext DEF Bit
  <2>3. \A o \in Objects : /\ Bit(change'.extra /\ o = Extra) = Bit(change.extra /\ o = Extra)
                           /\ Bit(change.extra /\ o = Extra) \in Nat
                           /\ Bit(hooks[h].extra /\ o = Extra) = Bit(o \in S) /\ Bit(o \in S) \in Nat
                           /\ Bit(x /\ o = Extra) = 0 /\ Uses(o) \in Nat /\ Uses(o)' \in Nat
    BY <1>3, SetsAre, SizesNext DEF Bit, ExtraOf
  <2>4. /\ \A m \in Nodes : NodeUses(m)' + Bit(m \in S) = NodeUses(m)
        /\ \A o \in Objects : Uses(o)' + Bit(o \in S) <= Uses(o)
    BY <2>1, <2>2, <2>3
  <2>5. S \in SUBSET (Nodes \cup Objects)
    BY <1>9
  <2> QED BY <1>1, <1>2, <2>4, <2>5, ReleaseCounts
<1>11. Shape'
  <2>1. ~InUse(h)
    BY <1>1, ChangingNotInUse
  <2> QED BY <1>1, <1>3, <1>7, <1>8, <2>1, HookShape
<1>12. Fields' /\ Own'
  BY <1>1, <1>2 DEF Fields, Own, OwnList, WithList, IsDirect
<1> QED BY <1>1, <1>2, <1>10, <1>11, <1>12 DEF IInv, NothingStale

LEMMA DropKeeps == IInv /\ DropExtra => IInv'
<1> SUFFICES ASSUME IInv, DropExtra PROVE IInv'
  OBVIOUS
<1>1. TypeOK /\ Counts /\ Shape /\ Fields /\ Own /\ NothingStale /\ TypeOK' /\ Plain
  BY DropTypes, TypeIs DEF IInv
<1> PICK S : S = {Extra}
  OBVIOUS
<1>2. /\ held /\ held' = FALSE /\ REF' = RemRef(REF, S) /\ live' = Survivors(REF, S)
      /\ fault' = (fault \/ ~(S \subseteq live)) /\ UNCHANGED <<hooks, args, lists, calls, change>>
  BY DEF DropExtra, Release
<1>3. ASSUME NEW m \in Nodes PROVE NodeUses(m)' + Bit(m \in S) = NodeUses(m)
  <2>1. Setters(m)' = Setters(m) /\ Spawned(m)' = Spawned(m)
    BY <1>2 DEF Setters, Spawned, IsDirect
  <2>2. NodeUses(m)' = NodeUses(m)
    BY <2>1 DEF NodeUses
  <2> QED BY <2>2, Apart, SetsAre DEF Bit
<1>4. ASSUME NEW o \in Objects PROVE Uses(o)' + Bit(o \in S) <= Uses(o)
  <2>1. Givers(o)' = Givers(o) /\ Owing(o)' = Owing(o) /\ Readers(o)' = Readers(o)
    BY <1>2 DEF Givers, Owing, Contents, Readers
  <2>2. Cardinality(Givers(o)) \in Nat /\ Cardinality(Owing(o)) \in Nat /\ Cardinality(Readers(o)) \in Nat
    BY SetsAre
  <2> QED BY <1>2, <2>1, <2>2 DEF Uses, Kept, Bit
<1>5. S \in SUBSET (Nodes \cup Objects)
  BY Apart
<1>6. Counts' /\ S \subseteq live
  BY <1>1, <1>2, <1>3, <1>4, <1>5, ReleaseCounts
<1>7. Shape'
  BY <1>1, <1>2 DEF Shape, Window, Shared, SharedNode, Setters, BlockLists, IsDirect, ListFor, OwnOf, ExtraOf
<1>8. Fields' /\ Own'
  BY <1>1, <1>2 DEF Fields, Own, OwnList, WithList, IsDirect
<1> QED BY <1>1, <1>2, <1>6, <1>7, <1>8 DEF IInv, NothingStale

LEMMA NotUsed ==
  ASSUME TypeOK, Counts, Window, NEW n \in Nodes, n \notin live
  PROVE  Unused(n)
<1>1. \A g \in Hooks : g \notin Setters(n)
  BY NodeUsed DEF Counts, Setters
<1>2. ASSUME NEW c \in Calls PROVE calls[c].node # n
  <2>1. calls[c] # Idle => calls[c].node \in live
    BY NodeLives
  <2>2. calls[c] = Idle => calls[c].node # n
    BY IdleIs, Apart
  <2> QED BY <2>1, <2>2
<1> QED BY <1>1, <1>2 DEF Unused

LEMMA SetHookKeeps ==
  ASSUME IInv, Pending, SetHook
  PROVE  IInv'
<1>1. TypeOK /\ Counts /\ Shape /\ Fields /\ Own /\ NothingStale /\ TypeOK' /\ Plain
  BY SetHookTypes, TypeIs DEF IInv
<1> PICK h : h = change.hook
  OBVIOUS
<1> PICK n : n = change.node
  OBVIOUS
<1> PICK x \in BOOLEAN : x = (change.extra /\ n \notin Blocks)
  OBVIOUS
<1> PICK base : base = IF n \in Blocks THEN REF ELSE [REF EXCEPT ![n] = 0]
  OBVIOUS
<1>2. /\ change.pc = "set" /\ hooks' = [hooks EXCEPT ![h] = [action |-> n, extra |-> x]]
      /\ change' = NoChange /\ args' = [args EXCEPT ![n] = NULL]
      /\ REF' = AddRef(base, {n}) /\ live' = live \cup {n}
      /\ UNCHANGED <<lists, calls, held, met, fault>>
  BY DEF SetHook
<1>3. h \in Hooks /\ n \in Nodes /\ change'.hook = NULL /\ change'.extra = FALSE /\ h # NULL
  BY <1>1, <1>2, ChangeIs, Apart
<1>4. hooks'[h].action = n /\ hooks'[h].extra = x /\ \A g \in Hooks \ {h} : hooks'[g] = hooks[g]
  BY <1>1, <1>2, <1>3, ChangedHook
<1>5. Rehooked(h, x)
  BY <1>2, <1>3, <1>4, Apart DEF Rehooked
<1>6. \A m \in Nodes : h \notin Setters(m) /\ (h \in Setters(m)' <=> m = n)
  BY <1>3, <1>4 DEF Setters
<1>7. n \notin Blocks => n \notin live /\ Unused(n)
  BY <1>1, <1>3, NotUsed DEF Pending, Shape
<1>8. Shape'
  <2>1. ~InUse(h)
    BY <1>1, ChangingNotInUse
  <2>2. \A m \in Nodes \ Blocks : h \in Setters(m)' => Unused(m)
    BY <1>6, <1>7
  <2> QED BY <1>1, <1>3, <1>5, <2>1, <2>2, HookShape
<1>9. args'[n] = NULL /\ \A m \in Nodes \ {n} : args'[m] = args[m]
  BY <1>1, <1>2, <1>3 DEF Plain
<1>10. Fields'
  BY <1>1, <1>2, <1>9 DEF Fields
<1>11. Own'
  <2>1. ASSUME NEW d \in Calls, WithList(d) PROVE OwnList(d)'
    <3>1. calls[d].node \in Nodes /\ calls[d].node # n
      BY <1>1, <1>7, <2>1, TypeIs, CallIs DEF Unused, WithList, CallFields
    <3> QED BY <1>1, <1>2, <1>9, <2>1, <3>1 DEF Own, OwnList
  <2> QED BY <1>2, <2>1 DEF Own, WithList, IsDirect
<1>12. /\ \A m \in Nodes \cup Objects : REF[m] \in Nat
       /\ \A m \in Nodes \cup Objects :
            REF'[m] = IF m # n THEN REF[m] ELSE IF n \in Blocks THEN REF[m] + 1 ELSE 1
  <2>1. base \in [Nodes \cup Objects -> Nat] /\ REF \in [Nodes \cup Objects -> Nat]
    BY <1>1 DEF Plain
  <2>2. \A m \in Nodes \cup Objects : base[m] = (IF m = n /\ n \notin Blocks THEN 0 ELSE REF[m])
    BY <2>1
  <2>3. \A m \in Nodes \cup Objects : AddRef(base, {n})[m] = (IF m = n THEN base[m] + 1 ELSE base[m])
    BY <2>1 DEF AddRef
  <2>4. REF' = AddRef(base, {n})
    BY <1>2
  <2>5. \A m \in Nodes \cup Objects : REF[m] \in Nat
    BY <2>1
  <2>6. ASSUME NEW m \in Nodes \cup Objects
        PROVE REF'[m] = IF m # n THEN REF[m] ELSE IF n \in Blocks THEN REF[m] + 1 ELSE 1
    <3>1. REF'[m] = IF m = n THEN base[m] + 1 ELSE base[m]
      BY <2>3, <2>4
    <3>2. base[m] = IF m = n /\ n \notin Blocks THEN 0 ELSE REF[m]
      BY <2>2
    <3>3. CASE m = n /\ n \notin Blocks
      <4>1. base[m] = 0
        BY <3>2, <3>3
      <4> QED BY <3>1, <3>3, <4>1
    <3>4. CASE m = n /\ n \in Blocks
      <4>1. base[m] = REF[m]
        BY <3>2, <3>4
      <4> QED BY <3>1, <3>4, <4>1
    <3>5. CASE m # n
      BY <3>1, <3>2, <3>5
    <3> QED BY <3>3, <3>4, <3>5
  <2> QED BY <2>5, <2>6
<1>13. /\ \A m \in Nodes : NodeUses(m)' + Bit(h \in Setters(m)) = NodeUses(m) + Bit(h \in Setters(m)')
       /\ \A o \in Objects : Uses(o)' + Bit(hooks[h].extra /\ o = Extra) + Bit(change.extra /\ o = Extra)
                                = Uses(o) + Bit(x /\ o = Extra) + Bit(change'.extra /\ o = Extra)
  BY <1>1, <1>3, <1>5, HookCounts
<1>14. ASSUME NEW m \in Nodes
       PROVE IF m \in live' THEN REF'[m] = NodeUses(m)' ELSE NodeUses(m)' = 0
  <2>1. Bit(h \in Setters(m)) = 0 /\ Bit(h \in Setters(m)') = (IF m = n THEN 1 ELSE 0)
    BY <1>6 DEF Bit
  <2>2. NodeUses(m)' = NodeUses(m) + (IF m = n THEN 1 ELSE 0) /\ NodeUses(m) \in Nat
    BY <1>13, <2>1, SetsAre, SizesNext
  <2>3. IF m \in live THEN REF[m] = NodeUses(m) ELSE NodeUses(m) = 0
    BY <1>1 DEF Counts, NodesCounted
  <2>4. m \in Blocks => m \in live
    BY <1>1, NodeUsed DEF Counts
  <2>5. m \in live' <=> m = n \/ m \in live
    BY <1>2
  <2>6. REF[m] \in Nat /\ REF'[m] = IF m # n THEN REF[m] ELSE IF n \in Blocks THEN REF[m] + 1 ELSE 1
    BY <1>12
  <2> QED BY <1>7, <2>2, <2>3, <2>4, <2>5, <2>6
<1>15. ASSUME NEW o \in Objects
       PROVE IF o \in live' THEN REF'[o] >= Uses(o)' ELSE Uses(o)' = 0
  <2>1. Uses(o) \in Nat /\ Uses(o)' \in Nat /\ REF[o] \in Nat /\ o # n
    BY <1>3, <1>12, Apart, SetsAre, SizesNext
  <2>2. Bit(change'.extra /\ o = Extra) = 0 /\ Bit(x /\ o = Extra) <= Bit(change.extra /\ o = Extra)
        /\ Bit(x /\ o = Extra) \in Nat /\ Bit(change.extra /\ o = Extra) \in Nat
        /\ Bit(hooks[h].extra /\ o = Extra) \in Nat
    <3>1. Bit(change'.extra /\ o = Extra) = 0
      BY <1>3 DEF Bit
    <3>2. Bit(x /\ o = Extra) <= Bit(change.extra /\ o = Extra)
      <4>1. CASE x
        <5>1. change.extra
          BY <4>1
        <5> QED BY <4>1, <5>1 DEF Bit
      <4>2. CASE ~x
        BY <4>2 DEF Bit
      <4> QED BY <4>1, <4>2
    <3>3. \A p : Bit(p) \in Nat
      BY DEF Bit
    <3> QED BY <3>1, <3>2, <3>3
  <2>3. Uses(o)' <= Uses(o)
    BY <1>13, <2>1, <2>2
  <2>4. IF o \in live THEN REF[o] >= Uses(o) ELSE Uses(o) = 0
    BY <1>1 DEF Counts, ObjectsCounted
  <2>5. (o \in live' <=> o \in live) /\ REF'[o] = REF[o]
    BY <1>2, <1>12, <2>1
  <2> QED BY <2>1, <2>3, <2>4, <2>5
<1>16. Counts'
  BY <1>14, <1>15 DEF Counts, NodesCounted, ObjectsCounted
<1> QED BY <1>1, <1>2, <1>8, <1>10, <1>11, <1>16 DEF IInv, NothingStale

LEMMA HookKeeps ==
  ASSUME IInv, NEW h \in Hooks, NEW n \in Nodes, NEW extra \in BOOLEAN, Hook(h, n, extra)
  PROVE  IInv'
<1>1. TypeOK /\ Counts /\ Shape /\ Fields /\ Own /\ NothingStale /\ TypeOK' /\ Plain
  BY HookTypes, TypeIs DEF IInv
<1> PICK a : a = hooks[h].action
  OBVIOUS
<1> PICK old : old = {a} \ {NULL}
  OBVIOUS
<1> PICK new : new = IF extra THEN AddRef(REF, {Extra}) ELSE REF
  OBVIOUS
<1> PICK x \in BOOLEAN : x = hooks[h].extra
  BY <1>1, HookHolds
<1>2. /\ change = NoChange /\ ~InUse(h) /\ (extra => held)
      /\ REF' = RemRef(new, old) /\ live' = Survivors(new, old)
      /\ fault' = (fault \/ ~(old \subseteq live)) /\ UNCHANGED <<hooks, args, lists, calls, held, met>>
      /\ change'.hook = h /\ change'.extra = extra
  BY DEF Hook
<1>3. change.hook = NULL /\ change.extra = FALSE /\ h # NULL /\ \A g \in Hooks : g # NULL
  BY <1>2, Apart DEF NoChange
<1>4. Rehooked(h, x)
  BY <1>2, <1>3 DEF Rehooked
<1>5. \A m \in Nodes : (h \in Setters(m) <=> m = a) /\ h \notin Setters(m)'
  BY <1>2, <1>3 DEF Setters
<1>6. old \subseteq live /\ \A m \in Nodes \cup Objects : m \in old <=> m = a
  BY <1>1, <1>3, Apart, HookHolds
<1>7. Shape'
  BY <1>1, <1>2, <1>4, <1>5, HookShape
<1>8. Fields' /\ Own'
  BY <1>1, <1>2 DEF Fields, Own, OwnList, WithList, IsDirect
<1>9. /\ \A m \in Nodes \cup Objects : REF[m] \in Nat
      /\ \A m \in Nodes \cup Objects : new[m] = (IF extra /\ m = Extra THEN REF[m] + 1 ELSE REF[m])
      /\ \A m \in Nodes \cup Objects : REF'[m] = (IF m \in old /\ new[m] > 0 THEN new[m] - 1 ELSE new[m])
  <2>1. new \in [Nodes \cup Objects -> Nat] /\ REF \in [Nodes \cup Objects -> Nat]
    BY <1>1, RefIs DEF Plain
  <2>2. \A m \in Nodes \cup Objects : AddRef(REF, {Extra})[m] = (IF m = Extra THEN REF[m] + 1 ELSE REF[m])
    BY <2>1 DEF AddRef
  <2>3. \A m \in Nodes \cup Objects : RemRef(new, old)[m] = (IF m \in old /\ new[m] > 0 THEN new[m] - 1 ELSE new[m])
    BY <2>1 DEF RemRef
  <2>4. \A m \in Nodes \cup Objects : new[m] = (IF extra /\ m = Extra THEN REF[m] + 1 ELSE REF[m])
    <3>1. CASE extra
      BY <2>2, <3>1
    <3>2. CASE ~extra
      BY <3>2
    <3> QED BY <3>1, <3>2
  <2>5. \A m \in Nodes \cup Objects : REF[m] \in Nat
    BY <2>1
  <2> QED BY <1>2, <2>3, <2>4, <2>5
<1>10. \A m : m \in live' <=> m \in live /\ (m \in old => RemRef(new, old)[m] > 0)
  BY <1>2 DEF Survivors
<1>11. /\ \A m \in Nodes : NodeUses(m)' + Bit(h \in Setters(m)) = NodeUses(m) + Bit(h \in Setters(m)')
       /\ \A o \in Objects : Uses(o)' + Bit(hooks[h].extra /\ o = Extra) + Bit(change.extra /\ o = Extra)
                                = Uses(o) + Bit(x /\ o = Extra) + Bit(change'.extra /\ o = Extra)
  BY <1>1, <1>4, HookCounts
<1>12. ASSUME NEW m \in Nodes
       PROVE IF m \in live' THEN REF'[m] = NodeUses(m)' ELSE NodeUses(m)' = 0
  <2>1. Bit(h \in Setters(m)) = (IF m = a THEN 1 ELSE 0) /\ Bit(h \in Setters(m)') = 0
    BY <1>5 DEF Bit
  <2>2. NodeUses(m)' + (IF m = a THEN 1 ELSE 0) = NodeUses(m) /\ NodeUses(m) \in Nat /\ NodeUses(m)' \in Nat
    BY <1>11, <2>1, SetsAre, SizesNext
  <2>3. IF m \in live THEN REF[m] = NodeUses(m) ELSE NodeUses(m) = 0
    BY <1>1 DEF Counts, NodesCounted
  <2>4. REF[m] \in Nat /\ REF'[m] = IF m = a /\ REF[m] > 0 THEN REF[m] - 1 ELSE REF[m]
    BY <1>6, <1>9, Apart
  <2>5. m \in live' <=> m \in live /\ (m = a => REF'[m] > 0)
    BY <1>2, <1>6, <1>10
  <2> QED BY <2>2, <2>3, <2>4, <2>5
<1>13. ASSUME NEW o \in Objects
       PROVE IF o \in live' THEN REF'[o] >= Uses(o)' ELSE Uses(o)' = 0
  <2>1. Bit(change.extra /\ o = Extra) = 0 /\ Bit(hooks[h].extra /\ o = Extra) = Bit(x /\ o = Extra)
        /\ Bit(x /\ o = Extra) \in Nat /\ Bit(change'.extra /\ o = Extra) = (IF extra /\ o = Extra THEN 1 ELSE 0)
    <3>1. change'.extra = extra
      BY <1>2
    <3>2. change.extra = FALSE
      BY <1>3
    <3>3. Bit(change'.extra /\ o = Extra) = (IF extra /\ o = Extra THEN 1 ELSE 0)
      BY <3>1 DEF Bit
    <3> QED BY <3>2, <3>3 DEF Bit
  <2>2. Uses(o)' = Uses(o) + (IF extra /\ o = Extra THEN 1 ELSE 0) /\ Uses(o) \in Nat
    BY <1>11, <2>1, SetsAre, SizesNext
  <2>3. IF o \in live THEN REF[o] >= Uses(o) ELSE Uses(o) = 0
    BY <1>1 DEF Counts, ObjectsCounted
  <2>4. o \notin old
    BY <1>1, <1>6, Apart, HookHolds
  <2>5. (o \in live' <=> o \in live) /\ REF[o] \in Nat
        /\ REF'[o] = (IF extra /\ o = Extra THEN REF[o] + 1 ELSE REF[o])
    BY <1>9, <1>10, <2>4
  <2>6. extra /\ o = Extra => o \in live
    BY <1>1, <1>2, ObjectUsed DEF Counts
  <2> QED BY <2>2, <2>3, <2>5, <2>6
<1>14. Counts'
  BY <1>12, <1>13 DEF Counts, NodesCounted, ObjectsCounted
<1>15. NothingStale'
  BY <1>1, <1>2, <1>6 DEF NothingStale
<1> QED BY <1>1, <1>7, <1>8, <1>14, <1>15 DEF IInv

\* Everything but met and the change in progress is as it was.
LEMMA SameKeeps ==
  ASSUME IInv, UNCHANGED <<live, REF, hooks, args, lists, calls, held, change, fault>>, TypeOK'
  PROVE  IInv'
<1>1. \A o : NodeUses(o)' = NodeUses(o) /\ Uses(o)' = Uses(o)
  BY DEF NodeUses, Uses, Setters, Spawned, Givers, Owing, Readers, Contents, IsDirect, Bit, Kept
<1>2. Counts'
  BY <1>1 DEF IInv, Counts, NodesCounted, ObjectsCounted
<1>3. Shape'
  BY DEF IInv, Shape, Window, Shared, SharedNode, Setters, BlockLists, IsDirect, ListFor, OwnOf, ExtraOf
<1>4. Fields' /\ Own' /\ NothingStale'
  BY DEF IInv, Fields, Own, OwnList, WithList, IsDirect, NothingStale
<1> QED BY <1>2, <1>3, <1>4 DEF IInv

LEMMA MeetKeeps ==
  ASSUME IInv, NEW h \in Hooks, Meet(h)
  PROVE  IInv'
<1>1. TypeOK'
  BY MeetTypes DEF IInv
<1> QED BY <1>1, SameKeeps DEF Meet

LEMMA FireKeeps ==
  ASSUME IInv, Restricted, NEW h \in Hooks, NEW c \in Calls, Fire(h, c)
  PROVE  IInv'
<1>1. /\ TypeOK /\ Counts /\ Shape /\ Fields /\ Own /\ NothingStale /\ Plain /\ CallsType /\ ListsType
      /\ TypeOK'
  BY FireTypes, TypeIs DEF IInv
<1>2. /\ calls'[c] = Begun(h) /\ \A d \in Calls \ {c} : calls'[d] = calls[d]
      /\ lists'[c] = (IF hooks[h].action \in Blocks THEN NoList ELSE ListFor(h, c))
      /\ \A d \in Calls \ {c} : lists'[d] = lists[d]
  BY <1>1, FireTypes
<1> PICK n : n = hooks[h].action
  OBVIOUS
<1> PICK own : own = OwnOf(h, c)
  OBVIOUS
<1> PICK given : given = own \cup ExtraOf(h)
  OBVIOUS
<1> PICK L : L = IF n \in Blocks THEN {} ELSE given
  OBVIOUS
<1> PICK gain : gain = L \cup (IF h \in Direct THEN {} ELSE {n})
  OBVIOUS
<1> PICK fresh : fresh = [REF EXCEPT ![c] = 0]
  OBVIOUS
<1>3. /\ LooperIdle /\ change.hook # h /\ calls[c] = Idle /\ c \notin live /\ n # NULL
      /\ REF' = AddRef(fresh, gain) /\ live' = (IF n \in Blocks THEN live ELSE live \cup own)
      /\ fault' = (fault \/ ~({n} \cup ExtraOf(h) \subseteq live)) /\ UNCHANGED <<hooks, args, held, change>>
  BY DEF Fire, OwnOf
<1>4. /\ n \in Nodes /\ n \in live /\ ExtraOf(h) \subseteq live
      /\ Begun(h) \in CallRec /\ Begun(h).hook = h /\ Begun(h).node = n /\ Begun(h).pc = "start"
      /\ Begun(h).inputs = {}
  BY <1>1, <1>3, HookHolds, BegunIs
<1>5. \A d \in Calls : ~IsDirect(d)
  BY <1>1, <1>3, CallIs DEF LooperIdle
<1>6. /\ \A d \in Calls \ {c} : IsDirect(d)' <=> IsDirect(d)
      /\ IsDirect(c)' <=> h \in Direct
  BY <1>2, <1>4 DEF IsDirect
<1>7. Window'
  BY <1>1, <1>2, <1>3, <1>4, <1>5, <1>6 DEF Window
<1>8. \A g \in Hooks, d \in Calls : ListFor(g, d)' = ListFor(g, d)
  BY <1>3 DEF ListFor, OwnOf, ExtraOf
<1>9. ASSUME NEW m \in Nodes \ Blocks PROVE SharedNode(m)'
  <2>1. SharedNode(m)
    BY <1>1 DEF Shape, Shared
  <2>2. CASE m # n
    <3>1. \A d \in Calls : calls'[d].node = m => calls'[d] = calls[d] /\ lists'[d] = lists[d]
      BY <1>2, <1>4, <2>2
    <3> QED BY <1>3, <1>8, <2>1, <3>1 DEF SharedNode, Setters
  <2>3. CASE m = n
    <3>1. \A g \in Setters(m) : g = h
      BY <1>3, <2>1, <2>3 DEF SharedNode, Setters
    <3>2. \A d \in Calls \ {c} : calls[d].node = m => calls[d].hook = h /\ lists[d] = ListFor(h, d)
      BY <1>3, <2>1, <2>3 DEF SharedNode, Setters
    <3>3. lists'[c] = ListFor(h, c)
      BY <1>2, <2>3
    <3>4. \A d \in Calls \ {c} : calls[d].node = m => ListFor(h, d) = ListFor(h, c)
      <4>1. ASSUME NEW d \in Calls \ {c}, calls[d].node = m PROVE h \notin Fresh
        BY <1>5, <3>2, <4>1 DEF IsDirect, Restricted
      <4> QED BY <4>1 DEF ListFor, OwnOf
    <3>5. \A d \in Calls : calls'[d].node = m => calls'[d].hook = h /\ lists'[d] = ListFor(h, d)
                                              /\ lists'[d] = ListFor(h, c)
      BY <1>2, <1>4, <3>2, <3>3, <3>4
    <3> QED BY <1>3, <1>8, <3>1, <3>5 DEF SharedNode, Setters
  <2> QED BY <2>2, <2>3
<1>10. BlockLists'
  BY <1>1, <1>2, <1>4 DEF Shape, BlockLists
<1>11. Fields'
  <2>1. ASSUME NEW m \in Nodes, args[m] # NULL
        PROVE  calls'[args[m]].node = m /\ lists'[args[m]] # NoList /\ calls'[args[m]].pc \in Held
    <3>1. calls[args[m]].node = m /\ lists[args[m]] # NoList /\ calls[args[m]].pc \in Held /\ args[m] \in Calls
      BY <1>1, <2>1 DEF Fields, Plain
    <3>2. args[m] # c
      BY <1>3, <3>1, IdleIs DEF Held
    <3> QED BY <1>2, <3>1, <3>2
  <2>2. ASSUME NEW d \in Calls, calls'[d].pc \in Leaving PROVE lists'[d] # NoList
    <3>1. d # c
      BY <1>2, <1>4, <2>2 DEF Leaving
    <3> QED BY <1>1, <1>2, <2>2, <3>1 DEF Fields
  <2> QED BY <1>3, <2>1, <2>2 DEF Fields
<1>12. Own'
  <2>1. ASSUME NEW d \in Calls, WithList(d)' PROVE OwnList(d)'
    <3>1. d = c
      BY <1>5, <1>6, <2>1 DEF WithList
    <3> QED BY <1>2, <1>4, <3>1 DEF OwnList
  <2> QED BY <2>1 DEF Own
<1>13. NothingStale'
  BY <1>1, <1>3, <1>4 DEF NothingStale
<1>14. /\ Contents(c)' = L /\ \A d \in Calls \ {c} : Contents(d)' = Contents(d)
  <2>1. c # NULL /\ (h \in Menus => own = {})
    BY Apart DEF OwnOf
  <2>2. given \subseteq Objects /\ NULL \notin Objects
    BY Apart DEF OwnOf, ExtraOf
  <2>3. given # NoList /\ {} # NoList
    BY <2>2 DEF NoList
  <2>4. CASE n \in Blocks
    BY <1>2, <2>4 DEF Contents
  <2>5. CASE n \notin Blocks /\ h \in Menus /\ ~hooks[h].extra
    <3>1. lists'[c] = NoList /\ given = {}
      BY <1>2, <2>1, <2>5 DEF ListFor, ExtraOf
    <3> QED BY <1>2, <2>5, <3>1 DEF Contents
  <2>6. CASE n \notin Blocks /\ ~(h \in Menus /\ ~hooks[h].extra)
    <3>1. lists'[c] = given
      BY <1>2, <2>6 DEF ListFor
    <3> QED BY <1>2, <2>1, <2>3, <2>6, <3>1 DEF Contents
  <2> QED BY <1>2, <2>4, <2>5, <2>6 DEF Contents
<1>15. ASSUME NEW m \in Nodes
       PROVE NodeUses(m)' = NodeUses(m) + Bit(m = n /\ h \notin Direct)
  <2>1. Setters(m)' = Setters(m)
    BY <1>3 DEF Setters
  <2>2. /\ c \notin Spawned(m)
        /\ c \in Spawned(m)' <=> m = n /\ h \notin Direct
    BY <1>2, <1>3, <1>4, <1>6, IdleIs, Apart DEF Spawned
  <2>3. \A d \in Calls \ {c} : d \in Spawned(m) <=> d \in Spawned(m)'
    BY <1>2, <1>6 DEF Spawned
  <2>4. Spawned(m) \in SUBSET Calls /\ Spawned(m)' \in SUBSET Calls
    BY DEF Spawned
  <2>5. /\ Cardinality(Spawned(m)) \in Nat /\ Cardinality(Spawned(m)') \in Nat
        /\ Cardinality(Spawned(m)') + Bit(c \in Spawned(m)) = Cardinality(Spawned(m)) + Bit(c \in Spawned(m)')
    BY <2>3, <2>4, FiniteSets, CardStep
  <2>6. Cardinality(Setters(m)) \in Nat
    BY SetsAre
  <2> QED BY <2>1, <2>2, <2>5, <2>6 DEF NodeUses, Bit
<1>16. ASSUME NEW o \in Objects PROVE Uses(o)' = Uses(o) + Bit(o \in L)
  <2>1. Givers(o)' = Givers(o)
    BY <1>3 DEF Givers
  <2>2. Readers(o)' = Readers(o)
    <3>1. \A d \in Calls : calls'[d].inputs = calls[d].inputs
      BY <1>2, <1>3, <1>4, IdleIs
    <3> QED BY <3>1 DEF Readers
  <2>3. /\ c \notin Owing(o)
        /\ c \in Owing(o)' <=> o \in L
    BY <1>2, <1>3, <1>4, <1>14, IdleIs DEF Owing
  <2>4. \A d \in Calls \ {c} : d \in Owing(o) <=> d \in Owing(o)'
    BY <1>2, <1>14 DEF Owing
  <2>5. Owing(o) \in SUBSET Calls /\ Owing(o)' \in SUBSET Calls
    BY DEF Owing
  <2>6. /\ Cardinality(Owing(o)) \in Nat /\ Cardinality(Owing(o)') \in Nat
        /\ Cardinality(Owing(o)') + Bit(c \in Owing(o)) = Cardinality(Owing(o)) + Bit(c \in Owing(o)')
    BY <2>4, <2>5, FiniteSets, CardStep
  <2>7. Cardinality(Owing(o)') = Cardinality(Owing(o)) + Bit(o \in L)
    BY <2>3, <2>6 DEF Bit
  <2>8. /\ Uses(o) = Cardinality(Givers(o)) + Cardinality(Owing(o)) + Cardinality(Readers(o)) + Kept(o)
        /\ Uses(o)' = Cardinality(Givers(o)) + Cardinality(Owing(o)') + Cardinality(Readers(o)) + Kept(o)
        /\ Kept(o) \in Nat /\ Bit(o \in L) \in Nat
        /\ Cardinality(Givers(o)) \in Nat /\ Cardinality(Readers(o)) \in Nat
    BY <1>3, <2>1, <2>2, SetsAre DEF Uses, Kept, Bit
  <2> QED BY <2>6, <2>7, <2>8
<1>17. /\ \A m \in Nodes \cup Objects : REF[m] \in Nat /\ fresh[m] = (IF m = c THEN 0 ELSE REF[m])
       /\ \A m \in Nodes \cup Objects : REF'[m] = (IF m \in gain THEN fresh[m] + 1 ELSE fresh[m])
  <2>1. REF \in [Nodes \cup Objects -> Nat] /\ fresh \in [Nodes \cup Objects -> Nat]
    BY <1>1 DEF Plain
  <2> QED BY <1>3, <2>1 DEF AddRef
<1>18. /\ \A m \in Nodes : m # c /\ (m \in gain <=> m = n /\ h \notin Direct)
       /\ \A o \in Objects : o \in gain <=> o \in L
       /\ L \subseteq own \cup ExtraOf(h) /\ own \subseteq {c} /\ own \subseteq Objects
  BY <1>4, Apart DEF OwnOf, ExtraOf
<1>19. ASSUME NEW m \in Nodes
       PROVE IF m \in live' THEN REF'[m] = NodeUses(m)' ELSE NodeUses(m)' = 0
  <2>1. m \in live' <=> m \in live
    BY <1>3, <1>18, Apart
  <2>2. NodeUses(m) \in Nat /\ NodeUses(m)' = NodeUses(m) + Bit(m = n /\ h \notin Direct)
    BY <1>15, SetsAre
  <2>3. IF m \in live THEN REF[m] = NodeUses(m) ELSE NodeUses(m) = 0
    BY <1>1 DEF Counts, NodesCounted
  <2>4. REF[m] \in Nat /\ REF'[m] = (IF m = n /\ h \notin Direct THEN REF[m] + 1 ELSE REF[m])
    BY <1>17, <1>18
  <2>5. CASE m = n /\ h \notin Direct
    BY <1>4, <2>1, <2>2, <2>3, <2>4, <2>5 DEF Bit
  <2>6. CASE ~(m = n /\ h \notin Direct)
    BY <2>1, <2>2, <2>3, <2>4, <2>6 DEF Bit
  <2> QED BY <2>5, <2>6
<1>20. ASSUME NEW o \in Objects
       PROVE IF o \in live' THEN REF'[o] >= Uses(o)' ELSE Uses(o)' = 0
  <2>1. Uses(o) \in Nat /\ Uses(o)' = Uses(o) + Bit(o \in L)
    BY <1>16, SetsAre
  <2>2. IF o \in live THEN REF[o] >= Uses(o) ELSE Uses(o) = 0
    BY <1>1 DEF Counts, ObjectsCounted
  <2>3. REF[o] \in Nat /\ REF'[o] = (IF o \in L THEN 1 ELSE 0) + (IF o = c THEN 0 ELSE REF[o])
    BY <1>17, <1>18
  <2>4. CASE o = c
    <3>1. o \in live' => o \in L
      BY <1>3, <2>4
    <3>2. Uses(o) = 0
      BY <1>3, <2>2, <2>4
    <3>3. o \in L => o \in own
      BY <1>4, <1>3, <1>18, <2>4
    <3>4. o \in own => o \in live' \/ n \in Blocks
      BY <1>3
    <3>5. o \in live' <=> o \in L
      BY <3>1, <3>3, <3>4
    <3> QED BY <2>1, <2>3, <2>4, <3>2, <3>5 DEF Bit
  <2>5. CASE o # c
    <3>1. o \in live' <=> o \in live
      BY <1>3, <1>18, <2>5
    <3>2. o \in L => o \in live
      BY <1>4, <1>18, <2>5
    <3> QED BY <2>1, <2>2, <2>3, <2>5, <3>1, <3>2 DEF Bit
  <2> QED BY <2>4, <2>5
<1>21. Counts'
  BY <1>19, <1>20 DEF Counts, NodesCounted, ObjectsCounted
<1> QED BY <1>1, <1>7, <1>9, <1>10, <1>11, <1>12, <1>13, <1>21 DEF IInv, Shape, Shared

-----------------------------------------------------------------------------
(* The invariant holds, and what it says.                                  *)

LEMMA InvInit == Init => IInv
<1> SUFFICES ASSUME Init PROVE IInv
  OBVIOUS
<1>1. TypeOK
  <2>1. Plain
    BY Apart DEF Init, Plain
  <2>2. CallsType /\ ListsType
    BY DEF Init, CallsType, ListsType
  <2> QED BY <2>1, <2>2, TypeIs
<1>2. \A c \in Calls : calls[c] = Idle /\ lists[c] = NoList /\ calls[c].node = NULL /\ calls[c].hook = NULL
                       /\ calls[c].pc = "idle" /\ calls[c].inputs = {} /\ ~IsDirect(c) /\ Contents(c) = {}
  BY IdleIs, Apart DEF Init, IsDirect, Contents
<1>3. \A h \in Hooks : hooks[h].action = NULL /\ hooks[h].extra = FALSE
  BY DEF Init
<1>4. /\ \A n \in Nodes : args[n] = NULL
      /\ held = TRUE /\ fault = FALSE /\ change.extra = FALSE
      /\ live = Blocks \cup {Extra}
      /\ \A o \in Nodes \cup Objects : REF[o] = IF o \in live THEN 1 ELSE 0
  BY DEF Init, NoChange
<1>5. ASSUME NEW n \in Nodes
      PROVE IF n \in live THEN REF[n] = NodeUses(n) ELSE NodeUses(n) = 0
  <2>1. Setters(n) = {} /\ Spawned(n) = {}
    BY <1>2, <1>3, Apart DEF Setters, Spawned
  <2>2. NodeUses(n) = Bit(n \in Blocks)
    BY <2>1, FS_EmptySet DEF NodeUses, Bit
  <2>3. n \in live <=> n \in Blocks
    BY <1>4, Apart
  <2> QED BY <1>4, <2>2, <2>3 DEF Bit
<1>6. ASSUME NEW o \in Objects
      PROVE IF o \in live THEN REF[o] >= Uses(o) ELSE Uses(o) = 0
  <2>1. Givers(o) = {} /\ Owing(o) = {} /\ Readers(o) = {}
    BY <1>2, <1>3 DEF Givers, Owing, Readers
  <2>2. Uses(o) = Bit(held /\ o = Extra)
    BY <1>4, <2>1, FS_EmptySet DEF Uses, Kept, Bit
  <2>3. o \in live <=> o = Extra
    BY <1>4, Apart
  <2> QED BY <1>4, <2>2, <2>3 DEF Bit
<1>7. Counts
  BY <1>5, <1>6 DEF Counts, NodesCounted, ObjectsCounted
<1>8. Shape
  BY <1>2, <1>3, Apart DEF Shape, Window, Shared, SharedNode, Setters, BlockLists
<1>9. Fields /\ Own /\ NothingStale
  BY <1>2, <1>4 DEF Fields, Leaving, Own, WithList, NothingStale
<1> QED BY <1>1, <1>7, <1>8, <1>9 DEF IInv

\* No step but SetHook makes a node, and only the steps of a change touch
\* what Pending is about.
LEMMA OthersPending ==
  ASSUME Pending, UNCHANGED <<hooks, change>>, \A n \in Nodes : n \in live' => n \in live
  PROVE  Pending'
BY DEF Pending

LEMMA SurvivorsLive == \A R, S : Survivors(R, S) \subseteq live
BY DEF Survivors

LEMMA FirePending ==
  ASSUME Pending, NEW h \in Hooks, NEW c \in Calls, Fire(h, c)
  PROVE  Pending'
<1>1. live' \subseteq live \cup {c} /\ UNCHANGED <<hooks, change>>
  BY DEF Fire
<1> QED BY <1>1, Apart, OthersPending

LEMMA CallPending ==
  ASSUME Pending, NEW c \in Calls,
         SetArgs(c) \/ Read(c) \/ Finish(c) \/ Compare(c) \/ DelArgs(c) \/ ClearArgs(c) \/ EndCall(c)
  PROVE  Pending'
<1>1. UNCHANGED <<hooks, change>>
  BY DEF SetArgs, Read, Finish, Compare, DelArgs, ClearArgs, EndCall
<1>2. live' \subseteq live
  BY SurvivorsLive DEF SetArgs, Read, Finish, Compare, DelArgs, ClearArgs, EndCall, Release
<1> QED BY <1>1, <1>2, OthersPending

LEMMA ChangePending ==
  ASSUME TypeOK, Pending, ClearHook \/ FreeExtra \/ SetHook
  PROVE  Pending'
<1>1. Plain
  BY TypeIs
<1> PICK h : h = change.hook
  OBVIOUS
<1>2. CASE ClearHook
  <2>1. change.pc = "clear" /\ hooks' = [hooks EXCEPT ![h].action = NULL] /\ change' = [change EXCEPT !.pc = "free"]
    BY <1>2 DEF ClearHook
  <2>2. h \in Hooks /\ change'.hook = h /\ change'.node = NULL
    BY <1>1, <2>1, ChangeIs
  <2>3. hooks'[h].action = NULL
    <3> PICK n \in Nodes \cup {NULL} : n = NULL
      OBVIOUS
    <3>1. \A x \in BOOLEAN : hooks'[h].action = n
      BY <1>1, <2>1, <2>2, ChangedHook
    <3> QED BY <3>1
  <2> QED BY <2>2, <2>3, Apart DEF Pending
<1>3. CASE FreeExtra
  <2>1. /\ change.pc = "free" /\ live' = Survivors(REF, ExtraOf(h))
        /\ change' = IF change.node = NULL THEN NoChange ELSE [change EXCEPT !.pc = "set"]
    BY <1>3 DEF FreeExtra, Release
  <2>2. live' \subseteq live
    BY <2>1, SurvivorsLive
  <2>3. CASE change.node = NULL
    BY <1>1, <2>1, <2>3, ChangeIs, Apart DEF Pending
  <2>4. CASE change.node # NULL
    <3>1. change'.node = change.node /\ change'.node # NULL
      BY <1>1, <2>1, <2>4, ChangeIs
    <3> QED BY <2>2, <3>1 DEF Pending
  <2> QED BY <2>3, <2>4
<1>4. CASE SetHook
  <2>1. change'.pc = "idle" /\ change'.node = NULL
    BY <1>1, <1>4, ChangeIs DEF SetHook
  <2> QED BY <2>1, Apart DEF Pending
<1> QED BY <1>2, <1>3, <1>4

LEMMA BeginPending ==
  ASSUME Pending, NEW h \in Hooks
  PROVE  /\ \A n \in Nodes, extra \in BOOLEAN : Hook(h, n, extra) => Pending'
         /\ UnHook(h) => Pending'
         /\ Meet(h) => Pending'
<1>1. ASSUME NEW n \in Nodes, NEW extra \in BOOLEAN, Hook(h, n, extra) PROVE Pending'
  <2>1. (n \in Blocks \/ n \notin live) /\ change'.node = n /\ live' \subseteq live
    BY <1>1, SurvivorsLive DEF Hook
  <2> QED BY <2>1, Apart DEF Pending
<1>2. ASSUME UnHook(h) PROVE Pending'
  <2>1. change'.pc = "clear" /\ change'.node = NULL
    BY <1>2 DEF UnHook
  <2> QED BY <2>1, Apart DEF Pending
<1>3. ASSUME Meet(h) PROVE Pending'
  BY <1>3 DEF Meet, Pending
<1> QED BY <1>1, <1>2, <1>3

Inv == IInv /\ Pending

LEMMA InvNext == Inv /\ Restricted /\ [Next]_vars => Inv'
<1> SUFFICES ASSUME IInv, Pending, Restricted, [Next]_vars PROVE IInv' /\ Pending'
  BY DEF Inv
<1>1. ASSUME Next PROVE IInv'
  BY <1>1, HookKeeps, UnHookKeeps, ClearHookKeeps, FreeExtraKeeps, SetHookKeeps, MeetKeeps, DropKeeps,
     FireKeeps, SetKeeps, ReadKeeps, FinishKeeps, CompareKeeps, DelKeeps, ClearKeeps, EndKeeps DEF Next
<1>2. ASSUME Next PROVE Pending'
  <2>1. TypeOK
    BY DEF IInv
  <2>2. ASSUME DropExtra PROVE Pending'
    <3>1. live' \subseteq live /\ UNCHANGED <<hooks, change>>
      BY <2>2, SurvivorsLive DEF DropExtra, Release
    <3> QED BY <3>1, OthersPending
  <2> QED BY <1>2, <2>1, <2>2, BeginPending, ChangePending, FirePending, CallPending DEF Next
<1>3. ASSUME UNCHANGED vars PROVE IInv' /\ Pending'
  <2>1. UNCHANGED <<live, REF, hooks, args, lists, calls, held, change, met, fault>>
    BY <1>3 DEF vars
  <2>2. TypeOK'
    BY <2>1 DEF IInv, TypeOK
  <2> QED BY <2>1, <2>2, SameKeeps DEF Pending
<1> QED BY <1>1, <1>2, <1>3

LEMMA InvBegins == Init => Inv
<1> SUFFICES ASSUME Init PROVE Pending
  BY InvInit DEF Inv
<1>1. change.pc = "idle" /\ change.node = NULL
  BY DEF Init, NoChange
<1> QED BY <1>1, Apart DEF Pending

LEMMA InvCovers == Inv => CountsCover
<1> SUFFICES ASSUME IInv PROVE CountsCover
  BY DEF Inv
<1>1. ASSUME NEW o \in Objects \cap live
      PROVE REF[o] >= Cardinality({h \in Hooks : hooks[h].extra /\ o = Extra}) + Cardinality(Owing(o))
                      + Cardinality({c \in Calls : o \in calls[c].inputs})
                      + (IF held /\ o = Extra THEN 1 ELSE 0)
                      + (IF change.extra /\ o = Extra THEN 1 ELSE 0)
  <2>1. REF[o] >= Cardinality(Givers(o)) + Cardinality(Owing(o)) + Cardinality(Readers(o))
                  + (Bit(held /\ o = Extra) + Bit(change.extra /\ o = Extra))
    BY DEF IInv, Counts, ObjectsCounted, Uses, Kept
  <2>2. Cardinality(Givers(o)) \in Nat /\ Cardinality(Owing(o)) \in Nat /\ Cardinality(Readers(o)) \in Nat
    BY SetsAre
  <2> QED BY <2>1, <2>2 DEF Givers, Readers, Bit
<1>2. ASSUME NEW n \in Nodes \cap live
      PROVE REF[n] = Cardinality({h \in Hooks : hooks[h].action = n /\ change.hook # h})
                     + Cardinality({c \in Calls : calls[c].node = n /\ ~IsDirect(c)})
                     + (IF n \in Blocks THEN 1 ELSE 0)
  BY DEF IInv, Counts, NodesCounted, NodeUses, Setters, Spawned, Bit
<1> QED BY <1>1, <1>2 DEF CountsCover

LEMMA InvInputs == Inv => WindowInputs
BY DEF Inv, IInv, Own, OwnList, WithList, WindowInputs, GetsItsInputs

\* Hooks and their inputs are never used after they are freed, in any order of
\* the steps of Hook and UnHook with those of the window and of the spawned
\* threads, until an event and a change of its hook meet, when only the events
\* of a window carry a value of their own.
THEOREM HooksOutliveCalls == Restricted => (Spec => []NothingStale)
<1> SUFFICES ASSUME Restricted PROVE Spec => []NothingStale
  OBVIOUS
<1>1. Inv /\ [Next]_vars => Inv'
  BY InvNext
<1>2. Inv => NothingStale
  BY DEF Inv, IInv
<1> QED BY <1>1, <1>2, InvBegins, PTL DEF Spec

\* The count of an input covers the variable, the hooks and the calls that use
\* it, and the count of a node is exact, in the middle of a change too.
THEOREM InputsAreCounted == Restricted => (Spec => []CountsCover)
<1> SUFFICES ASSUME Restricted PROVE Spec => []CountsCover
  OBVIOUS
<1>1. Inv /\ [Next]_vars => Inv'
  BY InvNext
<1> QED BY <1>1, InvCovers, InvBegins, PTL DEF Spec

\* The hook of a window is called with the list made for its event.
THEOREM WindowsGetTheirInputs == Restricted => (Spec => []WindowInputs)
<1> SUFFICES ASSUME Restricted PROVE Spec => []WindowInputs
  OBVIOUS
<1>1. Inv /\ [Next]_vars => Inv'
  BY InvNext
<1> QED BY <1>1, InvInputs, InvBegins, PTL DEF Spec
===============================================================================
