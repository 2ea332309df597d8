--------------------------- MODULE SQIThreadProofs ---------------------------
(***************************************************************************)
(* Proofs about SQIThread, for any number of threads, waiting squirrels    *)
(* and addresses of squirrels, whatever scripts do with threads, and       *)
(* whether they go on or not when a thread was late.                       *)
(***************************************************************************)
EXTENDS SQIThread, FiniteSetTheorems, SequenceTheorems, TLAPS

\* What is at the address of an SQI_Thread_Data, and a Thread.waitfor or .kill.
Datum  == [squirrel : Squirrels \cup {NULL}, waited : BOOLEAN,
           terminated : BOOLEAN, output : Outputs]
Waiter == [pc : {"idle"} \cup Waits \cup KillSteps, ids : SUBSET Ids,
           count : 0..Cardinality(Ids), over : Ids \cup {NULL}]
Faulty == {"freed", "null", "squirrel", "garbage", "unset"}
Stages == {"absent", "spawned", "ran", "put", "flag", "over", "killed"}
Done   == {"flag", "over", "killed"}

\* Types, with what they need to be inductive.
TypeInv ==
  /\ TheThreads \in [Ids -> {"absent", "null", "data"}]
  /\ data \in [Ids -> Datum]
  /\ alloc \in SUBSET Ids
  /\ pc \in [Ids -> Stages]
  /\ ret \in [Ids -> Outputs]
  /\ stopped \in SUBSET Ids
  /\ pool \in Seq(Squirrels) /\ Range(pool) \subseteq Squirrels
  /\ live \in SUBSET Squirrels
  /\ client \in [Clients -> Waiter]
  /\ late \in SUBSET Ids
  /\ fault \in [what : {"none"} \cup Faulty, ids : SUBSET Ids]
  /\ \A i \in Ids : pc[i] # "absent" => data[i].squirrel \in Squirrels
  /\ \A c \in Clients : client[c].pc = "done" => client[c].over \in client[c].ids
  /\ \A c \in Clients, i \in Ids : i \in client[c].ids => pc[i] # "absent"

\* The thread has its data, and its squirrel is not in the pool.
Owns(i) == i \in alloc /\ pc[i] # "put"

\* A Thread.kill has stopped the thread, and not returned.
Killing(c) == client[c].pc \in {"test", "delete", "erase"}

\* Of every thread: how far it is says what its data hold.
Staged ==
  /\ \A i \in Ids :
       /\ pc[i] = "absent" => i \notin alloc
       /\ data[i].terminated => pc[i] \in Done
       /\ ret[i] = "garbage" => i \in NoReturn
       /\ data[i].output = "garbage" => i \in NoReturn
       /\ data[i].output # "NULL" => pc[i] = "over"
       /\ pc[i] = "over" /\ i \in alloc => data[i].output = ret[i]
  /\ \A c \in Clients : Killing(c) => \A i \in client[c].ids : pc[i] \in {"killed", "over"}
  /\ \A c \in Clients : client[c].pc = "done" => pc[client[c].over] \in Done

\* A thread that is not late has its data until its last use of them, and is in
\* the map while it runs.
DataLive ==
  \A i \in Ids \ late :
    /\ pc[i] \in {"spawned", "ran", "put", "flag"} => i \in alloc
    /\ pc[i] \in {"spawned", "ran"} => TheThreads[i] = "data"

\* One that some squirrel waits for keeps its data, and is waited for by one.
WaitedLive ==
  /\ \A c \in Clients : Waiting(c) => \A i \in client[c].ids \ late :
       /\ i \in alloc /\ data[i].waited
       /\ pc[i] \in {"spawned", "ran", "flag", "over", "killed"}
  /\ \A c, d \in Clients : \A i \in Ids \ late :
       Waiting(c) /\ Waiting(d) /\ i \in client[c].ids /\ i \in client[d].ids => c = d

\* One that is being killed is killed by one squirrel, which deletes its data if
\* nobody waits for it.
KilledLive ==
  /\ \A c \in Clients : Killing(c) => \A i \in client[c].ids \ late :
       /\ pc[i] = "killed"
       /\ client[c].pc # "erase" => i \in alloc
       /\ client[c].pc = "test" => ~data[i].terminated
       /\ client[c].pc = "delete" => ~data[i].waited
  /\ \A c, d \in Clients : \A i \in Ids \ late :
       Killing(c) /\ Killing(d) /\ i \in client[c].ids /\ i \in client[d].ids => c = d

\* While no thread is late a squirrel has one owner, the pool or a thread with its
\* data.
OneOwner ==
  late = {} =>
    /\ Range(pool) \subseteq live /\ IsInjective(pool)
    /\ \A i \in Ids : Owns(i) => data[i].squirrel \in live \ Range(pool)
    /\ \A i, j \in Ids : Owns(i) /\ Owns(j) /\ data[i].squirrel = data[j].squirrel => i = j

\* The threads that "all has counted: a killed one is counted after the test.
Dying(i)   == \E c \in Clients : client[c].pc = "test" /\ i \in client[c].ids
Counts(i)  == pc[i] \in Done /\ ~data[i].terminated /\ ~Dying(i)
Counted(c) == {i \in client[c].ids : Counts(i)}

CountsRight ==
  \A c \in Clients : client[c].pc = "all" /\ client[c].ids \cap late = {} =>
    client[c].count = Cardinality(Counted(c))

IInv ==
  /\ TypeInv /\ NoStaleUse
  /\ Staged /\ DataLive /\ WaitedLive /\ KilledLive /\ OneOwner /\ CountsRight
-----------------------------------------------------------------------------
\* The pool with one squirrel more, and with the last one taken.
LEMMA PoolPut ==
  ASSUME NEW S, NEW s \in Seq(S), NEW q \in S
  PROVE  /\ Append(s, q) \in Seq(S)
         /\ Range(Append(s, q)) = Range(s) \cup {q}
         /\ IsInjective(s) /\ q \notin Range(s) => IsInjective(Append(s, q))
<1> DEFINE t == Append(s, q)
<1>1. /\ t \in Seq(S) /\ Len(t) = Len(s) + 1 /\ Len(s) \in Nat
      /\ DOMAIN t = 1..(Len(s) + 1) /\ DOMAIN s = 1..Len(s)
      /\ \A k \in 1..Len(s) : t[k] = s[k]
      /\ t[Len(s) + 1] = q
  OBVIOUS
<1> HIDE DEF t
<1>2. DOMAIN t = DOMAIN s \cup {Len(s) + 1} BY <1>1
<1>3. Range(t) = Range(s) \cup {q} BY <1>1, <1>2 DEF Range
<1>4. ASSUME IsInjective(s), q \notin Range(s) PROVE IsInjective(t)
  BY <1>1, <1>2, <1>4 DEF IsInjective, Range
<1>5. QED BY <1>1, <1>3, <1>4 DEF t

LEMMA PoolGet ==
  ASSUME NEW S, NEW s \in Seq(S), s # <<>>
  PROVE  /\ Front(s) \in Seq(S) /\ Last(s) \in S
         /\ Range(s) = Range(Front(s)) \cup {Last(s)}
         /\ IsInjective(s) => IsInjective(Front(s)) /\ Last(s) \notin Range(Front(s))
<1> DEFINE n == Len(s) - 1
           t == SubSeq(s, 1, n)
<1>1. n \in Nat /\ Len(s) = n + 1 /\ DOMAIN s = 1..(n + 1) /\ s[n + 1] \in S
  OBVIOUS
<1>2. n \in Int /\ \A k \in 1..n : s[k] \in S OBVIOUS
<1> HIDE DEF n
<1>3. /\ t \in Seq(S) /\ Len(t) = n
      /\ \A k \in 1..n : t[k] = s[k]
  <2>1. /\ SubSeq(s, 1, n) \in Seq(S)
        /\ Len(SubSeq(s, 1, n)) = IF 1 <= n THEN n - 1 + 1 ELSE 0
        /\ \A k \in 1..(n - 1 + 1) : SubSeq(s, 1, n)[k] = s[1 + k - 1]
    BY <1>2, SubSeqProperties
  <2>2. \A k \in 1..n : k \in 1..(n - 1 + 1) /\ 1 + k - 1 = k BY <1>1
  <2>3. Len(t) = n BY <2>1, <1>1
  <2>4. QED BY <2>1, <2>2, <2>3
<1> HIDE DEF t
<1>4. DOMAIN t = 1..n /\ DOMAIN s = DOMAIN t \cup {n + 1} BY <1>1, <1>3
<1>5. Range(s) = Range(t) \cup {s[n + 1]} BY <1>1, <1>3, <1>4 DEF Range
<1>6. ASSUME IsInjective(s) PROVE IsInjective(t) /\ s[n + 1] \notin Range(t)
  BY <1>1, <1>3, <1>4, <1>6 DEF IsInjective, Range
<1>7. Front(s) = t /\ Last(s) = s[n + 1] BY <1>1 DEF Front, Last, t, n
<1>8. QED BY <1>1, <1>3, <1>5, <1>6, <1>7

-----------------------------------------------------------------------------
\* What the assignments to data and client leave, field by field.
LEMMA SpawnData ==
  ASSUME data \in [Ids -> Datum], NEW i \in Ids, NEW q \in Squirrels,
         data' = [data EXCEPT ![i] = [NoData EXCEPT !.squirrel = q]]
  PROVE  /\ data' \in [Ids -> Datum]
         /\ \A j \in Ids \ {i} : data'[j] = data[j]
         /\ data'[i].squirrel = q /\ data'[i].waited = FALSE
         /\ data'[i].terminated = FALSE /\ data'[i].output = "NULL"
BY DEF Datum, NoData, Outputs

LEMMA WaitData ==
  ASSUME data \in [Ids -> Datum], NEW S \in SUBSET Ids, NEW b \in BOOLEAN,
         data' = [i \in Ids |-> IF i \in S THEN [data[i] EXCEPT !.waited = b] ELSE data[i]]
  PROVE  /\ data' \in [Ids -> Datum]
         /\ \A j \in Ids : /\ data'[j].squirrel = data[j].squirrel
                           /\ data'[j].terminated = data[j].terminated
                           /\ data'[j].output = data[j].output
                           /\ j \in S => data'[j].waited = b
                           /\ j \notin S => data'[j].waited = data[j].waited
<1>1. \A i \in S : [data[i] EXCEPT !.waited = b] \in Datum BY DEF Datum
<1>2. data' \in [Ids -> Datum] BY <1>1 
<1>3. QED BY <1>2 DEF Datum

LEMMA SetWaited ==
  ASSUME data \in [Ids -> Datum], NEW i \in Ids, data' = [data EXCEPT ![i].waited = TRUE]
  PROVE  /\ data' \in [Ids -> Datum]
         /\ \A j \in Ids : /\ data'[j].squirrel = data[j].squirrel
                           /\ data'[j].terminated = data[j].terminated
                           /\ data'[j].output = data[j].output
                           /\ j # i => data'[j].waited = data[j].waited
         /\ data'[i].waited
BY DEF Datum

LEMMA SetTerminated ==
  ASSUME data \in [Ids -> Datum], NEW i \in Ids, NEW b \in BOOLEAN,
         data' = [data EXCEPT ![i].terminated = b]
  PROVE  /\ data' \in [Ids -> Datum]
         /\ \A j \in Ids : /\ data'[j].squirrel = data[j].squirrel
                           /\ data'[j].waited = data[j].waited
                           /\ data'[j].output = data[j].output
                           /\ j # i => data'[j].terminated = data[j].terminated
         /\ data'[i].terminated = b
BY DEF Datum

LEMMA SetOutputData ==
  ASSUME data \in [Ids -> Datum], NEW i \in Ids, NEW o \in Outputs,
         data' = [data EXCEPT ![i].output = o]
  PROVE  /\ data' \in [Ids -> Datum]
         /\ \A j \in Ids : /\ data'[j].squirrel = data[j].squirrel
                           /\ data'[j].waited = data[j].waited
                           /\ data'[j].terminated = data[j].terminated
                           /\ data'[j].output = IF j = i THEN o ELSE data[j].output
BY DEF Datum

LEMMA NewWait ==
  ASSUME client \in [Clients -> Waiter], NEW c \in Clients,
         NEW mode \in {"one", "first", "all", "kill"}, NEW S \in SUBSET Ids,
         client' = [client EXCEPT ![c] = [Nobody EXCEPT !.pc = mode, !.ids = S]]
  PROVE  /\ client' \in [Clients -> Waiter]
         /\ \A d \in Clients \ {c} : client'[d] = client[d]
         /\ client'[c].pc = mode /\ client'[c].ids = S /\ client'[c].count = 0
<1>1. Cardinality(Ids) \in Nat BY ThreadAssumption, FS_CardinalityType
<1>2. Nobody \in Waiter /\ Nobody.count = 0 BY <1>1 DEF Nobody, Waiter
<1> HIDE DEF Nobody
<1>3. ASSUME NEW n \in Waiter, NEW e, e = [n EXCEPT !.pc = mode, !.ids = S]
      PROVE  e \in Waiter /\ e.pc = mode /\ e.ids = S /\ e.count = n.count
  <2>1. PICK m : m = [n EXCEPT !.pc = mode] OBVIOUS
  <2>2. m \in Waiter /\ m.pc = mode /\ m.count = n.count BY <2>1 DEF Waiter, Waits, KillSteps
  <2>3. e = [m EXCEPT !.ids = S] BY <1>3, <2>1
  <2>4. QED BY <2>2, <2>3 DEF Waiter
<1>4. PICK e : e = [Nobody EXCEPT !.pc = mode, !.ids = S] OBVIOUS
<1>5. QED BY <1>2, <1>3, <1>4

LEMMA Stepped ==
  ASSUME client \in [Clients -> Waiter], NEW c \in Clients, NEW to \in KillSteps, Step(c, to)
  PROVE  /\ client' \in [Clients -> Waiter]
         /\ \A d \in Clients \ {c} : client'[d] = client[d]
         /\ client'[c].pc = to /\ client'[c].ids = client[c].ids
BY DEF Step, Waiter

LEMMA FoundOver ==
  ASSUME client \in [Clients -> Waiter], NEW c \in Clients, NEW i \in Ids,
         client' = [client EXCEPT ![c].pc = "done", ![c].over = i]
  PROVE  /\ client' \in [Clients -> Waiter]
         /\ \A d \in Clients \ {c} : client'[d] = client[d]
         /\ client'[c].pc = "done" /\ client'[c].ids = client[c].ids /\ client'[c].over = i
BY DEF Waiter, Waits

LEMMA CountOne ==
  ASSUME client \in [Clients -> Waiter], NEW c \in Clients,
         client[c].count + 1 \in 0..Cardinality(Ids),
         client' = [client EXCEPT ![c].count = @ + 1]
  PROVE  /\ client' \in [Clients -> Waiter]
         /\ \A d \in Clients \ {c} : client'[d] = client[d]
         /\ client'[c].pc = client[c].pc /\ client'[c].ids = client[c].ids
         /\ client'[c].over = client[c].over /\ client'[c].count = client[c].count + 1
BY DEF Waiter

LEMMA Returned ==
  ASSUME client \in [Clients -> Waiter], NEW c \in Clients, Return(c)
  PROVE  /\ client' \in [Clients -> Waiter]
         /\ \A d \in Clients \ {c} : client'[d] = client[d]
         /\ client'[c].pc = "idle" /\ client'[c].ids = {}
<1>1. Cardinality(Ids) \in Nat BY ThreadAssumption, FS_CardinalityType
<1>2. Nobody \in Waiter /\ Nobody.pc = "idle" /\ Nobody.ids = {} BY <1>1 DEF Nobody, Waiter
<1>3. QED BY <1>2 DEF Return

LEMMA UnwaitData ==
  ASSUME data \in [Ids -> Datum], NEW S \in SUBSET Ids, data' = Unwaited(S)
  PROVE  /\ data' \in [Ids -> Datum]
         /\ \A j \in Ids : /\ data'[j].squirrel = data[j].squirrel
                           /\ data'[j].terminated = data[j].terminated
                           /\ data'[j].output = data[j].output
                           /\ j \in S => data'[j].waited = FALSE
                           /\ j \notin S => data'[j].waited = data[j].waited
BY WaitData DEF Unwaited

-----------------------------------------------------------------------------
\* The initial state, and types after each action.
LEMMA InitInv == Init => IInv
<1> SUFFICES ASSUME Init PROVE IInv OBVIOUS
<1>1. TypeInv /\ Nobody.ids = {} /\ Nobody.pc = "idle"
  <2>1. Cardinality(Ids) \in Nat BY ThreadAssumption, FS_CardinalityType
  <2>2. NoData \in Datum /\ Nobody \in Waiter /\ Nobody.pc = "idle" /\ Nobody.ids = {}
    BY <2>1 DEF NoData, Datum, Outputs, Nobody, Waiter
  <2>3. pool \in Seq(Squirrels) /\ Range(pool) = {} BY DEF Init, Range
  <2>4. QED BY <2>2, <2>3 DEF Init, TypeInv, Outputs, NoFault, Faulty, Stages
<1>2. \A c \in Clients : client[c].pc = "idle" /\ client[c].ids = {} BY <1>1 DEF Init
<1>3. Staged /\ DataLive BY <1>2 DEF Init, Staged, DataLive, NoData, Killing
<1>4. WaitedLive /\ KilledLive /\ CountsRight
  BY <1>2 DEF WaitedLive, KilledLive, CountsRight, Waiting, Waits, Killing
<1>5. OneOwner BY DEF Init, OneOwner, Owns, Range, IsInjective
<1>6. NoStaleUse BY DEF Init, NoStaleUse, NoFault
<1>7. QED BY <1>1, <1>3, <1>4, <1>5, <1>6 DEF IInv

LEMMA CountBound ==
  ASSUME NEW S \in SUBSET Ids
  PROVE  /\ IsFiniteSet(S) /\ Cardinality(S) \in Nat /\ Cardinality(Ids) \in Nat
         /\ Cardinality(S) <= Cardinality(Ids)
BY ThreadAssumption, FS_Subset, FS_CardinalityType

\* The threads a wait is late for are threads.
LEMMA LateType == ASSUME NEW S \in SUBSET Ids PROVE LateFor(S) \in SUBSET Ids
BY DEF LateFor

LEMMA FaultType ==
  ASSUME TypeInv, NEW what \in Faulty, NEW S \in SUBSET Ids, Fault(what, S), late' \in SUBSET Ids
  PROVE  TypeInv'
BY DEF TypeInv, Fault

LEMMA SpawnType ==
  ASSUME TypeInv, NEW c \in Clients, NEW i \in Ids, Spawn(c, i)
  PROVE  TypeInv'
<1>1. PICK q \in Squirrels :
       /\ IF pool # <<>> THEN q = Last(pool) ELSE q \notin live
       /\ IF q \notin live /\ pool # <<>> THEN Fault("squirrel", {i})
          ELSE /\ pool' = IF pool # <<>> THEN Front(pool) ELSE pool
               /\ live' = live \cup {q}
               /\ data' = [data EXCEPT ![i] = [NoData EXCEPT !.squirrel = q]]
               /\ alloc' = alloc \cup {i}
               /\ TheThreads' = [TheThreads EXCEPT ![i] = "data"]
               /\ pc' = [pc EXCEPT ![i] = "spawned"]
               /\ stopped' = stopped \cup {i}
               /\ UNCHANGED <<ret, client, fault>>
  BY DEF Spawn
<1>2. late' = late BY DEF Spawn
<1>3. CASE pool # <<>> /\ q \notin live
  <2>1. Fault("squirrel", {i}) BY <1>1, <1>3
  <2>2. "squirrel" \in Faulty /\ {i} \in SUBSET Ids /\ late' \in SUBSET Ids
    BY <1>2 DEF Faulty, TypeInv
  <2>3. QED BY <2>1, <2>2, FaultType
<1>4. CASE ~(pool # <<>> /\ q \notin live)
  <2>1. pool' \in Seq(Squirrels) /\ Range(pool') \subseteq Squirrels
    BY <1>1, <1>4, PoolGet DEF TypeInv
  <2>2. /\ data' \in [Ids -> Datum]
        /\ \A j \in Ids \ {i} : data'[j] = data[j]
        /\ data'[i].squirrel = q
    <3>1. data \in [Ids -> Datum] /\ data' = [data EXCEPT ![i] = [NoData EXCEPT !.squirrel = q]]
      BY <1>1, <1>4 DEF TypeInv
    <3>2. QED BY ONLY <3>1, SpawnData, i \in Ids, q \in Squirrels
  <2>3. /\ live' = live \cup {q} /\ alloc' = alloc \cup {i}
        /\ TheThreads' = [TheThreads EXCEPT ![i] = "data"]
        /\ pc' = [pc EXCEPT ![i] = "spawned"] /\ stopped' = stopped \cup {i}
        /\ UNCHANGED <<ret, client, late, fault>>
    BY <1>1, <1>2, <1>4
  <2>4. /\ pc' \in [Ids -> Stages] /\ \A j \in Ids \ {i} : pc'[j] = pc[j]
        /\ pc'[i] # "absent"
    BY <2>3 DEF TypeInv, Stages
  <2>5. /\ \A j \in Ids : pc'[j] # "absent" => data'[j].squirrel \in Squirrels
        /\ \A d \in Clients, j \in Ids : j \in client'[d].ids => pc'[j] # "absent"
    BY <2>2, <2>3, <2>4 DEF TypeInv
  <2>6. QED BY <2>1, <2>2, <2>3, <2>4, <2>5 DEF TypeInv
<1>5. QED BY <1>3, <1>4

\* The pool after a spawn that failed.
LEMMA FailedPool ==
  ASSUME NEW q \in Squirrels, pool' = <<q>>
  PROVE  pool' \in Seq(Squirrels) /\ Range(pool') = {q} /\ IsInjective(pool')
<1> DEFINE e == <<>>
           p == Append(e, q)
<1>1. pool' = p OBVIOUS
<1>2. e \in Seq(Squirrels) /\ Range(e) = {} /\ IsInjective(e) BY DEF Range, IsInjective
<1> HIDE DEF e
<1>3. p \in Seq(Squirrels) /\ Range(p) = {q} /\ IsInjective(p) BY <1>2, PoolPut
<1>4. QED BY <1>1, <1>3

LEMMA SpawnFailsType == ASSUME TypeInv, NEW c \in Clients, SpawnFails(c) PROVE TypeInv'
<1>1. PICK q \in Squirrels : pool' = <<q>> /\ live' = live \cup {q} BY DEF SpawnFails
<1>2. pool' \in Seq(Squirrels) /\ Range(pool') \subseteq Squirrels BY <1>1, FailedPool
<1>3. QED BY <1>1, <1>2 DEF SpawnFails, TypeInv

LEMMA ThreadType == ASSUME TypeInv, NEW i \in Ids, Thread(i) PROVE TypeInv'
<1>1. CASE Execute(i) BY <1>1 DEF Execute, Runs, TypeInv, Stages
<1>2. CASE TestWaited(i)
  <2>1. CASE i \notin alloc
    <3>1. Fault("freed", {i}) /\ late' = late BY <1>2, <2>1 DEF TestWaited
    <3>2. QED BY <3>1, FaultType DEF TypeInv, Faulty
  <2>2. CASE i \in alloc /\ data[i].waited
    <3>1. data' = [data EXCEPT ![i].terminated = TRUE] BY <1>2, <2>2 DEF TestWaited
    <3>2. data' \in [Ids -> Datum] /\ \A j \in Ids : data'[j].squirrel = data[j].squirrel
      BY <3>1, SetTerminated DEF TypeInv
    <3>3. QED BY <1>2, <2>2, <3>2 DEF TestWaited, Runs, TypeInv, Stages
  <2>3. CASE i \in alloc /\ ~data[i].waited
    <3>1. pool' = Append(pool, data[i].squirrel) /\ data[i].squirrel \in Squirrels
      BY <1>2, <2>3 DEF TestWaited, Runs, TypeInv
    <3>2. pool' \in Seq(Squirrels) /\ Range(pool') \subseteq Squirrels
      BY <3>1, PoolPut DEF TypeInv
    <3>3. QED BY <1>2, <2>3, <3>2 DEF TestWaited, Runs, TypeInv, Stages
  <2>4. QED BY <2>1, <2>2, <2>3
<1>3. CASE DeleteData(i) BY <1>3 DEF DeleteData, Runs, TypeInv, Stages
<1>4. CASE SetOutput(i)
  <2>1. CASE i \notin alloc
    <3>1. Fault("freed", {i}) /\ late' = late BY <1>4, <2>1 DEF SetOutput
    <3>2. QED BY <3>1, FaultType DEF TypeInv, Faulty
  <2>2. CASE i \in alloc
    <3>1. ret[i] \in Outputs BY DEF TypeInv
    <3>2. data' = [data EXCEPT ![i].output = ret[i]] BY <1>4, <2>2 DEF SetOutput
    <3>3. data' \in [Ids -> Datum] /\ \A j \in Ids : data'[j].squirrel = data[j].squirrel
      BY <3>1, <3>2, SetOutputData DEF TypeInv
    <3>4. QED BY <1>4, <2>2, <3>3 DEF SetOutput, Runs, TypeInv, Stages
  <2>3. QED BY <2>1, <2>2
<1>5. QED BY <1>1, <1>2, <1>3, <1>4 DEF Thread

LEMMA StoppedType ==
  ASSUME TypeInv, NEW c \in Clients, NEW i \in Ids, Hop(c, i) \/ Suspend(c, i)
  PROVE  TypeInv'
<1>1. CASE Hop(c, i) BY <1>1 DEF Hop, TypeInv
<1>2. CASE Suspend(c, i) BY <1>2 DEF Suspend, TypeInv
<1>3. QED BY <1>1, <1>2

LEMMA KillType ==
  ASSUME TypeInv, NEW c \in Clients, NEW i \in Ids,
         Kill(c, i) \/ KillThread(c, i) \/ KillTest(c, i) \/ KillDelete(c, i) \/ KillErase(c, i)
  PROVE  TypeInv'
<1>1. CASE Kill(c, i)
  <2>1. CASE TheThreads[i] # "data" BY <1>1, <2>1 DEF Kill, TypeInv
  <2>2. CASE TheThreads[i] = "data"
    <3>1. client' = [client EXCEPT ![c] = [Nobody EXCEPT !.pc = "kill", !.ids = {i}]]
      BY <1>1, <2>2 DEF Kill
    <3>2. {i} \in SUBSET Ids /\ "kill" \in {"one", "first", "all", "kill"} OBVIOUS
    <3>3. client' \in [Clients -> Waiter] /\ client'[c].pc = "kill" /\ client'[c].ids = {i}
          /\ \A d \in Clients \ {c} : client'[d] = client[d]
      BY <3>1, <3>2, NewWait DEF TypeInv
    <3>4. QED BY <1>1, <2>2, <3>3 DEF Kill, TypeInv
  <2>3. QED BY <2>1, <2>2
<1>2. CASE KillThread(c, i)
  <2>1. client' \in [Clients -> Waiter] /\ client'[c].pc = "test" /\ client'[c].ids = client[c].ids
        /\ \A d \in Clients \ {c} : client'[d] = client[d]
    BY <1>2, Stepped DEF KillThread, TypeInv, KillSteps
  <2>2. /\ late' = late \cup {j \in {i} : pc[j] # "spawned"}
        /\ pc' = [pc EXCEPT ![i] = IF pc[i] = "over" THEN "over" ELSE "killed"]
        /\ stopped' = stopped \ {i}
        /\ client[c].ids = {i}
        /\ UNCHANGED <<TheThreads, data, alloc, ret, pool, live, fault>>
    BY <1>2 DEF KillThread
  <2>3. late' \in SUBSET Ids /\ pc' \in [Ids -> Stages]
    BY <2>2 DEF TypeInv, Stages
  <2>4. pc[i] # "absent" /\ \A j \in Ids : pc'[j] = "absent" <=> pc[j] = "absent"
    BY <2>2 DEF TypeInv
  <2>5. \A j \in Ids : pc'[j] # "absent" => data'[j].squirrel \in Squirrels
    BY <2>2, <2>4 DEF TypeInv
  <2>6. \A d \in Clients : client'[d].pc = "done" => client'[d].over \in client'[d].ids
    BY <2>1 DEF TypeInv
  <2>7. \A d \in Clients, j \in Ids : j \in client'[d].ids => pc'[j] # "absent"
    BY <2>1, <2>4 DEF TypeInv
  <2>8. QED BY <2>1, <2>2, <2>3, <2>5, <2>6, <2>7 DEF TypeInv
<1>3. CASE KillTest(c, i)
  <2>1. CASE i \notin alloc
    <3>1. Fault("freed", {i}) /\ late' = late BY <1>3, <2>1 DEF KillTest
    <3>2. QED BY <3>1, FaultType DEF TypeInv, Faulty
  <2>2. CASE i \in alloc
    <3>1. /\ data' \in [Ids -> Datum]
          /\ \A j \in Ids : data'[j].squirrel = data[j].squirrel
          /\ client' \in [Clients -> Waiter] /\ client'[c].pc # "done"
          /\ client'[c].ids \subseteq client[c].ids
          /\ \A d \in Clients \ {c} : client'[d] = client[d]
      <4>1. CASE data[i].waited
        <5>1. data' = [data EXCEPT ![i].terminated = TRUE] /\ Return(c)
          BY <1>3, <2>2, <4>1 DEF KillTest
        <5>2. QED BY <5>1, SetTerminated, Returned DEF TypeInv
      <4>2. CASE ~data[i].waited
        <5>1. data' = data /\ Step(c, "delete") BY <1>3, <2>2, <4>2 DEF KillTest
        <5>2. QED BY <5>1, Stepped DEF TypeInv, KillSteps
      <4>3. QED BY <4>1, <4>2
    <3>2. UNCHANGED <<TheThreads, alloc, pc, ret, stopped, pool, live, late, fault>>
      BY <1>3, <2>2 DEF KillTest
    <3>3. QED BY <3>1, <3>2 DEF TypeInv
  <2>3. QED BY <2>1, <2>2
<1>4. CASE KillDelete(c, i)
  <2>1. CASE i \notin alloc
    <3>1. Fault("freed", {i}) /\ late' = late BY <1>4, <2>1 DEF KillDelete
    <3>2. QED BY <3>1, FaultType DEF TypeInv, Faulty
  <2>2. CASE i \in alloc
    <3>1. client' \in [Clients -> Waiter] /\ client'[c].pc = "erase" /\ client'[c].ids = client[c].ids
          /\ \A d \in Clients \ {c} : client'[d] = client[d]
      BY <1>4, <2>2, Stepped DEF KillDelete, TypeInv, KillSteps
    <3>2. QED BY <1>4, <2>2, <3>1 DEF KillDelete, TypeInv
  <2>3. QED BY <2>1, <2>2
<1>5. CASE KillErase(c, i)
  <2>1. client' \in [Clients -> Waiter] /\ client'[c].pc = "idle" /\ client'[c].ids = {}
        /\ \A d \in Clients \ {c} : client'[d] = client[d]
    BY <1>5, Returned DEF KillErase, TypeInv
  <2>2. QED BY <1>5, <2>1 DEF KillErase, TypeInv
<1>6. QED BY <1>1, <1>2, <1>3, <1>4, <1>5

LEMMA WaitType ==
  ASSUME TypeInv, NEW c \in Clients,
         \/ \E i \in Ids : WaitOne(c, i)
         \/ \E mode \in {"first", "all"}, S \in SUBSET Ids : WaitSeveral(c, mode, S)
  PROVE  TypeInv'
<1>1. ASSUME NEW i \in Ids, WaitOne(c, i) PROVE TypeInv'
  <2> DEFINE S == {i}
  <2>1. CASE TheThreads[i] # "data" BY <1>1, <2>1 DEF WaitOne, TypeInv
  <2>2. CASE TheThreads[i] = "data"
    <3>1. S \in SUBSET Ids /\ late' = late \cup LateFor(S) BY <1>1, <2>2 DEF WaitOne
    <3>2. late' \in SUBSET Ids BY <3>1, LateType DEF TypeInv
    <3>3. CASE i \notin alloc
      <4>1. Fault("freed", S) BY <1>1, <2>2, <3>3 DEF WaitOne
      <4>2. QED BY <3>1, <3>2, <4>1, FaultType DEF Faulty
    <3>4. CASE i \in alloc
      <4>1. /\ data' = [data EXCEPT ![i].waited = TRUE]
            /\ stopped' = stopped \ {i}
            /\ client' = [client EXCEPT ![c] = [Nobody EXCEPT !.pc = "one", !.ids = S]]
            /\ UNCHANGED <<TheThreads, alloc, pc, ret, pool, live, fault>>
        BY <1>1, <2>2, <3>4 DEF WaitOne
      <4>2. data' \in [Ids -> Datum] /\ \A j \in Ids : data'[j].squirrel = data[j].squirrel
        BY <4>1, SetWaited DEF TypeInv
      <4>3. client' \in [Clients -> Waiter] /\ client'[c].pc = "one" /\ client'[c].ids = S
            /\ \A d \in Clients \ {c} : client'[d] = client[d]
        BY <3>1, <4>1, NewWait DEF TypeInv
      <4>4. pc[i] # "absent" BY <1>1 DEF WaitOne
      <4>5. QED BY <3>2, <4>1, <4>2, <4>3, <4>4 DEF TypeInv
    <3>5. QED BY <3>3, <3>4
  <2>3. QED BY <2>1, <2>2
<1>2. ASSUME NEW mode \in {"first", "all"}, NEW S \in SUBSET Ids, WaitSeveral(c, mode, S)
      PROVE  TypeInv'
  <2>1. late' \in SUBSET Ids
    <3>1. late' = late \cup LateFor(S) BY <1>2 DEF WaitSeveral
    <3>2. QED BY <3>1, LateType DEF TypeInv
  <2>2. CASE \E i \in S : TheThreads[i] # "data"
    <3> DEFINE T == {i \in S : TheThreads[i] # "data"}
    <3>1. Fault("null", T) /\ T \in SUBSET Ids BY <1>2, <2>2 DEF WaitSeveral
    <3> HIDE DEF T
    <3>2. QED BY <2>1, <3>1, FaultType DEF Faulty
  <2>3. CASE ~(\E i \in S : TheThreads[i] # "data") /\ ~(S \subseteq alloc)
    <3>1. Fault("freed", S \ alloc) BY <1>2, <2>3 DEF WaitSeveral
    <3>2. QED BY <2>1, <3>1, FaultType DEF Faulty
  <2>4. CASE ~(\E i \in S : TheThreads[i] # "data") /\ S \subseteq alloc
    <3>0. /\ data' = [i \in Ids |-> IF i \in S THEN [data[i] EXCEPT !.waited = TRUE] ELSE data[i]]
          /\ client' = [client EXCEPT ![c] = [Nobody EXCEPT !.pc = mode, !.ids = S]]
          /\ UNCHANGED <<TheThreads, alloc, pc, ret, stopped, pool, live, fault>>
          /\ \A i \in S : pc[i] # "absent"
      BY <1>2, <2>4 DEF WaitSeveral
    <3>1. data' \in [Ids -> Datum] /\ \A j \in Ids : data'[j].squirrel = data[j].squirrel
      BY <3>0, WaitData DEF TypeInv
    <3>2. client' \in [Clients -> Waiter] /\ client'[c].pc = mode /\ client'[c].ids = S
          /\ \A d \in Clients \ {c} : client'[d] = client[d]
      BY <3>0, NewWait DEF TypeInv
    <3>3. QED BY <2>1, <3>0, <3>1, <3>2 DEF TypeInv
  <2>5. QED BY <2>2, <2>3, <2>4
<1>3. QED BY <1>1, <1>2

\* The ends of waits delete data, clear waited and make the squirrel idle.
LEMMA ReturnType ==
  ASSUME TypeInv, NEW c \in Clients, NEW S \in SUBSET Ids, Return(c),
         (Discard(S) \/ UNCHANGED <<TheThreads, alloc, live>>),
         (data' = data \/ \E T \in SUBSET Ids : data' = Unwaited(T)),
         UNCHANGED <<pc, ret, stopped, pool, late, fault>>
  PROVE  TypeInv'
<1>1. /\ client' \in [Clients -> Waiter] /\ client'[c].pc = "idle" /\ client'[c].ids = {}
      /\ \A d \in Clients \ {c} : client'[d] = client[d]
  BY Returned DEF TypeInv
<1>2. /\ TheThreads' \in [Ids -> {"absent", "null", "data"}]
      /\ alloc' \in SUBSET Ids /\ live' \in SUBSET Squirrels
  BY DEF Discard, TypeInv
<1>3. data' \in [Ids -> Datum] /\ \A i \in Ids : data'[i].squirrel = data[i].squirrel
  <2>1. CASE data' = data BY <2>1 DEF TypeInv
  <2>2. ASSUME NEW T \in SUBSET Ids, data' = Unwaited(T)
        PROVE  data' \in [Ids -> Datum] /\ \A i \in Ids : data'[i].squirrel = data[i].squirrel
    BY <2>2, UnwaitData DEF TypeInv
  <2>3. QED BY <2>1, <2>2
<1>4. QED BY <1>1, <1>2, <1>3 DEF TypeInv

LEMMA WaitOverType ==
  ASSUME TypeInv, NEW c \in Clients,
         (\E i \in Ids : OneDone(c, i) \/ PollFirst(c, i) \/ PollAll(c, i)) \/ FirstDone(c) \/ AllDone(c)
  PROVE  TypeInv'
<1>0. /\ \A what \in Faulty, S \in SUBSET Ids : Fault(what, S) /\ late' = late => TypeInv'
      /\ client[c].ids \in SUBSET Ids /\ client[c].count \in 0..Cardinality(Ids)
  BY FaultType DEF TypeInv, Waiter
<1>1. ASSUME NEW i \in Ids, OneDone(c, i) PROVE TypeInv'
  <2> DEFINE S == {i}
  <2>1. S \in SUBSET Ids /\ late' = late BY <1>1 DEF OneDone
  <2>2. CASE Fault("freed", S) \/ Fault("garbage", S) BY <1>0, <2>1, <2>2 DEF Faulty
  <2>3. CASE ~(Fault("freed", S) \/ Fault("garbage", S))
    <3>1. /\ Discard(S) \/ UNCHANGED <<TheThreads, alloc, live>>
          /\ Return(c) /\ UNCHANGED <<data, pc, ret, stopped, pool, late, fault>>
      BY <1>1, <2>3 DEF OneDone
    <3> HIDE DEF S
    <3>2. QED BY <2>1, <3>1, ReturnType
  <2>4. QED BY <2>2, <2>3
<1>2. ASSUME NEW i \in Ids, PollFirst(c, i) PROVE TypeInv'
  <2>1. CASE i \notin alloc
    <3>1. Fault("freed", {i}) /\ late' = late BY <1>2, <2>1 DEF PollFirst
    <3>2. QED BY <1>0, <3>1 DEF Faulty
  <2>2. CASE i \in alloc
    <3>1. /\ client' = [client EXCEPT ![c].pc = "done", ![c].over = i] /\ i \in client[c].ids
          /\ UNCHANGED <<TheThreads, data, alloc, pc, ret, stopped, pool, live, late, fault>>
      BY <1>2, <2>2 DEF PollFirst
    <3>2. /\ client' \in [Clients -> Waiter]
          /\ \A d \in Clients \ {c} : client'[d] = client[d]
          /\ client'[c].pc = "done" /\ client'[c].ids = client[c].ids /\ client'[c].over = i
      BY <3>1, FoundOver DEF TypeInv
    <3>3. QED BY <3>1, <3>2 DEF TypeInv
  <2>3. QED BY <2>1, <2>2
<1>3. ASSUME NEW i \in Ids, PollAll(c, i) PROVE TypeInv'
  <2>1. CASE i \notin alloc
    <3>1. Fault("freed", {i}) /\ late' = late BY <1>3, <2>1 DEF PollAll
    <3>2. QED BY <1>0, <3>1 DEF Faulty
  <2>2. CASE i \in alloc
    <3>1. /\ data' = [data EXCEPT ![i].terminated = FALSE]
          /\ client' = [client EXCEPT ![c].count = @ + 1]
          /\ client[c].pc = "all" /\ client[c].count < Cardinality(client[c].ids)
          /\ UNCHANGED <<TheThreads, alloc, pc, ret, stopped, pool, live, late, fault>>
      BY <1>3, <2>2 DEF PollAll, At
    <3>2. client[c].count + 1 \in 0..Cardinality(Ids) BY <1>0, <3>1, CountBound
    <3>3. /\ client' \in [Clients -> Waiter] /\ client'[c].pc = "all"
          /\ client'[c].ids = client[c].ids
          /\ \A d \in Clients \ {c} : client'[d] = client[d]
      BY <3>1, <3>2, CountOne DEF TypeInv
    <3>4. data' \in [Ids -> Datum] /\ \A j \in Ids : data'[j].squirrel = data[j].squirrel
      BY <3>1, SetTerminated DEF TypeInv
    <3>5. QED BY <3>1, <3>3, <3>4 DEF TypeInv
  <2>3. QED BY <2>1, <2>2
<1>4. ASSUME FirstDone(c) PROVE TypeInv'
  <2> DEFINE S == client[c].ids
             i == client[c].over
             T == {i}
  <2>1. i \in S /\ T \in SUBSET Ids /\ S \ alloc \in SUBSET Ids /\ late' = late
    BY <1>0, <1>4 DEF FirstDone, At, TypeInv
  <2>2. CASE Fault("freed", S \ alloc) \/ Fault("unset", T) \/ Fault("garbage", T)
    BY <1>0, <2>1, <2>2 DEF Faulty
  <2>3. CASE ~(Fault("freed", S \ alloc) \/ Fault("unset", T) \/ Fault("garbage", T))
    <3>1. /\ data' = Unwaited(S) /\ Discard(T) /\ Return(c)
          /\ UNCHANGED <<pc, ret, stopped, pool, late, fault>>
      BY <1>4, <2>3 DEF FirstDone
    <3>2. S \in SUBSET Ids BY <1>0
    <3> HIDE DEF S, T
    <3>3. QED BY <2>1, <3>1, <3>2, ReturnType
  <2>4. QED BY <2>2, <2>3
<1>5. ASSUME AllDone(c) PROVE TypeInv'
  <2> DEFINE S   == client[c].ids
             has == {i \in S : data[i].output # "NULL"}
             bad == {i \in has : data[i].output = "garbage"}
  <2>1. S \in SUBSET Ids /\ has \in SUBSET Ids /\ bad \in SUBSET Ids /\ S \ alloc \in SUBSET Ids
        /\ late' = late
    BY <1>0, <1>5 DEF AllDone
  <2>2. CASE Fault("freed", S \ alloc) \/ Fault("garbage", bad) 
    <3> HIDE DEF bad, S
    <3>1. QED BY <1>0, <2>1, <2>2 DEF Faulty
  <2>3. CASE ~(Fault("freed", S \ alloc) \/ Fault("garbage", bad))
    <3>1. /\ data' = Unwaited(S) /\ Discard(has)
          /\ Return(c) /\ UNCHANGED <<pc, ret, stopped, pool, late, fault>>
      BY <1>5, <2>3 DEF AllDone
    <3> HIDE DEF S, has
    <3>2. QED BY <2>1, <3>1, ReturnType
  <2>4. QED BY <2>2, <2>3
<1>6. QED BY <1>1, <1>2, <1>3, <1>4, <1>5

LEMMA TypeStep == TypeInv /\ [Next]_vars => TypeInv'
<1> SUFFICES ASSUME TypeInv, [Next]_vars PROVE TypeInv' OBVIOUS
<1>1. CASE UNCHANGED vars BY <1>1 DEF vars, TypeInv
<1>2. CASE Over BY <1>2 DEF Over, vars, TypeInv
<1>3. ASSUME NEW i \in Ids, Thread(i) PROVE TypeInv' BY <1>3, ThreadType
<1>4. ASSUME NEW c \in Clients, Starts(c) PROVE TypeInv'
  BY <1>4, SpawnType, SpawnFailsType, StoppedType, KillType, WaitType DEF Starts
<1>5. ASSUME NEW c \in Clients, GoesOn(c) PROVE TypeInv'
  BY <1>5, KillType, WaitOverType DEF GoesOn
<1>6. QED BY <1>1, <1>2, <1>3, <1>4, <1>5 DEF Next

(* Whatever scripts do with threads, every variable keeps its type: in particular
   the pool is a sequence of squirrels and the count of "all never passes the number
   of threads. *)
THEOREM TypeCorrect == Spec => []TypeOK
<1>1. Init => TypeInv BY InitInv DEF IInv
<1>2. TypeInv => TypeOK BY DEF TypeInv, TypeOK, Datum, Waiter, Stages, Faulty
<1>3. QED BY <1>1, <1>2, TypeStep, PTL DEF Spec

-----------------------------------------------------------------------------
\* A fault ends the behaviour; it may be a wait that is late.
LEMMA FaultKeeps ==
  ASSUME IInv, TypeInv', NEW what, NEW S, Fault(what, S), late \subseteq late', NoStaleUse'
  PROVE  IInv'
<1>1. UNCHANGED <<TheThreads, data, alloc, pc, ret, stopped, pool, live, client>>
  BY DEF Fault
<1>2. Staged' /\ DataLive' BY <1>1 DEF IInv, Staged, DataLive, Killing
<1>3. WaitedLive' BY <1>1 DEF IInv, WaitedLive, Waiting
<1>4. KilledLive' BY <1>1 DEF IInv, KilledLive, Killing
<1>5. OneOwner'
  <2>1. late' = {} => late = {} OBVIOUS
  <2>2. QED BY <1>1, <2>1 DEF IInv, OneOwner, Owns
<1>6. CountsRight'
  <2>1. \A d \in Clients : Counted(d)' = Counted(d) BY <1>1 DEF Counted, Counts, Dying
  <2>2. QED BY <1>1, <2>1 DEF IInv, CountsRight
<1>7. QED BY <1>2, <1>3, <1>4, <1>5, <1>6 DEF IInv

\* A thread that is not late and whose data are gone is used by nobody any more.
LEMMA FreedKeeps ==
  ASSUME IInv, TypeInv', NEW S \in SUBSET Ids, Fault("freed", S), late \subseteq late', S \subseteq late'
  PROVE  IInv'
<1>1. fault'.what = "freed" /\ fault'.ids = S BY DEF Fault
<1>2. NoStaleUse' BY <1>1 DEF NoStaleUse
<1>3. QED BY <1>2, FaultKeeps

LEMMA NoFaultGood ==
  ASSUME fault = NoFault, UNCHANGED fault PROVE NoStaleUse'
BY DEF NoFault, NoStaleUse

LEMMA SpawnKeeps ==
  ASSUME IInv, TypeInv', NEW c \in Clients, NEW i \in Ids, Spawn(c, i)
  PROVE  IInv'
<1> USE DEF IInv
<1>1. PICK q \in Squirrels :
       /\ IF pool # <<>> THEN q = Last(pool) ELSE q \notin live
       /\ IF q \notin live /\ pool # <<>> THEN Fault("squirrel", {i})
          ELSE /\ pool' = IF pool # <<>> THEN Front(pool) ELSE pool
               /\ live' = live \cup {q}
               /\ data' = [data EXCEPT ![i] = [NoData EXCEPT !.squirrel = q]]
               /\ alloc' = alloc \cup {i}
               /\ TheThreads' = [TheThreads EXCEPT ![i] = "data"]
               /\ pc' = [pc EXCEPT ![i] = "spawned"]
               /\ stopped' = stopped \cup {i}
               /\ UNCHANGED <<ret, client, fault>>
  BY DEF Spawn
<1>2. late' = late /\ fault = NoFault /\ pc[i] = "absent" BY DEF Spawn, Calls
<1>3. ASSUME late = {}
      PROVE  /\ Range(pool') \subseteq Range(pool) /\ IsInjective(pool') /\ q \notin Range(pool')
             /\ pool # <<>> => q \in Range(pool)
             /\ pool = <<>> => q \notin live
             /\ ~(q \notin live /\ pool # <<>>)
  <2>1. CASE pool # <<>>
    <3>1. q = Last(pool) /\ q \in Range(pool) BY <1>1, <2>1, PoolGet DEF TypeInv
    <3>2. q \in live BY <1>3, <3>1 DEF OneOwner
    <3>3. pool' = Front(pool) BY <1>1, <2>1, <3>2
    <3>4. QED BY <1>3, <2>1, <3>1, <3>2, <3>3, PoolGet DEF TypeInv, OneOwner
  <2>2. CASE pool = <<>>
    <3>1. pool' = pool /\ q \notin live BY <1>1, <2>2
    <3>2. QED BY <1>3, <2>2, <3>1 DEF OneOwner
  <2>3. QED BY <2>1, <2>2
<1>4. CASE q \notin live /\ pool # <<>>
  <2>1. Fault("squirrel", {i}) /\ late # {} BY <1>1, <1>3, <1>4
  <2>2. fault'.what = "squirrel" BY <2>1 DEF Fault
  <2>3. NoStaleUse' BY <1>2, <2>1, <2>2 DEF NoStaleUse
  <2>4. late \subseteq late' BY <1>2
  <2>5. QED BY <2>1, <2>3, <2>4, FaultKeeps
<1>5. CASE ~(q \notin live /\ pool # <<>>)
  <2>1. /\ live' = live \cup {q} /\ alloc' = alloc \cup {i}
        /\ TheThreads' = [TheThreads EXCEPT ![i] = "data"]
        /\ pc' = [pc EXCEPT ![i] = "spawned"]
        /\ data' = [data EXCEPT ![i] = [NoData EXCEPT !.squirrel = q]]
        /\ UNCHANGED <<ret, client, fault>>
    BY <1>1, <1>5
  <2>2. /\ \A j \in Ids \ {i} : data'[j] = data[j]
        /\ data'[i].squirrel = q /\ data'[i].waited = FALSE
        /\ data'[i].terminated = FALSE /\ data'[i].output = "NULL"
    <3>1. data \in [Ids -> Datum] /\ data' = [data EXCEPT ![i] = [NoData EXCEPT !.squirrel = q]]
      BY <2>1 DEF TypeInv
    <3>2. QED BY ONLY <3>1, SpawnData, i \in Ids, q \in Squirrels
  <2>3. /\ \A j \in Ids \ {i} : pc'[j] = pc[j] /\ TheThreads'[j] = TheThreads[j]
        /\ pc'[i] = "spawned" /\ TheThreads'[i] = "data"
    BY <2>1 DEF TypeInv
  <2>4. i \notin alloc /\ \A d \in Clients : i \notin client[d].ids
    BY <1>2 DEF Staged, TypeInv
  <2>5. \A d \in Clients : client[d].ids \in SUBSET Ids /\ (client[d].pc = "done" => client[d].over # i)
    BY <2>4 DEF TypeInv, Waiter
  <2>6. Staged' BY <2>1, <2>2, <2>3, <2>4, <2>5 DEF Staged, Killing
  <2>7. DataLive' BY <1>2, <2>1, <2>3 DEF DataLive
  <2>8. WaitedLive' BY <1>2, <2>1, <2>2, <2>3, <2>4, <2>5 DEF WaitedLive, Waiting
  <2>9. KilledLive' BY <1>2, <2>1, <2>2, <2>3, <2>4, <2>5 DEF KilledLive, Killing
  <2>10. OneOwner'
    <3>1. SUFFICES ASSUME late = {} PROVE OneOwner' BY <1>2 DEF OneOwner
    <3>2. \A j \in Ids : Owns(j)' <=> Owns(j) \/ j = i BY <2>1, <2>3, <2>4 DEF Owns
    <3>3. \A j \in Ids : Owns(j) => j # i /\ data'[j].squirrel # q
      BY <1>3, <2>2, <2>4, <3>1 DEF OneOwner, Owns
    <3>4. QED BY <1>3, <2>1, <2>2, <3>1, <3>2, <3>3 DEF OneOwner
  <2>11. CountsRight'
    <3>1. \A d \in Clients : Counted(d)' = Counted(d)
      BY <2>1, <2>2, <2>3, <2>4, <2>5 DEF Counted, Counts, Dying
    <3>2. QED BY <1>2, <2>1, <3>1 DEF CountsRight
  <2>12. NoStaleUse' BY <1>2, <2>1, NoFaultGood
  <2>13. QED BY <2>6, <2>7, <2>8, <2>9, <2>10, <2>11, <2>12
<1>6. QED BY <1>4, <1>5

LEMMA SpawnFailsKeeps == ASSUME IInv, TypeInv', NEW c \in Clients, SpawnFails(c) PROVE IInv'
<1>1. PICK q \in Squirrels \ live : pool' = <<q>> /\ live' = live \cup {q} BY DEF SpawnFails
<1>2. /\ fault = NoFault
      /\ UNCHANGED <<TheThreads, data, alloc, pc, ret, stopped, client, late, fault>>
  BY DEF SpawnFails, Calls
<1>3. Range(pool') = {q} /\ IsInjective(pool') BY <1>1, FailedPool
<1>4. Staged' /\ DataLive' BY <1>2 DEF IInv, Staged, DataLive, Killing
<1>5. WaitedLive' /\ KilledLive' BY <1>2 DEF IInv, WaitedLive, KilledLive, Waiting, Killing
<1>6. OneOwner'
  <2>1. ASSUME late = {} PROVE \A i \in Ids : Owns(i) => data[i].squirrel \in live
    BY <2>1 DEF IInv, OneOwner
  <2>2. QED BY <1>1, <1>2, <1>3, <2>1 DEF IInv, OneOwner, Owns
<1>7. CountsRight'
  <2>1. \A d \in Clients : Counted(d)' = Counted(d) BY <1>2 DEF Counted, Counts, Dying
  <2>2. QED BY <1>2, <2>1 DEF IInv, CountsRight
<1>8. QED BY <1>2, <1>4, <1>5, <1>6, <1>7, NoFaultGood DEF IInv

\* Steps that change how far thread i is, or its data, leave the waits as they are.
LEMMA ExecuteKeeps == ASSUME IInv, TypeInv', NEW i \in Ids, Execute(i) PROVE IInv'
<1> USE DEF IInv
<1>1. /\ pc[i] = "spawned" /\ pc' = [pc EXCEPT ![i] = "ran"] /\ fault = NoFault
      /\ UNCHANGED <<TheThreads, data, alloc, pool, live, client, late, fault>>
  BY DEF Execute, Runs
<1>2. /\ \A j \in Ids \ {i} : pc'[j] = pc[j]
      /\ pc'[i] = "ran"
  BY <1>1 DEF TypeInv
<1>3. PICK r \in Outputs : ret' = [ret EXCEPT ![i] = r] /\ (r = "garbage" => i \in NoReturn)
  BY DEF Execute
<1>4. \A j \in Ids : ret'[j] = IF j = i THEN r ELSE ret[j] BY <1>3 DEF TypeInv
<1>5. \A d \in Clients : client[d].ids \in SUBSET Ids /\ (client[d].pc = "done" => client[d].over \in Ids)
  BY DEF TypeInv, Waiter
<1>6. Staged' BY <1>1, <1>2, <1>3, <1>4, <1>5 DEF Staged, Killing, Done
<1>7. DataLive' BY <1>1, <1>2 DEF DataLive
<1>8. WaitedLive' BY <1>1, <1>2, <1>5 DEF WaitedLive, Waiting
<1>9. KilledLive' BY <1>1, <1>2, <1>5 DEF KilledLive, Killing
<1>10. OneOwner'
  <2>1. \A j \in Ids : Owns(j)' <=> Owns(j) BY <1>1, <1>2 DEF Owns
  <2>2. QED BY <1>1, <2>1 DEF OneOwner
<1>11. CountsRight'
  <2>1. \A d \in Clients : Counted(d)' = Counted(d)
    BY <1>1, <1>2, <1>5 DEF Counted, Counts, Dying, Done
  <2>2. QED BY <1>1, <2>1 DEF CountsRight
<1>12. QED BY <1>1, <1>6, <1>7, <1>8, <1>9, <1>10, <1>11, NoFaultGood

LEMMA TestWaitedKeeps == ASSUME IInv, TypeInv', NEW i \in Ids, TestWaited(i) PROVE IInv'
<1> USE DEF IInv
<1>1. late' = late /\ fault = NoFault /\ pc[i] = "ran" BY DEF TestWaited, Runs
<1>2. \A d \in Clients : client[d].ids \in SUBSET Ids /\ (client[d].pc = "done" => client[d].over \in Ids)
  BY DEF TypeInv, Waiter
<1>3. CASE i \notin alloc
  <2>1. Fault("freed", {i}) BY <1>3 DEF TestWaited
  <2>2. i \in late BY <1>1, <1>3 DEF DataLive
  <2>3. {i} \in SUBSET Ids /\ late \subseteq late' /\ {i} \subseteq late' BY <1>1, <2>2
  <2>4. QED BY <2>1, <2>3, FreedKeeps
<1>4. CASE i \in alloc /\ data[i].waited
  <2>1. /\ pc' = [pc EXCEPT ![i] = "flag"] /\ pool' = pool
        /\ data' = [data EXCEPT ![i].terminated = TRUE]
        /\ UNCHANGED <<TheThreads, alloc, ret, live, client, fault>>
    BY <1>4 DEF TestWaited
  <2>2. /\ \A j \in Ids : /\ data'[j].squirrel = data[j].squirrel
                          /\ data'[j].waited = data[j].waited
                          /\ data'[j].output = data[j].output
                          /\ j # i => data'[j].terminated = data[j].terminated
        /\ data'[i].terminated = TRUE
    BY <2>1, SetTerminated DEF TypeInv
  <2>3. pc'[i] = "flag" /\ \A j \in Ids \ {i} : pc'[j] = pc[j] BY <2>1 DEF TypeInv
  <2>4. Staged' BY <1>1, <1>2, <2>1, <2>2, <2>3 DEF Staged, Killing, Done
  <2>5. DataLive' BY <1>1, <1>4, <2>1, <2>3 DEF DataLive
  <2>6. WaitedLive' BY <1>1, <1>2, <2>1, <2>2, <2>3 DEF WaitedLive, Waiting
  <2>7. KilledLive' BY <1>1, <1>2, <2>1, <2>2, <2>3 DEF KilledLive, Killing
  <2>8. OneOwner'
    <3>1. \A j \in Ids : Owns(j)' <=> Owns(j) BY <1>1, <2>1, <2>3 DEF Owns
    <3>2. QED BY <1>1, <2>1, <2>2, <3>1 DEF OneOwner
  <2>9. CountsRight'
    <3>1. \A d \in Clients : Counted(d)' = Counted(d)
      BY <1>1, <1>2, <2>1, <2>2, <2>3 DEF Counted, Counts, Dying, Done
    <3>2. QED BY <1>1, <2>1, <3>1 DEF CountsRight
  <2>10. QED BY <1>1, <2>1, <2>4, <2>5, <2>6, <2>7, <2>8, <2>9, NoFaultGood
<1>5. CASE i \in alloc /\ ~data[i].waited
  <2>1. /\ pc' = [pc EXCEPT ![i] = "put"] /\ data' = data
        /\ pool' = Append(pool, data[i].squirrel)
        /\ UNCHANGED <<TheThreads, alloc, ret, live, client, fault>>
    BY <1>5 DEF TestWaited
  <2>2. pc'[i] = "put" /\ \A j \in Ids \ {i} : pc'[j] = pc[j] BY <2>1 DEF TypeInv
  <2>3. Staged' BY <1>1, <1>2, <2>1, <2>2 DEF Staged, Killing, Done
  <2>4. DataLive' BY <1>1, <1>5, <2>1, <2>2 DEF DataLive
  <2>5. WaitedLive' BY <1>1, <1>2, <1>5, <2>1, <2>2 DEF WaitedLive, Waiting
  <2>6. KilledLive' BY <1>1, <1>2, <2>1, <2>2 DEF KilledLive, Killing
  <2>7. OneOwner'
    <3> SUFFICES ASSUME late = {} PROVE OneOwner' BY <1>1 DEF OneOwner
    <3>1. data[i].squirrel \in live \ Range(pool) /\ data[i].squirrel \in Squirrels
      BY <1>1, <1>5 DEF OneOwner, Owns, TypeInv
    <3>2. Range(pool') = Range(pool) \cup {data[i].squirrel} /\ IsInjective(pool')
      BY <2>1, <3>1, PoolPut DEF OneOwner, TypeInv
    <3>3. \A j \in Ids : Owns(j)' => Owns(j) /\ j # i BY <2>1, <2>2 DEF Owns
    <3>4. \A j \in Ids : Owns(j)' => data[j].squirrel # data[i].squirrel
      BY <1>1, <1>5, <3>3 DEF OneOwner, Owns
    <3>5. QED BY <2>1, <3>1, <3>2, <3>3, <3>4 DEF OneOwner
  <2>8. CountsRight'
    <3>1. \A d \in Clients : Counted(d)' = Counted(d)
      BY <1>1, <1>2, <2>1, <2>2 DEF Counted, Counts, Dying, Done
    <3>2. QED BY <1>1, <2>1, <3>1 DEF CountsRight
  <2>9. QED BY <1>1, <2>1, <2>3, <2>4, <2>5, <2>6, <2>7, <2>8, NoFaultGood
<1>6. QED BY <1>3, <1>4, <1>5

LEMMA DeleteDataKeeps == ASSUME IInv, TypeInv', NEW i \in Ids, DeleteData(i) PROVE IInv'
<1> USE DEF IInv
<1>1. /\ pc[i] = "put" /\ pc' = [pc EXCEPT ![i] = "over"] /\ alloc' = alloc \ {i}
      /\ fault = NoFault
      /\ UNCHANGED <<TheThreads, data, ret, pool, live, client, late, fault>>
  BY DEF DeleteData, Runs
<1>2. \A d \in Clients : client[d].ids \in SUBSET Ids /\ (client[d].pc = "done" => client[d].over \in Ids)
  BY DEF TypeInv, Waiter
<1>3. pc'[i] = "over" /\ \A j \in Ids \ {i} : pc'[j] = pc[j] BY <1>1 DEF TypeInv
<1>4. \A d \in Clients : (Waiting(d) \/ Killing(d)) /\ i \in client[d].ids => i \in late
  BY <1>1 DEF WaitedLive, KilledLive
<1>5. Staged' BY <1>1, <1>2, <1>3 DEF Staged, Killing, Done
<1>6. DataLive' BY <1>1, <1>3 DEF DataLive
<1>7. WaitedLive' BY <1>1, <1>2, <1>3, <1>4 DEF WaitedLive, Waiting
<1>8. KilledLive' BY <1>1, <1>2, <1>3, <1>4 DEF KilledLive, Killing
<1>9. OneOwner'
  <2>1. \A j \in Ids : Owns(j)' <=> Owns(j) BY <1>1, <1>3 DEF Owns
  <2>2. QED BY <1>1, <2>1 DEF OneOwner
<1>10. CountsRight'
  <2>1. ASSUME NEW d \in Clients, client[d].pc = "all", client[d].ids \cap late = {}
        PROVE  Counted(d)' = Counted(d)
    <3>1. i \notin client[d].ids BY <1>4, <2>1 DEF Waiting, Waits
    <3>2. QED BY <1>1, <1>2, <1>3, <3>1 DEF Counted, Counts, Dying
  <2>2. QED BY <1>1, <2>1 DEF CountsRight
<1>11. QED BY <1>1, <1>5, <1>6, <1>7, <1>8, <1>9, <1>10, NoFaultGood

LEMMA SetOutputKeeps == ASSUME IInv, TypeInv', NEW i \in Ids, SetOutput(i) PROVE IInv'
<1> USE DEF IInv
<1>1. late' = late /\ fault = NoFault /\ pc[i] = "flag" BY DEF SetOutput, Runs
<1>2. \A d \in Clients : client[d].ids \in SUBSET Ids /\ (client[d].pc = "done" => client[d].over \in Ids)
  BY DEF TypeInv, Waiter
<1>3. CASE i \notin alloc
  <2>1. Fault("freed", {i}) BY <1>3 DEF SetOutput
  <2>2. i \in late BY <1>1, <1>3 DEF DataLive
  <2>3. {i} \in SUBSET Ids /\ late \subseteq late' /\ {i} \subseteq late' BY <1>1, <2>2
  <2>4. QED BY <2>1, <2>3, FreedKeeps
<1>4. CASE i \in alloc
  <2>1. /\ pc' = [pc EXCEPT ![i] = "over"] /\ data' = [data EXCEPT ![i].output = ret[i]]
        /\ UNCHANGED <<TheThreads, alloc, ret, pool, live, client, fault>>
    BY <1>4 DEF SetOutput
  <2>2. ret[i] \in Outputs BY DEF TypeInv
  <2>3. \A j \in Ids : /\ data'[j].squirrel = data[j].squirrel
                       /\ data'[j].waited = data[j].waited
                       /\ data'[j].terminated = data[j].terminated
                       /\ data'[j].output = IF j = i THEN ret[i] ELSE data[j].output
    BY <2>1, <2>2, SetOutputData DEF TypeInv
  <2>4. pc'[i] = "over" /\ \A j \in Ids \ {i} : pc'[j] = pc[j] BY <2>1 DEF TypeInv
  <2>5. Staged' BY <1>1, <1>2, <2>1, <2>3, <2>4 DEF Staged, Killing, Done
  <2>6. DataLive' BY <1>1, <2>1, <2>4 DEF DataLive
  <2>7. WaitedLive' BY <1>1, <1>2, <2>1, <2>3, <2>4 DEF WaitedLive, Waiting
  <2>8. KilledLive' BY <1>1, <1>2, <2>1, <2>3, <2>4 DEF KilledLive, Killing
  <2>9. OneOwner'
    <3>1. \A j \in Ids : Owns(j)' <=> Owns(j) BY <1>1, <2>1, <2>4 DEF Owns
    <3>2. QED BY <1>1, <2>1, <2>3, <3>1 DEF OneOwner
  <2>10. CountsRight'
    <3>1. \A d \in Clients : Counted(d)' = Counted(d)
      BY <1>1, <1>2, <2>1, <2>3, <2>4 DEF Counted, Counts, Dying, Done
    <3>2. QED BY <1>1, <2>1, <3>1 DEF CountsRight
  <2>11. QED BY <1>1, <2>1, <2>5, <2>6, <2>7, <2>8, <2>9, <2>10, NoFaultGood
<1>5. QED BY <1>3, <1>4

LEMMA StoppedKeeps ==
  ASSUME IInv, TypeInv', NEW c \in Clients, NEW i \in Ids, Hop(c, i) \/ Suspend(c, i)
  PROVE  IInv'
<1>1. /\ UNCHANGED <<TheThreads, data, alloc, pc, ret, pool, live, client, late, fault>>
      /\ fault = NoFault
  BY DEF Hop, Suspend, Calls
<1>2. Staged' /\ DataLive' BY <1>1 DEF IInv, Staged, DataLive, Killing
<1>3. WaitedLive' /\ KilledLive' BY <1>1 DEF IInv, WaitedLive, KilledLive, Waiting, Killing
<1>4. OneOwner' BY <1>1 DEF IInv, OneOwner, Owns
<1>5. CountsRight'
  <2>1. \A d \in Clients : Counted(d)' = Counted(d) BY <1>1 DEF Counted, Counts, Dying
  <2>2. QED BY <1>1, <2>1 DEF IInv, CountsRight
<1>6. QED BY <1>1, <1>2, <1>3, <1>4, <1>5, NoFaultGood DEF IInv

\* Thread.kill, step by step: up to the call of kill_thread nothing is known of i.
LEMMA KillKeeps == ASSUME IInv, TypeInv', NEW c \in Clients, NEW i \in Ids, Kill(c, i) PROVE IInv'
<1> USE DEF IInv
<1>1. /\ fault = NoFault /\ client[c].pc = "idle"
      /\ UNCHANGED <<data, alloc, pc, ret, stopped, pool, live, late, fault>>
  BY DEF Kill, Calls
<1>2. /\ \A d \in Clients \ {c} : client'[d] = client[d]
      /\ client'[c].pc \in {"idle", "kill"}
  <2>1. CASE TheThreads[i] # "data" BY <1>1, <2>1 DEF Kill
  <2>2. CASE TheThreads[i] = "data"
    <3> DEFINE S == {i}
    <3>1. client' = [client EXCEPT ![c] = [Nobody EXCEPT !.pc = "kill", !.ids = S]]
      BY <2>2 DEF Kill
    <3>2. S \in SUBSET Ids /\ "kill" \in {"one", "first", "all", "kill"} OBVIOUS
    <3> HIDE DEF S
    <3>3. QED BY <3>1, <3>2, NewWait DEF TypeInv
  <2>3. QED BY <2>1, <2>2
<1>3. \A j \in Ids : TheThreads[j] = "data" => TheThreads'[j] = "data" BY DEF Kill, TypeInv
<1>4. Staged' BY <1>1, <1>2 DEF Staged, Killing
<1>5. DataLive' BY <1>1, <1>3 DEF DataLive
<1>6. WaitedLive' BY <1>1, <1>2 DEF WaitedLive, Waiting, Waits
<1>7. KilledLive' BY <1>1, <1>2 DEF KilledLive, Killing
<1>8. OneOwner' BY <1>1 DEF OneOwner, Owns
<1>9. CountsRight'
  <2>1. \A d \in Clients \ {c} : Counted(d)' = Counted(d) BY <1>1, <1>2 DEF Counted, Counts, Dying
  <2>2. QED BY <1>1, <1>2, <2>1 DEF CountsRight
<1>10. QED BY <1>1, <1>4, <1>5, <1>6, <1>7, <1>8, <1>9, NoFaultGood

\* A thread that is killed in its script is not counted before the test.
LEMMA KillThreadKeeps ==
  ASSUME IInv, TypeInv', NEW c \in Clients, NEW i \in Ids, KillThread(c, i) PROVE IInv'
<1> USE DEF IInv
<1>1. /\ fault = NoFault /\ client[c].pc = "kill" /\ client[c].ids = {i}
      /\ late' = late \cup {j \in {i} : pc[j] # "spawned"}
      /\ pc' = [pc EXCEPT ![i] = IF pc[i] = "over" THEN "over" ELSE "killed"]
      /\ UNCHANGED <<TheThreads, data, alloc, ret, pool, live, fault>>
  BY DEF KillThread, At
<1>2. /\ \A d \in Clients \ {c} : client'[d] = client[d]
      /\ client'[c].pc = "test" /\ client'[c].ids = {i}
  BY <1>1, Stepped DEF KillThread, TypeInv, KillSteps
<1>3. /\ \A j \in Ids \ {i} : pc'[j] = pc[j]
      /\ pc'[i] \in {"killed", "over"} /\ (pc[i] = "over" <=> pc'[i] = "over")
  BY <1>1 DEF TypeInv
<1>4. late \subseteq late' /\ (i \notin late' => pc[i] = "spawned" /\ pc'[i] = "killed")
  BY <1>1, <1>3
<1>5. \A d \in Clients : client[d].ids \in SUBSET Ids /\ (client[d].pc = "done" => client[d].over \in Ids)
  BY DEF TypeInv, Waiter
<1>6. i \notin late' => i \in alloc /\ ~data[i].terminated BY <1>4 DEF DataLive, Staged, Done
<1>7. \A d \in Clients : Killing(d) /\ i \in client[d].ids => i \in late'
  BY <1>4 DEF KilledLive
<1>8. pc[i] # "absent" BY <1>1 DEF TypeInv
<1>9. Staged' BY <1>1, <1>2, <1>3, <1>5, <1>8 DEF Staged, Killing, Done
<1>10. DataLive' BY <1>1, <1>3, <1>4 DEF DataLive
<1>11. WaitedLive' BY <1>1, <1>2, <1>3, <1>4, <1>5, <1>6 DEF WaitedLive, Waiting, Waits
<1>12. KilledLive' BY <1>1, <1>2, <1>3, <1>4, <1>5, <1>6, <1>7 DEF KilledLive, Killing
<1>13. OneOwner'
  <2> SUFFICES ASSUME late' = {} PROVE OneOwner' BY DEF OneOwner
  <2>1. late = {} BY <1>4
  <2>2. \A j \in Ids : Owns(j)' <=> Owns(j) BY <1>1, <1>3, <1>4 DEF Owns
  <2>3. QED BY <1>1, <2>1, <2>2 DEF OneOwner
<1>14. CountsRight'
  <2>1. ASSUME NEW d \in Clients, client'[d].pc = "all", client'[d].ids \cap late' = {}
        PROVE  client'[d].count = Cardinality(Counted(d)')
    <3>1. d # c /\ client'[d] = client[d] /\ client[d].ids \cap late = {} BY <1>2, <1>4, <2>1
    <3>2. \A j \in Ids \ {i} : Counts(j)' <=> Counts(j) BY <1>1, <1>2, <1>3 DEF Counts, Dying
    <3>3. i \in client[d].ids => ~Counts(i) /\ ~Counts(i)'
      BY <1>2, <1>4, <2>1, <3>1 DEF Counts, Dying, Done
    <3>4. Counted(d)' = Counted(d) BY <1>5, <3>1, <3>2, <3>3 DEF Counted
    <3>5. QED BY <2>1, <3>1, <3>4 DEF CountsRight
  <2>2. QED BY <2>1 DEF CountsRight
<1>15. QED BY <1>1, <1>9, <1>10, <1>11, <1>12, <1>13, <1>14, NoFaultGood

LEMMA KillTestKeeps ==
  ASSUME IInv, TypeInv', NEW c \in Clients, NEW i \in Ids, KillTest(c, i) PROVE IInv'
<1> USE DEF IInv
<1>1. fault = NoFault /\ client[c].pc = "test" /\ client[c].ids = {i} /\ late' = late
  BY DEF KillTest, At
<1>2. \A d \in Clients : client[d].ids \in SUBSET Ids /\ (client[d].pc = "done" => client[d].over \in Ids)
  BY DEF TypeInv, Waiter
<1>3. pc[i] \in {"killed", "over"} BY <1>1 DEF Staged, Killing
<1>4. \A d \in Clients \ {c} : Killing(d) /\ i \in client[d].ids => i \in late
  BY <1>1 DEF KilledLive, Killing
<1>5. CASE i \notin alloc
  <2>1. Fault("freed", {i}) BY <1>5 DEF KillTest
  <2>2. i \in late BY <1>1, <1>5 DEF KilledLive, Killing
  <2>3. {i} \in SUBSET Ids /\ late \subseteq late' /\ {i} \subseteq late' BY <1>1, <2>2
  <2>4. QED BY <2>1, <2>3, FreedKeeps
<1>6. CASE i \in alloc /\ data[i].waited
  <2>1. /\ data' = [data EXCEPT ![i].terminated = TRUE] /\ Return(c)
        /\ UNCHANGED <<TheThreads, alloc, pc, ret, pool, live, fault>>
    BY <1>6 DEF KillTest
  <2>2. /\ \A j \in Ids : /\ data'[j].squirrel = data[j].squirrel
                          /\ data'[j].waited = data[j].waited
                          /\ data'[j].output = data[j].output
                          /\ j # i => data'[j].terminated = data[j].terminated
        /\ data'[i].terminated = TRUE
    BY <2>1, SetTerminated DEF TypeInv
  <2>3. /\ \A d \in Clients \ {c} : client'[d] = client[d]
        /\ client'[c].pc = "idle" /\ client'[c].ids = {}
    BY <2>1, Returned DEF TypeInv
  <2>4. Staged' BY <1>1, <1>2, <1>3, <2>1, <2>2, <2>3 DEF Staged, Killing, Done
  <2>5. DataLive' BY <1>1, <2>1 DEF DataLive
  <2>6. WaitedLive' BY <1>1, <1>2, <2>1, <2>2, <2>3 DEF WaitedLive, Waiting, Waits
  <2>7. KilledLive' BY <1>1, <1>2, <1>4, <2>1, <2>2, <2>3 DEF KilledLive, Killing
  <2>8. OneOwner' BY <1>1, <2>1, <2>2 DEF OneOwner, Owns
  <2>9. CountsRight'
    <3>1. ASSUME NEW d \in Clients, client'[d].pc = "all", client'[d].ids \cap late' = {}
          PROVE  client'[d].count = Cardinality(Counted(d)')
      <4>1. d # c /\ client'[d] = client[d] /\ client[d].ids \cap late = {} BY <1>1, <2>3, <3>1
      <4>2. \A j \in Ids \ {i} : Counts(j)' <=> Counts(j)
        BY <1>1, <2>1, <2>2, <2>3 DEF Counts, Dying
      <4>3. ~Counts(i) /\ ~Counts(i)' BY <1>1, <2>2 DEF Counts, Dying
      <4>4. Counted(d)' = Counted(d) BY <1>2, <4>1, <4>2, <4>3 DEF Counted
      <4>5. QED BY <3>1, <4>1, <4>4 DEF CountsRight
    <3>2. QED BY <3>1 DEF CountsRight
  <2>10. QED BY <1>1, <2>1, <2>4, <2>5, <2>6, <2>7, <2>8, <2>9, NoFaultGood
<1>7. CASE i \in alloc /\ ~data[i].waited
  <2>1. /\ Step(c, "delete")
        /\ UNCHANGED <<TheThreads, data, alloc, pc, ret, pool, live, fault>>
    BY <1>7 DEF KillTest
  <2>2. /\ \A d \in Clients \ {c} : client'[d] = client[d]
        /\ client'[c].pc = "delete" /\ client'[c].ids = {i}
    BY <1>1, <2>1, Stepped DEF TypeInv, KillSteps
  <2>3. Staged' BY <1>1, <1>2, <1>3, <2>1, <2>2 DEF Staged, Killing
  <2>4. DataLive' BY <1>1, <2>1 DEF DataLive
  <2>5. WaitedLive' BY <1>1, <1>2, <2>1, <2>2 DEF WaitedLive, Waiting, Waits
  <2>6. KilledLive' BY <1>1, <1>2, <1>4, <1>7, <2>1, <2>2 DEF KilledLive, Killing
  <2>7. OneOwner' BY <1>1, <2>1 DEF OneOwner, Owns
  <2>8. CountsRight'
    <3>1. ASSUME NEW d \in Clients, client'[d].pc = "all", client'[d].ids \cap late' = {}
          PROVE  client'[d].count = Cardinality(Counted(d)')
      <4>1. d # c /\ client'[d] = client[d] /\ client[d].ids \cap late = {} BY <1>1, <2>2, <3>1
      <4>2. i \notin client[d].ids BY <1>7, <3>1, <4>1 DEF WaitedLive, Waiting, Waits
      <4>3. \A j \in Ids \ {i} : Counts(j)' <=> Counts(j)
        BY <1>1, <2>1, <2>2 DEF Counts, Dying
      <4>4. Counted(d)' = Counted(d) BY <1>2, <4>1, <4>2, <4>3 DEF Counted
      <4>5. QED BY <3>1, <4>1, <4>4 DEF CountsRight
    <3>2. QED BY <3>1 DEF CountsRight
  <2>9. QED BY <1>1, <2>1, <2>3, <2>4, <2>5, <2>6, <2>7, <2>8, NoFaultGood
<1>8. QED BY <1>5, <1>6, <1>7

LEMMA KillDeleteKeeps ==
  ASSUME IInv, TypeInv', NEW c \in Clients, NEW i \in Ids, KillDelete(c, i) PROVE IInv'
<1> USE DEF IInv
<1>1. fault = NoFault /\ client[c].pc = "delete" /\ client[c].ids = {i} /\ late' = late
  BY DEF KillDelete, At
<1>2. \A d \in Clients : client[d].ids \in SUBSET Ids /\ (client[d].pc = "done" => client[d].over \in Ids)
  BY DEF TypeInv, Waiter
<1>3. pc[i] \in {"killed", "over"} /\ (i \notin late => ~data[i].waited /\ pc[i] = "killed")
  BY <1>1 DEF Staged, KilledLive, Killing
<1>4. \A d \in Clients \ {c} : (Waiting(d) \/ Killing(d)) /\ i \in client[d].ids => i \in late
  BY <1>1, <1>3 DEF KilledLive, WaitedLive, Killing
<1>5. CASE i \notin alloc
  <2>1. Fault("freed", {i}) BY <1>5 DEF KillDelete
  <2>2. i \in late BY <1>1, <1>5 DEF KilledLive, Killing
  <2>3. {i} \in SUBSET Ids /\ late \subseteq late' /\ {i} \subseteq late' BY <1>1, <2>2
  <2>4. QED BY <2>1, <2>3, FreedKeeps
<1>6. CASE i \in alloc
  <2>1. /\ live' = live \ {data[i].squirrel} /\ alloc' = alloc \ {i} /\ Step(c, "erase")
        /\ UNCHANGED <<TheThreads, data, pc, ret, pool, fault>>
    BY <1>6 DEF KillDelete
  <2>2. /\ \A d \in Clients \ {c} : client'[d] = client[d]
        /\ client'[c].pc = "erase" /\ client'[c].ids = {i}
    BY <1>1, <2>1, Stepped DEF TypeInv, KillSteps
  <2>3. Staged' BY <1>1, <1>2, <1>3, <2>1, <2>2 DEF Staged, Killing
  <2>4. DataLive' BY <1>1, <1>3, <2>1 DEF DataLive
  <2>5. WaitedLive' BY <1>1, <1>2, <1>4, <2>1, <2>2 DEF WaitedLive, Waiting, Waits
  <2>6. KilledLive' BY <1>1, <1>2, <1>3, <1>4, <2>1, <2>2 DEF KilledLive, Killing
  <2>7. OneOwner'
    <3> SUFFICES ASSUME late = {} PROVE OneOwner' BY <1>1 DEF OneOwner
    <3>1. Owns(i) /\ \A j \in Ids : Owns(j)' => Owns(j) /\ j # i
      BY <1>3, <1>6, <2>1 DEF Owns
    <3>2. data[i].squirrel \notin Range(pool) BY <3>1 DEF OneOwner
    <3>3. QED BY <2>1, <3>1, <3>2 DEF OneOwner
  <2>8. CountsRight'
    <3>1. \A d \in Clients \ {c} : Counted(d)' = Counted(d)
      BY <1>1, <2>1, <2>2 DEF Counted, Counts, Dying
    <3>2. QED BY <1>1, <2>1, <2>2, <3>1 DEF CountsRight
  <2>9. QED BY <1>1, <2>1, <2>3, <2>4, <2>5, <2>6, <2>7, <2>8, NoFaultGood
<1>7. QED BY <1>5, <1>6

LEMMA KillEraseKeeps ==
  ASSUME IInv, TypeInv', NEW c \in Clients, NEW i \in Ids, KillErase(c, i) PROVE IInv'
<1> USE DEF IInv
<1>1. /\ fault = NoFault /\ client[c].pc = "erase" /\ client[c].ids = {i} /\ Return(c)
      /\ TheThreads' = [TheThreads EXCEPT ![i] = "absent"]
      /\ UNCHANGED <<data, alloc, pc, ret, pool, live, late, fault>>
  BY DEF KillErase, At
<1>2. /\ \A d \in Clients \ {c} : client'[d] = client[d]
      /\ client'[c].pc = "idle" /\ client'[c].ids = {}
  BY <1>1, Returned DEF TypeInv
<1>3. pc[i] \in {"killed", "over"} BY <1>1 DEF Staged, Killing
<1>4. Staged' BY <1>1, <1>2 DEF Staged, Killing
<1>5. DataLive' BY <1>1, <1>3 DEF DataLive, TypeInv
<1>6. WaitedLive' BY <1>1, <1>2 DEF WaitedLive, Waiting, Waits
<1>7. KilledLive' BY <1>1, <1>2 DEF KilledLive, Killing
<1>8. OneOwner' BY <1>1 DEF OneOwner, Owns
<1>9. CountsRight'
  <2>1. \A d \in Clients \ {c} : Counted(d)' = Counted(d)
    BY <1>1, <1>2 DEF Counted, Counts, Dying
  <2>2. QED BY <1>1, <1>2, <2>1 DEF CountsRight
<1>10. QED BY <1>1, <1>4, <1>5, <1>6, <1>7, <1>8, <1>9, NoFaultGood

-----------------------------------------------------------------------------
\* The threads a wait is not late for run their script and nobody waits for them.
LEMMA InTime ==
  ASSUME NEW S \in SUBSET Ids, late' = late \cup LateFor(S)
  PROVE  /\ late \subseteq late'
         /\ \A i \in S \ late' : pc[i] = "spawned" /\ \A d \in Clients : Waiting(d) => i \notin client[d].ids
BY DEF LateFor

\* A squirrel starts to wait for the threads of S.
LEMMA WaitKeeps ==
  ASSUME IInv, TypeInv', NEW c \in Clients, NEW S \in SUBSET Ids, NEW mode \in {"one", "first", "all"},
         fault = NoFault, client[c].pc = "idle", late' = late \cup LateFor(S),
         client' = [client EXCEPT ![c] = [Nobody EXCEPT !.pc = mode, !.ids = S]],
         \A j \in Ids : /\ data'[j].squirrel = data[j].squirrel
                        /\ data'[j].terminated = data[j].terminated
                        /\ data'[j].output = data[j].output
                        /\ j \in S => data'[j].waited
                        /\ j \notin S => data'[j].waited = data[j].waited,
         UNCHANGED <<TheThreads, alloc, pc, ret, pool, live, fault>>
  PROVE  IInv'
<1> USE DEF IInv
<1>1. /\ \A d \in Clients \ {c} : client'[d] = client[d]
      /\ client'[c].pc = mode /\ client'[c].ids = S /\ client'[c].count = 0
  BY NewWait DEF TypeInv
<1>2. \A d \in Clients : client[d].ids \in SUBSET Ids /\ (client[d].pc = "done" => client[d].over \in Ids)
  BY DEF TypeInv, Waiter
<1>3. /\ late \subseteq late'
      /\ \A i \in S \ late' : pc[i] = "spawned" /\ \A d \in Clients : Waiting(d) => i \notin client[d].ids
  BY InTime
<1>4. \A i \in S \ late' : i \in alloc /\ ~data[i].terminated BY <1>3 DEF DataLive, Staged, Done
<1>5. Staged' BY <1>1, <1>2 DEF Staged, Killing
<1>6. DataLive' BY <1>3 DEF DataLive
<1>7. WaitedLive'
  <2>1. ASSUME NEW d \in Clients, Waiting(d)', NEW i \in client'[d].ids, i \notin late'
        PROVE  /\ i \in alloc /\ data'[i].waited
               /\ pc[i] \in {"spawned", "ran", "flag", "over", "killed"}
    BY <1>1, <1>2, <1>3, <1>4, <2>1 DEF WaitedLive, Waiting
  <2>2. ASSUME NEW d \in Clients, NEW e \in Clients, NEW i \in Ids, i \notin late',
               Waiting(d)', Waiting(e)', i \in client'[d].ids, i \in client'[e].ids
        PROVE  d = e
    BY <1>1, <1>3, <2>2 DEF WaitedLive, Waiting
  <2>3. QED BY <2>1, <2>2 DEF WaitedLive, Waiting
<1>8. KilledLive'
  <2>1. \A d \in Clients : Killing(d)' => d # c /\ client'[d] = client[d] /\ Killing(d)
    BY <1>1 DEF Killing
  <2>2. \A d \in Clients : Killing(d) => \A i \in client[d].ids \ late' : i \notin S
    BY <1>2, <1>3 DEF KilledLive
  <2>3. QED BY <1>2, <1>3, <2>1, <2>2 DEF KilledLive
<1>9. OneOwner'
  <2>1. late' = {} => late = {} BY <1>3
  <2>2. QED BY <2>1 DEF OneOwner, Owns
<1>10. CountsRight'
  <2>1. \A j \in Ids : Counts(j)' <=> Counts(j) BY <1>1 DEF Counts, Dying
  <2>2. \A d \in Clients \ {c} : Counted(d)' = Counted(d) BY <1>1, <1>2, <2>1 DEF Counted
  <2>3. ASSUME S \cap late' = {} PROVE Counted(c)' = {}
    <3>1. \A i \in S : ~Counts(i) BY <1>3, <2>3 DEF Counts, Done
    <3>2. QED BY <1>1, <2>1, <3>1 DEF Counted
  <2>4. Cardinality({}) = 0 BY FS_EmptySet
  <2>5. ASSUME NEW d \in Clients, client'[d].pc = "all", client'[d].ids \cap late' = {}
        PROVE  client'[d].count = Cardinality(Counted(d)')
    <3>1. CASE d = c BY <1>1, <2>3, <2>4, <2>5, <3>1
    <3>2. CASE d # c
      <4>1. client[d].pc = "all" /\ client[d].ids \cap late = {} BY <1>1, <1>3, <2>5, <3>2
      <4>2. client[d].count = Cardinality(Counted(d)) BY <4>1 DEF CountsRight
      <4>3. QED BY <1>1, <2>2, <3>2, <4>2
    <3>3. QED BY <3>1, <3>2
  <2>6. QED BY <2>5 DEF CountsRight
<1>11. QED BY <1>5, <1>6, <1>7, <1>8, <1>9, <1>10, NoFaultGood

LEMMA WaitOneKeeps ==
  ASSUME IInv, TypeInv', NEW c \in Clients, NEW i \in Ids, WaitOne(c, i)
  PROVE  IInv'
<1> DEFINE S    == {i}
           mode == "one"
<1>1. fault = NoFault /\ client[c].pc = "idle" BY DEF WaitOne, Calls
<1>2. S \in SUBSET Ids /\ mode \in {"one", "first", "all"} OBVIOUS
<1>3. CASE TheThreads[i] # "data"
  <2>1. /\ TheThreads' = [TheThreads EXCEPT ![i] = "absent"]
        /\ UNCHANGED <<data, alloc, pc, ret, stopped, pool, live, client, late, fault>>
    BY <1>3 DEF WaitOne
  <2>2. \A j \in Ids : TheThreads[j] = "data" => TheThreads'[j] = "data"
    BY <1>3, <2>1 DEF IInv, TypeInv
  <2>3. Staged' /\ DataLive' BY <2>1, <2>2 DEF IInv, Staged, DataLive, Killing
  <2>4. WaitedLive' /\ KilledLive' BY <2>1 DEF IInv, WaitedLive, KilledLive, Waiting, Killing
  <2>5. OneOwner' BY <2>1 DEF IInv, OneOwner, Owns
  <2>6. CountsRight'
    <3>1. \A d \in Clients : Counted(d)' = Counted(d) BY <2>1 DEF Counted, Counts, Dying
    <3>2. QED BY <2>1, <3>1 DEF IInv, CountsRight
  <2>7. QED BY <1>1, <2>1, <2>3, <2>4, <2>5, <2>6, NoFaultGood DEF IInv
<1>4. CASE TheThreads[i] = "data"
  <2>1. late' = late \cup LateFor(S) BY <1>4 DEF WaitOne
  <2>2. CASE i \notin alloc
    <3>1. Fault("freed", S) BY <1>4, <2>2 DEF WaitOne
    <3>2. late \subseteq late' /\ (i \notin late' => pc[i] = "spawned") BY <1>2, <2>1, InTime
    <3>3. S \subseteq late' BY <2>2, <3>2 DEF IInv, DataLive
    <3>4. QED BY <1>2, <3>1, <3>2, <3>3, FreedKeeps
  <2>3. CASE i \in alloc
    <3>1. /\ data' = [data EXCEPT ![i].waited = TRUE]
          /\ client' = [client EXCEPT ![c] = [Nobody EXCEPT !.pc = mode, !.ids = S]]
          /\ UNCHANGED <<TheThreads, alloc, pc, ret, pool, live, fault>>
      BY <1>4, <2>3 DEF WaitOne
    <3>2. \A j \in Ids : /\ data'[j].squirrel = data[j].squirrel
                         /\ data'[j].terminated = data[j].terminated
                         /\ data'[j].output = data[j].output
                         /\ j \in S => data'[j].waited
                         /\ j \notin S => data'[j].waited = data[j].waited
      BY <3>1, SetWaited DEF IInv, TypeInv
    <3> HIDE DEF S, mode
    <3>3. QED BY <1>1, <1>2, <2>1, <3>1, <3>2, WaitKeeps
  <2>4. QED BY <2>2, <2>3
<1>5. QED BY <1>3, <1>4

LEMMA WaitSeveralKeeps ==
  ASSUME IInv, TypeInv', NEW c \in Clients,
         NEW mode \in {"first", "all"}, NEW S \in SUBSET Ids, WaitSeveral(c, mode, S)
  PROVE  IInv'
<1>1. fault = NoFault /\ client[c].pc = "idle" /\ late' = late \cup LateFor(S)
  BY DEF WaitSeveral, Calls
<1>2. late \subseteq late' /\ \A i \in S \ late' : pc[i] = "spawned" BY <1>1, InTime
<1>3. \A i \in S \ late' : i \in alloc /\ TheThreads[i] = "data" BY <1>2 DEF IInv, DataLive
<1>4. CASE \E i \in S : TheThreads[i] # "data"
  <2> DEFINE T == {i \in S : TheThreads[i] # "data"}
  <2>1. Fault("null", T) BY <1>4 DEF WaitSeveral
  <2>2. T \subseteq late' BY <1>3
  <2> HIDE DEF T
  <2>3. fault'.what = "null" /\ fault'.ids = T BY <2>1 DEF Fault
  <2>4. NoStaleUse' BY <2>2, <2>3 DEF NoStaleUse
  <2>5. QED BY <1>2, <2>1, <2>4, FaultKeeps
<1>5. CASE ~(\E i \in S : TheThreads[i] # "data") /\ ~(S \subseteq alloc)
  <2> DEFINE T == S \ alloc
  <2>1. Fault("freed", T) BY <1>5 DEF WaitSeveral
  <2>2. T \in SUBSET Ids /\ T \subseteq late' BY <1>3
  <2> HIDE DEF T
  <2>3. QED BY <1>2, <2>1, <2>2, FreedKeeps
<1>6. CASE ~(\E i \in S : TheThreads[i] # "data") /\ S \subseteq alloc
  <2>1. /\ data' = [i \in Ids |-> IF i \in S THEN [data[i] EXCEPT !.waited = TRUE] ELSE data[i]]
        /\ client' = [client EXCEPT ![c] = [Nobody EXCEPT !.pc = mode, !.ids = S]]
        /\ UNCHANGED <<TheThreads, alloc, pc, ret, pool, live, fault>>
    BY <1>6 DEF WaitSeveral
  <2>2. \A j \in Ids : /\ data'[j].squirrel = data[j].squirrel
                       /\ data'[j].terminated = data[j].terminated
                       /\ data'[j].output = data[j].output
                       /\ j \in S => data'[j].waited = TRUE
                       /\ j \notin S => data'[j].waited = data[j].waited
    BY <2>1, WaitData DEF IInv, TypeInv
  <2>3. mode \in {"one", "first", "all"} OBVIOUS
  <2>4. QED BY <1>1, <2>1, <2>2, <2>3, WaitKeeps
<1>7. QED BY <1>4, <1>5, <1>6

\* A wait ends, and the threads of T, which are over, are disposed of.
LEMMA ReturnKeeps ==
  ASSUME IInv, TypeInv', NEW c \in Clients, NEW T \in SUBSET client[c].ids,
         fault = NoFault, Waiting(c), Return(c),
         \A i \in T : pc[i] = "over",
         alloc' = alloc \ T, live' = live \ {data[i].squirrel : i \in T},
         \A i \in Ids \ T : TheThreads'[i] = TheThreads[i],
         \A j \in Ids : /\ data'[j].squirrel = data[j].squirrel
                        /\ data'[j].terminated = data[j].terminated
                        /\ data'[j].output = data[j].output
                        /\ data'[j].waited => data[j].waited
                        /\ j \notin client[c].ids => data'[j].waited = data[j].waited,
         UNCHANGED <<pc, ret, pool, late, fault>>
  PROVE  IInv'
<1> USE DEF IInv
<1>1. /\ \A d \in Clients \ {c} : client'[d] = client[d]
      /\ client'[c].pc = "idle" /\ client'[c].ids = {}
  BY Returned DEF TypeInv
<1>2. \A d \in Clients : client[d].ids \in SUBSET Ids /\ (client[d].pc = "done" => client[d].over \in Ids)
  BY DEF TypeInv, Waiter
<1>3. /\ \A d \in Clients : Waiting(d)' => d # c /\ client'[d] = client[d] /\ Waiting(d)
      /\ \A d \in Clients : Killing(d)' => d # c /\ client'[d] = client[d] /\ Killing(d)
  BY <1>1 DEF Waiting, Waits, Killing
<1>4. Staged'
  <2>1. \A d \in Clients : client'[d].pc = "done" => d # c /\ client'[d] = client[d] BY <1>1
  <2>2. QED BY <1>2, <1>3, <2>1 DEF Staged
<1>5. DataLive' BY DEF DataLive
<1>6. WaitedLive'
  <2>1. ASSUME NEW d \in Clients, Waiting(d)', NEW i \in client'[d].ids, i \notin late'
        PROVE  /\ i \in alloc' /\ data'[i].waited
               /\ pc[i] \in {"spawned", "ran", "flag", "over", "killed"}
    <3>1. d # c /\ i \in client[d].ids /\ i \in Ids /\ Waiting(d) /\ i \notin late BY <1>2, <1>3, <2>1
    <3>2. i \notin client[c].ids BY <3>1 DEF WaitedLive
    <3>3. QED BY <3>1, <3>2 DEF WaitedLive
  <2>2. ASSUME NEW d \in Clients, NEW e \in Clients, NEW i \in Ids, i \notin late',
               Waiting(d)', Waiting(e)', i \in client'[d].ids, i \in client'[e].ids
        PROVE  d = e
    BY <1>3, <2>2 DEF WaitedLive
  <2>3. QED BY <2>1, <2>2 DEF WaitedLive
<1>7. KilledLive'
  <2>1. ASSUME NEW d \in Clients, Killing(d)', NEW i \in client'[d].ids, i \notin late'
        PROVE  /\ pc[i] = "killed"
               /\ client'[d].pc # "erase" => i \in alloc'
               /\ client'[d].pc = "test" => ~data'[i].terminated
               /\ client'[d].pc = "delete" => ~data'[i].waited
    <3>1. Killing(d) /\ client'[d] = client[d] /\ i \in Ids /\ i \in client[d].ids /\ i \notin late
      BY <1>2, <1>3, <2>1
    <3>2. pc[i] = "killed" /\ i \notin T BY <3>1 DEF KilledLive
    <3>3. QED BY <3>1, <3>2 DEF KilledLive
  <2>2. ASSUME NEW d \in Clients, NEW e \in Clients, NEW i \in Ids, i \notin late',
               Killing(d)', Killing(e)', i \in client'[d].ids, i \in client'[e].ids
        PROVE  d = e
    BY <1>3, <2>2 DEF KilledLive
  <2>3. QED BY <2>1, <2>2 DEF KilledLive
<1>8. OneOwner'
  <2> SUFFICES ASSUME late = {} PROVE OneOwner' BY DEF OneOwner
  <2>1. \A i \in T : i \in Ids /\ Owns(i) BY <1>2 DEF WaitedLive, Owns
  <2>2. \A j \in Ids : Owns(j)' => Owns(j) /\ j \notin T BY DEF Owns
  <2>3. \A i, j \in Ids : Owns(i) /\ Owns(j) /\ data[i].squirrel = data[j].squirrel => i = j
    BY DEF OneOwner
  <2>4. Range(pool) \subseteq live' BY <2>1 DEF OneOwner
  <2>5. \A j \in Ids : Owns(j)' => data[j].squirrel \in live' \ Range(pool)
    BY <2>1, <2>2, <2>3 DEF OneOwner
  <2>6. QED BY <2>2, <2>3, <2>4, <2>5 DEF OneOwner
<1>9. CountsRight'
  <2>1. \A j \in Ids : Dying(j)' <=> Dying(j) BY <1>1, <1>2 DEF Dying, Waiting, Waits
  <2>2. \A j \in Ids : Counts(j)' <=> Counts(j) BY <2>1 DEF Counts
  <2>3. \A d \in Clients \ {c} : Counted(d)' = Counted(d) BY <1>1, <1>2, <2>2 DEF Counted
  <2>4. QED BY <1>1, <2>3 DEF CountsRight
<1>10. QED BY <1>4, <1>5, <1>6, <1>7, <1>8, <1>9, NoFaultGood

\* What Discard does, as far as the invariant speaks of it.
LEMMA Discarded ==
  ASSUME NEW T \in SUBSET Ids, Discard(T)
  PROVE  /\ alloc' = alloc \ T /\ live' = live \ {data[i].squirrel : i \in T}
         /\ \A i \in Ids \ T : TheThreads'[i] = TheThreads[i]
BY DEF Discard

LEMMA GarbageKeeps ==
  ASSUME IInv, TypeInv', NEW S \in SUBSET Ids, Fault("garbage", S), late' = late,
         \A i \in S : data[i].output = "garbage"
  PROVE  IInv'
<1>1. fault'.what = "garbage" /\ fault'.ids = S BY DEF Fault
<1>2. S \subseteq NoReturn BY DEF IInv, Staged
<1>3. NoStaleUse' BY <1>1, <1>2 DEF NoStaleUse
<1>4. QED BY <1>3, FaultKeeps

LEMMA OneDoneKeeps ==
  ASSUME IInv, TypeInv', NEW c \in Clients, NEW i \in Ids, OneDone(c, i) PROVE IInv'
<1> DEFINE S == {i}
<1>1. /\ fault = NoFault /\ client[c].pc = "one" /\ client[c].ids = S /\ late' = late
      /\ Waiting(c) /\ S \in SUBSET Ids
  BY DEF OneDone, At, Waiting, Waits
<1>2. CASE i \notin alloc
  <2>1. Fault("freed", S) BY <1>2 DEF OneDone
  <2>2. S \subseteq late BY <1>1, <1>2 DEF IInv, WaitedLive
  <2> HIDE DEF S
  <2>3. QED BY <1>1, <2>1, <2>2, FreedKeeps
<1>3. CASE i \in alloc /\ data[i].output = "garbage"
  <2>1. Fault("garbage", S) BY <1>3 DEF OneDone
  <2>2. \A j \in S : data[j].output = "garbage" BY <1>3
  <2> HIDE DEF S
  <2>3. QED BY <1>1, <2>1, <2>2, GarbageKeeps
<1>4. CASE i \in alloc /\ data[i].output # "garbage"
  <2>1. Return(c) /\ UNCHANGED <<data, pc, ret, stopped, pool, fault>> BY <1>4 DEF OneDone
  <2>2. CASE data[i].output = "value"
    <3>1. Discard(S) /\ pc[i] = "over" BY <1>4, <2>2 DEF OneDone, IInv, Staged
    <3>2. \A j \in S : pc[j] = "over" BY <3>1
    <3> HIDE DEF S
    <3>3. /\ alloc' = alloc \ S /\ live' = live \ {data[j].squirrel : j \in S}
          /\ \A j \in Ids \ S : TheThreads'[j] = TheThreads[j]
      BY <1>1, <3>1, Discarded
    <3>4. S \in SUBSET client[c].ids BY <1>1
    <3>5. QED BY <1>1, <2>1, <3>2, <3>3, <3>4, ReturnKeeps
  <2>3. CASE data[i].output # "value"
    <3> DEFINE T == {}
    <3>1. UNCHANGED <<TheThreads, alloc, live>> BY <1>4, <2>3 DEF OneDone
    <3>2. T \in SUBSET client[c].ids /\ (\A j \in T : pc[j] = "over") /\ alloc' = alloc \ T
          /\ live' = live \ {data[j].squirrel : j \in T}
      BY <3>1
    <3> HIDE DEF T
    <3>3. QED BY <1>1, <2>1, <3>1, <3>2, ReturnKeeps
  <2>4. QED BY <2>2, <2>3
<1>5. QED BY <1>2, <1>3, <1>4

\* The threads of a wait whose data are gone are late.
LEMMA WaitFreed ==
  ASSUME IInv, NEW c \in Clients, Waiting(c)
  PROVE  client[c].ids \in SUBSET Ids /\ client[c].ids \ alloc \in SUBSET late
BY DEF IInv, TypeInv, Waiter, WaitedLive

LEMMA FirstDoneKeeps ==
  ASSUME IInv, TypeInv', NEW c \in Clients, FirstDone(c) PROVE IInv'
<1> DEFINE S == client[c].ids
           i == client[c].over
           T == {i}
           D == S \ alloc
<1>1. /\ fault = NoFault /\ client[c].pc = "done" /\ late' = late /\ Waiting(c)
  BY DEF FirstDone, At, Waiting, Waits
<1>2. S \in SUBSET Ids /\ i \in S /\ T \in SUBSET Ids /\ D \in SUBSET late /\ late \in SUBSET Ids
  BY <1>1, WaitFreed DEF IInv, TypeInv
<1>3. CASE ~(S \subseteq alloc)
  <2>1. Fault("freed", D) BY <1>3 DEF FirstDone
  <2> HIDE DEF S, D, i
  <2>2. QED BY <1>1, <1>2, <2>1, FreedKeeps
<1>4. CASE S \subseteq alloc /\ data[i].output = "NULL"
  <2>1. Fault("unset", T) BY <1>4 DEF FirstDone
  <2>2. pc[i] \in {"flag", "killed"} \/ ret[i] = "NULL" BY <1>1, <1>2, <1>4 DEF IInv, Staged, Done
  <2> HIDE DEF S, i
  <2>3. fault'.what = "unset" /\ fault'.ids = {i} /\ UNCHANGED <<pc, ret>> BY <2>1 DEF Fault
  <2>4. NoStaleUse' BY <2>2, <2>3 DEF NoStaleUse
  <2> HIDE DEF T
  <2>5. QED BY <1>1, <2>1, <2>4, FaultKeeps
<1>5. CASE S \subseteq alloc /\ data[i].output = "garbage"
  <2>1. Fault("garbage", T) BY <1>5 DEF FirstDone
  <2>2. \A j \in T : data[j].output = "garbage" BY <1>5
  <2> HIDE DEF T
  <2>3. QED BY <1>1, <1>2, <2>1, <2>2, GarbageKeeps
<1>6. CASE S \subseteq alloc /\ data[i].output \notin {"NULL", "garbage"}
  <2>1. data' = Unwaited(S) /\ Discard(T) /\ Return(c) /\ UNCHANGED <<pc, ret, stopped, pool, fault>>
    BY <1>6 DEF FirstDone
  <2>2. \A j \in T : pc[j] = "over" BY <1>2, <1>6 DEF IInv, Staged
  <2>3. T \in SUBSET client[c].ids BY <1>2
  <2> HIDE DEF T
  <2>4. /\ alloc' = alloc \ T /\ live' = live \ {data[j].squirrel : j \in T}
        /\ \A j \in Ids \ T : TheThreads'[j] = TheThreads[j]
    BY <1>2, <2>1, Discarded
  <2>5. \A j \in Ids : /\ data'[j].squirrel = data[j].squirrel
                       /\ data'[j].terminated = data[j].terminated
                       /\ data'[j].output = data[j].output
                       /\ data'[j].waited => data[j].waited
                       /\ j \notin client[c].ids => data'[j].waited = data[j].waited
    <3>1. data \in [Ids -> Datum] BY DEF IInv, TypeInv
    <3>2. data' = Unwaited(S) /\ S \in SUBSET Ids BY <1>2, <2>1
    <3>3. QED BY <3>1, <3>2, UnwaitData
  <2>6. QED BY <1>1, <2>1, <2>2, <2>3, <2>4, <2>5, ReturnKeeps
<1>7. QED BY <1>3, <1>4, <1>5, <1>6

LEMMA AllDoneKeeps ==
  ASSUME IInv, TypeInv', NEW c \in Clients, AllDone(c) PROVE IInv'
<1> DEFINE S   == client[c].ids
           has == {i \in S : data[i].output # "NULL"}
           bad == {i \in has : data[i].output = "garbage"}
           D   == S \ alloc
<1>1. /\ fault = NoFault /\ client[c].pc = "all" /\ late' = late /\ Waiting(c)
  BY DEF AllDone, At, Waiting, Waits
<1>2. S \in SUBSET Ids /\ has \in SUBSET S /\ has \in SUBSET Ids /\ bad \in SUBSET Ids
      /\ D \in SUBSET late /\ late \in SUBSET Ids
  BY <1>1, WaitFreed DEF IInv, TypeInv
<1>3. CASE ~(S \subseteq alloc)
  <2>1. Fault("freed", D) BY <1>3 DEF AllDone
  <2> HIDE DEF S, D, has, bad
  <2>2. QED BY <1>1, <1>2, <2>1, FreedKeeps
<1>4. CASE S \subseteq alloc /\ \E i \in has : data[i].output = "garbage"
  <2>1. Fault("garbage", bad) BY <1>4 DEF AllDone
  <2>2. \A j \in bad : data[j].output = "garbage" OBVIOUS
  <2> HIDE DEF S, D, has, bad
  <2>3. QED BY <1>1, <1>2, <2>1, <2>2, GarbageKeeps
<1>5. CASE S \subseteq alloc /\ ~ \E i \in has : data[i].output = "garbage"
  <2>1. data' = Unwaited(S) /\ Discard(has) /\ Return(c) /\ UNCHANGED <<pc, ret, stopped, pool, fault>>
    BY <1>5 DEF AllDone
  <2>2. \A j \in has : pc[j] = "over" BY <1>2 DEF IInv, Staged
  <2>3. has \in SUBSET client[c].ids OBVIOUS
  <2> HIDE DEF has, bad, D
  <2>4. /\ alloc' = alloc \ has /\ live' = live \ {data[j].squirrel : j \in has}
        /\ \A j \in Ids \ has : TheThreads'[j] = TheThreads[j]
    BY <1>2, <2>1, Discarded
  <2>5. \A j \in Ids : /\ data'[j].squirrel = data[j].squirrel
                       /\ data'[j].terminated = data[j].terminated
                       /\ data'[j].output = data[j].output
                       /\ data'[j].waited => data[j].waited
                       /\ j \notin client[c].ids => data'[j].waited = data[j].waited
    <3>1. data \in [Ids -> Datum] BY DEF IInv, TypeInv
    <3>2. data' = Unwaited(S) /\ S \in SUBSET Ids BY <1>2, <2>1
    <3>3. QED BY <3>1, <3>2, UnwaitData
  <2>6. QED BY <1>1, <2>1, <2>2, <2>3, <2>4, <2>5, ReturnKeeps
<1>6. QED BY <1>3, <1>4, <1>5

LEMMA PollFirstKeeps ==
  ASSUME IInv, TypeInv', NEW c \in Clients, NEW i \in Ids, PollFirst(c, i) PROVE IInv'
<1> USE DEF IInv
<1>1. /\ fault = NoFault /\ client[c].pc = "first" /\ late' = late /\ Waiting(c)
      /\ i \in client[c].ids
  BY DEF PollFirst, At, Waiting, Waits
<1>2. CASE i \notin alloc
  <2> DEFINE S == {i}
  <2>1. Fault("freed", S) BY <1>2 DEF PollFirst
  <2>2. S \in SUBSET Ids /\ S \subseteq late BY <1>1, <1>2, WaitFreed
  <2> HIDE DEF S
  <2>3. QED BY <1>1, <2>1, <2>2, FreedKeeps
<1>3. CASE i \in alloc
  <2>1. /\ data[i].terminated
        /\ UNCHANGED <<TheThreads, data, alloc, pc, ret, stopped, pool, live, late, fault>>
    BY <1>3 DEF PollFirst
  <2>2. /\ \A d \in Clients \ {c} : client'[d] = client[d]
        /\ client'[c].pc = "done" /\ client'[c].ids = client[c].ids /\ client'[c].over = i
    <3>1. client' = [client EXCEPT ![c].pc = "done", ![c].over = i] BY <1>3 DEF PollFirst
    <3>2. client \in [Clients -> Waiter] BY DEF TypeInv
    <3>3. QED BY <3>1, <3>2, FoundOver
  <2>3. \A d \in Clients : /\ client'[d].ids = client[d].ids /\ client[d].ids \in SUBSET Ids
                           /\ Waiting(d)' <=> Waiting(d)
                           /\ Killing(d)' => Killing(d) /\ client'[d] = client[d]
    BY <1>1, <2>2 DEF Waiting, Waits, Killing, TypeInv, Waiter
  <2>4. Staged'
    <3>1. pc[i] \in Done BY <2>1 DEF Staged
    <3>2. \A d \in Clients : Killing(d)' => \A j \in client'[d].ids : pc'[j] \in {"killed", "over"}
      BY <2>1, <2>3 DEF Staged
    <3>3. \A d \in Clients : client'[d].pc = "done" => pc'[client'[d].over] \in Done
      BY <2>1, <2>2, <3>1 DEF Staged
    <3>4. QED BY <2>1, <3>2, <3>3 DEF Staged
  <2>5. DataLive' BY <2>1 DEF DataLive
  <2>6. WaitedLive' BY <2>1, <2>3 DEF WaitedLive
  <2>7. KilledLive'
    <3>1. \A d \in Clients : Killing(d)' => \A j \in client'[d].ids \ late' :
             /\ pc'[j] = "killed"
             /\ client'[d].pc # "erase" => j \in alloc'
             /\ client'[d].pc = "test" => ~data'[j].terminated
             /\ client'[d].pc = "delete" => ~data'[j].waited
      BY <2>1, <2>3 DEF KilledLive
    <3>2. QED BY <2>1, <2>3, <3>1 DEF KilledLive
  <2>8. OneOwner' BY <2>1 DEF OneOwner, Owns
  <2>9. CountsRight'
    <3>1. \A j \in Ids : Dying(j)' <=> Dying(j) BY <1>1, <2>2, <2>3 DEF Dying
    <3>2. \A d \in Clients : Counted(d)' = Counted(d) BY <2>1, <2>3, <3>1 DEF Counted, Counts
    <3>3. QED BY <2>1, <2>2, <3>2 DEF CountsRight
  <2>10. QED BY <1>1, <2>1, <2>4, <2>5, <2>6, <2>7, <2>8, <2>9, NoFaultGood
<1>4. QED BY <1>2, <1>3

LEMMA PollAllKeeps ==
  ASSUME IInv, TypeInv', NEW c \in Clients, NEW i \in Ids, PollAll(c, i) PROVE IInv'
<1> USE DEF IInv
<1>1. /\ fault = NoFault /\ client[c].pc = "all" /\ late' = late /\ Waiting(c)
      /\ i \in client[c].ids /\ client[c].count < Cardinality(client[c].ids)
  BY DEF PollAll, At, Waiting, Waits
<1>2. CASE i \notin alloc
  <2> DEFINE S == {i}
  <2>1. Fault("freed", S) BY <1>2 DEF PollAll
  <2>2. S \in SUBSET Ids /\ S \subseteq late BY <1>1, <1>2, WaitFreed
  <2> HIDE DEF S
  <2>3. QED BY <1>1, <2>1, <2>2, FreedKeeps
<1>3. CASE i \in alloc
  <2>1. /\ data' = [data EXCEPT ![i].terminated = FALSE] /\ data[i].terminated
        /\ client' = [client EXCEPT ![c].count = @ + 1]
        /\ UNCHANGED <<TheThreads, alloc, pc, ret, stopped, pool, live, late, fault>>
    BY <1>3 DEF PollAll
  <2>2. \A j \in Ids : /\ data'[j].squirrel = data[j].squirrel
                       /\ data'[j].waited = data[j].waited
                       /\ data'[j].output = data[j].output
                       /\ j # i => data'[j].terminated = data[j].terminated
    BY <2>1, SetTerminated DEF TypeInv
  <2>3. data'[i].terminated = FALSE BY <2>1, SetTerminated DEF TypeInv
  <2>4. \A d \in Clients : client[d].ids \in SUBSET Ids /\ client[d].count \in 0..Cardinality(Ids)
    BY DEF TypeInv, Waiter
  <2>5. client[c].count + 1 \in 0..Cardinality(Ids) BY <1>1, <2>4, CountBound
  <2>6. /\ \A d \in Clients \ {c} : client'[d] = client[d]
        /\ client'[c].pc = client[c].pc /\ client'[c].ids = client[c].ids
        /\ client'[c].over = client[c].over /\ client'[c].count = client[c].count + 1
    BY <2>1, <2>5, CountOne DEF TypeInv
  <2>7. \A d \in Clients : /\ client'[d].ids = client[d].ids /\ client'[d].pc = client[d].pc
                           /\ client'[d].over = client[d].over
                           /\ Waiting(d)' <=> Waiting(d)
                           /\ Killing(d)' <=> Killing(d)
    BY <2>6 DEF Waiting, Killing
  <2>8. \A j \in Ids : data'[j].terminated => data[j].terminated BY <2>2, <2>3
  <2>9. Staged' BY <2>1, <2>2, <2>4, <2>7, <2>8 DEF Staged, TypeInv
  <2>10. DataLive' BY <2>1 DEF DataLive
  <2>11. WaitedLive' BY <2>1, <2>2, <2>4, <2>7 DEF WaitedLive
  <2>12. KilledLive' BY <2>1, <2>2, <2>4, <2>7, <2>8 DEF KilledLive
  <2>13. OneOwner' BY <2>1, <2>2 DEF OneOwner, Owns
  <2>14. CountsRight'
    <3>1. \A j \in Ids : Dying(j)' <=> Dying(j) BY <2>7 DEF Dying
    <3>2. \A j \in Ids \ {i} : Counts(j)' <=> Counts(j) BY <2>1, <2>2, <3>1 DEF Counts
    <3>3. pc[i] \in Done /\ ~Counts(i) BY <2>1 DEF Staged, Counts
    <3>4. ASSUME i \notin late PROVE Counts(i)'
      <4>1. ~Dying(i) BY <2>1, <3>4 DEF Dying, KilledLive, Killing
      <4>2. QED BY <2>1, <2>3, <3>1, <3>3, <4>1 DEF Counts
    <3>5. ASSUME NEW d \in Clients, client'[d].pc = "all", client'[d].ids \cap late' = {}
          PROVE  client'[d].count = Cardinality(Counted(d)')
      <4>1. client[d].pc = "all" /\ client[d].ids \cap late = {} BY <2>1, <2>7, <3>5
      <4>2. client[d].count = Cardinality(Counted(d)) BY <4>1 DEF CountsRight
      <4>3. CASE d = c
        <5>1. i \notin late BY <1>1, <4>1, <4>3
        <5>2. i \notin Counted(c) /\ Counted(c) \in SUBSET Ids BY <2>4, <3>3 DEF Counted
        <5>3. Counted(c)' = Counted(c) \cup {i}
          BY <1>1, <2>4, <2>7, <3>2, <3>4, <5>1 DEF Counted
        <5>4. Cardinality(Counted(c) \cup {i}) = Cardinality(Counted(c)) + 1
          BY <5>2, CountBound, FS_AddElement
        <5>5. QED BY <2>6, <4>2, <4>3, <5>3, <5>4
      <4>4. CASE d # c
        <5>1. Waiting(d) BY <4>1 DEF Waiting, Waits
        <5>2. i \notin client[d].ids BY <1>1, <2>4, <4>1, <4>4, <5>1 DEF WaitedLive
        <5>3. Counted(d)' = Counted(d) BY <2>4, <2>7, <3>2, <5>2 DEF Counted
        <5>4. QED BY <2>6, <4>2, <4>4, <5>3
      <4>5. QED BY <4>3, <4>4
    <3>6. QED BY <3>5 DEF CountsRight
  <2>15. QED BY <1>1, <2>1, <2>9, <2>10, <2>11, <2>12, <2>13, <2>14, NoFaultGood
<1>4. QED BY <1>2, <1>3

LEMMA StutterKeeps == ASSUME IInv, UNCHANGED vars PROVE IInv'
<1>1. UNCHANGED <<TheThreads, data, alloc, pc, ret, stopped, pool, live, client, late, fault>>
  BY DEF vars
<1>2. TypeInv' /\ NoStaleUse' BY <1>1 DEF IInv, TypeInv, NoStaleUse
<1>3. Staged' /\ DataLive' /\ KilledLive' BY <1>1 DEF IInv, Staged, DataLive, KilledLive, Killing
<1>4. WaitedLive' BY <1>1 DEF IInv, WaitedLive, Waiting
<1>5. OneOwner' BY <1>1 DEF IInv, OneOwner, Owns
<1>6. CountsRight' BY <1>1 DEF IInv, CountsRight, Counted, Counts, Dying
<1>7. QED BY <1>2, <1>3, <1>4, <1>5, <1>6 DEF IInv

LEMMA InvStep == IInv /\ [Next]_vars => IInv'
<1> SUFFICES ASSUME IInv, [Next]_vars PROVE IInv' OBVIOUS
<1>1. TypeInv' BY TypeStep DEF IInv
<1>2. CASE UNCHANGED vars \/ Over BY <1>2, StutterKeeps DEF Over
<1>3. ASSUME NEW i \in Ids, Thread(i) PROVE IInv'
  BY <1>1, <1>3, ExecuteKeeps, TestWaitedKeeps, DeleteDataKeeps, SetOutputKeeps DEF Thread
<1>4. ASSUME NEW c \in Clients, Starts(c) PROVE IInv'
  <2>1. ASSUME NEW i \in Ids,
               Spawn(c, i) \/ Hop(c, i) \/ Suspend(c, i) \/ Kill(c, i) \/ WaitOne(c, i)
        PROVE  IInv'
    BY <1>1, <2>1, SpawnKeeps, StoppedKeeps, KillKeeps, WaitOneKeeps
  <2>2. ASSUME NEW mode \in {"first", "all"}, NEW S \in SUBSET Ids, WaitSeveral(c, mode, S)
        PROVE  IInv'
    BY <1>1, <2>2, WaitSeveralKeeps
  <2>3. QED BY <1>1, <1>4, <2>1, <2>2, SpawnFailsKeeps DEF Starts
<1>5. ASSUME NEW c \in Clients, GoesOn(c) PROVE IInv'
  <2>1. ASSUME NEW i \in Ids,
               KillThread(c, i) \/ KillTest(c, i) \/ KillDelete(c, i) \/ KillErase(c, i)
        PROVE  IInv'
    BY <1>1, <2>1, KillThreadKeeps, KillTestKeeps, KillDeleteKeeps, KillEraseKeeps
  <2>2. ASSUME NEW i \in Ids, OneDone(c, i) \/ PollFirst(c, i) \/ PollAll(c, i) PROVE IInv'
    BY <1>1, <2>2, OneDoneKeeps, PollFirstKeeps, PollAllKeeps
  <2>3. QED BY <1>1, <1>5, <2>1, <2>2, FirstDoneKeeps, AllDoneKeeps DEF GoesOn
<1>6. QED BY <1>2, <1>3, <1>4, <1>5 DEF Next

-----------------------------------------------------------------------------
(* Whatever scripts do with threads, no thread and no primitive reaches data that
   are deleted, or a NULL of the map, of a thread that was neither killed nor waited
   for after its script, or twice; and no squirrel is used after its deletion before
   some thread was. *)
THEOREM OnlyLateIsStale == Spec => []NoStaleUse
<1>1. IInv => NoStaleUse BY DEF IInv
<1>2. QED BY <1>1, InvStep, InitInv, PTL DEF Spec

(* Until then the pool holds live squirrels, each once, and none that a thread runs
   on; no two threads run on one squirrel. *)
THEOREM SquirrelsHaveOneOwner == Spec => []SquirrelsOwned
<1>1. IInv => SquirrelsOwned
  <2> SUFFICES ASSUME IInv, late = {} PROVE SquirrelsOwned BY DEF SquirrelsOwned
  <2>1. \A i \in Ids : pc[i] \in {"spawned", "ran"} => Owns(i) BY DEF IInv, DataLive, Owns
  <2>2. QED BY <2>1 DEF IInv, OneOwner, SquirrelsOwned
<1>2. QED BY <1>1, InvStep, InitInv, PTL DEF Spec

\* "all returns once it has counted every thread it waits for, each once.
LEMMA AllCounted ==
  ASSUME IInv, NEW c \in Clients, client[c].pc = "all", client[c].ids \cap late = {},
         client[c].count = Cardinality(client[c].ids)
  PROVE  \A i \in client[c].ids : pc[i] \in {"flag", "over", "killed"}
<1>1. client[c].ids \in SUBSET Ids BY DEF IInv, TypeInv, Waiter
<1>2. IsFiniteSet(client[c].ids) BY <1>1, CountBound
<1>3. Counted(c) \in SUBSET client[c].ids BY DEF Counted
<1>4. Cardinality(Counted(c)) = Cardinality(client[c].ids) BY DEF IInv, CountsRight
<1>5. Counted(c) = client[c].ids BY <1>2, <1>3, <1>4, FS_Subset
<1>6. QED BY <1>5 DEF Counted, Counts, Done

\* A squirrel that waits becomes idle by the last step of its wait only.
LEMMA WaitEnds ==
  ASSUME TypeInv, [Next]_vars, NEW c \in Clients, Waiting(c), client'[c].pc = "idle"
  PROVE  (\E i \in Ids : OneDone(c, i)) \/ FirstDone(c) \/ AllDone(c)
<1>0. client \in [Clients -> Waiter] BY DEF TypeInv
<1>1. client' # client /\ client[c].pc \in Waits BY DEF Waiting, Waits
<1>2. ~(UNCHANGED vars \/ Over) BY <1>1 DEF Over, vars
<1>3. ASSUME NEW i \in Ids, Thread(i) PROVE FALSE
  BY <1>1, <1>3 DEF Thread, Execute, TestWaited, DeleteData, SetOutput, Fault
<1>4. ASSUME NEW d \in Clients, Starts(d) PROVE FALSE
  <2>1. ASSUME NEW i \in Ids, Spawn(d, i) \/ Hop(d, i) \/ Suspend(d, i) PROVE FALSE
    BY <1>1, <2>1 DEF Spawn, Hop, Suspend, Fault
  <2>2. ~SpawnFails(d) BY <1>1 DEF SpawnFails
  <2>3. d # c BY <1>1, <1>4 DEF Starts, Spawn, SpawnFails, Hop, Suspend, Kill, WaitOne, WaitSeveral, Calls, Waits
  <2>4. ASSUME NEW i \in Ids, Kill(d, i) \/ WaitOne(d, i) PROVE FALSE
    <3>1. PICK n : client' = [client EXCEPT ![d] = n] BY <1>1, <2>4 DEF Kill, WaitOne, Fault
    <3>2. client'[c] = client[c] BY <1>0, <2>3, <3>1
    <3>3. QED BY <1>1, <3>2 DEF Waits
  <2>5. ASSUME NEW mode, NEW S, WaitSeveral(d, mode, S) PROVE FALSE
    <3>1. PICK n : client' = [client EXCEPT ![d] = n] BY <1>1, <2>5 DEF WaitSeveral, Fault
    <3>2. client'[c] = client[c] BY <1>0, <2>3, <3>1
    <3>3. QED BY <1>1, <3>2 DEF Waits
  <2>6. QED BY <1>4, <2>1, <2>2, <2>4, <2>5 DEF Starts
<1>5. ASSUME NEW d \in Clients, d # c, GoesOn(d) PROVE FALSE
  <2>0. ~ \E n : client' = [client EXCEPT ![d] = n]
    <3>1. (\E n : client' = [client EXCEPT ![d] = n]) => client'[c] = client[c] BY <1>0, <1>5
    <3>2. QED BY <1>1, <3>1 DEF Waits
  <2>1. \A to : ~Step(d, to) BY <2>0 DEF Step
  <2>2. ~Return(d) BY <2>0 DEF Return
  <2>3. ASSUME NEW i \in Ids, KillThread(d, i) \/ KillTest(d, i) \/ KillDelete(d, i) \/ KillErase(d, i)
        PROVE  FALSE
    BY <1>1, <2>1, <2>2, <2>3 DEF KillThread, KillTest, KillDelete, KillErase, Fault
  <2>4. ASSUME NEW i \in Ids, OneDone(d, i) PROVE FALSE BY <1>1, <2>2, <2>4 DEF OneDone, Fault
  <2>5. ASSUME NEW i \in Ids, PollFirst(d, i) \/ PollAll(d, i) PROVE FALSE
    BY <1>1, <2>0, <2>5 DEF PollFirst, PollAll, Fault
  <2>6. ~FirstDone(d) BY <1>1, <2>2 DEF FirstDone, Fault
  <2>7. ~AllDone(d) BY <1>1, <2>2 DEF AllDone, Fault
  <2>8. QED BY <1>5, <2>3, <2>4, <2>5, <2>6, <2>7 DEF GoesOn
<1>6. GoesOn(c) BY <1>2, <1>3, <1>4, <1>5 DEF Next
<1>7. ASSUME NEW i \in Ids, KillThread(c, i) \/ KillTest(c, i) \/ KillDelete(c, i) \/ KillErase(c, i)
      PROVE  FALSE
  BY <1>1, <1>7 DEF KillThread, KillTest, KillDelete, KillErase, At, Waits
<1>8. ASSUME NEW i \in Ids, PollFirst(c, i) PROVE FALSE
  <2>1. client' = [client EXCEPT ![c].pc = "done", ![c].over = i] BY <1>1, <1>8 DEF PollFirst, Fault
  <2>2. client'[c].pc = "done" BY <2>1, FoundOver DEF TypeInv
  <2>3. QED BY <2>2
<1>9. ASSUME NEW i \in Ids, PollAll(c, i) PROVE FALSE
  <2>1. client' = [client EXCEPT ![c].count = @ + 1] BY <1>1, <1>9 DEF PollAll, Fault
  <2>2. client'[c].pc = client[c].pc BY <2>1 DEF TypeInv, Waiter
  <2>3. QED BY <1>1, <2>2 DEF Waits
<1>10. QED BY <1>6, <1>7, <1>8, <1>9 DEF GoesOn

(* A wait none of whose threads was late ends with what it promises in the data of
   its threads: for one and for "first the output of a script that has ended, for
   "all an end of each thread, none counted twice for another. *)
THEOREM WaitsInTimeDeliver == Spec => WaitsDeliver
<1> DEFINE Ends(c) ==
      Waiting(c) /\ client'[c].pc = "idle" /\ client[c].ids \cap late = {} =>
        /\ client[c].pc = "one" => \A i \in client[c].ids : Delivered(i) \/ pc[i] = "killed"
        /\ client[c].pc = "done" => client[c].over \in client[c].ids /\ Delivered(client[c].over)
        /\ client[c].pc = "all" =>
             \A i \in client[c].ids : Delivered(i) \/ pc[i] \in {"killed", "flag"}
<1>1. IInv /\ [Next]_vars => \A c \in Clients : Ends(c)
  <2> SUFFICES ASSUME IInv, [Next]_vars, NEW c \in Clients,
                      Waiting(c), client'[c].pc = "idle", client[c].ids \cap late = {}
               PROVE  Ends(c)
    OBVIOUS
  <2>1. client' # client BY DEF Waiting, Waits
  <2>2. \A i \in client[c].ids : i \in Ids /\ i \in alloc /\ (pc[i] = "over" => Delivered(i))
    BY WaitFreed DEF IInv, Staged, Delivered
  <2>3. ASSUME NEW i \in Ids, OneDone(c, i) PROVE Ends(c)
    <3>1. client[c].pc = "one" /\ client[c].ids = {i} /\ pc[i] \in {"over", "killed"}
      BY <2>3 DEF OneDone, At, Ended
    <3>2. QED BY <2>2, <3>1
  <2>4. ASSUME FirstDone(c) PROVE Ends(c)
    <3>1. client[c].pc = "done" /\ client[c].over \in client[c].ids
      BY <2>4 DEF FirstDone, At, IInv, TypeInv
    <3>2. data[client[c].over].output # "NULL" BY <2>1, <2>4 DEF FirstDone, Fault
    <3>3. pc[client[c].over] = "over" BY <2>2, <3>1, <3>2 DEF IInv, Staged
    <3>4. QED BY <2>2, <3>1, <3>3
  <2>5. ASSUME AllDone(c) PROVE Ends(c)
    <3>1. client[c].pc = "all" /\ client[c].count = Cardinality(client[c].ids)
      BY <2>5 DEF AllDone, At
    <3>2. \A i \in client[c].ids : pc[i] \in {"flag", "over", "killed"} BY <3>1, AllCounted
    <3>3. QED BY <2>2, <3>1, <3>2
  <2>6. QED BY <2>3, <2>4, <2>5, WaitEnds DEF IInv
<1>2. QED BY <1>1, InvStep, InitInv, PTL DEF Spec, WaitsDeliver
=============================================================================
