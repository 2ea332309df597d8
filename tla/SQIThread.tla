------------------------------ MODULE SQIThread ------------------------------
(***************************************************************************)
(* The threads of the Threading add-on: SpawnThread and Squirrel_Thread,   *)
(* the primitives Thread, Thread.hop, Thread.suspend, Thread.kill and the  *)
(* three forms of Thread.waitfor, and the pool squirrels come from and go  *)
(* back to.                                                                *)
(*                                                                         *)
(* TheThreads and the SQI_Thread_Data are shared by all threads, and no    *)
(* lock protects them.  A step of a thread or of a primitive reaches from  *)
(* one access that another thread can come between to the next: where two  *)
(* accesses make one step, what happens between them leads to what happens *)
(* when it comes after both.  The use of memory after its deletion sets    *)
(* fault, and the behaviour ends.  What scripts do too late is not         *)
(* forbidden but remembered: late holds the threads that had left their    *)
(* script, or were killed or waited for, when a Thread.kill or a           *)
(* Thread.waitfor reached them.                                            *)
(***************************************************************************)
EXTENDS Integers, FiniteSets, Sequences, SequencesExt

CONSTANTS
  Ids,        \* the threads scripts create, by thread id (never used again)
  Clients,    \* the squirrels that call the primitives, beside those of Ids
  Squirrels,  \* the addresses squirrels are allocated at
  NoReturn,   \* the threads that may leave the variable ret of Squirrel_Thread
              \* without a value: they run a block, or end in an exception
  Modes,      \* the forms of Thread.waitfor used, of "one", "first", "all"
  Suspends,   \* which threads scripts suspend: "none", "unwaited" (nobody is in
              \* a Thread.waitfor of that one thread) or "any"
  AfterLate,  \* whether scripts go on to call primitives once they were late
  NULL

ASSUME ThreadAssumption ==
  /\ IsFiniteSet(Ids)
  /\ NoReturn \subseteq Ids
  /\ Modes \subseteq {"one", "first", "all"}
  /\ Suspends \in {"none", "unwaited", "any"}
  /\ AfterLate \in BOOLEAN
  /\ NULL \notin Ids \cup Clients \cup Squirrels

VARIABLES
  TheThreads,  \* the map from thread ids to SQI_Thread_Data *
  data,        \* what is at these addresses
  alloc,       \* the SQI_Thread_Data allocated and not yet deleted
  pc,          \* how far Squirrel_Thread is
  ret,         \* its variable ret
  stopped,     \* the threads created or suspended, and not resumed since
  pool,        \* SQI_Pool::Pool, a stack
  live,        \* the squirrels allocated and not yet deleted
  client,      \* the Thread.waitfor or Thread.kill in progress of each client
  late,        \* the threads killed or waited for too late
  fault        \* what was misused, of which threads

vars == <<TheThreads, data, alloc, pc, ret, stopped, pool, live, client, late, fault>>

Outputs == {"NULL", "value", "garbage"}
Nobody  == [pc |-> "idle", ids |-> {}, count |-> 0, over |-> NULL]
Waits   == {"one", "first", "done", "all"}
KillSteps == {"kill", "test", "delete", "erase"}
NoFault == [what |-> "none", ids |-> {}]

TypeOK ==
  /\ TheThreads \in [Ids -> {"absent", "null", "data"}]
  /\ data \in [Ids -> [squirrel : Squirrels \cup {NULL}, waited : BOOLEAN,
                       terminated : BOOLEAN, output : Outputs]]
  /\ alloc \in SUBSET Ids
  /\ pc \in [Ids -> {"absent", "spawned", "ran", "put", "flag", "over", "killed"}]
  /\ ret \in [Ids -> Outputs]
  /\ stopped \in SUBSET Ids
  /\ Range(pool) \subseteq Squirrels
  /\ live \in SUBSET Squirrels
  /\ client \in [Clients -> [pc : {"idle"} \cup Waits \cup KillSteps, ids : SUBSET Ids,
                             count : 0..Cardinality(Ids), over : Ids \cup {NULL}]]
  /\ late \in SUBSET Ids
  /\ fault \in [what : {"none", "freed", "null", "squirrel", "garbage", "unset"},
                ids : SUBSET Ids]

NoData == [squirrel |-> NULL, waited |-> FALSE, terminated |-> FALSE, output |-> "NULL"]

Init ==
  /\ TheThreads = [i \in Ids |-> "absent"]
  /\ data = [i \in Ids |-> NoData]
  /\ alloc = {} /\ stopped = {} /\ live = {} /\ late = {}
  /\ pc = [i \in Ids |-> "absent"]
  /\ ret = [i \in Ids |-> "NULL"]
  /\ pool = <<>>
  /\ client = [c \in Clients |-> Nobody]
  /\ fault = NoFault

Fault(what, S) ==
  /\ fault' = [what |-> what, ids |-> S]
  /\ UNCHANGED <<TheThreads, data, alloc, pc, ret, stopped, pool, live, client>>

Calls(c) == fault = NoFault /\ client[c].pc = "idle" /\ (AfterLate \/ late = {})
At(c, step) == fault = NoFault /\ client[c].pc = step
Runs(i, at) == fault = NoFault /\ pc[i] = at /\ i \notin stopped
Ended(i) == pc[i] \in {"over", "killed"}
Waiting(c) == client[c].pc \in Waits

-----------------------------------------------------------------------------
\* Thread: SpawnThread takes a squirrel of the pool, or a new one; the thread is
\* stopped until it is resumed.
Spawn(c, i) ==
  /\ Calls(c) /\ pc[i] = "absent" /\ UNCHANGED late
  /\ \E q \in Squirrels :
       /\ IF pool # <<>> THEN q = Last(pool) ELSE q \notin live
       /\ IF q \notin live /\ pool # <<>> THEN Fault("squirrel", {i})
          ELSE /\ pool' = IF pool # <<>> THEN Front(pool) ELSE pool
               /\ live' = live \cup {q}
               /\ data' = [data EXCEPT ![i] = [NoData EXCEPT !.squirrel = q]]
               /\ alloc' = alloc \cup {i}
               /\ TheThreads' = [TheThreads EXCEPT ![i] = "data"]
               /\ pc' = [pc EXCEPT ![i] = "spawned"]
               /\ stopped' = stopped \cup {i}
               /\ UNCHANGED <<ret, client, fault>>

\* The kernel has no thread left: the squirrel goes to the pool, where it came from
\* unless it is new.
SpawnFails(c) ==
  /\ Calls(c) /\ pool = <<>> /\ UNCHANGED late
  /\ \E q \in Squirrels \ live : pool' = <<q>> /\ live' = live \cup {q}
  /\ UNCHANGED <<TheThreads, data, alloc, pc, ret, stopped, client, fault>>

\* The script of thread i has run; ret is its output, if it has a value at all.
Execute(i) ==
  /\ Runs(i, "spawned")
  /\ \E r \in Outputs : ret' = [ret EXCEPT ![i] = r] /\ (r = "garbage" => i \in NoReturn)
  /\ pc' = [pc EXCEPT ![i] = "ran"]
  /\ UNCHANGED <<TheThreads, data, alloc, stopped, pool, live, client, late, fault>>

\* Mutant: a thread that is waited for cleans up after itself all the same.
TestWaitedNot(i) ==
  /\ Runs(i, "ran")
  /\ pool' = Append(pool, data[i].squirrel)
  /\ pc' = [pc EXCEPT ![i] = "put"]
  /\ UNCHANGED <<TheThreads, data, alloc, ret, stopped, live, client, late, fault>>

\* The end of Squirrel_Thread: a thread nobody waits for puts its squirrel in the
\* pool, and then deletes its data (and leaves the entry of TheThreads); another
\* sets terminated, and then its output.
TestWaited(i) ==
  /\ Runs(i, "ran") /\ UNCHANGED late
  /\ IF i \notin alloc THEN Fault("freed", {i})
     ELSE /\ IF data[i].waited
             THEN /\ data' = [data EXCEPT ![i].terminated = TRUE]
                  /\ pc' = [pc EXCEPT ![i] = "flag"]
                  /\ UNCHANGED pool
             ELSE /\ pool' = Append(pool, data[i].squirrel)
                  /\ pc' = [pc EXCEPT ![i] = "put"]
                  /\ UNCHANGED data
          /\ UNCHANGED <<TheThreads, alloc, ret, stopped, live, client, fault>>

DeleteData(i) ==
  /\ Runs(i, "put")
  /\ alloc' = alloc \ {i}
  /\ pc' = [pc EXCEPT ![i] = "over"]
  /\ UNCHANGED <<TheThreads, data, ret, stopped, pool, live, client, late, fault>>

\* Mutant: the output stays behind.
SetNoOutput(i) ==
  /\ Runs(i, "flag")
  /\ pc' = [pc EXCEPT ![i] = "over"]
  /\ UNCHANGED <<TheThreads, data, alloc, ret, stopped, pool, live, client, late, fault>>

SetOutput(i) ==
  /\ Runs(i, "flag") /\ UNCHANGED late
  /\ IF i \notin alloc THEN Fault("freed", {i})
     ELSE /\ data' = [data EXCEPT ![i].output = ret[i]]
          /\ pc' = [pc EXCEPT ![i] = "over"]
          /\ UNCHANGED <<TheThreads, alloc, ret, stopped, pool, live, client, fault>>

-----------------------------------------------------------------------------
\* Thread.hop and Thread.suspend go by the thread id alone.
Hop(c, i) ==
  /\ Calls(c) /\ i \in stopped /\ ~Ended(i)
  /\ stopped' = stopped \ {i}
  /\ UNCHANGED <<TheThreads, data, alloc, pc, ret, pool, live, client, late, fault>>

Suspend(c, i) ==
  /\ Calls(c) /\ Suspends # "none"
  /\ Suspends = "unwaited" => \A d \in Clients : client[d].pc = "one" => i \notin client[d].ids
  /\ pc[i] # "absent" /\ ~Ended(i) /\ i \notin stopped
  /\ stopped' = stopped \cup {i}
  /\ UNCHANGED <<TheThreads, data, alloc, pc, ret, pool, live, client, late, fault>>

-----------------------------------------------------------------------------
Return(c) == client' = [client EXCEPT ![c] = Nobody]

\* Thread.kill: the search of the map leaves a NULL at an id that is not there.
Kill(c, i) ==
  /\ Calls(c) /\ pc[i] # "absent"
  /\ IF TheThreads[i] # "data"
     THEN TheThreads' = [TheThreads EXCEPT ![i] = "null"] /\ UNCHANGED client
     ELSE /\ client' = [client EXCEPT ![c] = [Nobody EXCEPT !.pc = "kill", !.ids = {i}]]
          /\ UNCHANGED TheThreads
  /\ UNCHANGED <<data, alloc, pc, ret, stopped, pool, live, late, fault>>

Step(c, to) == client' = [client EXCEPT ![c].pc = to]

\* kill_thread stops the thread wherever it is.
KillThread(c, i) ==
  /\ At(c, "kill") /\ client[c].ids = {i}
  /\ late' = late \cup {j \in {i} : pc[j] # "spawned"}
  /\ pc' = [pc EXCEPT ![i] = IF pc[i] = "over" THEN "over" ELSE "killed"]
  /\ stopped' = stopped \ {i}
  /\ Step(c, "test")
  /\ UNCHANGED <<TheThreads, data, alloc, ret, pool, live, fault>>

\* A thread that is waited for is terminated now; the data of another are deleted.
KillTest(c, i) ==
  /\ At(c, "test") /\ client[c].ids = {i} /\ UNCHANGED late
  /\ IF i \notin alloc THEN Fault("freed", {i})
     ELSE /\ IF data[i].waited
             THEN data' = [data EXCEPT ![i].terminated = TRUE] /\ Return(c)
             ELSE UNCHANGED data /\ Step(c, "delete")
          /\ UNCHANGED <<TheThreads, alloc, pc, ret, stopped, pool, live, fault>>

\* Mutant: the squirrel of a killed thread goes to the pool, too.
KillPuts(c, i) ==
  /\ At(c, "delete") /\ client[c].ids = {i} /\ i \in alloc
  /\ pool' = Append(pool, data[i].squirrel)
  /\ live' = live \ {data[i].squirrel} /\ alloc' = alloc \ {i}
  /\ Step(c, "erase")
  /\ UNCHANGED <<TheThreads, data, pc, ret, stopped, late, fault>>

\* delete thread->squirrel and delete thread.
KillDelete(c, i) ==
  /\ At(c, "delete") /\ client[c].ids = {i} /\ UNCHANGED late
  /\ IF i \notin alloc THEN Fault("freed", {i})
     ELSE /\ live' = live \ {data[i].squirrel} /\ alloc' = alloc \ {i}
          /\ Step(c, "erase")
          /\ UNCHANGED <<TheThreads, data, pc, ret, stopped, pool, fault>>

KillErase(c, i) ==
  /\ At(c, "erase") /\ client[c].ids = {i}
  /\ TheThreads' = [TheThreads EXCEPT ![i] = "absent"]
  /\ Return(c)
  /\ UNCHANGED <<data, alloc, pc, ret, stopped, pool, live, late, fault>>

-----------------------------------------------------------------------------
\* The threads of S a Thread.waitfor comes too late for, or for the second time.
LateFor(S) ==
  {i \in S : pc[i] # "spawned" \/ \E d \in Clients : Waiting(d) /\ i \in client[d].ids}

\* Mutant: the map has no value for the threads of S any more.
DiscardKeys(S) ==
  /\ live' = live \ {data[i].squirrel : i \in S}
  /\ alloc' = alloc \ S
  /\ TheThreads' = [i \in Ids \ S |-> TheThreads[i]]

\* The data of the threads of S, deleted with their squirrels and map entries.
Discard(S) ==
  /\ live' = live \ {data[i].squirrel : i \in S}
  /\ alloc' = alloc \ S
  /\ TheThreads' = [i \in Ids |-> IF i \in S THEN "absent" ELSE TheThreads[i]]

\* Mutant: the thread is not resumed.
WaitOneStopped(c, i) ==
  /\ "one" \in Modes /\ Calls(c) /\ i \in alloc
  /\ late' = late \cup LateFor({i})
  /\ data' = [data EXCEPT ![i].waited = TRUE]
  /\ client' = [client EXCEPT ![c] = [Nobody EXCEPT !.pc = "one", !.ids = {i}]]
  /\ UNCHANGED <<TheThreads, alloc, pc, ret, stopped, pool, live, fault>>

\* Thread.waitfor number, up to wait_for_thread, which resumes a stopped thread.
WaitOne(c, i) ==
  /\ "one" \in Modes /\ Calls(c) /\ pc[i] # "absent"
  /\ IF TheThreads[i] # "data"
     THEN /\ TheThreads' = [TheThreads EXCEPT ![i] = "absent"]
          /\ UNCHANGED <<data, alloc, pc, ret, stopped, pool, live, client, late, fault>>
     ELSE /\ late' = late \cup LateFor({i})
          /\ IF i \notin alloc THEN Fault("freed", {i})
             ELSE /\ data' = [data EXCEPT ![i].waited = TRUE]
                  /\ stopped' = stopped \ {i}
                  /\ client' = [client EXCEPT ![c] = [Nobody EXCEPT !.pc = "one", !.ids = {i}]]
                  /\ UNCHANGED <<TheThreads, alloc, pc, ret, pool, live, fault>>

\* wait_for_thread has returned: only a thread with an output is disposed of.
OneDone(c, i) ==
  /\ At(c, "one") /\ client[c].ids = {i} /\ Ended(i) /\ UNCHANGED late
  /\ IF i \notin alloc THEN Fault("freed", {i})
     ELSE IF data[i].output = "garbage" THEN Fault("garbage", {i})
     ELSE /\ IF data[i].output = "value" THEN Discard({i})
                                         ELSE UNCHANGED <<TheThreads, alloc, live>>
          /\ Return(c)
          /\ UNCHANGED <<data, pc, ret, stopped, pool, fault>>

\* Thread.waitfor "first or "all: every thread is told that it is waited for.
WaitSeveral(c, mode, S) ==
  /\ mode \in Modes /\ Calls(c) /\ \A i \in S : pc[i] # "absent"
  /\ late' = late \cup LateFor(S)
  /\ IF \E i \in S : TheThreads[i] # "data"
     THEN Fault("null", {i \in S : TheThreads[i] # "data"})
     ELSE IF ~(S \subseteq alloc) THEN Fault("freed", S \ alloc)
     ELSE /\ data' = [i \in Ids |-> IF i \in S THEN [data[i] EXCEPT !.waited = TRUE] ELSE data[i]]
          /\ client' = [client EXCEPT ![c] = [Nobody EXCEPT !.pc = mode, !.ids = S]]
          /\ UNCHANGED <<TheThreads, alloc, pc, ret, stopped, pool, live, fault>>

Unwaited(S) == [i \in Ids |-> IF i \in S THEN [data[i] EXCEPT !.waited = FALSE] ELSE data[i]]

\* A step of the loop of "first that finds thread i terminated.
PollFirst(c, i) ==
  /\ At(c, "first") /\ i \in client[c].ids /\ UNCHANGED late
  /\ IF i \notin alloc THEN Fault("freed", {i})
     ELSE /\ data[i].terminated
          /\ client' = [client EXCEPT ![c].pc = "done", ![c].over = i]
          /\ UNCHANGED <<TheThreads, data, alloc, pc, ret, stopped, pool, live, fault>>

\* Nobody waits any more; what is returned was never given a value if the thread
\* has no output.
FirstDone(c) ==
  LET S == client[c].ids
      i == client[c].over
  IN /\ At(c, "done") /\ UNCHANGED late
     /\ IF ~(S \subseteq alloc) THEN Fault("freed", S \ alloc)
        ELSE IF data[i].output = "NULL" THEN Fault("unset", {i})
        ELSE IF data[i].output = "garbage" THEN Fault("garbage", {i})
        ELSE /\ data' = Unwaited(S)
             /\ Discard({i})
             /\ Return(c)
             /\ UNCHANGED <<pc, ret, stopped, pool, fault>>

\* Mutant: a thread stays terminated, and is counted again.
PollAllTwice(c, i) ==
  /\ At(c, "all") /\ i \in client[c].ids
  /\ client[c].count < Cardinality(client[c].ids)
  /\ data[i].terminated
  /\ client' = [client EXCEPT ![c].count = @ + 1]
  /\ UNCHANGED <<TheThreads, data, alloc, pc, ret, stopped, pool, live, late, fault>>

\* A step of the loop of "all that finds thread i terminated: it is counted.
PollAll(c, i) ==
  /\ At(c, "all") /\ i \in client[c].ids /\ UNCHANGED late
  /\ client[c].count < Cardinality(client[c].ids)
  /\ IF i \notin alloc THEN Fault("freed", {i})
     ELSE /\ data[i].terminated
          /\ data' = [data EXCEPT ![i].terminated = FALSE]
          /\ client' = [client EXCEPT ![c].count = @ + 1]
          /\ UNCHANGED <<TheThreads, alloc, pc, ret, stopped, pool, live, fault>>

\* All are counted: the outputs that are there now make up the list.
AllDone(c) ==
  LET S   == client[c].ids
      has == {i \in S : data[i].output # "NULL"}
  IN /\ At(c, "all") /\ client[c].count = Cardinality(S) /\ UNCHANGED late
     /\ IF ~(S \subseteq alloc) THEN Fault("freed", S \ alloc)
        ELSE IF \E i \in has : data[i].output = "garbage"
        THEN Fault("garbage", {i \in has : data[i].output = "garbage"})
        ELSE /\ data' = Unwaited(S)
             /\ Discard(has)
             /\ Return(c)
             /\ UNCHANGED <<pc, ret, stopped, pool, fault>>

-----------------------------------------------------------------------------
Over == fault # NoFault /\ UNCHANGED vars

Thread(i) == Execute(i) \/ TestWaited(i) \/ DeleteData(i) \/ SetOutput(i)

Starts(c) ==
  \/ \E i \in Ids : Spawn(c, i) \/ Hop(c, i) \/ Suspend(c, i) \/ Kill(c, i) \/ WaitOne(c, i)
  \/ \E mode \in {"first", "all"}, S \in SUBSET Ids : Cardinality(S) > 1 /\ WaitSeveral(c, mode, S)
  \/ SpawnFails(c)

GoesOn(c) ==
  \/ \E i \in Ids : KillThread(c, i) \/ KillTest(c, i) \/ KillDelete(c, i) \/ KillErase(c, i)
  \/ \E i \in Ids : OneDone(c, i) \/ PollFirst(c, i) \/ PollAll(c, i)
  \/ FirstDone(c) \/ AllDone(c)

Next ==
  \/ \E i \in Ids : Thread(i)
  \/ \E c \in Clients : Starts(c) \/ GoesOn(c)
  \/ Over

Spec == Init /\ [][Next]_vars

\* A thread that is not stopped gets on, and wait_for_thread returns.
FairSpec ==
  /\ Spec
  /\ \A i \in Ids : WF_vars(Thread(i))
  /\ \A c \in Clients, i \in Ids : WF_vars(OneDone(c, i))

-----------------------------------------------------------------------------
(* No thread and no primitive follows an entry of TheThreads to data that are
   deleted or never were, unless the thread had ended, or was killed or waited for,
   before it was killed or waited for: whatever happens to other threads, nothing
   happens to its data.  No squirrel is used after its deletion while no thread is
   late.  A pointer that was never given a value is followed only for a thread that
   runs a block or ended in an exception (Threading.cpp:34); "first returns one
   only for a thread without an output, or whose output is not yet written. *)
NoStaleUse ==
  /\ fault.what \in {"freed", "null"} => fault.ids \subseteq late
  /\ fault.what = "squirrel" => late # {}
  /\ fault.what = "garbage" => fault.ids \subseteq NoReturn
  /\ fault.what = "unset" =>
       \A i \in fault.ids : pc[i] \in {"flag", "killed"} \/ ret[i] = "NULL"

(* A squirrel has one owner: the pool holds it once and alive, ready for the
   next thread, or a thread that has not ended runs on it and nobody else does.
   Put: "Make a Squirrel ready to be reused". *)
SquirrelsOwned ==
  LET running == {i \in Ids : pc[i] \in {"spawned", "ran"}}
  IN late = {} =>
       /\ Range(pool) \subseteq live /\ IsInjective(pool)
       /\ \A i \in running : data[i].squirrel \in live \ Range(pool)
       /\ \A i, j \in running : data[i].squirrel = data[j].squirrel => i = j

Delivered(i) == pc[i] = "over" /\ data[i].output = ret[i]

(* "In case another thread is waiting, the output of the function will be
   returned to the Thread.waitfor primitive": a wait that none of its threads is
   late for ends with the output of the thread, for one and for "first; "when all is
   used, the primitive will wait for the end of all the threads before producing a
   list" of their outputs, none counted twice for another.  Left out are the threads
   that were killed, and for "all those that have set terminated but not yet output
   (Threading.cpp:89-90): OutputsDelivered. *)
WaitsDeliver ==
  [][\A c \in Clients :
       Waiting(c) /\ client'[c].pc = "idle" /\ client[c].ids \cap late = {} =>
         /\ client[c].pc = "one" => \A i \in client[c].ids : Delivered(i) \/ pc[i] = "killed"
         /\ client[c].pc = "done" => client[c].over \in client[c].ids /\ Delivered(client[c].over)
         /\ client[c].pc = "all" =>
              \A i \in client[c].ids : Delivered(i) \/ pc[i] \in {"killed", "flag"}]_vars

(* The same for "all without the exception: what a thread outputs is in the list. *)
OutputsDelivered ==
  [][\A c \in Clients :
       client[c].pc = "all" /\ client'[c].pc = "idle" /\ client[c].ids \cap late = {} =>
         \A i \in client[c].ids : pc[i] = "killed" \/ data[i].output = ret[i]]_vars

(* "Output a list of the thread ids of all the running threads": Thread.hoping
   lists the keys of TheThreads, so none may be of a thread that has ended. *)
HopingListsRunning == \A i \in Ids : TheThreads[i] # "absent" => ~Ended(i)

(* Thread.waitfor of one thread returns, be the thread started or not, suspended
   before, killed meanwhile, or already ended, unless the program ends by a fault. *)
WaitReturns ==
  \A c \in Clients : client[c].pc = "one" ~> client[c].pc # "one" \/ fault # NoFault
=============================================================================
