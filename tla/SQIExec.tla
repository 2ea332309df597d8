------------------------------- MODULE SQIExec -------------------------------
(***************************************************************************)
(* exec.wait and exec.bg of the Exec add-on: a program is loaded while the *)
(* standard output of the interpreter is redirected to a pipe, under the   *)
(* lock of the application; exec.wait reads the pipe to its end and waits  *)
(* for a monitor that waits for the program, exec.bg leaves both to a      *)
(* monitor that calls a function of the script for each line.              *)
(*                                                                         *)
(* Every call has a pipe and a program of its own, named after the call.   *)
(* A program inherits every descriptor that is open when it is loaded, as  *)
(* it must for its standard output.  A line is a record of who wrote it;   *)
(* that fgets splits long lines is left out.                               *)
(***************************************************************************)
EXTENDS Integers, FiniteSets, Sequences, SequencesExt

CONSTANTS
  Waits,      \* the calls of exec.wait, each by a squirrel of its own
  Bgs,        \* the calls of exec.bg
  TTY,        \* what descriptor 1 of the interpreter is at first
  Script,     \* the author of what other squirrels print meanwhile
  MaxLines,   \* bound: how many lines a program writes
  MaxPrints,  \* bound: how many lines the scripts print
  PipeSize,   \* how many lines a pipe holds
  NULL

Calls == Waits \cup Bgs

ASSUME ExecAssumption ==
  /\ Waits \cap Bgs = {} /\ {TTY, Script, NULL} \cap Calls = {}
  /\ MaxLines \in Nat /\ MaxPrints \in Nat /\ PipeSize \in Nat \ {0}

VARIABLES
  pc,       \* how far the squirrel of a call is
  app,      \* the owner of the lock of be_app
  std,      \* descriptors 1 and 2 of the interpreter
  old,      \* the duplicate of them a call has made
  rd, wr,   \* the calls whose pd[0], pd[1] are open in the interpreter
  pipe,     \* the contents of the pipes
  child,    \* the programs: state, descriptors inherited, lines written
  monitor,  \* the monitor threads
  got,      \* the lines read: what is put in the variable, or given to the function
  status,   \* info.status of exec.wait
  prints,   \* the lines scripts have printed
  parent    \* the squirrels that call exec.bg, until their thread ends

vars == <<pc, app, std, old, rd, wr, pipe, child, monitor, got, status, prints, parent>>

Authors == Calls \cup {Script}
Line    == [by : Authors, n : 1..(MaxLines + MaxPrints)]

TypeOK ==
  /\ pc \in [Calls -> {"idle", "piped", "in", "redirected", "loaded", "failed", "out",
                       "read", "join", "done", "exception"}]
  /\ app \in Calls \cup {NULL}
  /\ std \in Calls \cup {TTY}
  /\ old \in [Calls -> Calls \cup {TTY, NULL}]
  /\ rd \in SUBSET Calls /\ wr \in SUBSET Calls
  /\ \A k \in Calls : Range(pipe[k]) \cup Range(got[k]) \subseteq Line /\ Len(pipe[k]) <= PipeSize
  /\ child \in [Calls -> [st : {"none", "stopped", "runs", "over"}, out : Calls \cup {TTY, NULL},
                          wr : SUBSET Calls, n : 0..MaxLines, lines : 0..MaxLines]]
  /\ monitor \in [Calls -> {"none", "ready", "waits", "reads", "over", "stale"}]
  /\ status \in [Waits -> {"unset", "program"}]
  /\ prints \in 0..MaxPrints
  /\ parent \in SUBSET Bgs

NoChild == [st |-> "none", out |-> NULL, wr |-> {}, n |-> 0, lines |-> 0]

Init ==
  /\ pc = [k \in Calls |-> "idle"]
  /\ app = NULL /\ std = TTY
  /\ old = [k \in Calls |-> NULL]
  /\ rd = {} /\ wr = {}
  /\ pipe = [k \in Calls |-> <<>>] /\ got = [k \in Calls |-> <<>>]
  /\ child = [k \in Calls |-> NoChild]
  /\ monitor = [k \in Calls |-> "none"]
  /\ status = [k \in Waits |-> "unset"]
  /\ prints = 0
  /\ parent = Bgs

Go(k, from, to) == pc[k] = from /\ pc' = [pc EXCEPT ![k] = to]

-----------------------------------------------------------------------------
\* pipe(pd), before the lock is taken.
MakePipe(k) ==
  /\ Go(k, "idle", "piped")
  /\ rd' = rd \cup {k} /\ wr' = wr \cup {k}
  /\ UNCHANGED <<app, std, old, pipe, child, monitor, got, status, prints, parent>>

\* Mutant: the critical section is not one.
LockNot(k) ==
  /\ Go(k, "piped", "in")
  /\ app' = k
  /\ UNCHANGED <<std, old, rd, wr, pipe, child, monitor, got, status, prints, parent>>

Lock(k) ==
  /\ app = NULL /\ app' = k
  /\ Go(k, "piped", "in")
  /\ UNCHANGED <<std, old, rd, wr, pipe, child, monitor, got, status, prints, parent>>

\* Mutant: pd[1] stays open in the interpreter.
RedirectOpen(k) ==
  /\ Go(k, "in", "redirected")
  /\ old' = [old EXCEPT ![k] = std]
  /\ std' = k
  /\ UNCHANGED <<app, rd, wr, pipe, child, monitor, got, status, prints, parent>>

\* Mutant: descriptors 1 and 2 are not duplicated first.
RedirectUnsaved(k) ==
  /\ Go(k, "in", "redirected")
  /\ std' = k
  /\ wr' = wr \ {k}
  /\ UNCHANGED <<app, old, rd, pipe, child, monitor, got, status, prints, parent>>

\* dup, dup2 and close: pd[1] lives on as descriptors 1 and 2.
Redirect(k) ==
  /\ Go(k, "in", "redirected")
  /\ old' = [old EXCEPT ![k] = std]
  /\ std' = k
  /\ wr' = wr \ {k}
  /\ UNCHANGED <<app, rd, pipe, child, monitor, got, status, prints, parent>>

\* The ends of pipes a program is given: pd[1] of other calls, what descriptor 1
\* is and what the duplicates are.
Inherited == (wr \cup {std} \cup {old[k] : k \in Calls}) \cap Calls

\* load_image, which leaves the program suspended, or fails.
LoadImage(k) ==
  /\ \/ /\ Go(k, "redirected", "loaded")
        /\ \E m \in 0..MaxLines :
             child' = [child EXCEPT ![k] = [st |-> "stopped", out |-> std, wr |-> Inherited,
                                            n |-> 0, lines |-> m]]
     \/ /\ Go(k, "redirected", "failed")
        /\ UNCHANGED child
  /\ UNCHANGED <<app, std, old, rd, wr, pipe, monitor, got, status, prints, parent>>

\* Mutant: the read end stays open when there is no program.
RestoreKeepsPipe(k) ==
  /\ Go(k, "loaded", "out") \/ Go(k, "failed", "exception")
  /\ std' = old[k] /\ old' = [old EXCEPT ![k] = NULL] /\ app' = NULL
  /\ UNCHANGED <<rd, wr, pipe, child, monitor, got, status, prints, parent>>

\* dup2 of the duplicates, close, Unlock; without a program pd[0] is closed and an
\* exception thrown.
Restore(k) ==
  /\ \/ Go(k, "loaded", "out") /\ rd' = rd
     \/ Go(k, "failed", "exception") /\ rd' = rd \ {k}
  /\ std' = old[k] /\ old' = [old EXCEPT ![k] = NULL] /\ app' = NULL
  /\ UNCHANGED <<wr, pipe, child, monitor, got, status, prints, parent>>

-----------------------------------------------------------------------------
\* exec.wait starts the monitor and the program.
StartWait(k) ==
  /\ k \in Waits /\ Go(k, "out", "read")
  /\ monitor' = [monitor EXCEPT ![k] = "ready"]
  /\ child' = [child EXCEPT ![k].st = "runs"]
  /\ UNCHANGED <<app, std, old, rd, wr, pipe, got, status, prints, parent>>

\* exec.bg starts its monitor and returns.
StartBg(k) ==
  /\ k \in Bgs /\ Go(k, "out", "done")
  /\ monitor' = [monitor EXCEPT ![k] = "ready"]
  /\ UNCHANGED <<app, std, old, rd, wr, pipe, child, got, status, prints, parent>>

\* MonitorBg copies the settings of the squirrel that called exec.bg, which may be
\* gone, and resumes the program.
Attach(k) ==
  /\ k \in Bgs /\ monitor[k] = "ready"
  /\ monitor' = [monitor EXCEPT ![k] = IF k \in parent THEN "reads" ELSE "stale"]
  /\ child' = IF k \in parent THEN [child EXCEPT ![k].st = "runs"] ELSE child
  /\ UNCHANGED <<pc, app, std, old, rd, wr, pipe, got, status, prints, parent>>

Reads(k) == pc[k] = "read" \/ monitor[k] = "reads"

\* fgets, and the line goes to the end of the list, or to the function.
Read(k) ==
  /\ Reads(k) /\ pipe[k] # <<>>
  /\ got' = [got EXCEPT ![k] = Append(@, Head(pipe[k]))]
  /\ pipe' = [pipe EXCEPT ![k] = Tail(@)]
  /\ UNCHANGED <<pc, app, std, old, rd, wr, child, monitor, status, prints, parent>>

\* A pipe ends when nobody can write to it any more.
AtEnd(k) ==
  /\ pipe[k] = <<>> /\ k \notin Inherited
  /\ \A j \in Calls : child[j].st \in {"stopped", "runs"} => k \notin child[j].wr

\* exec.wait closes the pipe after the monitor is joined.
EndOfFile(k) ==
  /\ AtEnd(k) /\ Go(k, "read", "join")
  /\ UNCHANGED <<app, std, old, rd, wr, pipe, child, monitor, got, status, prints, parent>>

\* wait_for_thread(monitor), fclose, the variable set and info.status output.
Join(k) ==
  /\ monitor[k] = "over" /\ Go(k, "join", "done")
  /\ rd' = rd \ {k}
  /\ UNCHANGED <<app, std, old, wr, pipe, child, monitor, got, status, prints, parent>>

\* MonitorBg at the end of the pipe: fclose, and its squirrel is deleted.
BgOver(k) ==
  /\ monitor[k] = "reads" /\ AtEnd(k)
  /\ monitor' = [monitor EXCEPT ![k] = "over"]
  /\ rd' = rd \ {k}
  /\ UNCHANGED <<pc, app, std, old, wr, pipe, child, got, status, prints, parent>>

\* Monitor: wait_for_thread resumes the program and waits for its end; a program
\* that has ended before is unknown, and info.status stays as it is.
Monitor(k) ==
  /\ k \in Waits /\ monitor[k] = "ready"
  /\ monitor' = [monitor EXCEPT ![k] = IF child[k].st = "over" THEN "over" ELSE "waits"]
  /\ UNCHANGED <<pc, app, std, old, rd, wr, pipe, child, got, status, prints, parent>>

MonitorOver(k) ==
  /\ monitor[k] = "waits" /\ child[k].st = "over"
  /\ monitor' = [monitor EXCEPT ![k] = "over"]
  /\ status' = [status EXCEPT ![k] = "program"]
  /\ UNCHANGED <<pc, app, std, old, rd, wr, pipe, child, got, prints, parent>>

-----------------------------------------------------------------------------
\* The surroundings: what is written to descriptor 1 goes to a pipe when there is
\* room, or to the terminal.
Put(line, to) ==
  IF to \in Calls
  THEN Len(pipe[to]) < PipeSize /\ pipe' = [pipe EXCEPT ![to] = Append(@, line)]
  ELSE UNCHANGED pipe

\* A program writes its lines, may close its outputs, and ends.
Write(k) ==
  /\ child[k].st = "runs" /\ child[k].n < child[k].lines
  /\ child' = [child EXCEPT ![k].n = @ + 1]
  /\ Put([by |-> k, n |-> child[k].n + 1], child[k].out)
  /\ UNCHANGED <<pc, app, std, old, rd, wr, monitor, got, status, prints, parent>>

CloseOutput(k) ==
  /\ child[k].st = "runs" /\ child[k].n = child[k].lines /\ child[k].out # NULL
  /\ child' = [child EXCEPT ![k].out = NULL, ![k].wr = @ \ {child[k].out}]
  /\ UNCHANGED <<pc, app, std, old, rd, wr, pipe, monitor, got, status, prints, parent>>

Exit(k) ==
  /\ child[k].st = "runs" /\ child[k].n = child[k].lines
  /\ child' = [child EXCEPT ![k].st = "over"]
  /\ UNCHANGED <<pc, app, std, old, rd, wr, pipe, monitor, got, status, prints, parent>>

\* Another squirrel prints on descriptor 1, whatever that is.
ScriptPrints ==
  /\ prints < MaxPrints
  /\ prints' = prints + 1
  /\ Put([by |-> Script, n |-> prints + 1], std)
  /\ UNCHANGED <<pc, app, std, old, rd, wr, child, monitor, got, status, parent>>

\* The thread that called exec.bg ends, and its squirrel with it.
ParentEnds(k) ==
  /\ k \in parent /\ pc[k] \in {"done", "exception"}
  /\ parent' = parent \ {k}
  /\ UNCHANGED <<pc, app, std, old, rd, wr, pipe, child, monitor, got, status, prints>>

-----------------------------------------------------------------------------
Step(k) ==
  \/ MakePipe(k) \/ Lock(k) \/ Redirect(k) \/ LoadImage(k) \/ Restore(k)
  \/ StartWait(k) \/ StartBg(k) \/ Attach(k) \/ Read(k) \/ EndOfFile(k) \/ Join(k) \/ BgOver(k)

Program(k) == Write(k) \/ CloseOutput(k) \/ Exit(k)

Next ==
  \/ \E k \in Calls : Step(k) \/ Monitor(k) \/ MonitorOver(k) \/ Program(k) \/ ParentEnds(k)
  \/ ScriptPrints

Spec == Init /\ [][Next]_vars

\* The threads of the interpreter run on, and every program ends.
FairSpec ==
  /\ Spec
  /\ \A k \in Calls :
       /\ WF_vars(Step(k)) /\ WF_vars(Monitor(k)) /\ WF_vars(MonitorOver(k)) /\ WF_vars(Program(k))

-----------------------------------------------------------------------------
\* The places in got[k] of the lines that k's program wrote.
OwnAt(k) == {i \in DOMAIN got[k] : got[k][i].by = k}

(* "This variable will contain a list of all the outputs from the program": the
   lines of the program, in order, none missing and all in the end, and of no other
   program, however the redirections of several calls interleave.  (Lines that
   another squirrel prints while descriptor 1 is redirected are among them.) *)
OutputExact ==
  \A k \in Calls :
    /\ \A i \in DOMAIN got[k] : got[k][i].by \in {k, Script}
    /\ \A i, j \in OwnAt(k) : i < j => got[k][i].n < got[k][j].n
    /\ \A i \in OwnAt(k) : \A x \in 1..(got[k][i].n - 1) : \E j \in OwnAt(k) : got[k][j].n = x
    /\ pc[k] = "done" /\ k \in Waits =>
         child[k].st = "over" /\ {got[k][i].n : i \in OwnAt(k)} = 1..child[k].lines

(* Outside the critical section the interpreter prints where it always did, and
   when all is over no descriptor is left open, also when no program could be
   loaded. *)
DescriptorsRestored ==
  /\ app = NULL => std = TTY
  /\ \A k \in Calls :
       pc[k] = "exception" \/ (pc[k] = "done" /\ monitor[k] = "over") => k \notin rd \cup wr

(* The primitive outputs "the error code returned by the programmed executed": fails,
   as the program may end before the monitor waits for it. *)
StatusDelivered == \A k \in Waits : pc[k] = "done" => status[k] = "program"

(* ... and it does return, as no program blocks for ever on a full pipe and every
   pipe comes to its end; exec.bg hands every line to the function.  Both hold
   unless a caller of exec.bg ends before its monitor has looked at it: then a
   program stays suspended, with the ends of pipes it inherited. *)
CallsReturn ==
  LET stale == \E k \in Bgs : monitor[k] = "stale"
  IN \A k \in Calls :
       /\ pc[k] = "piped" ~> pc[k] \in {"done", "exception"} \/ stale
       /\ monitor[k] = "ready" ~> monitor[k] = "over" \/ stale
=============================================================================
