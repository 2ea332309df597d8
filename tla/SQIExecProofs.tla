--------------------------- MODULE SQIExecProofs ---------------------------
(***************************************************************************)
(* Proofs about SQIExec, for any number of calls, lengths of outputs and   *)
(* of pipes.  The lock of be_app lets one call at a time redirect the      *)
(* standard output, so that a program writes to the pipe of its own call   *)
(* or nowhere; what was read and what is still in the pipe are then, but   *)
(* for the lines of scripts, what the program has written.                 *)
(***************************************************************************)
EXTENDS SQIExec, SequenceTheorems, TLAPS

Programs == [st : {"none", "stopped", "runs", "over"}, out : Calls \cup {TTY, NULL},
             wr : SUBSET Calls, n : 0..MaxLines, lines : 0..MaxLines]

TypeInv ==
  /\ pc \in [Calls -> {"idle", "piped", "in", "redirected", "loaded", "failed", "out",
                       "read", "join", "done", "exception"}]
  /\ app \in Calls \cup {NULL}
  /\ std \in Calls \cup {TTY}
  /\ old \in [Calls -> Calls \cup {TTY, NULL}]
  /\ rd \in SUBSET Calls /\ wr \in SUBSET Calls
  /\ pipe \in [Calls -> Seq(Line)] /\ got \in [Calls -> Seq(Line)]
  /\ \A k \in Calls : Len(pipe[k]) <= PipeSize
  /\ child \in [Calls -> Programs]
  /\ monitor \in [Calls -> {"none", "ready", "waits", "reads", "over", "stale"}]
  /\ status \in [Waits -> {"unset", "program"}]
  /\ prints \in 0..MaxPrints
  /\ parent \in SUBSET Bgs

\* Descriptor 1 is the pipe of the call that holds the lock, between its Redirect
\* and its Restore, and the terminal otherwise.
Redirects(k) == pc[k] \in {"redirected", "loaded", "failed"}

Critical ==
  /\ \A k \in Calls : (app = k) <=> (pc[k] = "in" \/ Redirects(k))
  /\ std # TTY => Redirects(std)
  /\ \A k \in Calls : Redirects(k) => std = k /\ old[k] = TTY

\* The ends of its pipe a call has open.
EndsOpen ==
  /\ \A k \in Calls : k \in wr => pc[k] \in {"piped", "in"}
  /\ \A k \in Calls :
       pc[k] = "exception" \/ (pc[k] = "done" /\ k \in Waits) \/ (monitor[k] = "over" /\ k \in Bgs)
         => k \notin rd

\* How far the program and the monitor of a call are, given how far the call is.
Started ==
  \A k \in Calls :
    /\ pc[k] \in {"idle", "piped", "in", "redirected", "failed", "exception"} =>
         child[k].st = "none" /\ child[k].n = 0 /\ monitor[k] = "none"
    /\ pc[k] \in {"loaded", "out"} => child[k].st = "stopped" /\ monitor[k] = "none"
    /\ pc[k] \in {"read", "join", "done"} => child[k].st # "none"
    /\ pc[k] \in {"read", "join", "done"} /\ k \in Waits => child[k].st \in {"runs", "over"}
    /\ (monitor[k] = "waits" => k \in Waits) /\ (monitor[k] = "reads" => k \in Bgs)

\* A program has its own pipe as its output until it has written all its lines.
Outputs ==
  \A k \in Calls :
    /\ child[k].n <= child[k].lines
    /\ child[k].st # "none" => child[k].out \in {k, NULL}
    /\ child[k].out = k => k \in child[k].wr
    /\ child[k].st # "none" /\ child[k].out = NULL => child[k].n = child[k].lines
    /\ child[k].st = "over" => child[k].n = child[k].lines

\* exec.wait reads to the end of the pipe, and is done when the program is over.
Finished ==
  \A k \in Waits :
    /\ pc[k] \in {"join", "done"} => pipe[k] = <<>> /\ child[k].n = child[k].lines
    /\ monitor[k] = "over" \/ pc[k] = "done" => child[k].st = "over"

\* In s are m lines of k's program, those it wrote first, in order, and lines of scripts.
Exact(s, k, m) ==
  /\ \A i \in DOMAIN s : s[i].by \in {k, Script}
  /\ \A i, j \in DOMAIN s : i < j /\ s[i].by = k /\ s[j].by = k => s[i].n < s[j].n
  /\ \A i \in DOMAIN s : s[i].by = k => s[i].n \in 1..m
  /\ \A x \in 1..m : \E i \in DOMAIN s : s[i].by = k /\ s[i].n = x

Sent(k) == got[k] \o pipe[k]

LinesExact == \A k \in Calls : Exact(Sent(k), k, child[k].n)

IInv ==
  /\ TypeInv
  /\ Critical /\ EndsOpen /\ Started /\ Outputs /\ Finished /\ LinesExact
-----------------------------------------------------------------------------
\* A line that is put at the end of the pipe, or read from its front.
LEMMA PutLast ==
  ASSUME NEW S, NEW s \in Seq(S), NEW t \in Seq(S), NEW e \in S
  PROVE  s \o Append(t, e) = Append(s \o t, e)
OBVIOUS

LEMMA TakeFirst ==
  ASSUME NEW S, NEW s \in Seq(S), NEW t \in Seq(S), t # <<>>
  PROVE  /\ Append(s, Head(t)) \o Tail(t) = s \o t
         /\ Head(t) \in S /\ Tail(t) \in Seq(S) /\ Len(Tail(t)) <= Len(t)
<1>1. /\ Head(t) \in S /\ Tail(t) \in Seq(S) /\ Len(Tail(t)) = Len(t) - 1
      /\ t = <<Head(t)>> \o Tail(t)
  BY HeadTailProperties
<1>2. Append(s, Head(t)) = s \o <<Head(t)>> BY <1>1, AppendIsConcat
<1>3. (s \o <<Head(t)>>) \o Tail(t) = s \o (<<Head(t)>> \o Tail(t))
  BY <1>1, ConcatAssociative
<1>4. QED BY <1>1, <1>2, <1>3

LEMMA ExactOwn ==
  ASSUME NEW k, NEW s \in Seq(Line), NEW m \in Nat, NEW e \in Line,
         Exact(s, k, m), e.by = k, e.n = m + 1
  PROVE  Exact(Append(s, e), k, m + 1)
<1> DEFINE t == Append(s, e)
<1>1. /\ Len(s) \in Nat /\ DOMAIN s = 1..Len(s) /\ DOMAIN t = 1..(Len(s) + 1)
      /\ \A i \in 1..Len(s) : t[i] = s[i]
      /\ t[Len(s) + 1] = e
  OBVIOUS
<1> HIDE DEF t
<1>2. DOMAIN t = DOMAIN s \cup {Len(s) + 1} BY <1>1
<1>3. \A i \in DOMAIN t : (i \in DOMAIN s /\ t[i] = s[i]) \/ (i = Len(s) + 1 /\ t[i] = e)
  BY <1>2, <1>1
<1>4. \A i \in DOMAIN t : t[i].by \in {k, Script} BY <1>3 DEF Exact
<1>5. ASSUME NEW i \in DOMAIN t, NEW j \in DOMAIN t, i < j, t[i].by = k, t[j].by = k
      PROVE  t[i].n < t[j].n
  <2>1. i \in DOMAIN s /\ t[i] = s[i] BY <1>1, <1>3, <1>5
  <2>2. CASE j \in DOMAIN s /\ t[j] = s[j] BY <1>5, <2>1, <2>2 DEF Exact
  <2>3. CASE t[j] = e
    <3>1. s[i].n \in 1..m BY <1>5, <2>1 DEF Exact
    <3>2. QED BY <2>1, <2>3, <3>1
  <2>4. QED BY <1>3, <2>2, <2>3
<1>6. \A i \in DOMAIN t : t[i].by = k => t[i].n \in 1..(m + 1) BY <1>3 DEF Exact
<1>7. \A x \in 1..(m + 1) : \E i \in DOMAIN t : t[i].by = k /\ t[i].n = x
  <2> TAKE x \in 1..(m + 1)
  <2>1. CASE x = m + 1 BY <1>1, <2>1
  <2>2. CASE x \in 1..m
    <3>1. PICK i \in DOMAIN s : s[i].by = k /\ s[i].n = x BY <2>2 DEF Exact
    <3>2. QED BY <1>1, <3>1
  <2>3. QED BY <2>1, <2>2
<1>8. QED BY <1>4, <1>5, <1>6, <1>7 DEF Exact, t

LEMMA ExactOther ==
  ASSUME NEW k, NEW s \in Seq(Line), NEW m \in Nat, NEW e \in Line,
         Exact(s, k, m), e.by = Script, Script # k
  PROVE  Exact(Append(s, e), k, m)
<1> DEFINE t == Append(s, e)
<1>1. /\ Len(s) \in Nat /\ DOMAIN s = 1..Len(s) /\ DOMAIN t = 1..(Len(s) + 1)
      /\ \A i \in 1..Len(s) : t[i] = s[i]
      /\ t[Len(s) + 1] = e
  OBVIOUS
<1> HIDE DEF t
<1>2. DOMAIN t = DOMAIN s \cup {Len(s) + 1} BY <1>1
<1>3. \A i \in DOMAIN t : (i \in DOMAIN s /\ t[i] = s[i]) \/ (i = Len(s) + 1 /\ t[i] = e)
  BY <1>2, <1>1
<1>4. \A i \in DOMAIN t : t[i].by = k => i \in DOMAIN s /\ t[i] = s[i] BY <1>3
<1>5. \A i \in DOMAIN t : t[i].by \in {k, Script} BY <1>3 DEF Exact
<1>6. \A x \in 1..m : \E i \in DOMAIN t : t[i].by = k /\ t[i].n = x
  <2> TAKE x \in 1..m
  <2>1. PICK i \in DOMAIN s : s[i].by = k /\ s[i].n = x BY DEF Exact
  <2>2. QED BY <1>1, <2>1
<1>7. QED BY <1>4, <1>5, <1>6 DEF Exact, t

\* The beginning of such a sequence has the lines written first, none missing.
LEMMA ExactPrefix ==
  ASSUME NEW k, NEW s \in Seq(Line), NEW t \in Seq(Line), NEW m \in Nat, Exact(s \o t, k, m)
  PROVE  /\ \A i \in DOMAIN s : s[i].by \in {k, Script}
         /\ \A i, j \in DOMAIN s : i < j /\ s[i].by = k /\ s[j].by = k => s[i].n < s[j].n
         /\ \A i \in DOMAIN s : s[i].by = k =>
              \A x \in 1..(s[i].n - 1) : \E j \in DOMAIN s : s[j].by = k /\ s[j].n = x
<1> DEFINE u == s \o t
<1>1. /\ Len(s) \in Nat /\ Len(t) \in Nat
      /\ DOMAIN s = 1..Len(s) /\ DOMAIN u = 1..(Len(s) + Len(t))
      /\ \A i \in 1..Len(s) : u[i] = s[i]
  OBVIOUS
<1>2. Exact(u, k, m) OBVIOUS
<1> HIDE DEF u
<1>3. \A i \in DOMAIN s : i \in DOMAIN u /\ u[i] = s[i] BY <1>1
<1>4. ASSUME NEW i \in DOMAIN s, s[i].by = k, NEW x \in 1..(s[i].n - 1)
      PROVE  \E j \in DOMAIN s : s[j].by = k /\ s[j].n = x
  <2>1. s[i].n \in 1..m BY <1>2, <1>3, <1>4 DEF Exact
  <2>2. x \in 1..m /\ x < s[i].n BY <1>4, <2>1
  <2>3. PICK j \in DOMAIN u : u[j].by = k /\ u[j].n = x BY <1>2, <2>2 DEF Exact
  <2>4. ~(i < j) BY <1>2, <1>3, <1>4, <2>1, <2>2, <2>3 DEF Exact
  <2>5. j \in DOMAIN s BY <1>1, <2>3, <2>4
  <2>6. QED BY <1>3, <2>3, <2>5
<1>5. QED BY <1>2, <1>3, <1>4 DEF Exact

\* What the assignments to child leave, field by field.
LEMMA ChildGoes ==
  ASSUME child \in [Calls -> Programs], NEW k \in Calls, NEW x \in {"runs", "over"},
         child' = [child EXCEPT ![k].st = x]
  PROVE  /\ child' \in [Calls -> Programs]
         /\ \A j \in Calls : /\ child'[j].out = child[j].out /\ child'[j].wr = child[j].wr
                             /\ child'[j].n = child[j].n /\ child'[j].lines = child[j].lines
                             /\ j # k => child'[j] = child[j]
         /\ child'[k].st = x
BY DEF Programs

LEMMA ChildWrites ==
  ASSUME child \in [Calls -> Programs], NEW k \in Calls, child[k].n + 1 \in 0..MaxLines,
         child' = [child EXCEPT ![k].n = @ + 1]
  PROVE  /\ child' \in [Calls -> Programs]
         /\ \A j \in Calls : /\ child'[j].out = child[j].out /\ child'[j].wr = child[j].wr
                             /\ child'[j].st = child[j].st /\ child'[j].lines = child[j].lines
                             /\ j # k => child'[j] = child[j]
         /\ child'[k].n = child[k].n + 1
BY DEF Programs

LEMMA ChildCloses ==
  ASSUME child \in [Calls -> Programs], NEW k \in Calls, NEW x,
         child' = [child EXCEPT ![k].out = NULL, ![k].wr = @ \ {x}]
  PROVE  /\ child' \in [Calls -> Programs]
         /\ \A j \in Calls : /\ child'[j].st = child[j].st
                             /\ child'[j].n = child[j].n /\ child'[j].lines = child[j].lines
                             /\ j # k => child'[j] = child[j]
         /\ child'[k].out = NULL
<1>1. PICK c : c = [child EXCEPT ![k].out = NULL] OBVIOUS
<1>2. /\ c \in [Calls -> Programs]
      /\ \A j \in Calls : /\ c[j].st = child[j].st /\ c[j].wr = child[j].wr
                          /\ c[j].n = child[j].n /\ c[j].lines = child[j].lines
                          /\ j # k => c[j] = child[j]
      /\ c[k].out = NULL
  BY <1>1 DEF Programs
<1>3. PICK y : y = c[k].wr \ {x} OBVIOUS
<1>4. child' = [c EXCEPT ![k].wr = y] BY <1>1, <1>3
<1>5. y \in SUBSET Calls BY <1>2, <1>3 DEF Programs
<1>6. PICK p : p = [c[k] EXCEPT !.wr = y] OBVIOUS
<1>7. /\ p \in Programs
      /\ p.st = c[k].st /\ p.out = c[k].out /\ p.n = c[k].n /\ p.lines = c[k].lines
  <2>1. c[k] \in Programs BY <1>2
  <2>2. QED BY <1>5, <1>6, <2>1 DEF Programs
<1>8. child' = [c EXCEPT ![k] = p] BY <1>4, <1>6
<1>9. QED BY <1>2, <1>7, <1>8

-----------------------------------------------------------------------------
LEMMA InitInv == Init => IInv
<1> SUFFICES ASSUME Init PROVE IInv OBVIOUS
<1>1. NoChild \in Programs /\ NoChild.st = "none" /\ NoChild.n = 0 /\ NoChild.lines = 0 /\ NoChild.out = NULL
  BY ExecAssumption DEF NoChild, Programs
<1> HIDE DEF NoChild
<1>2. TypeInv BY <1>1, ExecAssumption DEF Init, TypeInv
<1>3. Critical /\ EndsOpen /\ Started
  BY <1>1, ExecAssumption DEF Init, Critical, Redirects, EndsOpen, Started, Calls
<1>4. Outputs /\ Finished BY <1>1, ExecAssumption DEF Init, Outputs, Finished, Calls
<1>5. LinesExact
  <2> SUFFICES ASSUME NEW k \in Calls PROVE Exact(Sent(k), k, child[k].n) BY DEF LinesExact
  <2>1. Sent(k) = <<>> /\ child[k].n = 0 BY <1>1 DEF Init, Sent
  <2>2. QED BY <2>1 DEF Exact
<1>6. QED BY <1>2, <1>3, <1>4, <1>5 DEF IInv

LEMMA LinesKept ==
  ASSUME LinesExact, UNCHANGED <<pipe, got>>, \A j \in Calls : child'[j].n = child[j].n
  PROVE  LinesExact'
<1>1. \A j \in Calls : Sent(j)' = Sent(j) BY DEF Sent
<1>2. QED BY <1>1 DEF LinesExact

\* A call up to its Lock; the critical section; its end.
LEMMA BeginKeeps ==
  ASSUME IInv, NEW k \in Calls, MakePipe(k) \/ Lock(k)
  PROVE  IInv'
<1> USE DEF IInv
<1>1. CASE MakePipe(k)
  <2>1. /\ pc[k] = "idle" /\ pc' = [pc EXCEPT ![k] = "piped"]
        /\ rd' = rd \cup {k} /\ wr' = wr \cup {k}
        /\ UNCHANGED <<app, std, old, pipe, child, monitor, got, status, prints, parent>>
    BY <1>1 DEF MakePipe, Go
  <2>2. TypeInv' BY <2>1 DEF TypeInv
  <2>3. Critical' BY <2>1 DEF Critical, Redirects, TypeInv
  <2>4. EndsOpen' BY <2>1 DEF EndsOpen, Started, TypeInv
  <2>5. Started' BY <2>1 DEF Started, TypeInv
  <2>6. Outputs' BY <2>1 DEF Outputs
  <2>7. Finished' BY <2>1, ExecAssumption DEF Finished, TypeInv, Calls
  <2>8. LinesExact' BY <2>1, LinesKept
  <2>9. QED BY <2>2, <2>3, <2>4, <2>5, <2>6, <2>7, <2>8
<1>2. CASE Lock(k)
  <2>1. /\ app = NULL /\ app' = k /\ pc[k] = "piped" /\ pc' = [pc EXCEPT ![k] = "in"]
        /\ UNCHANGED <<std, old, rd, wr, pipe, child, monitor, got, status, prints, parent>>
    BY <1>2 DEF Lock, Go
  <2>2. TypeInv' BY <2>1 DEF TypeInv
  <2>3. Critical' BY <2>1, ExecAssumption DEF Critical, Redirects, TypeInv
  <2>4. EndsOpen' BY <2>1 DEF EndsOpen, Started, TypeInv
  <2>5. Started' BY <2>1 DEF Started, TypeInv
  <2>6. Outputs' BY <2>1 DEF Outputs
  <2>7. Finished' BY <2>1, ExecAssumption DEF Finished, TypeInv, Calls
  <2>8. LinesExact' BY <2>1, LinesKept
  <2>9. QED BY <2>2, <2>3, <2>4, <2>5, <2>6, <2>7, <2>8
<1>3. QED BY <1>1, <1>2

LEMMA RedirectKeeps == ASSUME IInv, NEW k \in Calls, Redirect(k) PROVE IInv'
<1> USE DEF IInv
<1>1. /\ pc[k] = "in" /\ pc' = [pc EXCEPT ![k] = "redirected"]
      /\ old' = [old EXCEPT ![k] = std] /\ std' = k /\ wr' = wr \ {k}
      /\ UNCHANGED <<app, rd, pipe, child, monitor, got, status, prints, parent>>
  BY DEF Redirect, Go
<1>2. app = k /\ \A j \in Calls : ~Redirects(j)
  BY <1>1 DEF Critical, Redirects
<1>3. std = TTY BY <1>2 DEF Critical, TypeInv
<1>4. TypeInv' BY <1>1 DEF TypeInv
<1>5. Critical'
  <2>1. \A j \in Calls : Redirects(j)' <=> j = k BY <1>1, <1>2 DEF Redirects, TypeInv
  <2>2. \A j \in Calls : (app' = j) <=> (pc'[j] = "in" \/ Redirects(j)')
    BY <1>1, <1>2, <2>1 DEF Critical, Redirects, TypeInv
  <2>3. QED BY <1>1, <1>3, <2>1, <2>2 DEF Critical, TypeInv
<1>6. EndsOpen' BY <1>1 DEF EndsOpen, TypeInv
<1>7. Started' BY <1>1 DEF Started, TypeInv
<1>8. Outputs' BY <1>1 DEF Outputs
<1>9. Finished' BY <1>1, ExecAssumption DEF Finished, TypeInv, Calls
<1>10. LinesExact' BY <1>1, LinesKept
<1>11. QED BY <1>4, <1>5, <1>6, <1>7, <1>8, <1>9, <1>10

LEMMA LoadKeeps == ASSUME IInv, NEW k \in Calls, LoadImage(k) PROVE IInv'
<1> USE DEF IInv
<1>1. /\ pc[k] = "redirected" /\ pc' \in {[pc EXCEPT ![k] = "loaded"], [pc EXCEPT ![k] = "failed"]}
      /\ UNCHANGED <<app, std, old, rd, wr, pipe, monitor, got, status, prints, parent>>
  BY DEF LoadImage, Go
<1>2. std = k /\ child[k].st = "none" /\ child[k].n = 0 /\ monitor[k] = "none"
  BY <1>1 DEF Critical, Redirects, Started
<1>3. /\ child' \in [Calls -> Programs]
      /\ \A j \in Calls \ {k} : child'[j] = child[j]
      /\ child'[k].n = 0
      /\ pc'[k] = "loaded" => /\ child'[k].st = "stopped" /\ child'[k].out = k
                              /\ k \in child'[k].wr
      /\ pc'[k] = "failed" => child' = child
  <2>1. CASE child' = child /\ pc' = [pc EXCEPT ![k] = "failed"] BY <1>2, <2>1 DEF TypeInv
  <2>2. ASSUME pc' = [pc EXCEPT ![k] = "loaded"], NEW m \in 0..MaxLines,
               child' = [child EXCEPT ![k] = [st |-> "stopped", out |-> std, wr |-> Inherited,
                                              n |-> 0, lines |-> m]]
        PROVE  /\ child' \in [Calls -> Programs]
               /\ \A j \in Calls \ {k} : child'[j] = child[j]
               /\ child'[k].n = 0
               /\ pc'[k] = "loaded" => /\ child'[k].st = "stopped" /\ child'[k].out = k
                                       /\ k \in child'[k].wr
               /\ pc'[k] = "failed" => child' = child
    <3>1. Inherited \in SUBSET Calls /\ k \in Inherited BY <1>2 DEF Inherited
    <3>2. PICK p : p = [st |-> "stopped", out |-> std, wr |-> Inherited, n |-> 0, lines |-> m] OBVIOUS
    <3>3. /\ p \in Programs /\ p.st = "stopped" /\ p.out = k /\ k \in p.wr /\ p.n = 0
      BY <1>2, <3>1, <3>2, ExecAssumption DEF Programs
    <3>4. child' = [child EXCEPT ![k] = p] BY <2>2, <3>2
    <3>5. QED BY <2>2, <3>3, <3>4 DEF TypeInv
  <2>3. QED BY <2>1, <2>2 DEF LoadImage, Go
<1>4. TypeInv' BY <1>1, <1>3 DEF TypeInv
<1>5. Critical'
  <2>1. \A j \in Calls : Redirects(j)' <=> Redirects(j) BY <1>1 DEF Redirects, TypeInv
  <2>2. \A j \in Calls : (app' = j) <=> (pc'[j] = "in" \/ Redirects(j)')
    BY <1>1, <2>1 DEF Critical, Redirects, TypeInv
  <2>3. std' # TTY => Redirects(std)' BY <1>1, <2>1 DEF Critical, TypeInv
  <2>4. QED BY <1>1, <2>1, <2>2, <2>3 DEF Critical, TypeInv
<1>6. EndsOpen' BY <1>1 DEF EndsOpen, TypeInv
<1>7. /\ pc'[k] \in {"loaded", "failed"} /\ \A j \in Calls \ {k} : pc'[j] = pc[j]
      /\ pc'[k] = "failed" => child'[k].st = "none" /\ child'[k].out = child[k].out
      /\ child'[k].lines \in 0..MaxLines
  BY <1>1, <1>2, <1>3 DEF TypeInv, Programs
<1>8. Started' BY <1>1, <1>2, <1>3, <1>7 DEF Started
<1>9. Outputs'
  <2>1. \A j \in Calls \ {k} : child'[j] = child[j] BY <1>3
  <2>2. child'[k].n <= child'[k].lines BY <1>3, <1>7, ExecAssumption
  <2>3. /\ child'[k].st # "none" => child'[k].out \in {k, NULL}
        /\ child'[k].out = k => k \in child'[k].wr
        /\ child'[k].st # "none" /\ child'[k].out = NULL => child'[k].n = child'[k].lines
        /\ child'[k].st = "over" => child'[k].n = child'[k].lines
    BY <1>2, <1>3, <1>7, ExecAssumption DEF Outputs
  <2>4. QED BY <2>1, <2>2, <2>3 DEF Outputs
<1>10. Finished' BY <1>1, <1>2, <1>3, <1>7, ExecAssumption DEF Finished, Calls
<1>11. LinesExact' BY <1>1, <1>2, <1>3, LinesKept
<1>12. QED BY <1>4, <1>5, <1>6, <1>8, <1>9, <1>10, <1>11

LEMMA RestoreKeeps == ASSUME IInv, NEW k \in Calls, Restore(k) PROVE IInv'
<1> USE DEF IInv
<1>1. /\ \/ pc[k] = "loaded" /\ pc' = [pc EXCEPT ![k] = "out"] /\ rd' = rd
         \/ pc[k] = "failed" /\ pc' = [pc EXCEPT ![k] = "exception"] /\ rd' = rd \ {k}
      /\ std' = old[k] /\ old' = [old EXCEPT ![k] = NULL] /\ app' = NULL
      /\ UNCHANGED <<wr, pipe, child, monitor, got, status, prints, parent>>
  BY DEF Restore, Go
<1>2. /\ pc'[k] \in {"out", "exception"} /\ \A j \in Calls \ {k} : pc'[j] = pc[j]
      /\ pc'[k] = "out" => pc[k] = "loaded"
      /\ pc'[k] = "exception" => pc[k] = "failed" /\ k \notin rd'
      /\ rd' \subseteq rd /\ pc' \in [Calls -> {"idle", "piped", "in", "redirected", "loaded",
                               "failed", "out", "read", "join", "done", "exception"}]
  BY <1>1 DEF TypeInv
<1>3. std = k /\ old[k] = TTY /\ app = k BY <1>1 DEF Critical, Redirects
<1>4. TypeInv' BY <1>1, <1>2, <1>3 DEF TypeInv
<1>5. Critical'
  <2>1. \A j \in Calls : ~(pc'[j] = "in" \/ Redirects(j)')
    BY <1>2, <1>3 DEF Critical, Redirects
  <2>2. QED BY <1>1, <1>3, <2>1, ExecAssumption DEF Critical
<1>6. EndsOpen' BY <1>1, <1>2, ExecAssumption DEF EndsOpen, Calls
<1>7. Started' BY <1>1, <1>2, ExecAssumption DEF Started
<1>8. Outputs' BY <1>1 DEF Outputs
<1>9. Finished' BY <1>1, <1>2, ExecAssumption DEF Finished, Calls
<1>10. LinesExact' BY <1>1, LinesKept
<1>11. QED BY <1>4, <1>5, <1>6, <1>7, <1>8, <1>9, <1>10

\* The monitor and the program are started.
LEMMA StartKeeps ==
  ASSUME IInv, NEW k \in Calls, StartWait(k) \/ StartBg(k) \/ Attach(k) PROVE IInv'
<1> USE DEF IInv
<1>1. CASE StartWait(k)
  <2>1. /\ k \in Waits /\ pc[k] = "out" /\ pc' = [pc EXCEPT ![k] = "read"]
        /\ monitor' = [monitor EXCEPT ![k] = "ready"]
        /\ child' = [child EXCEPT ![k].st = "runs"]
        /\ UNCHANGED <<app, std, old, rd, wr, pipe, got, status, prints, parent>>
    BY <1>1 DEF StartWait, Go
  <2>2. /\ child' \in [Calls -> Programs]
        /\ \A j \in Calls : /\ child'[j].out = child[j].out /\ child'[j].wr = child[j].wr
                            /\ child'[j].n = child[j].n /\ child'[j].lines = child[j].lines
                            /\ j # k => child'[j] = child[j]
        /\ child'[k].st = "runs"
    BY <2>1, ChildGoes DEF TypeInv
  <2>3. TypeInv' BY <2>1, <2>2 DEF TypeInv
  <2>4. Critical' BY <2>1 DEF Critical, Redirects, TypeInv
  <2>5. EndsOpen' BY <2>1, ExecAssumption DEF EndsOpen, TypeInv
  <2>6. child[k].st = "stopped" BY <2>1 DEF Started
  <2>7. Started' BY <2>1, <2>2 DEF Started, TypeInv
  <2>8. Outputs' BY <2>2, <2>6 DEF Outputs
  <2>9. Finished' BY <2>1, <2>2, <2>6, ExecAssumption DEF Finished, TypeInv, Calls
  <2>10. LinesExact' BY <2>1, <2>2, LinesKept
  <2>11. QED BY <2>3, <2>4, <2>5, <2>7, <2>8, <2>9, <2>10
<1>2. CASE StartBg(k)
  <2>1. /\ k \in Bgs /\ pc[k] = "out" /\ pc' = [pc EXCEPT ![k] = "done"]
        /\ monitor' = [monitor EXCEPT ![k] = "ready"]
        /\ UNCHANGED <<app, std, old, rd, wr, pipe, child, got, status, prints, parent>>
    BY <1>2 DEF StartBg, Go
  <2>2. k \notin Waits BY <2>1, ExecAssumption
  <2>3. TypeInv' BY <2>1 DEF TypeInv
  <2>4. Critical' BY <2>1 DEF Critical, Redirects, TypeInv
  <2>5. EndsOpen' BY <2>1, <2>2 DEF EndsOpen, TypeInv
  <2>6. Started' BY <2>1, <2>2 DEF Started, TypeInv
  <2>7. Outputs' BY <2>1 DEF Outputs
  <2>8. Finished' BY <2>1, <2>2 DEF Finished, TypeInv, Calls
  <2>9. LinesExact' BY <2>1, LinesKept
  <2>10. QED BY <2>3, <2>4, <2>5, <2>6, <2>7, <2>8, <2>9
<1>3. CASE Attach(k)
  <2>1. /\ k \in Bgs /\ k \notin Waits /\ monitor[k] = "ready"
        /\ UNCHANGED <<pc, app, std, old, rd, wr, pipe, got, status, prints, parent>>
    BY <1>3, ExecAssumption DEF Attach
  <2>2. /\ monitor' \in [Calls -> {"none", "ready", "waits", "reads", "over", "stale"}]
        /\ \A j \in Calls \ {k} : monitor'[j] = monitor[j]
        /\ monitor'[k] \in {"reads", "stale"}
    BY <1>3 DEF Attach, TypeInv
  <2>3. /\ child' \in [Calls -> Programs]
        /\ \A j \in Calls : /\ child'[j].out = child[j].out /\ child'[j].wr = child[j].wr
                            /\ child'[j].n = child[j].n /\ child'[j].lines = child[j].lines
                            /\ j # k => child'[j] = child[j]
        /\ child'[k].st \in {child[k].st, "runs"}
    <3>1. CASE k \in parent BY <1>3, <3>1, ChildGoes DEF Attach, TypeInv
    <3>2. CASE k \notin parent BY <1>3, <3>2 DEF Attach, TypeInv
    <3>3. QED BY <3>1, <3>2
  <2>4. pc[k] \in {"read", "join", "done"} /\ child[k].st # "none"
    BY <2>1 DEF Started, TypeInv
  <2>5. TypeInv' BY <2>1, <2>2, <2>3 DEF TypeInv
  <2>6. Critical' BY <2>1 DEF Critical, Redirects
  <2>7. EndsOpen' BY <2>1, <2>2 DEF EndsOpen
  <2>8. Started' BY <2>1, <2>2, <2>3, <2>4 DEF Started
  <2>9. Outputs' BY <2>3, <2>4 DEF Outputs
  <2>10. Finished' BY <2>1, <2>2, <2>3 DEF Finished, Calls
  <2>11. LinesExact' BY <2>1, <2>3, LinesKept
  <2>12. QED BY <2>5, <2>6, <2>7, <2>8, <2>9, <2>10, <2>11
<1>4. QED BY <1>1, <1>2, <1>3

LEMMA ReadKeeps == ASSUME IInv, NEW k \in Calls, Read(k) PROVE IInv'
<1> USE DEF IInv
<1>1. /\ pipe[k] # <<>>
      /\ got' = [got EXCEPT ![k] = Append(got[k], Head(pipe[k]))]
      /\ pipe' = [pipe EXCEPT ![k] = Tail(pipe[k])]
      /\ UNCHANGED <<pc, app, std, old, rd, wr, child, monitor, status, prints, parent>>
  BY DEF Read
<1>2. pipe[k] \in Seq(Line) /\ got[k] \in Seq(Line) BY DEF TypeInv
<1>3. /\ Append(got[k], Head(pipe[k])) \o Tail(pipe[k]) = got[k] \o pipe[k]
      /\ Head(pipe[k]) \in Line /\ Tail(pipe[k]) \in Seq(Line) /\ Len(Tail(pipe[k])) <= Len(pipe[k])
  BY <1>1, <1>2, TakeFirst
<1>4. TypeInv'
  <2>1. got' \in [Calls -> Seq(Line)] /\ pipe' \in [Calls -> Seq(Line)]
    BY <1>1, <1>2, <1>3 DEF TypeInv
  <2>2. \A j \in Calls : Len(pipe'[j]) <= PipeSize
    BY <1>1, <1>2, <1>3, ExecAssumption, LenProperties DEF TypeInv
  <2>3. QED BY <1>1, <2>1, <2>2 DEF TypeInv
<1>5. Critical' /\ EndsOpen' /\ Started' /\ Outputs'
  BY <1>1 DEF Critical, Redirects, EndsOpen, Started, Outputs
<1>6. Finished' BY <1>1 DEF Finished, TypeInv, Calls
<1>7. LinesExact'
  <2>1. \A j \in Calls : Sent(j)' = Sent(j) BY <1>1, <1>3 DEF Sent, TypeInv
  <2>2. QED BY <1>1, <2>1 DEF LinesExact
<1>8. QED BY <1>4, <1>5, <1>6, <1>7

LEMMA EndKeeps ==
  ASSUME IInv, NEW k \in Calls, EndOfFile(k) \/ Join(k) \/ BgOver(k) PROVE IInv'
<1> USE DEF IInv
<1>1. CASE EndOfFile(k)
  <2>1. /\ pc[k] = "read" /\ pc' = [pc EXCEPT ![k] = "join"] /\ AtEnd(k)
        /\ UNCHANGED <<app, std, old, rd, wr, pipe, child, monitor, got, status, prints, parent>>
    BY <1>1 DEF EndOfFile, Go
  <2>2. k \in Waits => child[k].n = child[k].lines
    BY <2>1 DEF AtEnd, Started, Outputs
  <2>3. TypeInv' BY <2>1 DEF TypeInv
  <2>4. Critical' BY <2>1 DEF Critical, Redirects, TypeInv
  <2>5. EndsOpen' BY <2>1 DEF EndsOpen, TypeInv
  <2>6. Started' BY <2>1 DEF Started, TypeInv
  <2>7. Outputs' BY <2>1 DEF Outputs
  <2>8. Finished' BY <2>1, <2>2 DEF AtEnd, Finished, TypeInv, Calls
  <2>9. LinesExact' BY <2>1, LinesKept
  <2>10. QED BY <2>3, <2>4, <2>5, <2>6, <2>7, <2>8, <2>9
<1>2. CASE Join(k)
  <2>1. /\ pc[k] = "join" /\ pc' = [pc EXCEPT ![k] = "done"] /\ monitor[k] = "over" /\ rd' = rd \ {k}
        /\ UNCHANGED <<app, std, old, wr, pipe, child, monitor, got, status, prints, parent>>
    BY <1>2 DEF Join, Go
  <2>2. TypeInv' BY <2>1 DEF TypeInv
  <2>3. Critical' BY <2>1 DEF Critical, Redirects, TypeInv
  <2>4. EndsOpen' BY <2>1 DEF EndsOpen, TypeInv
  <2>5. Started' BY <2>1 DEF Started, TypeInv
  <2>6. Outputs' BY <2>1 DEF Outputs
  <2>7. Finished' BY <2>1 DEF Finished, TypeInv, Calls
  <2>8. LinesExact' BY <2>1, LinesKept
  <2>9. QED BY <2>2, <2>3, <2>4, <2>5, <2>6, <2>7, <2>8
<1>3. CASE BgOver(k)
  <2>1. /\ monitor[k] = "reads" /\ monitor' = [monitor EXCEPT ![k] = "over"] /\ rd' = rd \ {k}
        /\ UNCHANGED <<pc, app, std, old, wr, pipe, child, got, status, prints, parent>>
    BY <1>3 DEF BgOver
  <2>2. k \notin Waits BY <2>1, ExecAssumption DEF Started
  <2>3. TypeInv' BY <2>1 DEF TypeInv
  <2>4. Critical' BY <2>1 DEF Critical, Redirects
  <2>5. EndsOpen' BY <2>1 DEF EndsOpen, TypeInv
  <2>6. Started' BY <2>1 DEF Started, TypeInv
  <2>7. Outputs' BY <2>1 DEF Outputs
  <2>8. Finished' BY <2>1, <2>2 DEF Finished, TypeInv, Calls
  <2>9. LinesExact' BY <2>1, LinesKept
  <2>10. QED BY <2>3, <2>4, <2>5, <2>6, <2>7, <2>8, <2>9
<1>4. QED BY <1>1, <1>2, <1>3

LEMMA MonitorKeeps ==
  ASSUME IInv, NEW k \in Calls, Monitor(k) \/ MonitorOver(k) \/ ParentEnds(k) PROVE IInv'
<1> USE DEF IInv
<1>1. CASE Monitor(k) \/ MonitorOver(k)
  <2>1. /\ k \in Waits /\ monitor[k] \in {"ready", "waits"}
        /\ monitor' \in [Calls -> {"none", "ready", "waits", "reads", "over", "stale"}]
        /\ \A j \in Calls \ {k} : monitor'[j] = monitor[j]
        /\ monitor'[k] \in {"waits", "over"}
        /\ monitor'[k] = "over" => child[k].st = "over"
        /\ status' \in [Waits -> {"unset", "program"}]
        /\ UNCHANGED <<pc, app, std, old, rd, wr, pipe, child, got, prints, parent>>
    <3>1. CASE Monitor(k) /\ child[k].st = "over" BY <3>1 DEF Monitor, TypeInv
    <3>2. CASE Monitor(k) /\ child[k].st # "over" BY <3>2 DEF Monitor, TypeInv
    <3>3. CASE MonitorOver(k)
      <4>1. k \in Waits BY <3>3 DEF MonitorOver, Started
      <4>2. QED BY <3>3, <4>1 DEF MonitorOver, TypeInv
    <3>4. QED BY <1>1, <3>1, <3>2, <3>3
  <2>2. k \notin Bgs BY <2>1, ExecAssumption
  <2>3. TypeInv' BY <2>1 DEF TypeInv
  <2>4. Critical' BY <2>1 DEF Critical, Redirects
  <2>5. EndsOpen' BY <2>1, <2>2 DEF EndsOpen
  <2>6. Started' BY <2>1 DEF Started
  <2>7. Outputs' BY <2>1 DEF Outputs
  <2>8. Finished' BY <2>1 DEF Finished, Calls
  <2>9. LinesExact' BY <2>1, LinesKept
  <2>10. QED BY <2>3, <2>4, <2>5, <2>6, <2>7, <2>8, <2>9
<1>2. CASE ParentEnds(k)
  <2>1. /\ parent' \subseteq parent
        /\ UNCHANGED <<pc, app, std, old, rd, wr, pipe, child, monitor, got, status, prints>>
    BY <1>2 DEF ParentEnds
  <2>2. TypeInv' BY <2>1 DEF TypeInv
  <2>3. Critical' /\ EndsOpen' /\ Started' /\ Outputs' /\ Finished'
    BY <2>1 DEF Critical, Redirects, EndsOpen, Started, Outputs, Finished
  <2>4. LinesExact' BY <2>1, LinesKept
  <2>5. QED BY <2>2, <2>3, <2>4
<1>3. QED BY <1>1, <1>2

LEMMA ProgramKeeps ==
  ASSUME IInv, NEW k \in Calls, CloseOutput(k) \/ Exit(k) PROVE IInv'
<1> USE DEF IInv
<1>1. CASE CloseOutput(k)
  <2>1. /\ child[k].st = "runs" /\ child[k].n = child[k].lines
        /\ child' = [child EXCEPT ![k].out = NULL, ![k].wr = @ \ {child[k].out}]
        /\ UNCHANGED <<pc, app, std, old, rd, wr, pipe, monitor, got, status, prints, parent>>
    BY <1>1 DEF CloseOutput
  <2>2. /\ child' \in [Calls -> Programs]
        /\ \A j \in Calls : /\ child'[j].st = child[j].st
                            /\ child'[j].n = child[j].n /\ child'[j].lines = child[j].lines
                            /\ j # k => child'[j] = child[j]
        /\ child'[k].out = NULL
    BY <2>1, ChildCloses DEF TypeInv
  <2>3. TypeInv' BY <2>1, <2>2 DEF TypeInv
  <2>4. Critical' /\ EndsOpen' BY <2>1 DEF Critical, Redirects, EndsOpen
  <2>5. Started' BY <2>1, <2>2 DEF Started
  <2>6. Outputs'
    <3>1. k # NULL BY ExecAssumption
    <3>2. QED BY <2>1, <2>2, <3>1 DEF Outputs
  <2>7. Finished' BY <2>1, <2>2 DEF Finished, Calls
  <2>8. LinesExact' BY <2>1, <2>2, LinesKept
  <2>9. QED BY <2>3, <2>4, <2>5, <2>6, <2>7, <2>8
<1>2. CASE Exit(k)
  <2>1. /\ child[k].st = "runs" /\ child[k].n = child[k].lines
        /\ child' = [child EXCEPT ![k].st = "over"]
        /\ UNCHANGED <<pc, app, std, old, rd, wr, pipe, monitor, got, status, prints, parent>>
    BY <1>2 DEF Exit
  <2>2. /\ child' \in [Calls -> Programs]
        /\ \A j \in Calls : /\ child'[j].out = child[j].out /\ child'[j].wr = child[j].wr
                            /\ child'[j].n = child[j].n /\ child'[j].lines = child[j].lines
                            /\ j # k => child'[j] = child[j]
        /\ child'[k].st = "over"
    BY <2>1, ChildGoes DEF TypeInv
  <2>3. TypeInv' BY <2>1, <2>2 DEF TypeInv
  <2>4. Critical' /\ EndsOpen' BY <2>1 DEF Critical, Redirects, EndsOpen
  <2>5. Started' BY <2>1, <2>2 DEF Started
  <2>6. Outputs' BY <2>1, <2>2 DEF Outputs
  <2>7. Finished' BY <2>1, <2>2 DEF Finished, Calls
  <2>8. LinesExact' BY <2>1, <2>2, LinesKept
  <2>9. QED BY <2>3, <2>4, <2>5, <2>6, <2>7, <2>8
<1>3. QED BY <1>1, <1>2

\* A program writes to the pipe of its call, a script to that of the call that
\* redirects the standard output.
LEMMA WriteKeeps == ASSUME IInv, NEW k \in Calls, Write(k) PROVE IInv'
<1> USE DEF IInv
<1> DEFINE line == [by |-> k, n |-> child[k].n + 1]
<1>1. /\ child[k].st = "runs" /\ child[k].n < child[k].lines
      /\ child' = [child EXCEPT ![k].n = @ + 1]
      /\ Put(line, child[k].out)
      /\ UNCHANGED <<pc, app, std, old, rd, wr, monitor, got, status, prints, parent>>
  BY DEF Write
<1>2. /\ child[k].n \in 0..MaxLines /\ child[k].lines \in 0..MaxLines /\ MaxLines \in Nat /\ MaxPrints \in Nat
      /\ pipe[k] \in Seq(Line) /\ got[k] \in Seq(Line)
  BY ExecAssumption DEF TypeInv, Programs
<1>3. child[k].out = k BY <1>1, <1>2 DEF Outputs
<1>4. line \in Line /\ line.by = k /\ line.n = child[k].n + 1
  <2>1. child[k].n + 1 \in 1..(MaxLines + MaxPrints) BY <1>1, <1>2
  <2>2. QED BY <2>1 DEF Line, Authors
<1> HIDE DEF line
<1>5. Len(pipe[k]) < PipeSize /\ pipe' = [pipe EXCEPT ![k] = Append(pipe[k], line)]
  BY <1>1, <1>3 DEF Put
<1>6. /\ child' \in [Calls -> Programs]
      /\ \A j \in Calls : /\ child'[j].out = child[j].out /\ child'[j].wr = child[j].wr
                          /\ child'[j].st = child[j].st /\ child'[j].lines = child[j].lines
                          /\ j # k => child'[j] = child[j]
      /\ child'[k].n = child[k].n + 1
  <2>1. child[k].n + 1 \in 0..MaxLines BY <1>1, <1>2
  <2>2. QED BY <1>1, <2>1, ChildWrites DEF TypeInv
<1>7. TypeInv'
  <2>1. Append(pipe[k], line) \in Seq(Line) /\ Len(Append(pipe[k], line)) = Len(pipe[k]) + 1
    BY <1>2, <1>4
  <2>2. pipe' \in [Calls -> Seq(Line)] BY <1>5, <2>1 DEF TypeInv
  <2>3. \A j \in Calls : Len(pipe'[j]) <= PipeSize
    BY <1>2, <1>5, <2>1, ExecAssumption, LenProperties DEF TypeInv
  <2>4. QED BY <1>1, <1>6, <2>2, <2>3 DEF TypeInv
<1>8. Critical' /\ EndsOpen' BY <1>1 DEF Critical, Redirects, EndsOpen
<1>9. Started' BY <1>1, <1>6 DEF Started
<1>10. Outputs'
  <2>1. child[k].n + 1 <= child[k].lines BY <1>1, <1>2
  <2>2. k # NULL BY ExecAssumption
  <2>3. QED BY <1>1, <1>3, <1>6, <2>1, <2>2 DEF Outputs
<1>11. Finished'
  <2>1. ~(k \in Waits /\ pc[k] \in {"join", "done"}) BY <1>1, <1>2 DEF Finished
  <2>2. QED BY <1>1, <1>5, <1>6, <2>1 DEF Finished, TypeInv, Calls
<1>12. LinesExact'
  <2>1. \A j \in Calls \ {k} : Sent(j)' = Sent(j) BY <1>1, <1>5 DEF Sent, TypeInv
  <2>2. Sent(k)' = Append(Sent(k), line) /\ Sent(k) \in Seq(Line)
    BY <1>1, <1>2, <1>4, <1>5, PutLast DEF Sent, TypeInv
  <2>3. Exact(Append(Sent(k), line), k, child[k].n + 1)
    BY <1>2, <1>4, <2>2, ExactOwn DEF LinesExact
  <2>4. QED BY <1>6, <2>1, <2>2, <2>3 DEF LinesExact
<1>13. QED BY <1>7, <1>8, <1>9, <1>10, <1>11, <1>12

LEMMA PrintKeeps == ASSUME IInv, ScriptPrints PROVE IInv'
<1> USE DEF IInv
<1> DEFINE line == [by |-> Script, n |-> prints + 1]
<1>1. /\ prints < MaxPrints /\ prints' = prints + 1 /\ Put(line, std)
      /\ UNCHANGED <<pc, app, std, old, rd, wr, child, monitor, got, status, parent>>
  BY DEF ScriptPrints
<1>2. prints \in 0..MaxPrints /\ MaxLines \in Nat /\ MaxPrints \in Nat /\ prints' \in 0..MaxPrints
  BY <1>1, ExecAssumption DEF TypeInv
<1>3. Critical' /\ EndsOpen' /\ Started' /\ Outputs'
  BY <1>1 DEF Critical, Redirects, EndsOpen, Started, Outputs
<1>4. CASE std = TTY
  <2>1. pipe' = pipe BY <1>1, <1>4, ExecAssumption DEF Put
  <2>2. TypeInv' BY <1>1, <1>2, <2>1 DEF TypeInv
  <2>3. Finished' BY <1>1, <2>1 DEF Finished
  <2>4. LinesExact' BY <1>1, <2>1, LinesKept
  <2>5. QED BY <1>3, <2>2, <2>3, <2>4
<1>5. CASE std # TTY
  <2>1. PICK k \in Calls : k = std BY <1>5 DEF TypeInv
  <2>2. line \in Line /\ line.by = Script
    <3>1. prints + 1 \in 1..(MaxLines + MaxPrints) BY <1>1, <1>2
    <3>2. QED BY <3>1 DEF Line, Authors
  <2> HIDE DEF line
  <2>3. Len(pipe[k]) < PipeSize /\ pipe' = [pipe EXCEPT ![k] = Append(pipe[k], line)]
    BY <1>1, <2>1 DEF Put
  <2>4. pipe[k] \in Seq(Line) /\ got[k] \in Seq(Line) BY DEF TypeInv
  <2>5. TypeInv'
    <3>1. Append(pipe[k], line) \in Seq(Line) /\ Len(Append(pipe[k], line)) = Len(pipe[k]) + 1
      BY <2>2, <2>4
    <3>2. pipe' \in [Calls -> Seq(Line)] BY <2>3, <3>1 DEF TypeInv
    <3>3. \A j \in Calls : Len(pipe'[j]) <= PipeSize
      BY <2>3, <2>4, <3>1, ExecAssumption, LenProperties DEF TypeInv
    <3>4. QED BY <1>1, <1>2, <3>2, <3>3 DEF TypeInv
  <2>6. Finished'
    <3>1. pc[k] \notin {"join", "done"} BY <1>5, <2>1 DEF Critical, Redirects
    <3>2. QED BY <1>1, <2>3, <3>1 DEF Finished, TypeInv, Calls
  <2>7. LinesExact'
    <3>1. \A j \in Calls \ {k} : Sent(j)' = Sent(j) BY <1>1, <2>3 DEF Sent, TypeInv
    <3>2. Sent(k)' = Append(Sent(k), line) /\ Sent(k) \in Seq(Line)
      BY <1>1, <2>2, <2>3, <2>4, PutLast DEF Sent, TypeInv
    <3>3. child[k].n \in Nat /\ Script # k BY ExecAssumption DEF TypeInv, Programs
    <3>4. Exact(Append(Sent(k), line), k, child[k].n)
      BY <2>2, <3>2, <3>3, ExactOther DEF LinesExact
    <3>5. QED BY <1>1, <3>1, <3>2, <3>4 DEF LinesExact
  <2>8. QED BY <1>3, <2>5, <2>6, <2>7
<1>6. QED BY <1>4, <1>5

LEMMA StutterKeeps == ASSUME IInv, UNCHANGED vars PROVE IInv'
<1>1. UNCHANGED <<pc, app, std, old, rd, wr, pipe, child, monitor, got, status, prints, parent>>
  BY DEF vars
<1>2. TypeInv' BY <1>1 DEF IInv, TypeInv
<1>3. Critical' /\ EndsOpen' /\ Started' /\ Outputs' /\ Finished'
  BY <1>1 DEF IInv, Critical, Redirects, EndsOpen, Started, Outputs, Finished
<1>4. LinesExact' BY <1>1, LinesKept DEF IInv
<1>5. QED BY <1>2, <1>3, <1>4 DEF IInv

LEMMA InvStep == IInv /\ [Next]_vars => IInv'
<1> SUFFICES ASSUME IInv, [Next]_vars PROVE IInv' OBVIOUS
<1>1. CASE UNCHANGED vars BY <1>1, StutterKeeps
<1>2. ASSUME NEW k \in Calls, Step(k) PROVE IInv'
  BY <1>2, BeginKeeps, RedirectKeeps, LoadKeeps, RestoreKeeps, StartKeeps, ReadKeeps, EndKeeps DEF Step
<1>3. ASSUME NEW k \in Calls, Monitor(k) \/ MonitorOver(k) \/ ParentEnds(k) PROVE IInv'
  BY <1>3, MonitorKeeps
<1>4. ASSUME NEW k \in Calls, Program(k) PROVE IInv'
  BY <1>4, WriteKeeps, ProgramKeeps DEF Program
<1>5. CASE ScriptPrints BY <1>5, PrintKeeps
<1>6. QED BY <1>1, <1>2, <1>3, <1>4, <1>5 DEF Next

-----------------------------------------------------------------------------
(* The types of SQIExec; in particular no pipe holds more lines than it has room for,
   and only calls and the terminal ever are the standard output. *)
THEOREM TypeCorrect == Spec => []TypeOK
<1>1. IInv => TypeOK
  <2> SUFFICES ASSUME IInv PROVE TypeOK OBVIOUS
  <2>1. \A k \in Calls : Range(pipe[k]) \cup Range(got[k]) \subseteq Line
    BY DEF IInv, TypeInv, Range
  <2>2. QED BY <2>1 DEF IInv, TypeInv, TypeOK, Programs
<1>2. QED BY <1>1, InitInv, InvStep, PTL DEF Spec

(* However many calls redirect descriptor 1 in turn, it is the terminal whenever the
   lock is free, and a call that is over has closed both ends of its pipe, also when
   its program could not be loaded. *)
THEOREM RedirectionUndone == Spec => []DescriptorsRestored
<1>1. IInv => DescriptorsRestored
  <2> SUFFICES ASSUME IInv PROVE DescriptorsRestored OBVIOUS
  <2>1. app = NULL => std = TTY BY ExecAssumption DEF IInv, Critical, TypeInv
  <2>2. ASSUME NEW k \in Calls, pc[k] = "exception" \/ (pc[k] = "done" /\ monitor[k] = "over")
        PROVE  k \notin rd \cup wr
    BY <2>2 DEF IInv, EndsOpen, Calls
  <2>3. QED BY <2>1, <2>2 DEF DescriptorsRestored
<1>2. QED BY <1>1, InitInv, InvStep, PTL DEF Spec

(* The lines a call has read are those its program wrote first, in order and none
   missing, and none of another program; when exec.wait is done they are all its
   program wrote. *)
THEOREM OutputDelivered == Spec => []OutputExact
<1>1. IInv => OutputExact
  <2> SUFFICES ASSUME IInv, NEW k \in Calls
      PROVE  /\ \A i \in DOMAIN got[k] : got[k][i].by \in {k, Script}
             /\ \A i, j \in OwnAt(k) : i < j => got[k][i].n < got[k][j].n
             /\ \A i \in OwnAt(k) : \A x \in 1..(got[k][i].n - 1) : \E j \in OwnAt(k) : got[k][j].n = x
             /\ pc[k] = "done" /\ k \in Waits =>
                  child[k].st = "over" /\ {got[k][i].n : i \in OwnAt(k)} = 1..child[k].lines
    BY DEF OutputExact
  <2>1. /\ got[k] \in Seq(Line) /\ pipe[k] \in Seq(Line) /\ child[k].n \in Nat
        /\ Exact(got[k] \o pipe[k], k, child[k].n)
    BY ExecAssumption DEF IInv, TypeInv, Programs, LinesExact, Sent
  <2>2. /\ \A i \in DOMAIN got[k] : got[k][i].by \in {k, Script}
        /\ \A i, j \in OwnAt(k) : i < j => got[k][i].n < got[k][j].n
        /\ \A i \in OwnAt(k) : \A x \in 1..(got[k][i].n - 1) : \E j \in OwnAt(k) : got[k][j].n = x
    <3>1. PICK s \in Seq(Line) : s = got[k] BY <2>1
    <3>2. Exact(s \o pipe[k], k, child[k].n) BY <2>1, <3>1
    <3>3. /\ \A i \in DOMAIN s : s[i].by \in {k, Script}
          /\ \A i, j \in DOMAIN s : i < j /\ s[i].by = k /\ s[j].by = k => s[i].n < s[j].n
          /\ \A i \in DOMAIN s : s[i].by = k =>
               \A x \in 1..(s[i].n - 1) : \E j \in DOMAIN s : s[j].by = k /\ s[j].n = x
      BY <2>1, <3>2, ExactPrefix
    <3>4. OwnAt(k) = {i \in DOMAIN s : s[i].by = k} BY <3>1 DEF OwnAt
    <3>5. QED BY <3>1, <3>3, <3>4
  <2>3. ASSUME pc[k] = "done", k \in Waits
        PROVE  child[k].st = "over" /\ {got[k][i].n : i \in OwnAt(k)} = 1..child[k].lines
    <3>1. pipe[k] = <<>> /\ child[k].n = child[k].lines /\ child[k].st = "over"
      BY <2>3 DEF IInv, Finished
    <3>2. got[k] \o pipe[k] = got[k] BY <2>1, <3>1
    <3>3. Exact(got[k], k, child[k].lines) BY <2>1, <3>1, <3>2
    <3>4. {got[k][i].n : i \in OwnAt(k)} = 1..child[k].lines BY <3>3 DEF Exact, OwnAt
    <3>5. QED BY <3>1, <3>4
  <2>4. QED BY <2>2, <2>3
<1>2. QED BY <1>1, InitInv, InvStep, PTL DEF Spec
=============================================================================
