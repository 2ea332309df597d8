--------------------------- MODULE SQIGluingProofs ---------------------------
(***************************************************************************)
(* Proofs about SQIGluing, for any widgets, preferred sizes, sides and     *)
(* sizes the user gives the window.                                        *)
(*                                                                         *)
(*   LayoutFollows: when every FrameResized message has arrived, the       *)
(*   layout is for the size the window has.  The frames of the widgets do  *)
(*   not matter for this, only the bounds each gluing computes.            *)
(*                                                                         *)
(*   LayoutIsSound: no two widgets cover each other, none is turned inside *)
(*   out and none sticks out of the window.  It needs widgets that expand  *)
(*   in height to be high enough (Roomy), and those that are unglued and   *)
(*   reglued to be glued to the top or the bottom (Stacked); without       *)
(*   either it is false.                                                   *)
(***************************************************************************)
EXTENDS SQIGluing, FiniteSetTheorems, WellFoundedInduction, TLAPS

Gluing == [widget : Widgets, align : Aligns]
Size   == [w : Int, h : Int]

\* The bounds a gluing computes begin at the corner of the window.
Bounds == {Rect(0, 0, r, b) : r \in Int, b \in Int}

-----------------------------------------------------------------------------
(* The loops over the gluing sequence.  Each is a FoldLeft; what its turns    *)
(* make, one after the other, is a function h.                                *)

ExpandOne(real, now, g) ==
  IF Area(real) <= AreaChilds(now) THEN now
  ELSE IF g.align \in {"top", "bottom"} THEN GrowX(GrowY(now, real, g.widget), real, g.widget)
  ELSE GrowY(GrowX(now, real, g.widget), real, g.widget)

AlignOne(real, now, g) ==
  LET hor(m, w) == Offset(HAlign[w], Room(m, real, w, "left"), Room(m, real, w, "right"))
      ver(m, w) == Offset(VAlign[w], Room(m, real, w, "top"), Room(m, real, w, "bottom"))
      move(m, w) == LET moved == MoveByChilds(m, {w}, hor(m, w), 0)
                    IN MoveByChilds(moved, {w}, 0, ver(moved, w))
  IN move(now, g.widget)

\* One turn of a loop, in a context c.
Step(loop, c, lay, g) ==
  CASE loop = "DynamicGluing" -> Dynamic(lay, g)
    [] loop = "ReGluing"      -> Again(lay, g)
    [] loop = "StaticGluing"  -> Static(c.contents, c.real, lay, g)
    [] loop = "Expand"        -> ExpandOne(c.real, lay, g)
    [] loop = "Align"         -> AlignOne(c.real, lay, g)

\* What FoldLeft makes of the places S of s, from what it makes of fewer.
Turn(loop, c, base, s, it, S) ==
  IF S = {} THEN base ELSE Step(loop, c, it[S \ {Max(S)}], s[Max(S)])

\* it is the function of sets of places that FoldLeft is defined with.
Folded(loop, c, base, s, n, it) == it = [S \in SUBSET (1..n) |-> Turn(loop, c, base, s, it, S)]

\* h is what the loop over s has made after each number of turns.
Loop(loop, c, base, s, h) ==
  h[0] = base /\ \A k \in 1..Len(s) : h[k] = Step(loop, c, h[k - 1], s[k])

LEMMA MaxOfPrefix ==
  ASSUME NEW n \in Nat, NEW S \in SUBSET (1..(n + 1)), n + 1 \in S
  PROVE  Max(S) = n + 1 /\ S \ {Max(S)} \in SUBSET (1..n)
<1>1. n + 1 \in S /\ \A y \in S : n + 1 >= y
  OBVIOUS
<1>2. \A x \in S : (\A y \in S : x >= y) => x = n + 1
  OBVIOUS
<1>3. Max(S) = n + 1
  BY <1>1, <1>2 DEF Max
<1> QED BY <1>3

(* Induction, for a set of numbers. *)
LEMMA Induction ==
  ASSUME NEW K, 0 \in K, \A n \in Nat : n \in K => n + 1 \in K
  PROVE  \A n \in Nat : n \in K
<1> DEFINE T == Nat \ K
<1> SUFFICES ASSUME T # {} PROVE FALSE
  OBVIOUS
<1>1. PICK x \in T : \A y \in T : ~ (<<y, x>> \in OpToRel(<, Nat))
  BY WFMin, NatLessThanWellFounded
<1>2. x \in Nat /\ x # 0 /\ x - 1 \in Nat
  OBVIOUS
<1>3. x - 1 \in T
  BY <1>2
<1>4. <<x - 1, x>> \in OpToRel(<, Nat)
  BY <1>2 DEF OpToRel
<1> QED BY <1>1, <1>3, <1>4

LEMMA FoldExists ==
  ASSUME NEW loop, NEW c, NEW base, NEW s
  PROVE  \A n \in Nat : \E it : Folded(loop, c, base, s, n, it)
<1> DEFINE Good(n, it) == Folded(loop, c, base, s, n, it)
           K == {n \in Nat : \E it : Good(n, it)}
<1>1. 0 \in K
  <2> DEFINE it == [S \in SUBSET (1..0) |-> base]
  <2>1. \A S \in SUBSET (1..0) : S = {}
    OBVIOUS
  <2>2. \A S \in SUBSET (1..0) : Turn(loop, c, base, s, it, S) = base
    BY <2>1 DEF Turn
  <2>3. Good(0, it)
    BY <2>2 DEF Folded
  <2> QED BY <2>3
<1>2. ASSUME NEW n \in Nat, n \in K PROVE n + 1 \in K
  <2>1. PICK old : Good(n, old)
    BY <1>2
  <2> DEFINE more(S) == IF n + 1 \in S THEN Step(loop, c, old[S \ {n + 1}], s[n + 1]) ELSE old[S]
             it == [S \in SUBSET (1..(n + 1)) |-> more(S)]
  <2>2. \A S \in SUBSET (1..n) : S \in SUBSET (1..(n + 1)) /\ n + 1 \notin S
    OBVIOUS
  <2>a. \A S \in SUBSET (1..n) : old[S] = Turn(loop, c, base, s, old, S)
    BY <2>1 DEF Folded
  <2>3. \A S \in SUBSET (1..n) : it[S] = old[S]
    BY <2>2
  <2>4. ASSUME NEW S \in SUBSET (1..(n + 1)) PROVE it[S] = Turn(loop, c, base, s, it, S)
    <3>1. CASE n + 1 \in S
      <4>1. Max(S) = n + 1 /\ S \ {n + 1} \in SUBSET (1..n)
        BY <3>1, MaxOfPrefix
      <4>2. it[S \ {n + 1}] = old[S \ {n + 1}]
        BY <4>1, <2>3
      <4>3. it[S] = Step(loop, c, old[S \ {n + 1}], s[n + 1])
        BY <3>1
      <4> HIDE DEF it
      <4> QED BY <3>1, <4>1, <4>2, <4>3 DEF Turn
    <3>2. CASE n + 1 \notin S
      <4>0. \A x \in 1..(n + 1) : x = n + 1 \/ x \in 1..n
        OBVIOUS
      <4>1. S \in SUBSET (1..n) /\ S \ {Max(S)} \in SUBSET (1..n)
        BY <3>2, <4>0
      <4>2. it[S] = old[S] /\ it[S \ {Max(S)}] = old[S \ {Max(S)}]
        BY <4>1, <2>3
      <4>3. old[S] = Turn(loop, c, base, s, old, S)
        BY <4>1, <2>a
      <4> HIDE DEF it
      <4> QED BY <4>2, <4>3 DEF Turn
    <3> QED BY <3>1, <3>2
  <2>5. Good(n + 1, it)
    <3>1. it = [S \in SUBSET (1..(n + 1)) |-> it[S]]
      OBVIOUS
    <3> HIDE DEF it
    <3> QED BY <3>1, <2>4 DEF Folded
  <2> HIDE DEF Good, it
  <2> QED BY <2>5
<1>3. \A n \in Nat : n \in K
  <2> HIDE DEF K
  <2> QED BY <1>1, <1>2, Induction
<1> QED BY <1>3

(* The function FoldLeft chooses, at the prefixes of s, is what the turns make. *)
LEMMA FoldIsLoop ==
  ASSUME NEW loop, NEW c, NEW base, NEW s, Len(s) \in Nat,
         NEW it, Folded(loop, c, base, s, Len(s), it)
  PROVE  \E h : Loop(loop, c, base, s, h) /\ it[1..Len(s)] = h[Len(s)]
<1> DEFINE h == [k \in 0..Len(s) |-> it[1..k]]
<1>1. \A S \in SUBSET (1..Len(s)) : it[S] = Turn(loop, c, base, s, it, S)
  BY DEF Folded
<1>2. h[0] = base
  <2>1. 1..0 = {} /\ {} \in SUBSET (1..Len(s)) /\ 0 \in 0..Len(s)
    OBVIOUS
  <2>2. it[{}] = base
    BY <1>1, <2>1 DEF Turn
  <2> QED BY <2>1, <2>2
<1>3. ASSUME NEW k \in 1..Len(s) PROVE h[k] = Step(loop, c, h[k - 1], s[k])
  <2>a. k \in Nat /\ 1 <= k /\ k <= Len(s)
    OBVIOUS
  <2>b. 1..k \in SUBSET (1..Len(s)) /\ k \in 1..k /\ 1..k # {}
    BY <2>a
  <2>c. k \in 0..Len(s) /\ k - 1 \in 0..Len(s) /\ k - 1 \in Nat /\ (k - 1) + 1 = k
    BY <2>a
  <2>d. (1..k) \ {k} = 1..(k - 1)
    BY <2>a
  <2>1. /\ 1..k \in SUBSET (1..Len(s)) /\ k \in 1..k /\ k \in 0..Len(s) /\ k - 1 \in 0..Len(s)
        /\ (1..k) \ {k} = 1..(k - 1) /\ 1..k # {} /\ k - 1 \in Nat /\ (k - 1) + 1 = k
    BY <2>b, <2>c, <2>d
  <2>2. Max(1..k) = k
    <3> DEFINE m == k - 1
    <3>1. m \in Nat /\ m + 1 = k
      BY <2>1
    <3> HIDE DEF m
    <3>2. 1..(m + 1) \in SUBSET (1..(m + 1)) /\ m + 1 \in 1..(m + 1)
      BY <3>1
    <3>3. Max(1..(m + 1)) = m + 1
      BY <3>1, <3>2, MaxOfPrefix
    <3> QED BY <3>1, <3>3
  <2>3. it[1..k] = Step(loop, c, it[1..(k - 1)], s[k])
    BY <1>1, <2>1, <2>2 DEF Turn
  <2> QED BY <2>1, <2>3
<1>4. it[1..Len(s)] = h[Len(s)]
  OBVIOUS
<1> HIDE DEF h
<1>5. Loop(loop, c, base, s, h)
  BY <1>2, <1>3 DEF Loop
<1> QED BY <1>4, <1>5

LEMMA DynamicLoop ==
  ASSUME NEW c, NEW base, NEW s, Len(s) \in Nat, DOMAIN s = 1..Len(s)
  PROVE  \E h : Loop("DynamicGluing", c, base, s, h) /\ FoldLeft(Dynamic, base, s) = h[Len(s)]
<1> DEFINE loop == "DynamicGluing"
<1> DEFINE Folds(it) == it = [S \in SUBSET DOMAIN s |->
                                IF S = {} THEN base ELSE Dynamic(it[S \ {Max(S)}], s[Max(S)])]
           rec == CHOOSE it : Folds(it)
<1>1. FoldLeft(Dynamic, base, s) = rec[DOMAIN s]
  BY DEF FoldLeft, MapThenFoldSet
<1>2. ASSUME NEW it
      PROVE  Folds(it) <=> Folded(loop, c, base, s, Len(s), it)
  <2>1. \A S : Turn(loop, c, base, s, it, S)
                = IF S = {} THEN base ELSE Dynamic(it[S \ {Max(S)}], s[Max(S)])
    BY DEF Turn, Step
  <2> QED BY <2>1 DEF Folded
<1> HIDE DEF loop
<1>3. \E it : Folds(it)
  <2>1. \A n \in Nat : \E it : Folded(loop, c, base, s, n, it)
    BY FoldExists
  <2>2. PICK it : Folded(loop, c, base, s, Len(s), it)
    BY <2>1
  <2> HIDE DEF Folds
  <2> QED BY <1>2, <2>2
<1>4. Folds(rec)
  <2> HIDE DEF Folds
  <2> QED BY <1>3
<1> HIDE DEF Folds, rec
<1>5. Folded(loop, c, base, s, Len(s), rec)
  BY <1>2, <1>4
<1>6. \E h : Loop(loop, c, base, s, h) /\ rec[1..Len(s)] = h[Len(s)]
  BY <1>5, FoldIsLoop
<1> QED BY <1>1, <1>6 DEF loop

LEMMA AgainLoop ==
  ASSUME NEW c, NEW base, NEW s, Len(s) \in Nat, DOMAIN s = 1..Len(s)
  PROVE  \E h : Loop("ReGluing", c, base, s, h) /\ FoldLeft(Again, base, s) = h[Len(s)]
<1> DEFINE loop == "ReGluing"
<1> DEFINE Folds(it) == it = [S \in SUBSET DOMAIN s |->
                                IF S = {} THEN base ELSE Again(it[S \ {Max(S)}], s[Max(S)])]
           rec == CHOOSE it : Folds(it)
<1>1. FoldLeft(Again, base, s) = rec[DOMAIN s]
  BY DEF FoldLeft, MapThenFoldSet
<1>2. ASSUME NEW it
      PROVE  Folds(it) <=> Folded(loop, c, base, s, Len(s), it)
  <2>1. \A S : Turn(loop, c, base, s, it, S)
                = IF S = {} THEN base ELSE Again(it[S \ {Max(S)}], s[Max(S)])
    BY DEF Turn, Step
  <2> QED BY <2>1 DEF Folded
<1> HIDE DEF loop
<1>3. \E it : Folds(it)
  <2>1. \A n \in Nat : \E it : Folded(loop, c, base, s, n, it)
    BY FoldExists
  <2>2. PICK it : Folded(loop, c, base, s, Len(s), it)
    BY <2>1
  <2> HIDE DEF Folds
  <2> QED BY <1>2, <2>2
<1>4. Folds(rec)
  <2> HIDE DEF Folds
  <2> QED BY <1>3
<1> HIDE DEF Folds, rec
<1>5. Folded(loop, c, base, s, Len(s), rec)
  BY <1>2, <1>4
<1>6. \E h : Loop(loop, c, base, s, h) /\ rec[1..Len(s)] = h[Len(s)]
  BY <1>5, FoldIsLoop
<1> QED BY <1>1, <1>6 DEF loop

\* The loop of FrameResized.
StaticAll(contents, real, base, s) ==
  FoldLeft(LAMBDA fr, g : Static(contents, real, fr, g), base, s)

LEMMA StaticLoop ==
  ASSUME NEW contents, NEW real, NEW base, NEW s, Len(s) \in Nat, DOMAIN s = 1..Len(s)
  PROVE  \E h : Loop("StaticGluing", [contents |-> contents, real |-> real], base, s, h)
                /\ StaticAll(contents, real, base, s) = h[Len(s)]
<1> DEFINE loop == "StaticGluing"
           c == [contents |-> contents, real |-> real]
<1> DEFINE Folds(it) == it = [S \in SUBSET DOMAIN s |->
                                IF S = {} THEN base ELSE Static(contents, real, it[S \ {Max(S)}], s[Max(S)])]
           rec == CHOOSE it : Folds(it)
<1>1. StaticAll(contents, real, base, s) = rec[DOMAIN s]
  BY DEF StaticAll, FoldLeft, MapThenFoldSet
<1>2. ASSUME NEW it
      PROVE  Folds(it) <=> Folded(loop, c, base, s, Len(s), it)
  <2>1. \A S : Turn(loop, c, base, s, it, S)
                = IF S = {} THEN base ELSE Static(contents, real, it[S \ {Max(S)}], s[Max(S)])
    BY DEF Turn, Step
  <2> QED BY <2>1 DEF Folded
<1> HIDE DEF loop, c
<1>3. \E it : Folds(it)
  <2>1. \A n \in Nat : \E it : Folded(loop, c, base, s, n, it)
    BY FoldExists
  <2>2. PICK it : Folded(loop, c, base, s, Len(s), it)
    BY <2>1
  <2> HIDE DEF Folds
  <2> QED BY <1>2, <2>2
<1>4. Folds(rec)
  <2> HIDE DEF Folds
  <2> QED BY <1>3
<1> HIDE DEF Folds, rec
<1>5. Folded(loop, c, base, s, Len(s), rec)
  BY <1>2, <1>4
<1>6. \E h : Loop(loop, c, base, s, h) /\ rec[1..Len(s)] = h[Len(s)]
  BY <1>5, FoldIsLoop
<1> QED BY <1>1, <1>6 DEF loop, c

LEMMA ExpandLoop ==
  ASSUME NEW real, NEW base, NEW s, Len(s) \in Nat, DOMAIN s = 1..Len(s)
  PROVE  \E h : Loop("Expand", [real |-> real], base, s, h) /\ Expanded(s, base, real) = h[Len(s)]
<1> DEFINE loop == "Expand"
           c == [real |-> real]
<1> DEFINE Folds(it) == it = [S \in SUBSET DOMAIN s |->
                                IF S = {} THEN base ELSE ExpandOne(real, it[S \ {Max(S)}], s[Max(S)])]
           rec == CHOOSE it : Folds(it)
<1>1. Expanded(s, base, real) = rec[DOMAIN s]
  BY DEF Expanded, ExpandOne, FoldLeft, MapThenFoldSet
<1>2. ASSUME NEW it
      PROVE  Folds(it) <=> Folded(loop, c, base, s, Len(s), it)
  <2>1. \A S : Turn(loop, c, base, s, it, S)
                = IF S = {} THEN base ELSE ExpandOne(real, it[S \ {Max(S)}], s[Max(S)])
    BY DEF Turn, Step
  <2> QED BY <2>1 DEF Folded
<1> HIDE DEF loop, c
<1>3. \E it : Folds(it)
  <2>1. \A n \in Nat : \E it : Folded(loop, c, base, s, n, it)
    BY FoldExists
  <2>2. PICK it : Folded(loop, c, base, s, Len(s), it)
    BY <2>1
  <2> HIDE DEF Folds
  <2> QED BY <1>2, <2>2
<1>4. Folds(rec)
  <2> HIDE DEF Folds
  <2> QED BY <1>3
<1> HIDE DEF Folds, rec
<1>5. Folded(loop, c, base, s, Len(s), rec)
  BY <1>2, <1>4
<1>6. \E h : Loop(loop, c, base, s, h) /\ rec[1..Len(s)] = h[Len(s)]
  BY <1>5, FoldIsLoop
<1> QED BY <1>1, <1>6 DEF loop, c

LEMMA AlignLoop ==
  ASSUME NEW real, NEW base, NEW s, Len(s) \in Nat, DOMAIN s = 1..Len(s)
  PROVE  \E h : Loop("Align", [real |-> real], base, s, h) /\ Aligned(s, base, real) = h[Len(s)]
<1> DEFINE loop == "Align"
           c == [real |-> real]
<1> DEFINE Folds(it) == it = [S \in SUBSET DOMAIN s |->
                                IF S = {} THEN base ELSE AlignOne(real, it[S \ {Max(S)}], s[Max(S)])]
           rec == CHOOSE it : Folds(it)
<1>1. Aligned(s, base, real) = rec[DOMAIN s]
  BY DEF Aligned, AlignOne, FoldLeft, MapThenFoldSet
<1>2. ASSUME NEW it
      PROVE  Folds(it) <=> Folded(loop, c, base, s, Len(s), it)
  <2>1. \A S : Turn(loop, c, base, s, it, S)
                = IF S = {} THEN base ELSE AlignOne(real, it[S \ {Max(S)}], s[Max(S)])
    BY DEF Turn, Step
  <2> QED BY <2>1 DEF Folded
<1> HIDE DEF loop, c
<1>3. \E it : Folds(it)
  <2>1. \A n \in Nat : \E it : Folded(loop, c, base, s, n, it)
    BY FoldExists
  <2>2. PICK it : Folded(loop, c, base, s, Len(s), it)
    BY <2>1
  <2> HIDE DEF Folds
  <2> QED BY <1>2, <2>2
<1>4. Folds(rec)
  <2> HIDE DEF Folds
  <2> QED BY <1>3
<1> HIDE DEF Folds, rec
<1>5. Folded(loop, c, base, s, Len(s), rec)
  BY <1>2, <1>4
<1>6. \E h : Loop(loop, c, base, s, h) /\ rec[1..Len(s)] = h[Len(s)]
  BY <1>5, FoldIsLoop
<1> QED BY <1>1, <1>6 DEF loop, c

-----------------------------------------------------------------------------
(* Gluing one widget, and one after the other, makes bounds of bounds.       *)

LEMMA PreferredSize ==
  ASSUME NEW w \in Widgets
  PROVE  /\ Preferred(w) \in Bounds
         /\ Width(Preferred(w)) \in Int /\ Height(Preferred(w)) \in Int
<1>1. Pref[w].w \in Int /\ Pref[w].h \in Int
  BY GluingAssumption
<1> QED BY <1>1 DEF Preferred, Sized, Bounds, Rect, Width, Height

LEMMA BoundsSize ==
  ASSUME NEW f \in Bounds
  PROVE  /\ Width(f) \in Int /\ Height(f) \in Int /\ f.r \in Int /\ f.b \in Int
         /\ f = Sized(Width(f), Height(f), 0, 0)
BY DEF Bounds, Rect, Width, Height, Sized

LEMMA GlueToBounds ==
  ASSUME NEW lay, lay.real \in Bounds, NEW g, NEW f, NEW hor \in Int, NEW ver \in Int
  PROVE  GlueTo(lay, g, f, hor, ver).real \in Bounds
<1>1. /\ GlueTo(lay, g, f, hor, ver).real = Rect(0, 0, lay.real.r + hor, lay.real.b + ver)
      /\ lay.real.r + hor \in Int /\ lay.real.b + ver \in Int
  BY BoundsSize DEF GlueTo
<1> QED BY <1>1 DEF Bounds

LEMMA StepBounds ==
  ASSUME NEW lay, lay.real \in Bounds, NEW g \in Gluing
  PROVE  Again(lay, g).real \in Bounds /\ Dynamic(lay, g).real \in Bounds
<1> DEFINE f == Preferred(g.widget)
<1>1. /\ f \in Bounds /\ Width(f) \in Int /\ Height(f) \in Int
      /\ Width(lay.real) \in Int /\ Height(lay.real) \in Int
  BY PreferredSize, BoundsSize DEF Gluing
<1> HIDE DEF f
<1>2. \A hor, ver \in Int : GlueTo(lay, g, f, hor, ver).real \in Bounds
  BY GlueToBounds
<1>3. Again(lay, g).real \in Bounds
  <2> DEFINE more == IF Width(f) > Width(lay.real) THEN Width(f) - Width(lay.real) ELSE 0
  <2>1. more \in Int /\ Width(f) + 1 \in Int /\ Height(f) + 1 \in Int
    BY <1>1
  <2> HIDE DEF more
  <2>2. Again(lay, g) = IF lay.real = empty THEN [frame |-> Put(lay.frame, g.widget, f), real |-> f]
                        ELSE IF Vertically(g) THEN GlueTo(lay, g, f, more, Height(f) + 1)
                        ELSE GlueTo(lay, g, f, Width(f) + 1, 0)
    BY DEF Again, f, more
  <2> QED BY <1>1, <1>2, <2>1, <2>2
<1>4. Dynamic(lay, g).real \in Bounds
  <2> DEFINE more(size, old) == IF size > old THEN size - old + 1 ELSE 0
  <2>1. /\ more(Width(f), Width(lay.real)) \in Int /\ Width(f) + 1 \in Int
        /\ more(Height(f), Height(lay.real)) \in Int /\ Height(f) + 1 \in Int
    BY <1>1
  <2> HIDE DEF more
  <2>2. Dynamic(lay, g) =
          IF lay.real = empty THEN [frame |-> Put(lay.frame, g.widget, f), real |-> f]
          ELSE IF Vertically(g)
          THEN GlueTo(lay, g, f, more(Width(f), Width(lay.real)), Height(f) + 1)
          ELSE GlueTo(lay, g, f, Width(f) + 1, more(Height(f), Height(lay.real)))
    BY DEF Dynamic, f, more
  <2> QED BY <1>1, <1>2, <2>1, <2>2
<1> QED BY <1>3, <1>4

LEMMA LoopBounds ==
  ASSUME NEW loop, loop = "DynamicGluing" \/ loop = "ReGluing", NEW c,
         NEW base, base.real \in Bounds, NEW s \in Seq(Gluing), NEW h, Loop(loop, c, base, s, h)
  PROVE  h[Len(s)].real \in Bounds
<1> DEFINE K == {n \in Nat : n <= Len(s) => h[n].real \in Bounds}
<1>0. Len(s) \in Nat /\ \A i \in 1..Len(s) : s[i] \in Gluing
  OBVIOUS
<1>1. 0 \in K
  BY DEF Loop
<1>2. ASSUME NEW n \in Nat, n \in K PROVE n + 1 \in K
  <2> SUFFICES ASSUME n + 1 <= Len(s) PROVE h[n + 1].real \in Bounds
    OBVIOUS
  <2>1. n + 1 \in 1..Len(s) /\ (n + 1) - 1 = n /\ n <= Len(s)
    BY <1>0
  <2>2. h[n + 1] = Step(loop, c, h[n], s[n + 1])
    BY <2>1 DEF Loop
  <2>3. h[n].real \in Bounds /\ s[n + 1] \in Gluing
    BY <1>0, <1>2, <2>1
  <2>4. Again(h[n], s[n + 1]).real \in Bounds /\ Dynamic(h[n], s[n + 1]).real \in Bounds
    BY <2>3, StepBounds
  <2>5. Step(loop, c, h[n], s[n + 1]) \in {Again(h[n], s[n + 1]), Dynamic(h[n], s[n + 1])}
    BY DEF Step
  <2> QED BY <2>2, <2>4, <2>5
<1>3. \A n \in Nat : n \in K
  <2> HIDE DEF K
  <2> QED BY <1>1, <1>2, Induction
<1> QED BY <1>0, <1>3

(* A gluing sequence, glued or reglued, has bounds. *)
LEMMA AgainBounds ==
  ASSUME NEW base, base.real \in Bounds, NEW s \in Seq(Gluing)
  PROVE  FoldLeft(Again, base, s).real \in Bounds
<1> DEFINE loop == "ReGluing"
<1>1. Len(s) \in Nat /\ DOMAIN s = 1..Len(s)
  OBVIOUS
<1>2. PICK h : Loop(loop, 0, base, s, h) /\ FoldLeft(Again, base, s) = h[Len(s)]
  BY <1>1, AgainLoop
<1>3. loop = "DynamicGluing" \/ loop = "ReGluing"
  OBVIOUS
<1> HIDE DEF loop
<1> QED BY <1>2, <1>3, LoopBounds

LEMMA DynamicBounds ==
  ASSUME NEW base, base.real \in Bounds, NEW s \in Seq(Gluing)
  PROVE  FoldLeft(Dynamic, base, s).real \in Bounds
<1> DEFINE loop == "DynamicGluing"
<1>1. Len(s) \in Nat /\ DOMAIN s = 1..Len(s)
  OBVIOUS
<1>2. PICK h : Loop(loop, 0, base, s, h) /\ FoldLeft(Dynamic, base, s) = h[Len(s)]
  BY <1>1, DynamicLoop
<1>3. loop = "DynamicGluing" \/ loop = "ReGluing"
  OBVIOUS
<1> HIDE DEF loop
<1> QED BY <1>2, <1>3, LoopBounds

-----------------------------------------------------------------------------
(* The invariant: the window never expects more messages than are under way, *)
(* and when it expects them all, the layout is for the size it has.          *)

CountInv ==
  /\ Contents \in Seq(Gluing)
  /\ bounds \in Size /\ least \in Size
  /\ messages \in Seq(Size)
  /\ resized_count \in Nat
  /\ RealBounds \in Bounds
  /\ unsent \in BOOLEAN

FollowInv ==
  ~unsent =>
    /\ resized_count <= Len(messages)
    /\ resized_count = Len(messages) /\ Contents # <<>> =>
         RealBounds = Sized(bounds.w, bounds.h, 0, 0)

FollowIInv == CountInv /\ FollowInv

LEMMA EmptyBounds == empty \in Bounds
BY DEF empty, Bounds

LEMMA FollowInit == Init => FollowIInv
<1> SUFFICES ASSUME Init PROVE FollowIInv
  OBVIOUS
<1>1. Contents = <<>> /\ messages = <<>> /\ <<>> \in Seq(Gluing) /\ <<>> \in Seq(Size)
  BY DEF Init
<1>2. bounds = [w |-> 0, h |-> 0] /\ least = bounds /\ bounds \in Size
  BY DEF Init, Size
<1>3. CountInv
  BY <1>1, <1>2, EmptyBounds DEF Init, CountInv
<1> QED BY <1>1, <1>3 DEF Init, FollowIInv, FollowInv

\* The end of a gluing, whatever is glued.
LEMMA ResizedKeeps ==
  ASSUME FollowIInv, NEW contents \in Seq(Gluing), NEW lay, lay.real \in Bounds,
         Contents' = contents, Resized(contents, lay)
  PROVE  FollowIInv'
<1> DEFINE size == [w |-> Width(lay.real), h |-> Height(lay.real)]
<1>1. size \in Size /\ lay.real = Sized(size.w, size.h, 0, 0)
  BY BoundsSize DEF Size
<1>2. /\ RealBounds' = lay.real /\ bounds' = size /\ least' = size
      /\ resized_count' = resized_count + 1
      /\ messages' = IF size = bounds THEN messages ELSE Append(messages, size)
      /\ unsent' = (unsent \/ size = bounds)
  BY DEF Resized
<1> HIDE DEF size
<1>3. messages' \in Seq(Size) /\ (size # bounds => Len(messages') = Len(messages) + 1)
  BY <1>1, <1>2 DEF FollowIInv, CountInv
<1>a. unsent' \in BOOLEAN /\ (~unsent' => ~unsent /\ size # bounds)
  BY <1>2 DEF FollowIInv, CountInv
<1>4. CountInv'
  BY <1>1, <1>2, <1>3, <1>a DEF FollowIInv, CountInv
<1>5. FollowInv'
  BY <1>1, <1>2, <1>3, <1>a DEF FollowIInv, CountInv, FollowInv
<1> QED BY <1>4, <1>5 DEF FollowIInv

LEMMA ReGluingKeeps ==
  ASSUME FollowIInv, NEW contents \in Seq(Gluing), NEW fr,
         Contents' = contents, ReGluing(contents, fr)
  PROVE  FollowIInv'
<1>1. CASE contents = <<>>
  BY <1>1 DEF ReGluing, FollowIInv, CountInv, FollowInv
<1>2. CASE contents # <<>>
  <2> DEFINE lay == FoldLeft(Again, [frame |-> fr, real |-> empty], contents)
  <2>1. lay.real \in Bounds
    BY EmptyBounds, AgainBounds
  <2>2. Resized(contents, lay)
    BY <1>2 DEF ReGluing
  <2> HIDE DEF lay
  <2> QED BY <2>1, <2>2, ResizedKeeps
<1> QED BY <1>1, <1>2

LEMMA GlueKeeps ==
  ASSUME FollowIInv, NEW align \in Aligns, NEW ws \in Seq(Widgets), Glue(align, ws)
  PROVE  FollowIInv'
<1> DEFINE new == [i \in 1..Len(ws) |-> [widget |-> ws[i], align |-> align]]
           lay == FoldLeft(Dynamic, [frame |-> frame, real |-> RealBounds], new)
<1>1. new \in Seq(Gluing)
  BY DEF Gluing
<1>2. Contents' = Contents \o new /\ Resized(Contents', lay)
  BY DEF Glue
<1>3. RealBounds \in Bounds /\ Contents \in Seq(Gluing)
  BY DEF FollowIInv, CountInv
<1> HIDE DEF new
<1>4. lay.real \in Bounds
  BY <1>1, <1>3, DynamicBounds
<1>5. Contents \o new \in Seq(Gluing)
  BY <1>1, <1>3
<1> HIDE DEF lay
<1> QED BY <1>2, <1>4, <1>5, ResizedKeeps

LEMMA RemoveAtType ==
  ASSUME NEW s \in Seq(Gluing), NEW i \in DOMAIN s
  PROVE  RemoveAt(s, i) \in Seq(Gluing)
BY DEF RemoveAt

LEMMA FollowNext == FollowIInv /\ [Next]_vars => FollowIInv'
<1> SUFFICES ASSUME FollowIInv, [Next]_vars PROVE FollowIInv'
  OBVIOUS
<1> USE DEF FollowIInv, CountInv, FollowInv
<1>1. ASSUME NEW align \in Aligns, NEW w \in Widgets, Glue(align, <<w>>) PROVE FollowIInv'
  <2>1. <<w>> \in Seq(Widgets)
    OBVIOUS
  <2> QED BY <1>1, <2>1, GlueKeeps
<1>2. ASSUME NEW align \in Aligns, NEW w \in Widgets, NEW x \in Widgets, Glue(align, <<w, x>>)
      PROVE  FollowIInv'
  <2>1. <<w, x>> \in Seq(Widgets)
    OBVIOUS
  <2> QED BY <1>2, <2>1, GlueKeeps
<1>3. CASE ReGlue
  BY <1>3, ReGluingKeeps DEF ReGlue
<1>4. ASSUME NEW w \in Widgets, UnGlue(w) PROVE FollowIInv'
  <2>1. PICK i \in DOMAIN Contents : Contents' = RemoveAt(Contents, i)
    BY <1>4 DEF UnGlue
  <2>2. Contents' \in Seq(Gluing)
    BY <2>1, RemoveAtType
  <2>3. ReGluing(Contents', [x \in DOMAIN frame \ {w} |-> frame[x]])
    BY <1>4 DEF UnGlue
  <2> QED BY <2>2, <2>3, ReGluingKeeps
<1>5. ASSUME NEW size \in UserSizes, UserResizes(size) PROVE FollowIInv'
  <2>1. bounds' = [w |-> least.w + size.w, h |-> least.h + size.h]
    BY <1>5 DEF UserResizes
  <2>2. bounds' \in Size
    BY <2>1, GluingAssumption DEF Size
  <2>3. messages' = Append(messages, bounds') /\ UNCHANGED <<Contents, RealBounds, least, resized_count, unsent>>
    BY <1>5 DEF UserResizes
  <2>4. messages' \in Seq(Size) /\ Len(messages') = Len(messages) + 1
    BY <2>2, <2>3
  <2> QED BY <2>2, <2>3, <2>4
<1>6. CASE FrameResized
  <2> DEFINE real == Sized(bounds.w, bounds.h, 0, 0)
  <2>1. /\ messages # <<>> /\ messages' = Tail(messages)
        /\ UNCHANGED <<Contents, bounds, least, unsent>>
    BY <1>6 DEF FrameResized
  <2>2. messages' \in Seq(Size) /\ Len(messages') = Len(messages) - 1 /\ Len(messages) \in Nat
    BY <2>1
  <2>3. real \in Bounds
    BY DEF Sized, Bounds, Size
  <2>4. CASE resized_count > 0
    <3>1. resized_count' = resized_count - 1 /\ RealBounds' = RealBounds
      BY <1>6, <2>4 DEF FrameResized
    <3>2. resized_count' \in Nat /\ resized_count = resized_count' + 1
      BY <2>4, <3>1
    <3>3. CountInv'
      BY <2>1, <2>2, <3>1, <3>2
    <3>a. /\ resized_count <= Len(messages) => resized_count' <= Len(messages')
          /\ resized_count' = Len(messages') => resized_count = Len(messages)
      <4>1. \A c, d, m, n \in Int : c = d + 1 /\ n = m - 1 =>
               (c <= m => d <= n) /\ (d = n => c = m)
        OBVIOUS
      <4>2. Len(messages') \in Int /\ resized_count' \in Int
        BY <2>2, <3>2
      <4>3. Len(messages) \in Int /\ resized_count \in Int
        BY <2>2, <3>2
      <4> QED BY <2>2, <3>2, <4>1, <4>2, <4>3
    <3>b. unsent' = unsent
      BY <2>1
    <3>4. ~unsent' => /\ resized_count' <= Len(messages')
                      /\ resized_count' = Len(messages') => resized_count = Len(messages)
      BY <3>a, <3>b
    <3>5. FollowInv'
      BY <2>1, <3>1, <3>4
    <3> QED BY <3>3, <3>5
  <2>5. CASE ~(resized_count > 0)
    <3>0. /\ resized_count' = resized_count
          /\ (real # RealBounds /\ Contents # <<>>) => RealBounds' = real
          /\ ~(real # RealBounds /\ Contents # <<>>) => RealBounds' = RealBounds
      BY <1>6, <2>5 DEF FrameResized
    <3>a. resized_count \in Nat /\ RealBounds \in Bounds /\ bounds' = bounds
      BY <2>1
    <3>b. real = Sized(bounds'.w, bounds'.h, 0, 0)
      BY <3>a
    <3> HIDE DEF real
    <3>1. /\ resized_count' = 0
          /\ RealBounds' = IF real # RealBounds /\ Contents # <<>> THEN real ELSE RealBounds
      BY <2>5, <3>0, <3>a
    <3>2. CountInv'
      BY <2>1, <2>2, <2>3, <3>1
    <3>3. Contents # <<>> => RealBounds' = real
      BY <3>1
    <3>4. resized_count' <= Len(messages')
      BY <2>2, <3>1
    <3>5. Contents' # <<>> => RealBounds' = Sized(bounds'.w, bounds'.h, 0, 0)
      BY <2>1, <3>3, <3>b
    <3>6. FollowInv'
      BY <3>4, <3>5
    <3> QED BY <3>2, <3>6
  <2> QED BY <2>4, <2>5
<1>7. CASE UNCHANGED vars
  BY <1>7 DEF vars
<1> QED BY <1>1, <1>2, <1>3, <1>4, <1>5, <1>6, <1>7 DEF Next

(* However a script glues, unglues and reglues and the user resizes the window,
   once every FrameResized has been handled the layout is for the size the window
   has, unless a gluing did not change the size (SQI_BWindow::FrameResized). *)
THEOREM LayoutFollows == Spec => []LayoutFollowsSize
<1>1. FollowIInv => LayoutFollowsSize
  <2> SUFFICES ASSUME FollowIInv, messages = <<>>, ~unsent, Contents # <<>>
               PROVE  RealBounds = Sized(bounds.w, bounds.h, 0, 0)
    BY DEF LayoutFollowsSize
  <2>1. Len(messages) = 0
    OBVIOUS
  <2> QED BY <2>1 DEF FollowIInv, CountInv, FollowInv
<1> QED BY <1>1, FollowInit, FollowNext, PTL DEF Spec

-----------------------------------------------------------------------------
(* Frames: those of the widgets of S are laid out if each is inside the       *)
(* bounds and no two cover each other.  Columns that two frames of the same   *)
(* rows have must be different ones, the edges included; rows may share one.  *)

Rects == [l : Int, t : Int, r : Int, b : Int]
Sides == {"left", "right", "top", "bottom"}

Away(f, g) == f.r < g.l \/ g.r < f.l \/ f.b <= g.t \/ g.b <= f.t

Inside(f, real) ==
  /\ 0 <= f.l /\ f.l <= f.r /\ f.r <= real.r
  /\ 0 <= f.t /\ f.t <= f.b /\ f.b <= real.b

Laid(fr, S, real) ==
  /\ \A w \in S : fr[w] \in Rects /\ Inside(fr[w], real)
  /\ \A w, x \in S : w # x => Away(fr[w], fr[x])

LEMMA RectFields ==
  ASSUME NEW l \in Int, NEW t \in Int, NEW r \in Int, NEW b \in Int
  PROVE  /\ Rect(l, t, r, b) \in Rects
         /\ Rect(l, t, r, b).l = l /\ Rect(l, t, r, b).t = t
         /\ Rect(l, t, r, b).r = r /\ Rect(l, t, r, b).b = b
BY DEF Rect, Rects

LEMMA ShiftedFields ==
  ASSUME NEW f \in Rects, NEW h \in Int, NEW v \in Int
  PROVE  /\ Shifted(f, h, v) \in Rects
         /\ Shifted(f, h, v).l = f.l + h /\ Shifted(f, h, v).r = f.r + h
         /\ Shifted(f, h, v).t = f.t + v /\ Shifted(f, h, v).b = f.b + v
<1>1. f.l + h \in Int /\ f.t + v \in Int /\ f.r + h \in Int /\ f.b + v \in Int
  BY DEF Rects
<1> QED BY <1>1 DEF Shifted, Rect, Rects

(* The least number of a set of numbers. *)
LEMMA MinOfNats ==
  ASSUME NEW T \in SUBSET Nat, T # {}
  PROVE  Min(T) \in T /\ \A y \in T : Min(T) <= y
<1>1. PICK x \in T : \A y \in T : ~ (<<y, x>> \in OpToRel(<, Nat))
  BY WFMin, NatLessThanWellFounded
<1>2. \A y \in T : ~(y < x)
  BY <1>1 DEF OpToRel
<1>3. \A y \in T : x <= y
  BY <1>2
<1> QED BY <1>3 DEF Min

Edge(side, f, real) ==
  CASE side = "left"  -> f.l [] side = "right"  -> real.r - f.r
    [] side = "top"   -> f.t [] side = "bottom" -> real.b - f.b

LEMMA DistanceType ==
  ASSUME NEW f \in Rects, NEW g \in Rects, NEW side \in Sides, OnSide(side, f, g)
  PROVE  Distance(side, f, g) \in Nat
<1>1. CASE side = "left"
  BY <1>1 DEF OnSide, Distance, Rects
<1>2. CASE side = "right"
  BY <1>2 DEF OnSide, Distance, Rects
<1>3. CASE side = "top"
  BY <1>3 DEF OnSide, Distance, Rects
<1>4. CASE side = "bottom"
  BY <1>4 DEF OnSide, Distance, Rects
<1> QED BY <1>1, <1>2, <1>3, <1>4 DEF Sides

(* Room is the way to the window's edge, or to the closest widget but for one pixel. *)
LEMMA RoomIs ==
  ASSUME NEW D, NEW fr, DOMAIN fr = D, \A x \in D : fr[x] \in Rects,
         NEW real, NEW w \in D, NEW side \in Sides
  PROVE  \/ /\ \A y \in D \ {w} : ~OnSide(side, fr[w], fr[y])
            /\ Room(fr, real, w, side) = Edge(side, fr[w], real)
         \/ \E x \in D \ {w} :
              /\ OnSide(side, fr[w], fr[x])
              /\ Room(fr, real, w, side) = Distance(side, fr[w], fr[x]) - 1
              /\ \A y \in D \ {w} : OnSide(side, fr[w], fr[y]) =>
                   Distance(side, fr[w], fr[x]) <= Distance(side, fr[w], fr[y])
<1> DEFINE On   == {y \in D \ {w} : OnSide(side, fr[w], fr[y])}
           near == {Distance(side, fr[w], fr[x]) : x \in On}
<1>1. Room(fr, real, w, side) = IF near = {} THEN Edge(side, fr[w], real) ELSE Min(near) - 1
  BY DEF Room, Edge
<1>2. near \in SUBSET Nat
  BY DistanceType
<1>3. CASE near = {}
  <2>1. \A y \in D \ {w} : ~OnSide(side, fr[w], fr[y])
    BY <1>3
  <2> QED BY <1>1, <1>3, <2>1
<1>4. CASE near # {}
  <2>1. Min(near) \in near /\ \A y \in near : Min(near) <= y
    BY <1>2, <1>4, MinOfNats
  <2>2. PICK x \in On : Min(near) = Distance(side, fr[w], fr[x])
    BY <2>1
  <2>3. \A y \in On : Distance(side, fr[w], fr[x]) <= Distance(side, fr[w], fr[y])
    BY <2>1, <2>2
  <2>4. Room(fr, real, w, side) = Distance(side, fr[w], fr[x]) - 1
    BY <1>1, <1>4, <2>2
  <2> QED BY <2>2, <2>3, <2>4
<1> QED BY <1>3, <1>4

(* Between the widgets of its rows a frame has room, and the room is free. *)
LEMMA RoomAcross ==
  ASSUME NEW D, NEW fr, DOMAIN fr = D, NEW real, real.r \in Int, real.b \in Int,
         Laid(fr, D, real), NEW w \in D
  PROVE  LET f == fr[w]
             lt == Room(fr, real, w, "left")
             rt == Room(fr, real, w, "right")
         IN /\ lt \in Nat /\ rt \in Nat /\ 0 <= f.l - lt /\ f.r + rt <= real.r
            /\ \A y \in D \ {w} : ShareRows(f, fr[y]) =>
                 fr[y].r < f.l - lt \/ f.r + rt < fr[y].l
<1> DEFINE f == fr[w]
           lt == Room(fr, real, w, "left")
           rt == Room(fr, real, w, "right")
<1>1. /\ \A x \in D : fr[x] \in Rects /\ Inside(fr[x], real)
      /\ \A x \in D \ {w} : Away(f, fr[x])
  BY DEF Laid
<1>2. \A x \in D : fr[x].l \in Int /\ fr[x].r \in Int /\ fr[x].t \in Int /\ fr[x].b \in Int
  BY <1>1 DEF Rects
<1>3. \A x \in D \ {w} : ShareRows(f, fr[x]) => f.r < fr[x].l \/ fr[x].r < f.l
  BY <1>1, <1>2 DEF Away, ShareRows
<1>4. lt \in Nat /\ 0 <= f.l - lt
      /\ \A y \in D \ {w} : ShareRows(f, fr[y]) /\ fr[y].r < f.l => fr[y].r < f.l - lt
  <2>0. "left" \in Sides
    BY DEF Sides
  <2>1. CASE /\ \A y \in D \ {w} : ~OnSide("left", f, fr[y])
             /\ lt = f.l
    BY <1>1, <1>2, <2>1 DEF OnSide, Inside
  <2>2. ASSUME NEW x \in D \ {w}, OnSide("left", f, fr[x]), lt = f.l - fr[x].r - 1,
               \A y \in D \ {w} : OnSide("left", f, fr[y]) => f.l - fr[x].r <= f.l - fr[y].r
        PROVE  lt \in Nat /\ 0 <= f.l - lt
               /\ \A y \in D \ {w} : ShareRows(f, fr[y]) /\ fr[y].r < f.l => fr[y].r < f.l - lt
    <3>1. fr[x].r < f.l
      <4>1. fr[x].r <= f.l /\ ShareRows(f, fr[x])
        BY <2>2 DEF OnSide
      <4> QED BY <1>1, <1>2, <1>3, <4>1 DEF Inside
    <3>2. lt \in Nat /\ 0 <= f.l - lt
      BY <1>1, <1>2, <2>2, <3>1 DEF Inside
    <3>3. ASSUME NEW y \in D \ {w}, ShareRows(f, fr[y]), fr[y].r < f.l PROVE fr[y].r < f.l - lt
      <4>1. OnSide("left", f, fr[y])
        BY <1>2, <3>3 DEF OnSide
      <4> QED BY <1>2, <2>2, <4>1
    <3> QED BY <3>2, <3>3
  <2> QED BY <1>1, <2>0, <2>1, <2>2, RoomIs DEF Edge, Distance
<1>5. rt \in Nat /\ f.r + rt <= real.r
      /\ \A y \in D \ {w} : ShareRows(f, fr[y]) /\ f.r < fr[y].l => f.r + rt < fr[y].l
  <2>0. "right" \in Sides
    BY DEF Sides
  <2>1. CASE /\ \A y \in D \ {w} : ~OnSide("right", f, fr[y])
             /\ rt = real.r - f.r
    BY <1>1, <1>2, <2>1 DEF OnSide, Inside
  <2>2. ASSUME NEW x \in D \ {w}, OnSide("right", f, fr[x]), rt = fr[x].l - f.r - 1,
               \A y \in D \ {w} : OnSide("right", f, fr[y]) => fr[x].l - f.r <= fr[y].l - f.r
        PROVE  rt \in Nat /\ f.r + rt <= real.r
               /\ \A y \in D \ {w} : ShareRows(f, fr[y]) /\ f.r < fr[y].l => f.r + rt < fr[y].l
    <3>1. f.r < fr[x].l
      <4>1. f.r <= fr[x].l /\ ShareRows(f, fr[x])
        BY <1>2, <2>2 DEF OnSide
      <4> QED BY <1>1, <1>2, <1>3, <4>1 DEF Inside
    <3>2. rt \in Nat /\ f.r + rt <= real.r
      BY <1>1, <1>2, <2>2, <3>1 DEF Inside
    <3>3. ASSUME NEW y \in D \ {w}, ShareRows(f, fr[y]), f.r < fr[y].l PROVE f.r + rt < fr[y].l
      <4>1. OnSide("right", f, fr[y])
        BY <1>2, <3>3 DEF OnSide
      <4> QED BY <1>2, <2>2, <4>1
    <3> QED BY <3>2, <3>3
  <2> QED BY <1>1, <2>0, <2>1, <2>2, RoomIs DEF Edge, Distance
<1> QED BY <1>3, <1>4, <1>5

(* Above and below, a widget that shares the row of an edge leaves no room but
   takes a row away; what remains is free. *)
LEMMA RoomAlong ==
  ASSUME NEW D, NEW fr, DOMAIN fr = D, NEW real, real.r \in Int, real.b \in Int,
         Laid(fr, D, real), NEW w \in D
  PROVE  LET f == fr[w]
             tp == Room(fr, real, w, "top")
             bt == Room(fr, real, w, "bottom")
         IN /\ tp \in Int /\ bt \in Int /\ tp >= -1 /\ bt >= -1
            /\ 0 <= f.t - tp /\ f.b + bt <= real.b
            /\ \A y \in D \ {w} : ShareColumns(f, fr[y]) =>
                 fr[y].b < f.t - tp \/ f.b + bt < fr[y].t
            /\ tp = -1 => \E x \in D \ {w} : fr[x].b = f.t
            /\ bt = -1 => \E x \in D \ {w} : fr[x].t = f.b
<1> DEFINE f == fr[w]
           tp == Room(fr, real, w, "top")
           bt == Room(fr, real, w, "bottom")
<1>1. /\ \A x \in D : fr[x] \in Rects /\ Inside(fr[x], real)
      /\ \A x \in D \ {w} : Away(f, fr[x])
  BY DEF Laid
<1>2. \A x \in D : fr[x].l \in Int /\ fr[x].r \in Int /\ fr[x].t \in Int /\ fr[x].b \in Int
  BY <1>1 DEF Rects
<1>3. \A x \in D \ {w} : ShareColumns(f, fr[x]) => f.b <= fr[x].t \/ fr[x].b <= f.t
  BY <1>1, <1>2 DEF Away, ShareColumns
<1>4. /\ tp \in Int /\ tp >= -1 /\ 0 <= f.t - tp
      /\ tp = -1 => \E x \in D \ {w} : fr[x].b = f.t
      /\ \A y \in D \ {w} : ShareColumns(f, fr[y]) /\ fr[y].b <= f.t => fr[y].b < f.t - tp
  <2>0. "top" \in Sides
    BY DEF Sides
  <2>1. CASE /\ \A y \in D \ {w} : ~OnSide("top", f, fr[y])
             /\ tp = f.t
    BY <1>1, <1>2, <2>1 DEF OnSide, Inside
  <2>2. ASSUME NEW x \in D \ {w}, OnSide("top", f, fr[x]), tp = f.t - fr[x].b - 1,
               \A y \in D \ {w} : OnSide("top", f, fr[y]) => f.t - fr[x].b <= f.t - fr[y].b
        PROVE  /\ tp \in Int /\ tp >= -1 /\ 0 <= f.t - tp
               /\ tp = -1 => \E z \in D \ {w} : fr[z].b = f.t
               /\ \A y \in D \ {w} : ShareColumns(f, fr[y]) /\ fr[y].b <= f.t => fr[y].b < f.t - tp
    <3>1. fr[x].b <= f.t
      BY <2>2 DEF OnSide
    <3>2. /\ tp \in Int /\ tp >= -1 /\ 0 <= f.t - tp
          /\ tp = -1 => fr[x].b = f.t
      BY <1>1, <1>2, <2>2, <3>1 DEF Inside
    <3>3. ASSUME NEW y \in D \ {w}, ShareColumns(f, fr[y]), fr[y].b <= f.t PROVE fr[y].b < f.t - tp
      <4>1. OnSide("top", f, fr[y])
        BY <1>2, <3>3 DEF OnSide
      <4> QED BY <1>2, <2>2, <4>1
    <3> QED BY <3>2, <3>3
  <2> QED BY <1>1, <2>0, <2>1, <2>2, RoomIs DEF Edge, Distance
<1>5. /\ bt \in Int /\ bt >= -1 /\ f.b + bt <= real.b
      /\ bt = -1 => \E x \in D \ {w} : fr[x].t = f.b
      /\ \A y \in D \ {w} : ShareColumns(f, fr[y]) /\ f.b <= fr[y].t => f.b + bt < fr[y].t
  <2>0. "bottom" \in Sides
    BY DEF Sides
  <2>1. CASE /\ \A y \in D \ {w} : ~OnSide("bottom", f, fr[y])
             /\ bt = real.b - f.b
    BY <1>1, <1>2, <2>1 DEF OnSide, Inside
  <2>2. ASSUME NEW x \in D \ {w}, OnSide("bottom", f, fr[x]), bt = fr[x].t - f.b - 1,
               \A y \in D \ {w} : OnSide("bottom", f, fr[y]) => fr[x].t - f.b <= fr[y].t - f.b
        PROVE  /\ bt \in Int /\ bt >= -1 /\ f.b + bt <= real.b
               /\ bt = -1 => \E z \in D \ {w} : fr[z].t = f.b
               /\ \A y \in D \ {w} : ShareColumns(f, fr[y]) /\ f.b <= fr[y].t => f.b + bt < fr[y].t
    <3>1. f.b <= fr[x].t
      BY <1>2, <2>2 DEF OnSide
    <3>2. /\ bt \in Int /\ bt >= -1 /\ f.b + bt <= real.b
          /\ bt = -1 => fr[x].t = f.b
      BY <1>1, <1>2, <2>2, <3>1 DEF Inside
    <3>3. ASSUME NEW y \in D \ {w}, ShareColumns(f, fr[y]), f.b <= fr[y].t PROVE f.b + bt < fr[y].t
      <4>1. OnSide("bottom", f, fr[y])
        BY <1>2, <3>3 DEF OnSide
      <4> QED BY <1>2, <2>2, <4>1
    <3> QED BY <3>2, <3>3
  <2>3. \/ (\A y \in D \ {w} : ~OnSide("bottom", f, fr[y])) /\ bt = real.b - f.b
        \/ \E x \in D \ {w} :
             /\ OnSide("bottom", f, fr[x]) /\ bt = fr[x].t - f.b - 1
             /\ \A y \in D \ {w} : OnSide("bottom", f, fr[y]) => fr[x].t - f.b <= fr[y].t - f.b
    <3>1. /\ Edge("bottom", f, real) = real.b - f.b
          /\ \A x : Distance("bottom", f, fr[x]) = fr[x].t - f.b
      BY DEF Edge, Distance
    <3>2. \A x \in D : fr[x] \in Rects
      BY <1>1
    <3> QED BY <2>0, <3>1, <3>2, RoomIs
  <2> HIDE DEF f, bt
  <2> QED BY <2>1, <2>2, <2>3
<1> HIDE DEF f, tp, bt
<1>6. \A y \in D \ {w} : ShareColumns(f, fr[y]) => fr[y].b < f.t - tp \/ f.b + bt < fr[y].t
  BY <1>3, <1>4, <1>5
<1> QED BY <1>4, <1>5, <1>6 DEF f, tp, bt

(* One frame of a layout may become another one that is inside and away from the rest. *)
LEMMA LaidUpdate ==
  ASSUME NEW D, NEW fr, NEW real, Laid(fr, D, real), NEW w \in D,
         NEW new, new[w] \in Rects, Inside(new[w], real), \A y \in D \ {w} : new[y] = fr[y],
         \A y \in D \ {w} : Away(new[w], fr[y])
  PROVE  Laid(new, D, real)
<1>1. \A x \in D : new[x] \in Rects /\ Inside(new[x], real)
  BY DEF Laid
<1>2. ASSUME NEW x \in D, NEW y \in D, x # y PROVE Away(new[x], new[y])
  <2>1. CASE x = w
    BY <1>2, <2>1
  <2>2. CASE y = w
    BY <1>2, <2>2 DEF Away
  <2>3. CASE x # w /\ y # w
    BY <1>2, <2>3 DEF Laid
  <2> QED BY <2>1, <2>2, <2>3
<1> QED BY <1>1, <1>2 DEF Laid

LEMMA GrowXLaid ==
  ASSUME NEW D, NEW fr, DOMAIN fr = D, NEW real, real.r \in Int, real.b \in Int,
         Laid(fr, D, real), NEW w \in D
  PROVE  /\ DOMAIN GrowX(fr, real, w) = D
         /\ Laid(GrowX(fr, real, w), D, real)
         /\ \A x \in D : Height(GrowX(fr, real, w)[x]) = Height(fr[x])
<1> DEFINE f   == fr[w]
           lt  == Room(fr, real, w, "left")
           rt  == Room(fr, real, w, "right")
           g   == [f EXCEPT !.l = @ - lt, !.r = @ + rt]
           new == [fr EXCEPT ![w] = g]
<1>1. CASE w \notin ExpandX
  BY <1>1 DEF GrowX
<1>2. CASE w \in ExpandX
  <2>1. GrowX(fr, real, w) = new
    BY <1>2 DEF GrowX
  <2>2. /\ lt \in Nat /\ rt \in Nat /\ 0 <= f.l - lt /\ f.r + rt <= real.r
        /\ \A y \in D \ {w} : ShareRows(f, fr[y]) => fr[y].r < f.l - lt \/ f.r + rt < fr[y].l
    BY RoomAcross
  <2>3. f \in Rects /\ Inside(f, real) /\ \A y \in D \ {w} : Away(f, fr[y]) /\ fr[y] \in Rects
    BY DEF Laid
  <2> HIDE DEF lt, rt, f
  <2>4. g \in Rects /\ g.l = f.l - lt /\ g.r = f.r + rt /\ g.t = f.t /\ g.b = f.b
    <3>1. f.l - lt \in Int /\ f.r + rt \in Int
      BY <2>2, <2>3 DEF Rects
    <3>2. \A a, b \in Int : LET e == [f EXCEPT !.l = a, !.r = b]
                           IN e \in Rects /\ e.l = a /\ e.r = b /\ e.t = f.t /\ e.b = f.b
      BY <2>3 DEF Rects
    <3>3. g = [f EXCEPT !.l = f.l - lt, !.r = f.r + rt]
      OBVIOUS
    <3> HIDE DEF g
    <3> QED BY <3>1, <3>2, <3>3
  <2>5. DOMAIN new = D /\ new[w] = g /\ \A y \in D \ {w} : new[y] = fr[y]
    OBVIOUS
  <2> HIDE DEF g, new
  <2>6. Inside(g, real)
    BY <2>2, <2>3, <2>4 DEF Inside, Rects
  <2>7. ASSUME NEW y \in D \ {w} PROVE Away(g, fr[y])
    BY <2>2, <2>3, <2>4 DEF Away, ShareRows, Rects
  <2>8. Laid(new, D, real)
    BY <2>4, <2>5, <2>6, <2>7, LaidUpdate
  <2>9. \A x \in D : Height(new[x]) = Height(fr[x])
    BY <2>4, <2>5 DEF Height, f
  <2> QED BY <2>1, <2>5, <2>8, <2>9
<1> QED BY <1>1, <1>2

\* At most one widget besides w.
Two(D, w) == \E x : D = {w, x}

LEMMA GrowYLaid ==
  ASSUME NEW D, NEW fr, DOMAIN fr = D, NEW real, real.r \in Int, real.b \in Int,
         Laid(fr, D, real), NEW w \in D
  PROVE  /\ DOMAIN GrowY(fr, real, w) = D
         /\ \A x \in D \ {w} : Height(GrowY(fr, real, w)[x]) = Height(fr[x])
         /\ Height(GrowY(fr, real, w)[w]) \in Int
         /\ w \notin ExpandY => GrowY(fr, real, w) = fr
         /\ Height(GrowY(fr, real, w)[w]) >= Height(fr[w]) - 2
         /\ D = {w} => Height(GrowY(fr, real, w)[w]) >= Height(fr[w])
         /\ Two(D, w) /\ Height(fr[w]) > 0 => Height(GrowY(fr, real, w)[w]) >= Height(fr[w]) - 1
         /\ Height(GrowY(fr, real, w)[w]) >= 0 => Laid(GrowY(fr, real, w), D, real)
<1> DEFINE f   == fr[w]
           tp  == Room(fr, real, w, "top")
           bt  == Room(fr, real, w, "bottom")
           g   == [f EXCEPT !.t = @ - tp, !.b = @ + bt]
           new == [fr EXCEPT ![w] = g]
<1>0. /\ f \in Rects /\ Inside(f, real)
      /\ \A y \in D \ {w} : Away(f, fr[y]) /\ fr[y] \in Rects /\ Inside(fr[y], real)
  BY DEF Laid
<1>1. CASE w \notin ExpandY
  <2>1. GrowY(fr, real, w) = fr
    BY <1>1 DEF GrowY
  <2>2. Height(f) \in Int /\ \A n \in Int : n >= n - 2 /\ n >= n - 1 /\ n >= n
    BY <1>0 DEF Height, Rects
  <2> QED BY <2>1, <2>2
<1>2. CASE w \in ExpandY
  <2>1. GrowY(fr, real, w) = new
    BY <1>2 DEF GrowY
  <2>2. /\ tp \in Int /\ bt \in Int /\ tp >= -1 /\ bt >= -1 /\ 0 <= f.t - tp /\ f.b + bt <= real.b
        /\ \A y \in D \ {w} : ShareColumns(f, fr[y]) => fr[y].b < f.t - tp \/ f.b + bt < fr[y].t
        /\ tp = -1 => \E x \in D \ {w} : fr[x].b = f.t
        /\ bt = -1 => \E x \in D \ {w} : fr[x].t = f.b
    BY RoomAlong
  <2> HIDE DEF tp, bt, f
  <2>4. g \in Rects /\ g.l = f.l /\ g.r = f.r /\ g.t = f.t - tp /\ g.b = f.b + bt
    <3>1. f.t - tp \in Int /\ f.b + bt \in Int
      BY <1>0, <2>2 DEF Rects
    <3>2. \A a, b \in Int : LET e == [f EXCEPT !.t = a, !.b = b]
                           IN e \in Rects /\ e.t = a /\ e.b = b /\ e.l = f.l /\ e.r = f.r
      BY <1>0 DEF Rects
    <3>3. g = [f EXCEPT !.t = f.t - tp, !.b = f.b + bt]
      OBVIOUS
    <3> HIDE DEF g
    <3> QED BY <3>1, <3>2, <3>3
  <2>5. DOMAIN new = D /\ new[w] = g /\ \A y \in D \ {w} : new[y] = fr[y]
    OBVIOUS
  <2>a. fr[w] = f
    BY DEF f
  <2> HIDE DEF g, new
  <2>b. /\ f.t \in Int /\ f.b \in Int /\ Height(g) = Height(f) + tp + bt
        /\ Height(f) \in Int /\ Height(g) \in Int /\ Height(f) = f.b - f.t
    BY <1>0, <2>2, <2>4 DEF Height, Rects
  <2>c. Height(g) >= Height(f) - 2
    BY <2>2, <2>b
  <2>d. D = {w} => Height(g) >= Height(f)
    <3>1. D = {w} => tp # -1 /\ bt # -1
      BY <2>2
    <3> QED BY <2>2, <2>b, <3>1
  <2>e. ASSUME Two(D, w), Height(f) > 0 PROVE Height(g) >= Height(f) - 1
    <3>0. PICK x : D = {w, x}
      BY <2>e DEF Two
    <3>1. ~(tp = -1 /\ bt = -1)
      <4> SUFFICES ASSUME tp = -1, bt = -1 PROVE FALSE
        OBVIOUS
      <4>1. x \in D \ {w} /\ fr[x].b = f.t /\ fr[x].t = f.b
        BY <2>2, <3>0
      <4>2. fr[x].t <= fr[x].b
        BY <1>0, <4>1 DEF Inside
      <4> QED BY <2>b, <2>e, <4>1, <4>2
    <3> QED BY <2>2, <2>b, <3>1
  <2>6. ASSUME Height(g) >= 0 PROVE Laid(new, D, real)
    <3>1. Inside(g, real)
      BY <1>0, <2>2, <2>4, <2>6 DEF Inside, Rects, Height
    <3>2. ASSUME NEW y \in D \ {w} PROVE Away(g, fr[y])
      BY <1>0, <2>2, <2>4 DEF Away, ShareColumns, Rects
    <3> QED BY <2>4, <2>5, <3>1, <3>2, LaidUpdate
  <2>7. \A x \in D \ {w} : Height(new[x]) = Height(fr[x])
    BY <2>5
  <2>8. new[w] = g
    BY <2>5
  <2> QED BY <1>2, <2>1, <2>5, <2>7, <2>8, <2>a, <2>b, <2>c, <2>d, <2>e, <2>6
<1> QED BY <1>1, <1>2

(* A move into the room there is keeps a layout. *)
LEMMA OffsetRange ==
  ASSUME NEW how, NEW before \in Int, before >= -1, NEW after \in Int, after >= -1
  PROVE  /\ Offset(how, before, after) \in Nat
         /\ Offset(how, before, after) = 0 \/ Offset(how, before, after) <= after
<1>1. CASE how = "center" /\ after > before
  <2>1. Offset(how, before, after) = (after - before) \div 2
    BY <1>1 DEF Offset
  <2>2. /\ (after - before) \div 2 \in Int /\ 2 * ((after - before) \div 2) <= after - before
        /\ (after - before) \div 2 >= 0
    BY <1>1
  <2>3. after - before <= after + 1
    OBVIOUS
  <2>4. (after - before) \div 2 <= after \/ (after - before) \div 2 = 0
    BY <2>2, <2>3, <1>1
  <2> QED BY <2>1, <2>2, <2>4
<1>2. CASE how = "center" /\ ~(after > before)
  BY <1>2 DEF Offset
<1>3. CASE how # "center"
  BY <1>3 DEF Offset
<1> QED BY <1>1, <1>2, <1>3

LEMMA AlignLaid ==
  ASSUME NEW D, NEW fr, DOMAIN fr = D, NEW real, real.r \in Int, real.b \in Int,
         Laid(fr, D, real), NEW g, g.widget \in D
  PROVE  /\ DOMAIN AlignOne(real, fr, g) = D
         /\ Laid(AlignOne(real, fr, g), D, real)
         /\ \A x \in D : Height(AlignOne(real, fr, g)[x]) = Height(fr[x])
<1> DEFINE w     == g.widget
           h     == Offset(HAlign[w], Room(fr, real, w, "left"), Room(fr, real, w, "right"))
           moved == MoveByChilds(fr, {w}, h, 0)
           v     == Offset(VAlign[w], Room(moved, real, w, "top"), Room(moved, real, w, "bottom"))
           new   == MoveByChilds(moved, {w}, 0, v)
<1>1. AlignOne(real, fr, g) = new
  BY DEF AlignOne
<1>2. /\ DOMAIN moved = D /\ Laid(moved, D, real)
      /\ \A x \in D : Height(moved[x]) = Height(fr[x])
  <2> DEFINE lt == Room(fr, real, w, "left")
             rt == Room(fr, real, w, "right")
             f  == fr[w]
  <2>1. /\ lt \in Nat /\ rt \in Nat /\ 0 <= f.l - lt /\ f.r + rt <= real.r
        /\ \A y \in D \ {w} : ShareRows(f, fr[y]) => fr[y].r < f.l - lt \/ f.r + rt < fr[y].l
    BY RoomAcross
  <2>2. f \in Rects /\ Inside(f, real) /\ \A y \in D \ {w} : Away(f, fr[y]) /\ fr[y] \in Rects
    BY DEF Laid
  <2> HIDE DEF lt, rt, f
  <2>3. h \in Nat /\ (h = 0 \/ h <= rt)
    BY <2>1, OffsetRange DEF lt, rt
  <2> HIDE DEF h
  <2>4. /\ Shifted(f, h, 0) \in Rects
        /\ Shifted(f, h, 0).l = f.l + h /\ Shifted(f, h, 0).r = f.r + h
        /\ Shifted(f, h, 0).t = f.t /\ Shifted(f, h, 0).b = f.b
    BY <2>2, <2>3, ShiftedFields DEF Rects
  <2>5. DOMAIN moved = D /\ moved[w] = Shifted(f, h, 0) /\ \A y \in D \ {w} : moved[y] = fr[y]
    BY DEF MoveByChilds, f
  <2> HIDE DEF moved, w
  <2>6. Inside(moved[w], real)
    BY <2>1, <2>2, <2>3, <2>4, <2>5 DEF Inside, Rects
  <2>7. ASSUME NEW y \in D \ {w} PROVE Away(moved[w], fr[y])
    BY <2>1, <2>2, <2>3, <2>4, <2>5 DEF Away, ShareRows, Rects
  <2>8. Laid(moved, D, real)
    BY <2>4, <2>5, <2>6, <2>7, LaidUpdate DEF w
  <2>9. \A x \in D : Height(moved[x]) = Height(fr[x])
    BY <2>4, <2>5 DEF Height, f
  <2> QED BY <2>5, <2>8, <2>9
<1> HIDE DEF moved
<1>3. /\ DOMAIN new = D /\ Laid(new, D, real)
      /\ \A x \in D : Height(new[x]) = Height(moved[x])
  <2> DEFINE tp == Room(moved, real, w, "top")
             bt == Room(moved, real, w, "bottom")
             f  == moved[w]
  <2>1. /\ tp \in Int /\ bt \in Int /\ tp >= -1 /\ bt >= -1 /\ 0 <= f.t - tp /\ f.b + bt <= real.b
        /\ \A y \in D \ {w} : ShareColumns(f, moved[y]) => moved[y].b < f.t - tp \/ f.b + bt < moved[y].t
    BY <1>2, RoomAlong
  <2>2. f \in Rects /\ Inside(f, real) /\ \A y \in D \ {w} : Away(f, moved[y]) /\ moved[y] \in Rects
    BY <1>2 DEF Laid
  <2> HIDE DEF tp, bt, f
  <2>3. v \in Nat /\ (v = 0 \/ v <= bt)
    BY <2>1, OffsetRange DEF tp, bt
  <2> HIDE DEF v
  <2>4. /\ Shifted(f, 0, v) \in Rects
        /\ Shifted(f, 0, v).l = f.l /\ Shifted(f, 0, v).r = f.r
        /\ Shifted(f, 0, v).t = f.t + v /\ Shifted(f, 0, v).b = f.b + v
    BY <2>2, <2>3, ShiftedFields DEF Rects
  <2>5. DOMAIN new = D /\ new[w] = Shifted(f, 0, v) /\ \A y \in D \ {w} : new[y] = moved[y]
    BY <1>2 DEF MoveByChilds, f
  <2> HIDE DEF new, w
  <2>6. Inside(new[w], real)
    BY <2>1, <2>2, <2>3, <2>4, <2>5 DEF Inside, Rects
  <2>7. ASSUME NEW y \in D \ {w} PROVE Away(new[w], moved[y])
    BY <2>1, <2>2, <2>3, <2>4, <2>5 DEF Away, ShareColumns, Rects
  <2>8. Laid(new, D, real)
    BY <1>2, <2>4, <2>5, <2>6, <2>7, LaidUpdate DEF w
  <2>9. \A x \in D : Height(new[x]) = Height(moved[x])
    BY <2>2, <2>3, <2>4, <2>5 DEF Height, f, Rects
  <2> QED BY <2>5, <2>8, <2>9
<1> HIDE DEF new
<1> QED BY <1>1, <1>2, <1>3

-----------------------------------------------------------------------------
(* ExpandChilds.  A widget is squeezed between the edges it shares with       *)
(* others, by one pixel on each side, whenever it is expanded in height.      *)

WidgetsOf(s) == {s[i].widget : i \in 1..Len(s)}
Distinct(s)  == \A i, j \in 1..Len(s) : s[i].widget = s[j].widget => i = j

\* By how many pixels at most when n widgets are expanded.
Squeeze(n) == IF n <= 1 THEN 0 ELSE IF n = 2 THEN 1 ELSE 2
LossOf(w, n) == IF w \in ExpandY THEN Squeeze(n) ELSE 0

LEMMA GrowYSqueezes ==
  ASSUME NEW D, NEW fr, DOMAIN fr = D, NEW real, real.r \in Int, real.b \in Int,
         Laid(fr, D, real), NEW w \in D, NEW q \in 0..2,
         q = 0 => D = {w}, q = 1 => Two(D, w),
         w \in ExpandY => Height(fr[w]) >= q
  PROVE  /\ DOMAIN GrowY(fr, real, w) = D /\ Laid(GrowY(fr, real, w), D, real)
         /\ \A x \in D \ {w} : Height(GrowY(fr, real, w)[x]) = Height(fr[x])
         /\ Height(GrowY(fr, real, w)[w]) >= Height(fr[w]) - (IF w \in ExpandY THEN q ELSE 0)
<1> DEFINE y == GrowY(fr, real, w)
<1>1. /\ DOMAIN y = D
      /\ \A x \in D \ {w} : Height(y[x]) = Height(fr[x])
      /\ Height(y[w]) \in Int
      /\ w \notin ExpandY => y = fr
      /\ Height(y[w]) >= Height(fr[w]) - 2
      /\ D = {w} => Height(y[w]) >= Height(fr[w])
      /\ Two(D, w) /\ Height(fr[w]) > 0 => Height(y[w]) >= Height(fr[w]) - 1
      /\ Height(y[w]) >= 0 => Laid(y, D, real)
  BY GrowYLaid
<1> HIDE DEF y
<1>2. Height(fr[w]) \in Nat
  <2>1. fr[w] \in Rects /\ Inside(fr[w], real)
    BY DEF Laid
  <2> QED BY <2>1 DEF Inside, Rects, Height
<1>3. CASE w \notin ExpandY
  <2>1. Height(y[w]) >= Height(fr[w]) - 0
    BY <1>1, <1>2, <1>3
  <2>2. y = fr
    BY <1>1, <1>3
  <2> QED BY <1>1, <1>3, <2>1, <2>2 DEF y
<1>4. CASE w \in ExpandY
  <2>1. q = 0 => Height(y[w]) >= Height(fr[w])
    BY <1>1
  <2>2. q = 1 => Height(y[w]) >= Height(fr[w]) - 1
    BY <1>1, <1>2, <1>4
  <2>3. Height(y[w]) >= Height(fr[w]) - q
    <3>1. q = 0 \/ q = 1 \/ q = 2
      OBVIOUS
    <3> QED BY <1>1, <1>2, <2>1, <2>2, <3>1
  <2>4. Height(y[w]) >= 0
    BY <1>1, <1>2, <1>4, <2>3
  <2>5. Laid(y, D, real)
    BY <1>1, <2>4
  <2> QED BY <1>1, <1>4, <2>3, <2>5 DEF y
<1> QED BY <1>3, <1>4

LEMMA ExpandOneLaid ==
  ASSUME NEW D, NEW fr, DOMAIN fr = D, NEW real, real.r \in Int, real.b \in Int,
         Laid(fr, D, real), NEW g, g.widget \in D, NEW q \in 0..2,
         q = 0 => D = {g.widget}, q = 1 => Two(D, g.widget),
         g.widget \in ExpandY => Height(fr[g.widget]) >= q
  PROVE  /\ DOMAIN ExpandOne(real, fr, g) = D
         /\ Laid(ExpandOne(real, fr, g), D, real)
         /\ \A x \in D \ {g.widget} : Height(ExpandOne(real, fr, g)[x]) = Height(fr[x])
         /\ Height(ExpandOne(real, fr, g)[g.widget])
              >= Height(fr[g.widget]) - (IF g.widget \in ExpandY THEN q ELSE 0)
<1> DEFINE w == g.widget
           new == ExpandOne(real, fr, g)
           Made(now) == /\ DOMAIN now = D /\ Laid(now, D, real)
                        /\ \A x \in D \ {w} : Height(now[x]) = Height(fr[x])
                        /\ Height(now[w]) >= Height(fr[w]) - (IF w \in ExpandY THEN q ELSE 0)
<1>1. w \in D
  OBVIOUS
<1>2. Made(fr)
  <2>1. fr[w] \in Rects
    BY DEF Laid
  <2>2. Height(fr[w]) \in Int
    BY <2>1 DEF Height, Rects
  <2> QED BY <2>2
<1>3. Made(GrowY(GrowX(fr, real, w), real, w))
  <2> DEFINE now == GrowX(fr, real, w)
  <2>1. /\ DOMAIN now = D /\ Laid(now, D, real)
        /\ \A x \in D : Height(now[x]) = Height(fr[x])
    BY GrowXLaid
  <2>2. w \in ExpandY => Height(now[w]) >= q
    BY <1>1, <2>1
  <2> HIDE DEF now, w
  <2>3. (q = 0 => D = {w}) /\ (q = 1 => Two(D, w))
    BY DEF w
  <2>4. /\ DOMAIN GrowY(now, real, w) = D /\ Laid(GrowY(now, real, w), D, real)
        /\ \A x \in D \ {w} : Height(GrowY(now, real, w)[x]) = Height(now[x])
        /\ Height(GrowY(now, real, w)[w]) >= Height(now[w]) - (IF w \in ExpandY THEN q ELSE 0)
    BY <1>1, <2>1, <2>2, <2>3, GrowYSqueezes
  <2> QED BY <1>1, <2>1, <2>4 DEF now
<1>4. Made(GrowX(GrowY(fr, real, w), real, w))
  <2> DEFINE now == GrowY(fr, real, w)
  <2>1. Made(now)
    BY <1>1, GrowYSqueezes
  <2> HIDE DEF now
  <2>2. /\ DOMAIN GrowX(now, real, w) = D /\ Laid(GrowX(now, real, w), D, real)
        /\ \A x \in D : Height(GrowX(now, real, w)[x]) = Height(now[x])
    BY <1>1, <2>1, GrowXLaid
  <2> QED BY <1>1, <2>1, <2>2 DEF now
<1>5. \/ new = fr \/ new = GrowY(GrowX(fr, real, w), real, w)
      \/ new = GrowX(GrowY(fr, real, w), real, w)
  BY DEF ExpandOne
<1> HIDE DEF new
<1>6. Made(new)
  <2> HIDE DEF Made
  <2> QED BY <1>2, <1>3, <1>4, <1>5
<1> QED BY <1>6 DEF new

LEMMA ExpandedLaid ==
  ASSUME NEW s, Len(s) \in Nat, DOMAIN s = 1..Len(s), Distinct(s),
         NEW fr, DOMAIN fr = WidgetsOf(s), NEW real, real.r \in Int, real.b \in Int,
         Laid(fr, WidgetsOf(s), real),
         \A w \in WidgetsOf(s) : Height(fr[w]) >= LossOf(w, Len(s))
  PROVE  LET new == Expanded(s, fr, real)
         IN /\ DOMAIN new = WidgetsOf(s) /\ Laid(new, WidgetsOf(s), real)
            /\ \A w \in WidgetsOf(s) : Height(new[w]) >= Height(fr[w]) - LossOf(w, Len(s))
<1> DEFINE n == Len(s)
           D == WidgetsOf(s)
           q == Squeeze(n)
<1>1. PICK h : Loop("Expand", [real |-> real], fr, s, h) /\ Expanded(s, fr, real) = h[n]
  BY ExpandLoop
<1>2. h[0] = fr /\ \A k \in 1..n : h[k] = ExpandOne(real, h[k - 1], s[k])
  BY <1>1 DEF Loop, Step
<1>3. q \in 0..2 /\ (q = 0 => n <= 1) /\ (q = 1 => n = 2)
  BY DEF Squeeze
<1>4. \A i \in 1..n : s[i].widget \in D
  BY DEF WidgetsOf
<1>5. \A i \in 1..n : (q = 0 => D = {s[i].widget}) /\ (q = 1 => Two(D, s[i].widget))
  <2> SUFFICES ASSUME NEW i \in 1..n
               PROVE  (q = 0 => D = {s[i].widget}) /\ (q = 1 => Two(D, s[i].widget))
    OBVIOUS
  <2>1. CASE q = 0
    <3>1. n = 1 /\ i = 1
      BY <1>3, <2>1
    <3>2. D = {s[1].widget}
      BY <3>1 DEF WidgetsOf
    <3> QED BY <2>1, <3>1, <3>2
  <2>2. CASE q = 1
    <3>0. n = 2
      BY <1>3, <2>2
    <3> HIDE DEF n
    <3>1. n = 2 /\ (i = 1 \/ i = 2)
      BY <3>0
    <3>2. D = {s[1].widget, s[2].widget}
      <4>1. 1..n = {1, 2}
        BY <3>1
      <4> QED BY <4>1 DEF WidgetsOf, n
    <3> QED BY <2>2, <3>1, <3>2 DEF Two
  <2> QED BY <2>1, <2>2
<1> HIDE DEF q
<1> DEFINE Good(k) == /\ DOMAIN h[k] = D /\ Laid(h[k], D, real)
                      /\ \A i \in 1..n : i > k => Height(h[k][s[i].widget]) = Height(fr[s[i].widget])
                      /\ \A i \in 1..n : i <= k =>
                           Height(h[k][s[i].widget]) >= Height(fr[s[i].widget]) - LossOf(s[i].widget, n)
           K == {k \in Nat : k <= n => Good(k)}
<1>6. 0 \in K
  <2>1. \A i \in 1..n : ~(i <= 0)
    OBVIOUS
  <2>2. Good(0)
    BY <1>2, <2>1
  <2> QED BY <2>2
<1>7. ASSUME NEW k \in Nat, k \in K PROVE k + 1 \in K
  <2> SUFFICES ASSUME k + 1 <= n PROVE Good(k + 1)
    OBVIOUS
  <2> DEFINE m == k + 1
             w == s[m].widget
  <2>1. m \in 1..n /\ m - 1 = k /\ k <= n /\ m > k
    OBVIOUS
  <2>2. Good(k)
    BY <1>7, <2>1
  <2>3. h[m] = ExpandOne(real, h[k], s[m])
    BY <1>2, <2>1
  <2>4. w \in D
    BY <1>4, <2>1
  <2>5. Height(h[k][w]) = Height(fr[w])
    BY <2>1, <2>2
  <2>6. w \in ExpandY => Height(h[k][w]) >= q
    BY <2>4, <2>5 DEF LossOf, q
  <2>7. (q = 0 => D = {w}) /\ (q = 1 => Two(D, w))
    BY <1>5, <2>1
  <2>8. DOMAIN h[k] = D /\ Laid(h[k], D, real)
    BY <2>2
  <2> HIDE DEF D, w, Good
  <2>9. /\ DOMAIN h[m] = D /\ Laid(h[m], D, real)
        /\ \A x \in D \ {w} : Height(h[m][x]) = Height(h[k][x])
        /\ Height(h[m][w]) >= Height(h[k][w]) - (IF w \in ExpandY THEN q ELSE 0)
    <3> DEFINE now == h[k]
               g == s[m]
    <3>1. g.widget = w
      BY DEF w
    <3>2. DOMAIN now = D /\ Laid(now, D, real) /\ (w \in ExpandY => Height(now[w]) >= q)
      BY <2>6, <2>8
    <3>3. h[m] = ExpandOne(real, now, g)
      BY <2>3
    <3> HIDE DEF now, g, m
    <3>4. /\ DOMAIN ExpandOne(real, now, g) = D
          /\ Laid(ExpandOne(real, now, g), D, real)
          /\ \A x \in D \ {g.widget} : Height(ExpandOne(real, now, g)[x]) = Height(now[x])
          /\ Height(ExpandOne(real, now, g)[g.widget])
               >= Height(now[g.widget]) - (IF g.widget \in ExpandY THEN q ELSE 0)
      BY <1>3, <2>4, <2>7, <3>1, <3>2, ExpandOneLaid
    <3> QED BY <3>1, <3>3, <3>4 DEF now
  <2>10. \A i \in 1..n : i # m => s[i].widget \in D \ {w}
    BY <1>4, <2>1 DEF Distinct, w, D
  <2>11. \A i \in 1..n : i > m => Height(h[m][s[i].widget]) = Height(fr[s[i].widget])
    <3> SUFFICES ASSUME NEW i \in 1..n, i > m PROVE Height(h[m][s[i].widget]) = Height(fr[s[i].widget])
      OBVIOUS
    <3>1. i # m /\ i > k
      BY <2>1
    <3> QED BY <2>2, <2>9, <2>10, <3>1 DEF Good
  <2>12. ASSUME NEW i \in 1..n, i <= m
         PROVE  Height(h[m][s[i].widget]) >= Height(fr[s[i].widget]) - LossOf(s[i].widget, n)
    <3>1. CASE i = m
      <4>1. s[i].widget = w
        BY <3>1 DEF w
      <4> QED BY <2>5, <2>9, <4>1 DEF LossOf, q
    <3>2. CASE i # m
      <4>1. i <= k
        BY <2>12, <2>1, <3>2
      <4> QED BY <2>2, <2>9, <2>10, <3>2, <4>1 DEF Good
    <3> QED BY <3>1, <3>2
  <2> QED BY <2>9, <2>11, <2>12 DEF Good
<1>8. \A k \in Nat : k \in K
  <2> HIDE DEF K
  <2> QED BY <1>6, <1>7, Induction
<1>9. Good(n)
  BY <1>8
<1>10. \A w \in D : Height(h[n][w]) >= Height(fr[w]) - LossOf(w, n)
  <2> SUFFICES ASSUME NEW w \in D PROVE Height(h[n][w]) >= Height(fr[w]) - LossOf(w, n)
    OBVIOUS
  <2>1. PICK i \in 1..n : s[i].widget = w
    BY DEF WidgetsOf
  <2>2. i <= n
    OBVIOUS
  <2> QED BY <1>9, <2>1, <2>2
<1> QED BY <1>1, <1>9, <1>10

LEMMA AlignedLaid ==
  ASSUME NEW s, Len(s) \in Nat, DOMAIN s = 1..Len(s),
         NEW fr, DOMAIN fr = WidgetsOf(s), NEW real, real.r \in Int, real.b \in Int,
         Laid(fr, WidgetsOf(s), real)
  PROVE  LET new == Aligned(s, fr, real)
         IN /\ DOMAIN new = WidgetsOf(s) /\ Laid(new, WidgetsOf(s), real)
            /\ \A w \in WidgetsOf(s) : Height(new[w]) = Height(fr[w])
<1> DEFINE n == Len(s)
           D == WidgetsOf(s)
<1>1. PICK h : Loop("Align", [real |-> real], fr, s, h) /\ Aligned(s, fr, real) = h[n]
  BY AlignLoop
<1>2. h[0] = fr /\ \A k \in 1..n : h[k] = AlignOne(real, h[k - 1], s[k])
  BY <1>1 DEF Loop, Step
<1>4. \A i \in 1..n : s[i].widget \in D
  BY DEF WidgetsOf
<1> DEFINE Good(k) == /\ DOMAIN h[k] = D /\ Laid(h[k], D, real)
                      /\ \A w \in D : Height(h[k][w]) = Height(fr[w])
           K == {k \in Nat : k <= n => Good(k)}
<1>6. 0 \in K
  BY <1>2
<1>7. ASSUME NEW k \in Nat, k \in K PROVE k + 1 \in K
  <2> SUFFICES ASSUME k + 1 <= n PROVE Good(k + 1)
    OBVIOUS
  <2> DEFINE m == k + 1
             now == h[k]
             g == s[m]
  <2>1. m \in 1..n /\ m - 1 = k /\ k <= n
    OBVIOUS
  <2>2. Good(k)
    BY <1>7, <2>1
  <2>3. h[m] = AlignOne(real, now, g)
    BY <1>2, <2>1
  <2>4. g.widget \in D
    BY <1>4, <2>1
  <2>5. DOMAIN now = D /\ Laid(now, D, real) /\ \A w \in D : Height(now[w]) = Height(fr[w])
    BY <2>2
  <2> HIDE DEF D, now, g
  <2>6. /\ DOMAIN AlignOne(real, now, g) = D
        /\ Laid(AlignOne(real, now, g), D, real)
        /\ \A x \in D : Height(AlignOne(real, now, g)[x]) = Height(now[x])
    BY <2>4, <2>5, AlignLaid
  <2> QED BY <2>3, <2>5, <2>6
<1>8. \A k \in Nat : k \in K
  <2> HIDE DEF K
  <2> QED BY <1>6, <1>7, Induction
<1>9. Good(n)
  BY <1>8
<1> QED BY <1>1, <1>9

LEMMA ExpandChildsLaid ==
  ASSUME NEW s, Len(s) \in Nat, DOMAIN s = 1..Len(s), Distinct(s),
         NEW fr, DOMAIN fr = WidgetsOf(s), NEW real, real.r \in Int, real.b \in Int,
         Laid(fr, WidgetsOf(s), real),
         \A w \in WidgetsOf(s) : Height(fr[w]) >= LossOf(w, Len(s))
  PROVE  LET new == ExpandChilds(s, fr, real)
         IN /\ DOMAIN new = WidgetsOf(s) /\ Laid(new, WidgetsOf(s), real)
            /\ \A w \in WidgetsOf(s) : Height(new[w]) >= Height(fr[w]) - LossOf(w, Len(s))
<1> DEFINE grown == Expanded(s, fr, real)
<1>1. /\ DOMAIN grown = WidgetsOf(s) /\ Laid(grown, WidgetsOf(s), real)
      /\ \A w \in WidgetsOf(s) : Height(grown[w]) >= Height(fr[w]) - LossOf(w, Len(s))
  BY ExpandedLaid
<1>2. ExpandChilds(s, fr, real) = IF Area(real) <= AreaChilds(grown) THEN grown ELSE Aligned(s, grown, real)
  BY DEF ExpandChilds
<1> HIDE DEF grown
<1>3. /\ DOMAIN Aligned(s, grown, real) = WidgetsOf(s) /\ Laid(Aligned(s, grown, real), WidgetsOf(s), real)
      /\ \A w \in WidgetsOf(s) : Height(Aligned(s, grown, real)[w]) = Height(grown[w])
  BY <1>1, AlignedLaid
<1>4. CASE Area(real) <= AreaChilds(grown)
  BY <1>1, <1>2, <1>4
<1>5. CASE ~(Area(real) <= AreaChilds(grown))
  BY <1>1, <1>2, <1>3, <1>5
<1> QED BY <1>4, <1>5

-----------------------------------------------------------------------------
(* Gluing one widget after the other, to a window that grows.  What is glued  *)
(* fits into the window: m[k] is what the first k widgets take.               *)

Placed(s, k) == {s[i].widget : i \in 1..k}

Takes(s, n, m) ==
  /\ m[0].w = -1 /\ m[0].h = -1
  /\ \A k \in 0..n : m[k].w \in Int /\ m[k].h \in Int
  /\ \A k \in 1..n :
       /\ m[k - 1].w <= m[k].w /\ m[k - 1].h <= m[k].h
       /\ IF Vertically(s[k])
          THEN Pref[s[k].widget].w <= m[k].w /\ m[k - 1].h + Pref[s[k].widget].h + 1 <= m[k].h
          ELSE m[k - 1].w + Pref[s[k].widget].w + 1 <= m[k].w /\ Pref[s[k].widget].h <= m[k].h

Fits(s, n, w, h) == \E m : Takes(s, n, m) /\ m[n].w <= w /\ m[n].h <= h

LEMMA FitsMore ==
  ASSUME NEW s, NEW k \in Nat, NEW w \in Int, NEW h \in Int, Fits(s, k, w, h),
         s[k + 1].widget \in Widgets, NEW x \in Int, NEW y \in Int, w <= x, h <= y,
         Vertically(s[k + 1]) =>
           Pref[s[k + 1].widget].w <= x /\ h + Pref[s[k + 1].widget].h + 1 <= y,
         ~Vertically(s[k + 1]) =>
           w + Pref[s[k + 1].widget].w + 1 <= x /\ Pref[s[k + 1].widget].h <= y
  PROVE  Fits(s, k + 1, x, y)
<1>1. PICK m : Takes(s, k, m) /\ m[k].w <= w /\ m[k].h <= h
  BY DEF Fits
<1> DEFINE new == [i \in 0..(k + 1) |-> IF i <= k THEN m[i] ELSE [w |-> x, h |-> y]]
<1>2. \A i \in 0..k : i \in 0..(k + 1) /\ i <= k
  OBVIOUS
<1>3. k + 1 \in 0..(k + 1) /\ ~(k + 1 <= k) /\ 0 \in 0..k /\ k \in 0..k
  OBVIOUS
<1>4. (\A i \in 0..k : new[i] = m[i]) /\ new[k + 1].w = x /\ new[k + 1].h = y
  BY <1>2, <1>3
<1> HIDE DEF new
<1>5. new[0].w = -1 /\ new[0].h = -1
  BY <1>1, <1>3, <1>4 DEF Takes
<1>6. ASSUME NEW i \in 0..(k + 1) PROVE new[i].w \in Int /\ new[i].h \in Int
  <2>1. i \in 0..k \/ i = k + 1
    OBVIOUS
  <2> QED BY <1>1, <1>4, <2>1 DEF Takes
<1>7. ASSUME NEW i \in 1..(k + 1)
      PROVE  /\ new[i - 1].w <= new[i].w /\ new[i - 1].h <= new[i].h
             /\ IF Vertically(s[i])
                THEN Pref[s[i].widget].w <= new[i].w /\ new[i - 1].h + Pref[s[i].widget].h + 1 <= new[i].h
                ELSE new[i - 1].w + Pref[s[i].widget].w + 1 <= new[i].w /\ Pref[s[i].widget].h <= new[i].h
  <2>1. CASE i \in 1..k
    <3>1. i - 1 \in 0..k /\ i \in 0..k
      BY <2>1
    <3>2. new[i] = m[i] /\ new[i - 1] = m[i - 1]
      BY <1>4, <3>1
    <3> QED BY <1>1, <2>1, <3>2 DEF Takes
  <2>2. CASE i = k + 1
    <3>1. i - 1 = k /\ k \in 0..k
      BY <2>2
    <3>2. new[i - 1] = m[k] /\ new[i].w = x /\ new[i].h = y
      BY <1>4, <2>2, <3>1
    <3>3. m[k].w \in Int /\ m[k].h \in Int
      BY <1>1, <3>1 DEF Takes
    <3>4. Pref[s[i].widget].w \in Int /\ Pref[s[i].widget].h \in Int
      BY <2>2, GluingAssumption
    <3> QED BY <1>1, <2>2, <3>2, <3>3, <3>4
  <2>3. i \in 1..k \/ i = k + 1
    OBVIOUS
  <2> QED BY <2>1, <2>2, <2>3
<1>8. Takes(s, k + 1, new)
  BY <1>5, <1>6, <1>7 DEF Takes
<1> QED BY <1>4, <1>8 DEF Fits

LEMMA FitsLess ==
  ASSUME NEW s, NEW n \in Nat, NEW w \in Int, NEW h \in Int, Fits(s, n, w, h),
         NEW x \in Int, NEW y \in Int, w <= x, h <= y
  PROVE  Fits(s, n, x, y)
<1>1. PICK m : Takes(s, n, m) /\ m[n].w <= w /\ m[n].h <= h
  BY DEF Fits
<1>2. n \in 0..n
  OBVIOUS
<1>3. m[n].w \in Int /\ m[n].h \in Int
  BY <1>1, <1>2 DEF Takes
<1> QED BY <1>1, <1>3 DEF Fits

LEMMA FitsPrefix ==
  ASSUME NEW s, NEW t, NEW n \in Nat, \A i \in 1..n : s[i] = t[i],
         NEW w \in Int, NEW h \in Int, Fits(s, n, w, h)
  PROVE  Fits(t, n, w, h)
<1>1. PICK m : Takes(s, n, m) /\ m[n].w <= w /\ m[n].h <= h
  BY DEF Fits
<1>2. Takes(t, n, m)
  BY <1>1 DEF Takes
<1> QED BY <1>1, <1>2 DEF Fits

LEMMA FitsNothing ==
  ASSUME NEW s, NEW w \in Int, NEW h \in Int, w >= -1, h >= -1
  PROVE  Fits(s, 0, w, h)
<1> DEFINE m == [i \in {0} |-> [w |-> -1, h |-> -1]]
<1>1. m[0].w = -1 /\ m[0].h = -1
  OBVIOUS
<1> HIDE DEF m
<1>2. 0..0 = {0} /\ 1..0 = {}
  OBVIOUS
<1>3. Takes(s, 0, m)
  BY <1>1, <1>2 DEF Takes
<1> QED BY <1>1, <1>3 DEF Fits

(* One widget glued to a side of a layout. *)
PreferredIs(f, w) ==
  /\ f \in Rects /\ f.l = 0 /\ f.t = 0 /\ f.r = Pref[w].w /\ f.b = Pref[w].h
  /\ Width(f) = Pref[w].w /\ Height(f) = Pref[w].h
  /\ Pref[w].w \in Nat /\ Pref[w].h \in Nat /\ Pref[w].w > 0 /\ Pref[w].h > 0

LEMMA PreferredFields ==
  ASSUME NEW w \in Widgets
  PROVE  PreferredIs(Preferred(w), w)
<1>1. Pref[w].w \in Nat /\ Pref[w].h \in Nat /\ Pref[w].w > 0 /\ Pref[w].h > 0
  BY GluingAssumption
<1> DEFINE a == Pref[w].w
           b == Pref[w].h
<1>2. Preferred(w) = Rect(0, 0, 0 + a, 0 + b)
  BY DEF Preferred, Sized
<1> HIDE DEF a, b
<1>3. a \in Nat /\ b \in Nat
  BY <1>1 DEF a, b
<1>4. Rect(0, 0, 0 + a, 0 + b) = Rect(0, 0, a, b)
  BY <1>3
<1>5. LET f == Rect(0, 0, a, b) IN f \in Rects /\ f.l = 0 /\ f.t = 0 /\ f.r = a /\ f.b = b
  BY <1>3 DEF Rect, Rects
<1>6. LET f == Rect(0, 0, a, b) IN Width(f) = a /\ Height(f) = b
  BY <1>3, <1>5 DEF Width, Height
<1> QED BY <1>1, <1>2, <1>4, <1>5, <1>6 DEF PreferredIs, a, b

GluingSides == {"top", "bottom", "left", "right"}

\* What gluing w makes of a layout of the widgets of S.
Grown(lay, new, S, w, hor, ver) ==
  /\ DOMAIN new.frame = DOMAIN lay.frame \cup {w}
  /\ new.real = Rect(0, 0, lay.real.r + hor, lay.real.b + ver)
  /\ Laid(new.frame, S \cup {w}, new.real)
  /\ \A x \in S : Height(new.frame[x]) = Height(lay.frame[x])
  /\ Height(new.frame[w]) = Pref[w].h

LEMMA GlueToLaid ==
  ASSUME NEW lay, NEW S \in SUBSET DOMAIN lay.frame, lay.real.r \in Nat, lay.real.b \in Nat,
         lay.real = Rect(0, 0, lay.real.r, lay.real.b), Laid(lay.frame, S, lay.real),
         NEW g, g.align \in GluingSides, NEW w \in Widgets, g.widget = w, w \notin S,
         NEW f, PreferredIs(f, w), NEW hor \in Nat, NEW ver \in Nat,
         Vertically(g) => ver = Height(f) + 1 /\ Width(f) <= lay.real.r + hor,
         ~Vertically(g) => hor = Width(f) + 1 /\ Height(f) <= lay.real.b + ver
  PROVE  Grown(lay, GlueTo(lay, g, f, hor, ver), S, w, hor, ver)
<1> DEFINE R == lay.real.r
           B == lay.real.b
           all == DOMAIN lay.frame
           dx  == IF g.align = "left" THEN Width(f) + 1 ELSE 0
           dy  == IF g.align = "top" THEN ver ELSE 0
           x0  == IF g.align = "right" THEN R + 1 ELSE 0
           y0  == IF g.align = "bottom" THEN B + 1 ELSE 0
           fr  == CASE g.align = "top"  -> MoveByChilds(lay.frame, all, 0, ver)
                    [] g.align = "left" -> MoveByChilds(lay.frame, all, Width(f) + 1, 0)
                    [] OTHER            -> lay.frame
           new == Put(fr, w, Shifted(f, x0, y0))
           real == Rect(0, 0, R + hor, B + ver)
<1>1. R \in Nat /\ B \in Nat
  OBVIOUS
<1>2. GlueTo(lay, g, f, hor, ver).frame = new /\ GlueTo(lay, g, f, hor, ver).real = real
  BY <1>1 DEF GlueTo
<1>3. dx \in Int /\ dy \in Int /\ x0 \in Int /\ y0 \in Int
  BY DEF PreferredIs
<1>4. DOMAIN fr = all
  BY DEF MoveByChilds
<1>5. ASSUME NEW x \in S
      PROVE  fr[x] \in Rects /\ fr[x].l = lay.frame[x].l + dx /\ fr[x].r = lay.frame[x].r + dx
             /\ fr[x].t = lay.frame[x].t + dy /\ fr[x].b = lay.frame[x].b + dy
  <2>1. lay.frame[x] \in Rects /\ x \in all
    BY DEF Laid
  <2>2. CASE g.align = "top"
    <3>1. fr[x] = Shifted(lay.frame[x], 0, ver) /\ dx = 0 /\ dy = ver
      BY <2>1, <2>2 DEF MoveByChilds
    <3> HIDE DEF dx, dy, fr
    <3> QED BY <1>3, <2>1, <3>1, ShiftedFields
  <2>3. CASE g.align = "left"
    <3>1. fr[x] = Shifted(lay.frame[x], dx, 0) /\ dy = 0
      BY <2>1, <2>3 DEF MoveByChilds
    <3> HIDE DEF dx, dy, fr
    <3> QED BY <1>3, <2>1, <3>1, ShiftedFields
  <2>4. CASE g.align # "top" /\ g.align # "left"
    <3>1. fr[x] = lay.frame[x] /\ dx = 0 /\ dy = 0
      BY <2>4
    <3> QED BY <2>1, <3>1 DEF Rects
  <2> QED BY <2>2, <2>3, <2>4
<1>6. DOMAIN new = all \cup {w} /\ new[w] = Shifted(f, x0, y0) /\ \A x \in S : new[x] = fr[x]
  BY <1>4 DEF Put
<1>7. /\ new[w] \in Rects /\ new[w].l = x0 /\ new[w].r = Pref[w].w + x0
      /\ new[w].t = y0 /\ new[w].b = Pref[w].h + y0
  <2>1. f \in Rects /\ f.l = 0 /\ f.t = 0 /\ f.r = Pref[w].w /\ f.b = Pref[w].h
    BY DEF PreferredIs
  <2>2. 0 + x0 = x0 /\ 0 + y0 = y0
    BY <1>3
  <2> HIDE DEF new, x0, y0
  <2>3. /\ Shifted(f, x0, y0) \in Rects
        /\ Shifted(f, x0, y0).l = f.l + x0 /\ Shifted(f, x0, y0).r = f.r + x0
        /\ Shifted(f, x0, y0).t = f.t + y0 /\ Shifted(f, x0, y0).b = f.b + y0
    BY <1>3, <2>1, ShiftedFields
  <2>4. new[w] = Shifted(f, x0, y0)
    BY <1>6
  <2> QED BY <2>1, <2>2, <2>3, <2>4
<1>8. real.r = R + hor /\ real.b = B + ver
  BY DEF Rect
<1>9. /\ Pref[w].w \in Nat /\ Pref[w].h \in Nat /\ Width(f) = Pref[w].w /\ Height(f) = Pref[w].h
  BY DEF PreferredIs
<1>10. /\ g.align = "top" => dx = 0 /\ dy = Pref[w].h + 1 /\ x0 = 0 /\ y0 = 0
                             /\ ver = Pref[w].h + 1 /\ Pref[w].w <= R + hor
       /\ g.align = "bottom" => dx = 0 /\ dy = 0 /\ x0 = 0 /\ y0 = B + 1
                             /\ ver = Pref[w].h + 1 /\ Pref[w].w <= R + hor
       /\ g.align = "left" => dx = Pref[w].w + 1 /\ dy = 0 /\ x0 = 0 /\ y0 = 0
                             /\ hor = Pref[w].w + 1 /\ Pref[w].h <= B + ver
       /\ g.align = "right" => dx = 0 /\ dy = 0 /\ x0 = R + 1 /\ y0 = 0
                             /\ hor = Pref[w].w + 1 /\ Pref[w].h <= B + ver
  BY <1>9 DEF Vertically
<1>11. g.align = "top" \/ g.align = "bottom" \/ g.align = "left" \/ g.align = "right"
  BY DEF GluingSides
<1> HIDE DEF R, B, new, fr, dx, dy, x0, y0, real
<1>12. ASSUME NEW x \in S
       PROVE  new[x] \in Rects /\ Inside(new[x], real) /\ Away(new[x], new[w]) /\ Away(new[w], new[x])
              /\ Height(new[x]) = Height(lay.frame[x])
  <2>1. lay.frame[x] \in Rects /\ Inside(lay.frame[x], lay.real)
    BY DEF Laid
  <2>2. new[x] = fr[x]
    BY <1>6
  <2>3. lay.real.r = R /\ lay.real.b = B
    BY DEF R, B
  <2> QED BY <1>1, <1>3, <1>5, <1>7, <1>8, <1>9, <1>10, <1>11, <2>1, <2>2, <2>3
          DEF Inside, Away, Rects, Height
<1>13. Inside(new[w], real) /\ Height(new[w]) = Pref[w].h
  BY <1>1, <1>3, <1>7, <1>8, <1>9, <1>10, <1>11 DEF Inside, Height
<1>14. ASSUME NEW x \in S, NEW y \in S, x # y PROVE Away(new[x], new[y])
  <2>1. Away(lay.frame[x], lay.frame[y]) /\ lay.frame[x] \in Rects /\ lay.frame[y] \in Rects
    BY <1>14 DEF Laid
  <2>2. new[x] = fr[x] /\ new[y] = fr[y]
    BY <1>6
  <2> QED BY <1>3, <1>5, <2>1, <2>2 DEF Away, Rects
<1>15. Laid(new, S \cup {w}, real)
  BY <1>7, <1>12, <1>13, <1>14 DEF Laid
<1> QED BY <1>2, <1>6, <1>12, <1>13, <1>15 DEF Grown, real, R, B

Lost(w, q) == IF w \in ExpandY THEN q ELSE 0

\* Bounds the first k widgets of t fit into.
SoundBounds(t, k, f) ==
  /\ f = Rect(0, 0, f.r, f.b) /\ f.r \in Nat /\ f.b \in Nat
  /\ Fits(t, k, f.r, f.b)
  /\ k > 0 => f.r > 0

LEMMA SoundBoundsOf ==
  ASSUME NEW t, NEW k, NEW R \in Nat, NEW B \in Nat, Fits(t, k, R, B), R > 0
  PROVE  SoundBounds(t, k, Rect(0, 0, R, B))
<1>1. Rect(0, 0, R, B).r = R /\ Rect(0, 0, R, B).b = B
  BY DEF Rect
<1> QED BY <1>1 DEF SoundBounds

\* The first k widgets of t are laid out, and have lost at most q of their height.
Sound(t, k, q, lay) ==
  /\ SoundBounds(t, k, lay.real)
  /\ Placed(t, k) \subseteq DOMAIN lay.frame /\ DOMAIN lay.frame \subseteq WidgetsOf(t)
  /\ Laid(lay.frame, Placed(t, k), lay.real)
  /\ \A x \in Placed(t, k) : Height(lay.frame[x]) >= Pref[x].h - Lost(x, q)

LEMMA PlacedMore ==
  ASSUME NEW t \in Seq(Gluing), Distinct(t), NEW k \in Nat, k + 1 <= Len(t)
  PROVE  /\ Placed(t, k + 1) = Placed(t, k) \cup {t[k + 1].widget}
         /\ t[k + 1].widget \notin Placed(t, k)
         /\ t[k + 1].widget \in WidgetsOf(t) /\ t[k + 1].widget \in Widgets
         /\ t[k + 1].align \in GluingSides
<1>1. k + 1 \in 1..Len(t) /\ \A i \in 1..k : i \in 1..Len(t) /\ i # k + 1
  OBVIOUS
<1>2. t[k + 1] \in Gluing
  BY <1>1
<1>3. t[k + 1].align \in GluingSides /\ t[k + 1].widget \in Widgets
  BY <1>2, GluingAssumption DEF Gluing, GluingSides
<1>4. 1..(k + 1) = (1..k) \cup {k + 1}
  OBVIOUS
<1>5. Placed(t, k + 1) = Placed(t, k) \cup {t[k + 1].widget}
  BY <1>4 DEF Placed
<1>6. t[k + 1].widget \notin Placed(t, k)
  BY <1>1 DEF Placed, Distinct
<1> QED BY <1>1, <1>3, <1>5, <1>6 DEF WidgetsOf

\* The first widget glued to a window without bounds.
LEMMA FirstGlued ==
  ASSUME NEW t \in Seq(Gluing), Distinct(t), 1 <= Len(t), NEW q \in Nat, NEW lay,
         Sound(t, 0, q, lay)
  PROVE  LET w == t[1].widget
         IN Sound(t, 1, q, [frame |-> Put(lay.frame, w, Preferred(w)), real |-> Preferred(w)])
<1> DEFINE w == t[1].widget
           f == Preferred(w)
           new == [frame |-> Put(lay.frame, w, f), real |-> f]
<1>1. /\ Placed(t, 0 + 1) = Placed(t, 0) \cup {w} /\ w \in WidgetsOf(t) /\ w \in Widgets
      /\ t[0 + 1].align \in GluingSides
  BY PlacedMore
<1>2. Placed(t, 1) = {w}
  BY <1>1 DEF Placed
<1>3. PreferredIs(f, w) /\ f = Rect(0, 0, Pref[w].w, Pref[w].h)
  <2>1. PreferredIs(f, w)
    BY <1>1, PreferredFields
  <2>2. 0 + Pref[w].w = Pref[w].w /\ 0 + Pref[w].h = Pref[w].h
    BY <2>1 DEF PreferredIs
  <2>3. f = Rect(0, 0, 0 + Pref[w].w, 0 + Pref[w].h)
    BY DEF Preferred, Sized
  <2> QED BY <2>1, <2>2, <2>3
<1>4. DOMAIN new.frame = DOMAIN lay.frame \cup {w} /\ new.frame[w] = f /\ new.real = f
  BY DEF Put
<1> HIDE DEF new, f, w
<1>5. Inside(f, f) /\ f \in Rects
  BY <1>3 DEF PreferredIs, Inside, Rects
<1>6. Laid(new.frame, {w}, new.real)
  BY <1>4, <1>5 DEF Laid
<1>7. Height(f) >= Pref[w].h - Lost(w, q)
  BY <1>3 DEF PreferredIs, Lost
<1>8. Fits(t, 0 + 1, Pref[w].w, Pref[w].h)
  <2>1. Fits(t, 0, -1, -1)
    BY FitsNothing
  <2>2. /\ Pref[w].w \in Nat /\ Pref[w].h \in Nat /\ -1 <= Pref[w].w /\ -1 <= Pref[w].h
        /\ -1 + Pref[w].w + 1 <= Pref[w].w /\ -1 + Pref[w].h + 1 <= Pref[w].h
    BY <1>3 DEF PreferredIs
  <2>3. t[0 + 1].widget = w
    BY DEF w
  <2> QED BY <1>1, <2>1, <2>2, <2>3, FitsMore
<1>9. Pref[w].w \in Nat /\ Pref[w].h \in Nat /\ Pref[w].w > 0
  BY <1>3 DEF PreferredIs
<1>10. DOMAIN new.frame \subseteq WidgetsOf(t)
  BY <1>1, <1>4 DEF Sound
<1>11. SoundBounds(t, 1, new.real)
  <2>1. Fits(t, 1, Pref[w].w, Pref[w].h)
    BY <1>8
  <2> QED BY <1>3, <1>4, <1>9, <2>1, SoundBoundsOf
<1>12. Placed(t, 1) \subseteq DOMAIN new.frame
  BY <1>2, <1>4
<1>13. Laid(new.frame, Placed(t, 1), new.real)
  BY <1>2, <1>6
<1>14. \A x \in Placed(t, 1) : Height(new.frame[x]) >= Pref[x].h - Lost(x, q)
  BY <1>2, <1>4, <1>7
<1>15. Sound(t, 1, q, new)
  BY <1>10, <1>11, <1>12, <1>13, <1>14 DEF Sound
<1> QED BY <1>15 DEF new, f, w

\* Another widget, glued to a side.
LEMMA NextGlued ==
  ASSUME NEW t \in Seq(Gluing), Distinct(t), NEW k \in Nat, k + 1 <= Len(t), NEW q \in Nat, NEW lay,
         Sound(t, k, q, lay), NEW f, f = Preferred(t[k + 1].widget), NEW hor \in Nat, NEW ver \in Nat,
         Vertically(t[k + 1]) => ver = Height(f) + 1 /\ Width(f) <= lay.real.r + hor,
         ~Vertically(t[k + 1]) => hor = Width(f) + 1 /\ Height(f) <= lay.real.b + ver
  PROVE  Sound(t, k + 1, q, GlueTo(lay, t[k + 1], f, hor, ver))
<1> DEFINE g == t[k + 1]
           w == g.widget
           S == Placed(t, k)
           new == GlueTo(lay, g, f, hor, ver)
<1> DEFINE R == lay.real.r
           B == lay.real.b
<1>1. R \in Nat /\ B \in Nat /\ lay.real = Rect(0, 0, R, B) /\ Fits(t, k, R, B)
  BY DEF Sound, SoundBounds
<1>3. /\ Placed(t, k + 1) = S \cup {w} /\ w \notin S /\ w \in WidgetsOf(t) /\ w \in Widgets
      /\ g.align \in GluingSides
  BY PlacedMore
<1>4. PreferredIs(f, w)
  BY <1>3, PreferredFields
<1>5. /\ S \in SUBSET DOMAIN lay.frame /\ Laid(lay.frame, S, lay.real)
      /\ DOMAIN lay.frame \subseteq WidgetsOf(t)
      /\ \A x \in S : Height(lay.frame[x]) >= Pref[x].h - Lost(x, q)
  BY DEF Sound
<1>6. /\ Vertically(g) => ver = Height(f) + 1 /\ Width(f) <= R + hor
      /\ ~Vertically(g) => hor = Width(f) + 1 /\ Height(f) <= B + ver
  OBVIOUS
<1>7. g.widget = w /\ t[k + 1] = g
  OBVIOUS
<1> HIDE DEF g, w, S, new
<1>8. /\ DOMAIN new.frame = DOMAIN lay.frame \cup {w}
      /\ new.real = Rect(0, 0, R + hor, B + ver)
      /\ Laid(new.frame, S \cup {w}, new.real)
      /\ \A x \in S : Height(new.frame[x]) = Height(lay.frame[x])
      /\ Height(new.frame[w]) = Pref[w].h
  <2>1. g.widget = w
    BY <1>7
  <2>2. Grown(lay, GlueTo(lay, g, f, hor, ver), S, w, hor, ver)
    BY <1>1, <1>3, <1>4, <1>5, <1>6, <2>1, GlueToLaid
  <2> QED BY <2>2 DEF Grown, new
<1>9. Pref[w].h >= Pref[w].h - Lost(w, q)
  BY <1>4 DEF PreferredIs, Lost
<1> HIDE DEF R, B
<1>10. R + hor \in Nat /\ B + ver \in Nat /\ R <= R + hor /\ B <= B + ver
  BY <1>1
<1>11. /\ Width(f) = Pref[w].w /\ Height(f) = Pref[w].h
       /\ Pref[w].w \in Nat /\ Pref[w].h \in Nat /\ Pref[w].w > 0
  BY <1>4 DEF PreferredIs
<1>12. /\ Vertically(t[k + 1]) =>
            Pref[t[k + 1].widget].w <= R + hor /\ B + Pref[t[k + 1].widget].h + 1 <= B + ver
       /\ ~Vertically(t[k + 1]) =>
            R + Pref[t[k + 1].widget].w + 1 <= R + hor /\ Pref[t[k + 1].widget].h <= B + ver
  <2>1. CASE Vertically(g)
    <3>1. ver = Pref[w].h + 1 /\ Pref[w].w <= R + hor
      BY <1>6, <1>11, <2>1
    <3>2. B + Pref[w].h + 1 <= B + ver
      BY <1>1, <1>11, <3>1
    <3> QED BY <1>7, <2>1, <3>1, <3>2
  <2>2. CASE ~Vertically(g)
    <3>1. hor = Pref[w].w + 1 /\ Pref[w].h <= B + ver
      BY <1>6, <1>11, <2>2
    <3>2. R + Pref[w].w + 1 <= R + hor
      BY <1>1, <1>11, <3>1
    <3> QED BY <1>7, <2>2, <3>1, <3>2
  <2> QED BY <2>1, <2>2
<1>13. Fits(t, k + 1, R + hor, B + ver)
  BY <1>1, <1>3, <1>7, <1>10, <1>12, FitsMore
<1>14. R + hor > 0
  BY <1>1, <1>6, <1>10, <1>11
<1>15. \A x \in S \cup {w} : Height(new.frame[x]) >= Pref[x].h - Lost(x, q)
  BY <1>5, <1>8, <1>9
<1>16. S \cup {w} \subseteq DOMAIN new.frame /\ DOMAIN new.frame \subseteq WidgetsOf(t)
  BY <1>3, <1>5, <1>8
<1>17. SoundBounds(t, k + 1, new.real)
  BY <1>8, <1>10, <1>13, <1>14, SoundBoundsOf
<1>18. Sound(t, k + 1, q, new)
  BY <1>3, <1>8, <1>15, <1>16, <1>17 DEF Sound
<1> QED BY <1>7, <1>18 DEF new

\* One widget of DynamicGluing, and of ReGluing at the top or the bottom.
LEMMA GluedOne ==
  ASSUME NEW t \in Seq(Gluing), Distinct(t), NEW k \in Nat, k + 1 <= Len(t), NEW q \in Nat, NEW lay,
         Sound(t, k, q, lay)
  PROVE  /\ Sound(t, k + 1, q, Dynamic(lay, t[k + 1]))
         /\ Vertically(t[k + 1]) => Sound(t, k + 1, q, Again(lay, t[k + 1]))
<1> DEFINE g == t[k + 1]
           f == Preferred(g.widget)
           R == lay.real.r
           B == lay.real.b
           first == [frame |-> Put(lay.frame, g.widget, f), real |-> f]
           high == Height(f) + 1
           wide == Width(f) + 1
           wider == IF Width(f) > R THEN Width(f) - R ELSE 0
           more(size, old) == IF size > old THEN size - old + 1 ELSE 0
<1>1. lay.real = Rect(0, 0, R, B) /\ R \in Nat /\ B \in Nat /\ (k > 0 => R > 0)
  BY DEF Sound, SoundBounds
<1>2. Width(lay.real) = R /\ Height(lay.real) = B /\ R \in Nat /\ B \in Nat
  BY <1>1 DEF Rect, Width, Height
<1>3. /\ Width(f) \in Nat /\ Height(f) \in Nat
  <2>1. g.widget \in Widgets
    BY PlacedMore
  <2> QED BY <2>1, PreferredFields DEF PreferredIs
<1>4. CASE lay.real = empty
  <2>1. k = 0
    BY <1>1, <1>2, <1>4 DEF empty, Rect
  <2>2. Dynamic(lay, g) = first /\ Again(lay, g) = first
    BY <1>4 DEF Dynamic, Again
  <2>3. Sound(t, 1, q, first)
    <3>1. g = t[1] /\ Sound(t, 0, q, lay) /\ 1 <= Len(t)
      BY <2>1
    <3> QED BY <3>1, FirstGlued
  <2> QED BY <2>1, <2>2, <2>3
<1>5. CASE lay.real # empty
  <2> HIDE DEF f, g
  <2>1. Dynamic(lay, g) = IF Vertically(g) THEN GlueTo(lay, g, f, more(Width(f), R), high)
                          ELSE GlueTo(lay, g, f, wide, more(Height(f), B))
    BY <1>2, <1>5 DEF Dynamic, f
  <2>2. Vertically(g) => Again(lay, g) = GlueTo(lay, g, f, wider, high)
    BY <1>2, <1>5 DEF Again, f
  <2>3. /\ more(Width(f), R) \in Nat /\ Width(f) <= R + more(Width(f), R)
        /\ more(Height(f), B) \in Nat /\ Height(f) <= B + more(Height(f), B)
        /\ wider \in Nat /\ Width(f) <= R + wider /\ high \in Nat /\ wide \in Nat
    <3>1. \A a, b \in Nat : more(a, b) \in Nat /\ a <= b + more(a, b)
      OBVIOUS
    <3>2. \A a, b \in Nat : LET c == IF a > b THEN a - b ELSE 0 IN c \in Nat /\ a <= b + c
      OBVIOUS
    <3>3. Height(f) + 1 \in Nat /\ Width(f) + 1 \in Nat
      BY <1>3
    <3> QED BY <1>2, <1>3, <3>1, <3>2, <3>3
  <2>4. high = Height(f) + 1 /\ wide = Width(f) + 1
    OBVIOUS
  <2>5. f = Preferred(t[k + 1].widget) /\ g = t[k + 1]
    BY DEF f, g
  <2> DEFINE mw == more(Width(f), R)
             mh == more(Height(f), B)
  <2> HIDE DEF R, B, high, wide, wider, mw, mh
  <2>6. /\ Dynamic(lay, g) = IF Vertically(g) THEN GlueTo(lay, g, f, mw, high)
                             ELSE GlueTo(lay, g, f, wide, mh)
        /\ mw \in Nat /\ Width(f) <= R + mw /\ mh \in Nat /\ Height(f) <= B + mh
    BY <2>1, <2>3 DEF mw, mh
  <2>7. CASE Vertically(g)
    <3>1. \A hor \in Nat : Width(f) <= lay.real.r + hor =>
            Sound(t, k + 1, q, GlueTo(lay, t[k + 1], f, hor, high))
      BY <2>3, <2>4, <2>5, <2>7, NextGlued
    <3> QED BY <2>2, <2>3, <2>5, <2>6, <2>7, <3>1 DEF R
  <2>8. CASE ~Vertically(g)
    <3>1. \A ver \in Nat : Height(f) <= lay.real.b + ver =>
            Sound(t, k + 1, q, GlueTo(lay, t[k + 1], f, wide, ver))
      BY <2>3, <2>4, <2>5, <2>8, NextGlued
    <3> QED BY <2>5, <2>6, <2>8, <3>1 DEF B
  <2> QED BY <2>7, <2>8
<1> QED BY <1>4, <1>5

(* All of DynamicGluing and ReGluing, from the widgets glued already. *)
LEMMA GluedAll ==
  ASSUME NEW t \in Seq(Gluing), Distinct(t), NEW n0 \in 0..Len(t), NEW q \in Nat,
         NEW s, Len(s) = Len(t) - n0, \A i \in 1..Len(s) : s[i] = t[n0 + i],
         NEW base, Sound(t, n0, q, base), NEW loop, NEW c, NEW h, Loop(loop, c, base, s, h),
         \/ loop = "DynamicGluing"
         \/ loop = "ReGluing" /\ \A i \in 1..Len(t) : Vertically(t[i])
  PROVE  Sound(t, Len(t), q, h[Len(s)])
<1> DEFINE K == {k \in Nat : k <= Len(s) => Sound(t, n0 + k, q, h[k])}
<1>1. 0 \in K
  BY DEF Loop
<1>2. ASSUME NEW k \in Nat, k \in K PROVE k + 1 \in K
  <2> SUFFICES ASSUME k + 1 <= Len(s) PROVE Sound(t, n0 + (k + 1), q, h[k + 1])
    OBVIOUS
  <2> DEFINE m == n0 + k
  <2>1. /\ m \in Nat /\ m + 1 <= Len(t) /\ n0 + (k + 1) = m + 1
        /\ k + 1 \in 1..Len(s) /\ (k + 1) - 1 = k /\ m + 1 \in 1..Len(t)
    OBVIOUS
  <2>2. Sound(t, m, q, h[k])
    BY <1>2, <2>1
  <2>3. s[k + 1] = t[m + 1]
    BY <2>1
  <2> HIDE DEF m
  <2>4. h[k + 1] = Step(loop, c, h[k], t[m + 1])
    BY <2>1, <2>3 DEF Loop
  <2>5. /\ Sound(t, m + 1, q, Dynamic(h[k], t[m + 1]))
        /\ Vertically(t[m + 1]) => Sound(t, m + 1, q, Again(h[k], t[m + 1]))
    BY <2>1, <2>2, GluedOne
  <2>6. CASE loop = "DynamicGluing"
    <3>1. h[k + 1] = Dynamic(h[k], t[m + 1])
      BY <2>4, <2>6 DEF Step
    <3> QED BY <2>1, <2>5, <3>1
  <2>7. CASE loop = "ReGluing" /\ \A i \in 1..Len(t) : Vertically(t[i])
    <3>1. h[k + 1] = Again(h[k], t[m + 1])
      BY <2>4, <2>7 DEF Step
    <3> QED BY <2>1, <2>5, <2>7, <3>1
  <2> QED BY <2>6, <2>7
<1>3. \A k \in Nat : k \in K
  <2> HIDE DEF K
  <2> QED BY <1>1, <1>2, Induction
<1>4. Len(s) \in Nat /\ n0 + Len(s) = Len(t)
  OBVIOUS
<1> QED BY <1>3, <1>4

-----------------------------------------------------------------------------
(* Gluing one widget after the other, in bounds that stay.  The two axes are  *)
(* alike: along one, the widgets of its first side push all but those of its  *)
(* last side ahead, and those of its last side each other back.  lo and hi    *)
(* are the edges of the first k widgets, m is what they take.                 *)

Between(s, k, last, lo, hi, size, edge, m) ==
  \A i \in 1..k :
    /\ lo[i] \in Int /\ hi[i] = lo[i] + size[i] /\ size[i] \in Nat
    /\ s[i].align # last => 0 <= lo[i] /\ hi[i] <= m
    /\ s[i].align = last => edge - m <= lo[i] /\ hi[i] <= edge

Opposite(s, k, first, last, lo, hi, edge, m) ==
  \A i, j \in 1..k :
    s[i].align # last /\ s[j].align = last /\ (s[i].align = first \/ i < j)
      => 1 + edge - m <= lo[j] - hi[i]

Ahead(s, k, first, last, lo, hi) ==
  \A i, j \in 1..k :
    i < j => /\ s[j].align = first /\ s[i].align # last => hi[j] < lo[i]
             /\ s[j].align = last /\ s[i].align = last => hi[i] < lo[j]

Axis(s, k, first, last, lo, hi, size, edge, m) ==
  /\ Between(s, k, last, lo, hi, size, edge, m)
  /\ Opposite(s, k, first, last, lo, hi, edge, m)
  /\ Ahead(s, k, first, last, lo, hi)

\* How far a widget at side other is moved when one of size n is glued to side.
Pushed(side, other, first, last, n) ==
  IF side = first /\ other # last THEN n + 1
  ELSE IF side = last /\ other = last THEN -(n + 1) ELSE 0

Pushes(s, k, first, last, lo, hi, new, nhi, edge, n) ==
  /\ \A i \in 1..k : /\ new[i] = lo[i] + Pushed(s[k + 1].align, s[i].align, first, last, n)
                     /\ nhi[i] = hi[i] + Pushed(s[k + 1].align, s[i].align, first, last, n)
  /\ new[k + 1] = IF s[k + 1].align = last THEN edge - n ELSE 0
  /\ nhi[k + 1] = new[k + 1] + n

LEMMA AxisNext ==
  ASSUME NEW s, NEW k \in Nat, NEW first, NEW last, first # last, NEW lo, NEW hi, NEW size,
         NEW edge \in Int, NEW m \in Int, NEW new, NEW nhi, NEW n \in Nat, size[k + 1] = n,
         Axis(s, k, first, last, lo, hi, size, edge, m),
         Pushes(s, k, first, last, lo, hi, new, nhi, edge, n),
         NEW more \in Int, -1 <= m, m <= more, n <= more,
         s[k + 1].align \in {first, last} => m + n + 1 <= more
  PROVE  Axis(s, k + 1, first, last, new, nhi, size, edge, more)
<1> DEFINE side == s[k + 1].align
           d(i) == Pushed(side, s[i].align, first, last, n)
<1>1. \A i \in 1..(k + 1) : i \in 1..k \/ i = k + 1
  OBVIOUS
<1>2. \A i \in 1..k : /\ new[i] = lo[i] + d(i) /\ nhi[i] = hi[i] + d(i) /\ d(i) \in Int
                      /\ lo[i] \in Int /\ hi[i] \in Int /\ size[i] \in Nat /\ hi[i] = lo[i] + size[i]
  BY DEF Pushes, Pushed, Axis, Between
<1>3. /\ new[k + 1] = IF side = last THEN edge - n ELSE 0
      /\ nhi[k + 1] = new[k + 1] + n
  BY DEF Pushes
<1>4. new[k + 1] \in Int /\ nhi[k + 1] \in Int
  BY <1>3
<1>5. \A i \in 1..k : /\ side = first /\ s[i].align # last => d(i) = n + 1
                      /\ side = last /\ s[i].align = last => d(i) = -(n + 1)
                      /\ ~(side = first /\ s[i].align # last) /\ ~(side = last /\ s[i].align = last) =>
                           d(i) = 0
  BY DEF Pushed
<1>6. side = first \/ side = last => m + n + 1 <= more
  OBVIOUS
<1> HIDE DEF d, side
<1>7. Between(s, k + 1, last, new, nhi, size, edge, more)
  <2>1. ASSUME NEW i \in 1..k
        PROVE  /\ new[i] \in Int /\ nhi[i] = new[i] + size[i] /\ size[i] \in Nat
               /\ s[i].align # last => 0 <= new[i] /\ nhi[i] <= more
               /\ s[i].align = last => edge - more <= new[i] /\ nhi[i] <= edge
    <3>1. /\ s[i].align # last => 0 <= lo[i] /\ hi[i] <= m
          /\ s[i].align = last => edge - m <= lo[i] /\ hi[i] <= edge
      BY DEF Axis, Between
    <3>2. CASE s[i].align # last
      <4>1. d(i) = 0 \/ (d(i) = n + 1 /\ side = first)
        BY <1>5, <3>2
      <4> QED BY <1>2, <1>6, <3>1, <3>2, <4>1
    <3>3. CASE s[i].align = last
      <4>1. d(i) = 0 \/ (d(i) = -(n + 1) /\ side = last)
        BY <1>5, <3>3
      <4> QED BY <1>2, <1>6, <3>1, <3>3, <4>1
    <3> QED BY <3>2, <3>3
  <2>2. /\ side # last => 0 <= new[k + 1] /\ nhi[k + 1] <= more
        /\ side = last => edge - more <= new[k + 1] /\ nhi[k + 1] <= edge
    BY <1>3, <1>4
  <2>3. side = s[k + 1].align
    BY DEF side
  <2> QED BY <1>1, <1>3, <1>4, <2>1, <2>2, <2>3 DEF Between
<1>8. Opposite(s, k + 1, first, last, new, nhi, edge, more)
  <2> SUFFICES ASSUME NEW i \in 1..(k + 1), NEW j \in 1..(k + 1),
                      s[i].align # last, s[j].align = last, s[i].align = first \/ i < j
               PROVE  1 + edge - more <= new[j] - nhi[i]
    BY DEF Opposite
  <2>1. CASE i \in 1..k /\ j \in 1..k
    <3>1. 1 + edge - m <= lo[j] - hi[i]
      BY <2>1 DEF Axis, Opposite
    <3>2. \/ d(i) = 0 /\ d(j) = 0
          \/ d(i) = n + 1 /\ d(j) = 0 /\ side = first
          \/ d(i) = 0 /\ d(j) = -(n + 1) /\ side = last
      BY <1>5, <2>1
    <3> QED BY <1>2, <1>6, <2>1, <3>1, <3>2
  <2>2. CASE i = k + 1 /\ j \in 1..k
    <3>1. side = first /\ side # last
      BY <2>2 DEF side
    <3>2. edge - m <= lo[j]
      BY <2>2 DEF Axis, Between
    <3>3. d(j) = 0
      BY <1>5, <2>2, <3>1
    <3>4. nhi[i] = n /\ new[j] = lo[j] /\ lo[j] \in Int
      BY <1>2, <1>3, <2>2, <3>1, <3>3
    <3> QED BY <1>6, <3>1, <3>2, <3>4
  <2>3. CASE j = k + 1 /\ i \in 1..k
    <3>1. side = last
      BY <2>3 DEF side
    <3>2. hi[i] <= m
      BY <2>3 DEF Axis, Between
    <3>3. d(i) = 0
      BY <1>5, <2>3, <3>1
    <3>4. new[j] = edge - n /\ nhi[i] = hi[i] /\ hi[i] \in Int
      BY <1>2, <1>3, <2>3, <3>1, <3>3
    <3> QED BY <1>6, <3>1, <3>2, <3>4
  <2>4. ~(i = k + 1 /\ j = k + 1)
    OBVIOUS
  <2> QED BY <1>1, <2>1, <2>2, <2>3, <2>4
<1>9. Ahead(s, k + 1, first, last, new, nhi)
  <2> SUFFICES ASSUME NEW i \in 1..(k + 1), NEW j \in 1..(k + 1), i < j
               PROVE  /\ s[j].align = first /\ s[i].align # last => nhi[j] < new[i]
                      /\ s[j].align = last /\ s[i].align = last => nhi[i] < new[j]
    BY DEF Ahead
  <2>1. CASE j \in 1..k
    <3>1. i \in 1..k
      BY <2>1
    <3>2. /\ s[j].align = first /\ s[i].align # last => hi[j] < lo[i]
          /\ s[j].align = last /\ s[i].align = last => hi[i] < lo[j]
      BY <2>1, <3>1 DEF Axis, Ahead
    <3>3. s[j].align = first /\ s[i].align # last => d(i) = d(j)
      BY <1>5, <2>1, <3>1
    <3>4. s[j].align = last /\ s[i].align = last => d(i) = d(j)
      BY <1>5, <2>1, <3>1
    <3>5. /\ new[i] = lo[i] + d(i) /\ nhi[i] = hi[i] + d(i)
          /\ new[j] = lo[j] + d(j) /\ nhi[j] = hi[j] + d(j)
          /\ d(i) \in Int /\ d(j) \in Int /\ lo[i] \in Int /\ hi[i] \in Int /\ lo[j] \in Int /\ hi[j] \in Int
      BY <1>2, <2>1, <3>1
    <3> QED BY <3>2, <3>3, <3>4, <3>5
  <2>2. CASE j = k + 1
    <3>1. i \in 1..k /\ side = s[j].align
      BY <2>2 DEF side
    <3>2. ASSUME s[j].align = first, s[i].align # last PROVE nhi[j] < new[i]
      <4>1. d(i) = n + 1 /\ 0 <= lo[i]
        BY <1>5, <3>1, <3>2 DEF Axis, Between
      <4>2. nhi[j] = n
        BY <1>3, <2>2, <3>1, <3>2
      <4> QED BY <1>2, <3>1, <4>1, <4>2
    <3>3. ASSUME s[j].align = last, s[i].align = last PROVE nhi[i] < new[j]
      <4>1. d(i) = -(n + 1) /\ hi[i] <= edge
        BY <1>5, <3>1, <3>3 DEF Axis, Between
      <4>2. new[j] = edge - n
        BY <1>3, <2>2, <3>1, <3>3
      <4> QED BY <1>2, <3>1, <4>1, <4>2
    <3> QED BY <3>2, <3>3
  <2> QED BY <1>1, <2>1, <2>2
<1> QED BY <1>7, <1>8, <1>9 DEF Axis

\* What StaticGluing of the widget after the first k makes of their frames.
Widen(s, i) == Pref[s[i].widget].w
Heighten(s, i) == Pref[s[i].widget].h

StaticMoves(s, k, fr, new, R, B) ==
  /\ DOMAIN new = DOMAIN fr
  /\ \A i \in 1..k :
       new[s[i].widget] = Shifted(fr[s[i].widget],
                            Pushed(s[k + 1].align, s[i].align, "left", "right", Widen(s, k + 1)),
                            Pushed(s[k + 1].align, s[i].align, "top", "bottom", Heighten(s, k + 1)))
  /\ new[s[k + 1].widget] = Shifted(Preferred(s[k + 1].widget),
                              IF s[k + 1].align = "right" THEN R - Widen(s, k + 1) ELSE 0,
                              IF s[k + 1].align = "bottom" THEN B - Heighten(s, k + 1) ELSE 0)

LEMMA StaticOne ==
  ASSUME NEW s \in Seq(Gluing), Distinct(s), NEW k \in Nat, k + 1 <= Len(s),
         NEW fr, DOMAIN fr = WidgetsOf(s), \A i \in 1..k : fr[s[i].widget] \in Rects,
         NEW R \in Int, NEW B \in Int
  PROVE  StaticMoves(s, k, fr, Static(s, Rect(0, 0, R, B), fr, s[k + 1]), R, B)
<1> DEFINE g == s[k + 1]
           w == g.widget
           f == Preferred(w)
           real == Rect(0, 0, R, B)
           glued(S) == {s[i].widget : i \in {j \in 1..Len(s) : s[j].align \in S}}
           D == WidgetsOf(s)
           new == Static(s, real, fr, g)
<1>1. /\ k + 1 \in 1..Len(s) /\ \A i \in 1..k : i \in 1..Len(s) /\ i # k + 1
  OBVIOUS
<1>2. g \in Gluing /\ w \in Widgets /\ g.align \in GluingSides /\ w \in D
  <2>1. g \in Gluing
    BY <1>1
  <2>2. w \in Widgets /\ g.align \in GluingSides /\ w \in D
    BY PlacedMore
  <2> QED BY <2>1, <2>2
<1>3. /\ Width(f) = Widen(s, k + 1) /\ Height(f) = Heighten(s, k + 1)
      /\ Widen(s, k + 1) \in Nat /\ Heighten(s, k + 1) \in Nat /\ f \in Rects
  BY <1>2, PreferredFields DEF PreferredIs, Widen, Heighten
<1>4. \A S : \A i \in 1..Len(s) : s[i].widget \in glued(S) <=> s[i].align \in S
  BY DEF Distinct
<1>5. real.r = R /\ real.b = B
  BY DEF Rect
<1>6. \A i \in 1..k : s[i].widget \in D /\ s[i].widget # w /\ s[i].align \in GluingSides
  <2> SUFFICES ASSUME NEW i \in 1..k PROVE s[i].widget \in D /\ s[i].widget # w /\ s[i].align \in GluingSides
    OBVIOUS
  <2>1. i \in 1..Len(s) /\ i # k + 1
    BY <1>1
  <2>2. s[i] \in Gluing
    BY <2>1
  <2> QED BY <1>1, <2>1, <2>2, GluingAssumption DEF Distinct, WidgetsOf, Gluing, GluingSides
<1>7. ASSUME NEW S, NEW x \in Int, NEW y \in Int, NEW rect
      PROVE  LET put == Put(MoveByChilds(fr, glued(S), x, y), w, rect)
             IN /\ DOMAIN put = D /\ put[w] = rect
                /\ \A i \in 1..k : put[s[i].widget] =
                     IF s[i].align \in S THEN Shifted(fr[s[i].widget], x, y) ELSE fr[s[i].widget]
  <2> DEFINE moved == MoveByChilds(fr, glued(S), x, y)
             put == Put(moved, w, rect)
  <2>1. DOMAIN moved = D
    BY DEF MoveByChilds
  <2>2. \A i \in 1..k : moved[s[i].widget] =
           IF s[i].align \in S THEN Shifted(fr[s[i].widget], x, y) ELSE fr[s[i].widget]
    <3> HIDE DEF glued
    <3> QED BY <1>1, <1>4, <1>6 DEF MoveByChilds
  <2> HIDE DEF moved
  <2>3. D \cup {w} = D
    BY <1>2
  <2>4. DOMAIN put = D /\ put[w] = rect /\ \A x1 \in D \ {w} : put[x1] = moved[x1]
    <3> HIDE DEF D, w
    <3> QED BY <1>2, <2>1, <2>3 DEF Put
  <2> HIDE DEF put
  <2> QED BY <1>6, <2>2, <2>4 DEF put, moved
<1>8. \A i \in 1..k : Shifted(fr[s[i].widget], 0, 0) = fr[s[i].widget]
  BY DEF Shifted, Rect, Rects
<1>9. Shifted(f, 0, 0) = f
  BY <1>3 DEF Shifted, Rect, Rects
<1> HIDE DEF g, w, f, glued, D, real
<1> DEFINE h == Heighten(s, k + 1)
           n == Widen(s, k + 1)
<1>a. /\ n + 1 \in Int /\ h + 1 \in Int /\ -(n + 1) \in Int /\ -(h + 1) \in Int /\ 0 \in Int
  BY <1>3
<1>b. ASSUME NEW S, NEW x \in Int, NEW y \in Int, NEW rect,
             new = Put(MoveByChilds(fr, glued(S), x, y), w, rect)
      PROVE  /\ DOMAIN new = D /\ new[w] = rect
             /\ \A i \in 1..k : new[s[i].widget] =
                  IF s[i].align \in S THEN Shifted(fr[s[i].widget], x, y) ELSE fr[s[i].widget]
  BY <1>7, <1>b
<1>10. CASE g.align = "top"
  <2>1. new = Put(MoveByChilds(fr, glued({"top", "left", "right"}), 0, h + 1), w, f)
    BY <1>10, <1>3 DEF Static, glued, f, w
  <2> HIDE DEF new, n, h
  <2>2. /\ DOMAIN new = D /\ new[w] = f
        /\ \A i \in 1..k : new[s[i].widget] =
             IF s[i].align \in {"top", "left", "right"}
             THEN Shifted(fr[s[i].widget], 0, h + 1) ELSE fr[s[i].widget]
    BY <1>a, <1>b, <2>1
  <2> QED BY <1>10, <1>6, <1>8, <1>9, <2>2 DEF StaticMoves, Pushed, GluingSides, new, g, w, f, D, real, n, h
<1>11. CASE g.align = "left"
  <2>1. new = Put(MoveByChilds(fr, glued({"top", "bottom", "left"}), n + 1, 0), w, f)
    BY <1>11, <1>3 DEF Static, glued, f, w
  <2> HIDE DEF new, n, h
  <2>2. /\ DOMAIN new = D /\ new[w] = f
        /\ \A i \in 1..k : new[s[i].widget] =
             IF s[i].align \in {"top", "bottom", "left"}
             THEN Shifted(fr[s[i].widget], n + 1, 0) ELSE fr[s[i].widget]
    BY <1>a, <1>b, <2>1
  <2> QED BY <1>11, <1>6, <1>8, <1>9, <2>2 DEF StaticMoves, Pushed, GluingSides, new, g, w, f, D, real, n, h
<1>12. CASE g.align = "bottom"
  <2>1. new = Put(MoveByChilds(fr, glued({"bottom"}), 0, -(h + 1)), w, Shifted(f, 0, B - h))
    BY <1>12, <1>3, <1>5 DEF Static, glued, f, w
  <2> HIDE DEF new, n, h
  <2>2. /\ DOMAIN new = D /\ new[w] = Shifted(f, 0, B - h)
        /\ \A i \in 1..k : new[s[i].widget] =
             IF s[i].align \in {"bottom"}
             THEN Shifted(fr[s[i].widget], 0, -(h + 1)) ELSE fr[s[i].widget]
    BY <1>a, <1>b, <2>1
  <2> QED BY <1>12, <1>6, <1>8, <2>2 DEF StaticMoves, Pushed, GluingSides, new, g, w, f, D, real, n, h
<1>13. CASE g.align = "right"
  <2>1. new = Put(MoveByChilds(fr, glued({"right"}), -(n + 1), 0), w, Shifted(f, R - n, 0))
    BY <1>13, <1>3, <1>5 DEF Static, glued, f, w
  <2> HIDE DEF new, n, h
  <2>2. /\ DOMAIN new = D /\ new[w] = Shifted(f, R - n, 0)
        /\ \A i \in 1..k : new[s[i].widget] =
             IF s[i].align \in {"right"}
             THEN Shifted(fr[s[i].widget], -(n + 1), 0) ELSE fr[s[i].widget]
    BY <1>a, <1>b, <2>1
  <2> QED BY <1>13, <1>6, <1>8, <2>2 DEF StaticMoves, Pushed, GluingSides, new, g, w, f, D, real, n, h
<1> QED BY <1>2, <1>10, <1>11, <1>12, <1>13 DEF GluingSides, new, real, g

\* The first k widgets along both axes, in bounds of R and B.
Edges(s, fr, side) ==
  [i \in 1..Len(s) |-> CASE side = "l" -> fr[s[i].widget].l [] side = "t" -> fr[s[i].widget].t
                         [] side = "r" -> fr[s[i].widget].r [] side = "b" -> fr[s[i].widget].b]

Held(s, k, fr, m, R, B) ==
  /\ DOMAIN fr = WidgetsOf(s)
  /\ \A i \in 1..k : fr[s[i].widget] \in Rects
  /\ Axis(s, k, "left", "right", Edges(s, fr, "l"), Edges(s, fr, "r"),
          [i \in 1..Len(s) |-> Widen(s, i)], R, m[k].w)
  /\ Axis(s, k, "top", "bottom", Edges(s, fr, "t"), Edges(s, fr, "b"),
          [i \in 1..Len(s) |-> Heighten(s, i)], B, m[k].h)

LEMMA TakesNat ==
  ASSUME NEW s, NEW n \in Nat, NEW m, Takes(s, n, m), \A i \in 1..n : s[i].widget \in Widgets
  PROVE  \A k \in 0..n : m[k].w \in Int /\ m[k].h \in Int /\ -1 <= m[k].w /\ -1 <= m[k].h
<1> DEFINE K == {k \in Nat : k <= n => -1 <= m[k].w /\ -1 <= m[k].h}
<1>1. \A k \in 0..n : m[k].w \in Int /\ m[k].h \in Int
  BY DEF Takes
<1>2. 0 \in K
  BY DEF Takes
<1>3. ASSUME NEW k \in Nat, k \in K PROVE k + 1 \in K
  <2> SUFFICES ASSUME k + 1 <= n PROVE -1 <= m[k + 1].w /\ -1 <= m[k + 1].h
    OBVIOUS
  <2>1. k + 1 \in 1..n /\ (k + 1) - 1 = k /\ k \in 0..n /\ k + 1 \in 0..n
    OBVIOUS
  <2>2. m[k].w <= m[k + 1].w /\ m[k].h <= m[k + 1].h
    BY <2>1 DEF Takes
  <2> QED BY <1>1, <1>3, <2>1, <2>2
<1>4. \A k \in Nat : k \in K
  <2> HIDE DEF K
  <2> QED BY <1>2, <1>3, Induction
<1> QED BY <1>1, <1>4

LEMMA HeldNext ==
  ASSUME NEW s \in Seq(Gluing), Distinct(s), NEW k \in Nat, k + 1 <= Len(s),
         NEW m, Takes(s, Len(s), m), NEW R \in Int, NEW B \in Int, NEW fr, Held(s, k, fr, m, R, B)
  PROVE  Held(s, k + 1, Static(s, Rect(0, 0, R, B), fr, s[k + 1]), m, R, B)
<1> DEFINE g == s[k + 1]
           n == Widen(s, k + 1)
           h == Heighten(s, k + 1)
           new == Static(s, Rect(0, 0, R, B), fr, g)
           f == Preferred(g.widget)
           dx(i) == Pushed(g.align, s[i].align, "left", "right", n)
           dy(i) == Pushed(g.align, s[i].align, "top", "bottom", h)
           x == IF g.align = "right" THEN R - n ELSE 0
           y == IF g.align = "bottom" THEN B - h ELSE 0
<1>1. /\ k + 1 \in 1..Len(s) /\ (k + 1) - 1 = k /\ k \in 0..Len(s) /\ k + 1 \in 0..Len(s)
      /\ \A i \in 1..k : i \in 1..Len(s)
  OBVIOUS
<1>2. /\ DOMAIN fr = WidgetsOf(s) /\ \A i \in 1..k : fr[s[i].widget] \in Rects
  BY DEF Held
<1>3. StaticMoves(s, k, fr, new, R, B)
  BY <1>2, StaticOne
<1>4. g.widget \in Widgets /\ g.align \in GluingSides
  BY PlacedMore
<1>5. /\ f \in Rects /\ f.l = 0 /\ f.t = 0 /\ f.r = n /\ f.b = h /\ n \in Nat /\ h \in Nat
  BY <1>4, PreferredFields DEF PreferredIs, Widen, Heighten
<1>6. \A i \in 1..k : dx(i) \in Int /\ dy(i) \in Int
  BY <1>5 DEF Pushed
<1>7. x \in Int /\ y \in Int /\ 0 + x = x /\ 0 + y = y
  BY <1>5
<1>8. /\ DOMAIN new = DOMAIN fr
      /\ \A i \in 1..k : new[s[i].widget] = Shifted(fr[s[i].widget], dx(i), dy(i))
      /\ new[s[k + 1].widget] = Shifted(f, x, y)
  BY <1>3 DEF StaticMoves
<1> HIDE DEF new, n, h, f, dx, dy, x, y
<1>9. \A i \in 1..k :
        LET old == fr[s[i].widget]  now == new[s[i].widget]
        IN /\ now \in Rects /\ now.l = old.l + dx(i) /\ now.r = old.r + dx(i)
           /\ now.t = old.t + dy(i) /\ now.b = old.b + dy(i)
  <2> SUFFICES ASSUME NEW i \in 1..k
               PROVE  LET old == fr[s[i].widget]  now == new[s[i].widget]
                      IN /\ now \in Rects /\ now.l = old.l + dx(i) /\ now.r = old.r + dx(i)
                         /\ now.t = old.t + dy(i) /\ now.b = old.b + dy(i)
    OBVIOUS
  <2> DEFINE old == fr[s[i].widget]
  <2>1. old \in Rects /\ dx(i) \in Int /\ dy(i) \in Int
    BY <1>2, <1>6
  <2>2. new[s[i].widget] = Shifted(old, dx(i), dy(i))
    BY <1>8
  <2> HIDE DEF old
  <2>3. LET now == Shifted(old, dx(i), dy(i))
        IN /\ now \in Rects /\ now.l = old.l + dx(i) /\ now.r = old.r + dx(i)
           /\ now.t = old.t + dy(i) /\ now.b = old.b + dy(i)
    BY <2>1, ShiftedFields
  <2> QED BY <2>2, <2>3 DEF old
<1>10. LET now == new[s[k + 1].widget]
       IN /\ now \in Rects /\ now.l = x /\ now.r = now.l + n /\ now.t = y /\ now.b = now.t + h
  <2>1. LET now == Shifted(f, x, y)
        IN now \in Rects /\ now.l = f.l + x /\ now.r = f.r + x /\ now.t = f.t + y /\ now.b = f.b + y
    BY <1>5, <1>7, ShiftedFields
  <2>2. n + x = x + n /\ h + y = y + h
    BY <1>5, <1>7
  <2> QED BY <1>5, <1>7, <1>8, <2>1, <2>2
<1>11. \A i \in 1..k :
         /\ Edges(s, new, "l")[i] = Edges(s, fr, "l")[i] + dx(i)
         /\ Edges(s, new, "r")[i] = Edges(s, fr, "r")[i] + dx(i)
         /\ Edges(s, new, "t")[i] = Edges(s, fr, "t")[i] + dy(i)
         /\ Edges(s, new, "b")[i] = Edges(s, fr, "b")[i] + dy(i)
  BY <1>1, <1>9 DEF Edges
<1>12. /\ Edges(s, new, "l")[k + 1] = x /\ Edges(s, new, "r")[k + 1] = x + n
       /\ Edges(s, new, "t")[k + 1] = y /\ Edges(s, new, "b")[k + 1] = y + h
  BY <1>1, <1>10 DEF Edges
<1>13. /\ m[k].w \in Int /\ m[k].h \in Int /\ m[k + 1].w \in Int /\ m[k + 1].h \in Int
       /\ -1 <= m[k].w /\ -1 <= m[k].h
  <2>1. \A i \in 1..Len(s) : s[i].widget \in Widgets
    <3>1. \A i \in 1..Len(s) : s[i] \in Gluing
      OBVIOUS
    <3> QED BY <3>1 DEF Gluing
  <2> QED BY <1>1, <2>1, TakesNat
<1>14. /\ m[k].w <= m[k + 1].w /\ m[k].h <= m[k + 1].h
       /\ Vertically(g) => n <= m[k + 1].w /\ m[k].h + h + 1 <= m[k + 1].h
       /\ ~Vertically(g) => m[k].w + n + 1 <= m[k + 1].w /\ h <= m[k + 1].h
  BY <1>1 DEF Takes, n, h, Widen, Heighten
<1>15. /\ Vertically(g) <=> g.align \in {"top", "bottom"}
       /\ ~Vertically(g) <=> g.align \in {"left", "right"}
  BY <1>4 DEF Vertically, GluingSides
<1>16. n <= m[k + 1].w /\ h <= m[k + 1].h
  <2>1. CASE Vertically(g)
    <3>1. n <= m[k + 1].w /\ m[k].h + h + 1 <= m[k + 1].h
      BY <1>14, <2>1
    <3> QED BY <1>5, <1>13, <3>1
  <2>2. CASE ~Vertically(g)
    <3>1. m[k].w + n + 1 <= m[k + 1].w /\ h <= m[k + 1].h
      BY <1>14, <2>2
    <3> QED BY <1>5, <1>13, <3>1
  <2> QED BY <2>1, <2>2
<1> DEFINE ww == [i \in 1..Len(s) |-> Widen(s, i)]
           hh == [i \in 1..Len(s) |-> Heighten(s, i)]
<1>17. ww[k + 1] = n /\ hh[k + 1] = h
  BY <1>1 DEF n, h
<1>18. /\ Axis(s, k, "left", "right", Edges(s, fr, "l"), Edges(s, fr, "r"), ww, R, m[k].w)
       /\ Axis(s, k, "top", "bottom", Edges(s, fr, "t"), Edges(s, fr, "b"), hh, B, m[k].h)
  BY DEF Held
<1>19. Pushes(s, k, "left", "right", Edges(s, fr, "l"), Edges(s, fr, "r"),
              Edges(s, new, "l"), Edges(s, new, "r"), R, n)
  BY <1>11, <1>12 DEF Pushes, dx, x
<1>20. Pushes(s, k, "top", "bottom", Edges(s, fr, "t"), Edges(s, fr, "b"),
              Edges(s, new, "t"), Edges(s, new, "b"), B, h)
  BY <1>11, <1>12 DEF Pushes, dy, y
<1> HIDE DEF ww, hh
<1>21. Axis(s, k + 1, "left", "right", Edges(s, new, "l"), Edges(s, new, "r"), ww, R, m[k + 1].w)
  <2> DEFINE first == "left"
             last == "right"
             a == m[k].w
             b == m[k + 1].w
             lo == Edges(s, fr, "l")
             hi == Edges(s, fr, "r")
             nlo == Edges(s, new, "l")
             nhi == Edges(s, new, "r")
  <2>1. first # last /\ (g.align \in {first, last} => ~Vertically(g))
    BY <1>15
  <2>2. /\ Axis(s, k, first, last, lo, hi, ww, R, a) /\ Pushes(s, k, first, last, lo, hi, nlo, nhi, R, n)
        /\ a \in Int /\ b \in Int /\ -1 <= a /\ a <= b /\ n <= b /\ n \in Nat
        /\ ~Vertically(g) => a + n + 1 <= b
    BY <1>5, <1>13, <1>14, <1>16, <1>18, <1>19
  <2> HIDE DEF first, last, a, b, lo, hi, nlo, nhi
  <2>3. s[k + 1].align \in {first, last} => a + n + 1 <= b
    BY <2>1, <2>2
  <2>4. Axis(s, k + 1, first, last, nlo, nhi, ww, R, b)
    BY <1>17, <2>1, <2>2, <2>3, AxisNext
  <2> QED BY <2>4 DEF first, last, b, nlo, nhi
<1>22. Axis(s, k + 1, "top", "bottom", Edges(s, new, "t"), Edges(s, new, "b"), hh, B, m[k + 1].h)
  <2> DEFINE first == "top"
             last == "bottom"
             a == m[k].h
             b == m[k + 1].h
             lo == Edges(s, fr, "t")
             hi == Edges(s, fr, "b")
             nlo == Edges(s, new, "t")
             nhi == Edges(s, new, "b")
  <2>1. first # last /\ (g.align \in {first, last} => Vertically(g))
    BY <1>15
  <2>2. /\ Axis(s, k, first, last, lo, hi, hh, B, a) /\ Pushes(s, k, first, last, lo, hi, nlo, nhi, B, h)
        /\ a \in Int /\ b \in Int /\ -1 <= a /\ a <= b /\ h <= b /\ h \in Nat
        /\ Vertically(g) => a + h + 1 <= b
    BY <1>5, <1>13, <1>14, <1>16, <1>18, <1>20
  <2> HIDE DEF first, last, a, b, lo, hi, nlo, nhi
  <2>3. s[k + 1].align \in {first, last} => a + h + 1 <= b
    BY <2>1, <2>2
  <2>4. Axis(s, k + 1, first, last, nlo, nhi, hh, B, b)
    BY <1>17, <2>1, <2>2, <2>3, AxisNext
  <2> QED BY <2>4 DEF first, last, b, nlo, nhi
<1>23. \A i \in 1..(k + 1) : new[s[i].widget] \in Rects
  <2>1. \A i \in 1..(k + 1) : i \in 1..k \/ i = k + 1
    OBVIOUS
  <2> QED BY <1>9, <1>10, <2>1
<1>24. Held(s, k + 1, new, m, R, B)
  BY <1>2, <1>8, <1>21, <1>22, <1>23 DEF Held, ww, hh
<1> QED BY <1>24 DEF new

(* All of StaticGluing: what fits into the bounds is laid out in them, and has
   its preferred size. *)
LEMMA StaticLaid ==
  ASSUME NEW s \in Seq(Gluing), Distinct(s), NEW R \in Int, NEW B \in Int, Fits(s, Len(s), R, B),
         NEW base, DOMAIN base = WidgetsOf(s), NEW h,
         Loop("StaticGluing", [contents |-> s, real |-> Rect(0, 0, R, B)], base, s, h)
  PROVE  /\ DOMAIN h[Len(s)] = WidgetsOf(s)
         /\ Laid(h[Len(s)], WidgetsOf(s), Rect(0, 0, R, B))
         /\ \A w \in WidgetsOf(s) : Height(h[Len(s)][w]) = Pref[w].h
<1> DEFINE n == Len(s)
           fr == h[n]
           real == Rect(0, 0, R, B)
<1>1. PICK m : Takes(s, n, m) /\ m[n].w <= R /\ m[n].h <= B
  BY DEF Fits
<1>2. h[0] = base /\ \A k \in 1..n : h[k] = Static(s, real, h[k - 1], s[k])
  BY DEF Loop, Step
<1>3. \A k \in 0..n : m[k].w \in Int /\ m[k].h \in Int
  BY <1>1 DEF Takes
<1>4. \A i \in 1..n : s[i].widget \in Widgets /\ s[i].align \in GluingSides
  <2>1. \A i \in 1..n : s[i] \in Gluing
    OBVIOUS
  <2> QED BY <2>1, GluingAssumption DEF Gluing, GluingSides
<1> DEFINE K == {k \in Nat : k <= n => Held(s, k, h[k], m, R, B)}
<1>5. 0 \in K
  <2>1. \A i \in 1..0 : FALSE
    OBVIOUS
  <2>2. \A first, last, lo, hi, size, edge, most : Axis(s, 0, first, last, lo, hi, size, edge, most)
    BY <2>1 DEF Axis, Between, Opposite, Ahead
  <2>3. Held(s, 0, base, m, R, B)
    BY <2>1, <2>2 DEF Held
  <2> QED BY <1>2, <2>3
<1>6. ASSUME NEW k \in Nat, k \in K PROVE k + 1 \in K
  <2> SUFFICES ASSUME k + 1 <= n PROVE Held(s, k + 1, h[k + 1], m, R, B)
    OBVIOUS
  <2>1. k + 1 \in 1..n /\ (k + 1) - 1 = k /\ k <= n
    OBVIOUS
  <2>2. Held(s, k, h[k], m, R, B)
    BY <1>6, <2>1
  <2>3. h[k + 1] = Static(s, real, h[k], s[k + 1])
    BY <1>2, <2>1
  <2> QED BY <1>1, <2>1, <2>2, <2>3, HeldNext
<1>7. \A k \in Nat : k \in K
  <2> HIDE DEF K
  <2> QED BY <1>5, <1>6, Induction
<1>8. n \in Nat /\ n \in 0..n
  OBVIOUS
<1>9. Held(s, n, fr, m, R, B)
  BY <1>7, <1>8
<1> HIDE DEF fr
<1>10. \A i \in 1..n : fr[s[i].widget] \in Rects
  BY <1>9 DEF Held
<1> DEFINE L == Edges(s, fr, "l")
           T == Edges(s, fr, "t")
           RR == Edges(s, fr, "r")
           BB == Edges(s, fr, "b")
<1>11. \A i \in 1..n : /\ L[i] = fr[s[i].widget].l /\ T[i] = fr[s[i].widget].t
                        /\ RR[i] = fr[s[i].widget].r /\ BB[i] = fr[s[i].widget].b
  BY DEF Edges
<1>12. \A i \in 1..n : L[i] \in Int /\ T[i] \in Int /\ RR[i] \in Int /\ BB[i] \in Int
  BY <1>10, <1>11 DEF Rects
<1> DEFINE ww == [i \in 1..Len(s) |-> Widen(s, i)]
           hh == [i \in 1..Len(s) |-> Heighten(s, i)]
<1>13. /\ Axis(s, n, "left", "right", L, RR, ww, R, m[n].w)
       /\ Axis(s, n, "top", "bottom", T, BB, hh, B, m[n].h)
  BY <1>9 DEF Held
<1>14. \A i \in 1..n : ww[i] = Pref[s[i].widget].w /\ hh[i] = Pref[s[i].widget].h
  BY DEF Widen, Heighten
<1> HIDE DEF L, T, RR, BB, ww, hh
<1>15. ASSUME NEW i \in 1..n
       PROVE  /\ 0 <= L[i] /\ L[i] <= RR[i] /\ RR[i] <= R
              /\ 0 <= T[i] /\ T[i] <= BB[i] /\ BB[i] <= B
              /\ BB[i] - T[i] = Pref[s[i].widget].h
  <2>1. /\ RR[i] = L[i] + ww[i] /\ ww[i] \in Nat
        /\ s[i].align # "right" => 0 <= L[i] /\ RR[i] <= m[n].w
        /\ s[i].align = "right" => R - m[n].w <= L[i] /\ RR[i] <= R
    BY <1>13 DEF Axis, Between
  <2>2. /\ BB[i] = T[i] + hh[i] /\ hh[i] \in Nat
        /\ s[i].align # "bottom" => 0 <= T[i] /\ BB[i] <= m[n].h
        /\ s[i].align = "bottom" => B - m[n].h <= T[i] /\ BB[i] <= B
    BY <1>13 DEF Axis, Between
  <2>3. 0 <= L[i] /\ RR[i] <= R
    BY <1>1, <1>3, <1>8, <1>12, <2>1
  <2>4. 0 <= T[i] /\ BB[i] <= B
    BY <1>1, <1>3, <1>8, <1>12, <2>2
  <2> QED BY <1>12, <1>14, <2>1, <2>2, <2>3, <2>4
<1>16. ASSUME NEW i \in 1..n, NEW j \in 1..n, i < j
       PROVE  RR[i] < L[j] \/ RR[j] < L[i] \/ BB[i] < T[j] \/ BB[j] < T[i]
  <2>1. /\ s[j].align = "left" /\ s[i].align # "right" => RR[j] < L[i]
        /\ s[j].align = "right" /\ s[i].align = "right" => RR[i] < L[j]
        /\ s[j].align = "top" /\ s[i].align # "bottom" => BB[j] < T[i]
        /\ s[j].align = "bottom" /\ s[i].align = "bottom" => BB[i] < T[j]
    BY <1>13, <1>16 DEF Axis, Ahead
  <2>2. /\ s[j].align = "left" /\ s[i].align = "right" => 1 + R - m[n].w <= L[i] - RR[j]
        /\ s[j].align = "right" /\ s[i].align # "right" => 1 + R - m[n].w <= L[j] - RR[i]
        /\ s[j].align = "top" /\ s[i].align = "bottom" => 1 + B - m[n].h <= T[i] - BB[j]
        /\ s[j].align = "bottom" /\ s[i].align # "bottom" => 1 + B - m[n].h <= T[j] - BB[i]
    BY <1>13, <1>16 DEF Axis, Opposite
  <2>3. 1 + R - m[n].w >= 1 /\ 1 + B - m[n].h >= 1 /\ 1 + R - m[n].w \in Int /\ 1 + B - m[n].h \in Int
    BY <1>1, <1>3, <1>8
  <2>4. \A a, b, c \in Int : c >= 1 /\ c <= a - b => b < a
    OBVIOUS
  <2>5. L[i] \in Int /\ L[j] \in Int /\ T[i] \in Int /\ T[j] \in Int
        /\ RR[i] \in Int /\ RR[j] \in Int /\ BB[i] \in Int /\ BB[j] \in Int
    BY <1>12
  <2>6. CASE s[j].align = "left"
    BY <2>1, <2>2, <2>3, <2>4, <2>5, <2>6
  <2>7. CASE s[j].align = "right"
    BY <2>1, <2>2, <2>3, <2>4, <2>5, <2>7
  <2>8. CASE s[j].align = "top"
    BY <2>1, <2>2, <2>3, <2>4, <2>5, <2>8
  <2>9. CASE s[j].align = "bottom"
    BY <2>1, <2>2, <2>3, <2>4, <2>5, <2>9
  <2> QED BY <1>4, <2>6, <2>7, <2>8, <2>9 DEF GluingSides
<1>17. \A w \in WidgetsOf(s) : \E i \in 1..n : s[i].widget = w
  BY DEF WidgetsOf
<1>18. real.r = R /\ real.b = B
  BY DEF Rect
<1> HIDE DEF real
<1>19. ASSUME NEW w \in WidgetsOf(s)
       PROVE  fr[w] \in Rects /\ Inside(fr[w], real) /\ Height(fr[w]) = Pref[w].h
  <2>1. PICK i \in 1..n : s[i].widget = w
    BY <1>17
  <2> QED BY <1>10, <1>11, <1>15, <1>18, <2>1 DEF Inside, Height
<1>20. ASSUME NEW w \in WidgetsOf(s), NEW x \in WidgetsOf(s), w # x PROVE Away(fr[w], fr[x])
  <2>1. PICK i \in 1..n, j \in 1..n : s[i].widget = w /\ s[j].widget = x
    BY <1>17
  <2>2. i < j \/ j < i
    BY <1>20, <2>1
  <2>3. RR[i] < L[j] \/ RR[j] < L[i] \/ BB[i] < T[j] \/ BB[j] < T[i]
    BY <1>16, <2>2
  <2>4. BB[i] <= T[j] \/ BB[j] <= T[i] \/ RR[i] < L[j] \/ RR[j] < L[i]
    BY <1>12, <2>3
  <2>5. /\ L[i] = fr[w].l /\ T[i] = fr[w].t /\ RR[i] = fr[w].r /\ BB[i] = fr[w].b
        /\ L[j] = fr[x].l /\ T[j] = fr[x].t /\ RR[j] = fr[x].r /\ BB[j] = fr[x].b
    BY <1>11, <2>1
  <2> QED BY <2>4, <2>5 DEF Away
<1>21. DOMAIN fr = WidgetsOf(s) /\ Laid(fr, WidgetsOf(s), real)
  BY <1>9, <1>19, <1>20 DEF Held, Laid
<1> QED BY <1>19, <1>21 DEF fr, real

-----------------------------------------------------------------------------
(* The invariant: the layout is sound, what is glued fits into the least size *)
(* of the window, and no widget has lost more of its height than expanding it *)
(* at every gluing can take.                                                  *)

\* How much the gluing of n widgets can take of the height of one of them.
Loss(n) == IF n <= 1 THEN 0 ELSE 2 * n - 3

\* Widgets that expand in height are high enough for it.
Roomy == IsFiniteSet(Widgets) /\ \A w \in ExpandY : Pref[w].h >= Loss(Cardinality(Widgets))

Stacked == Regluable \subseteq {"top", "bottom"}

GluedOnce ==
  /\ Contents \in Seq(Gluing) /\ Distinct(Contents)
  /\ DOMAIN frame = WidgetsOf(Contents)

BoundsFit ==
  /\ RealBounds = Rect(0, 0, RealBounds.r, RealBounds.b)
  /\ RealBounds.r \in Int /\ RealBounds.b \in Int
  /\ bounds.w \in Int /\ bounds.h \in Int
  /\ least.w \in Nat /\ least.h \in Nat
  /\ least.w <= bounds.w /\ least.h <= bounds.h
  /\ least.w <= RealBounds.r /\ least.h <= RealBounds.b
  /\ Fits(Contents, Len(Contents), least.w, least.h)
  /\ Len(Contents) > 0 => least.w > 0

LaidOut ==
  /\ Laid(frame, WidgetsOf(Contents), RealBounds)
  /\ \A w \in WidgetsOf(Contents) : Height(frame[w]) >= Pref[w].h - Lost(w, Loss(Len(Contents)))

LayoutIInv == GluedOnce /\ BoundsFit /\ LaidOut

LEMMA SeqFacts ==
  ASSUME NEW s \in Seq(Gluing)
  PROVE  /\ Len(s) \in Nat /\ DOMAIN s = 1..Len(s)
         /\ WidgetsOf(s) \in SUBSET Widgets /\ WidgetsOf(s) = Placed(s, Len(s))
         /\ \A i \in 1..Len(s) : s[i] \in Gluing /\ s[i].widget \in WidgetsOf(s)
<1>1. \A i \in 1..Len(s) : s[i] \in Gluing
  OBVIOUS
<1> QED BY <1>1 DEF WidgetsOf, Placed, Gluing

LEMMA FewGlued ==
  ASSUME NEW s \in Seq(Gluing), Distinct(s), IsFiniteSet(Widgets)
  PROVE  Len(s) <= Cardinality(Widgets) /\ Cardinality(Widgets) \in Nat
<1> DEFINE n == Len(s)
           K == {k \in Nat : k <= n => IsFiniteSet(Placed(s, k)) /\ Cardinality(Placed(s, k)) = k}
<1>1. 0 \in K
  <2>1. Placed(s, 0) = {}
    BY DEF Placed
  <2> QED BY <2>1, FS_EmptySet
<1>2. ASSUME NEW k \in Nat, k \in K PROVE k + 1 \in K
  <2> SUFFICES ASSUME k + 1 <= n
               PROVE  IsFiniteSet(Placed(s, k + 1)) /\ Cardinality(Placed(s, k + 1)) = k + 1
    OBVIOUS
  <2>1. Placed(s, k + 1) = Placed(s, k) \cup {s[k + 1].widget} /\ s[k + 1].widget \notin Placed(s, k)
    BY PlacedMore
  <2>2. k <= n
    OBVIOUS
  <2>3. IsFiniteSet(Placed(s, k)) /\ Cardinality(Placed(s, k)) = k
    BY <1>2, <2>2
  <2> DEFINE S == Placed(s, k)
             x == s[k + 1].widget
  <2> HIDE DEF S, x
  <2>4. /\ IsFiniteSet(S \cup {x})
        /\ Cardinality(S \cup {x}) = IF x \in S THEN Cardinality(S) ELSE Cardinality(S) + 1
    BY <2>3, FS_AddElement DEF S
  <2> QED BY <2>1, <2>3, <2>4 DEF S, x
<1>3. \A k \in Nat : k \in K
  <2> HIDE DEF K
  <2> QED BY <1>1, <1>2, Induction
<1>4. Cardinality(Placed(s, n)) = n /\ Placed(s, n) \in SUBSET Widgets
  BY <1>3, SeqFacts
<1> QED BY <1>4, FS_Subset, FS_CardinalityType

LEMMA LossGrows ==
  /\ \A n \in Nat : Squeeze(n) <= Loss(n) /\ Loss(n) \in Nat /\ Squeeze(n) \in Nat
  /\ \A m, n \in Nat : m < n => Loss(m) + Squeeze(n) <= Loss(n)
  /\ \A m, n \in Nat : m <= n => Loss(m) <= Loss(n)
BY DEF Loss, Squeeze

(* ExpandChilds, of a layout in which no widget has lost more than q. *)
LEMMA Expands ==
  ASSUME Roomy, NEW s \in Seq(Gluing), Distinct(s), NEW q \in Nat, q + Squeeze(Len(s)) <= Loss(Len(s)),
         NEW fr, DOMAIN fr = WidgetsOf(s), NEW real, real.r \in Int, real.b \in Int,
         Laid(fr, WidgetsOf(s), real),
         \A w \in WidgetsOf(s) : Height(fr[w]) >= Pref[w].h - Lost(w, q)
  PROVE  /\ DOMAIN ExpandChilds(s, fr, real) = WidgetsOf(s)
         /\ Laid(ExpandChilds(s, fr, real), WidgetsOf(s), real)
         /\ \A w \in WidgetsOf(s) :
              Height(ExpandChilds(s, fr, real)[w]) >= Pref[w].h - Lost(w, Loss(Len(s)))
<1> DEFINE n == Len(s)
           D == WidgetsOf(s)
           new == ExpandChilds(s, fr, real)
<1>1. n \in Nat /\ DOMAIN s = 1..n /\ D \in SUBSET Widgets
  BY SeqFacts
<1>2. n <= Cardinality(Widgets) /\ Cardinality(Widgets) \in Nat
  BY FewGlued DEF Roomy
<1>3. /\ Loss(n) <= Loss(Cardinality(Widgets)) /\ Loss(n) \in Nat /\ Squeeze(n) \in Nat
      /\ Loss(Cardinality(Widgets)) \in Nat
  BY <1>1, <1>2, LossGrows
<1>4. \A w \in D : /\ Pref[w].h \in Nat /\ Height(fr[w]) \in Nat
                   /\ w \in ExpandY => Loss(n) <= Pref[w].h
  <2> SUFFICES ASSUME NEW w \in D
               PROVE  /\ Pref[w].h \in Nat /\ Height(fr[w]) \in Nat
                      /\ w \in ExpandY => Loss(n) <= Pref[w].h
    OBVIOUS
  <2>1. Pref[w].h \in Nat
    BY <1>1, PreferredFields DEF PreferredIs
  <2>2. fr[w] \in Rects /\ Inside(fr[w], real)
    BY DEF Laid
  <2>3. Height(fr[w]) \in Nat
    BY <2>2 DEF Inside, Rects, Height
  <2>4. w \in ExpandY => Loss(Cardinality(Widgets)) <= Pref[w].h
    BY DEF Roomy
  <2> QED BY <1>3, <2>1, <2>3, <2>4
<1>5. \A w \in D : Height(fr[w]) >= LossOf(w, n)
  <2> SUFFICES ASSUME NEW w \in D PROVE Height(fr[w]) >= LossOf(w, n)
    OBVIOUS
  <2>1. CASE w \in ExpandY
    <3>1. Height(fr[w]) >= Pref[w].h - q /\ LossOf(w, n) = Squeeze(n) /\ Loss(n) <= Pref[w].h
      BY <1>4, <2>1 DEF Lost, LossOf
    <3> QED BY <1>3, <1>4, <3>1
  <2>2. CASE w \notin ExpandY
    BY <1>4, <2>2 DEF LossOf
  <2> QED BY <2>1, <2>2
<1>6. /\ DOMAIN new = D /\ Laid(new, D, real)
      /\ \A w \in D : Height(new[w]) >= Height(fr[w]) - LossOf(w, n)
  BY <1>1, <1>5, ExpandChildsLaid
<1> HIDE DEF new
<1>7. ASSUME NEW w \in D PROVE Height(new[w]) >= Pref[w].h - Lost(w, Loss(n))
  <2>1. new[w] \in Rects
    BY <1>6 DEF Laid
  <2>2. Height(new[w]) \in Int
    BY <2>1 DEF Rects, Height
  <2>3. Height(new[w]) >= Height(fr[w]) - LossOf(w, n) /\ Height(fr[w]) >= Pref[w].h - Lost(w, q)
    BY <1>6
  <2>4. CASE w \in ExpandY
    <3>1. Lost(w, q) = q /\ Lost(w, Loss(n)) = Loss(n) /\ LossOf(w, n) = Squeeze(n)
      BY <2>4 DEF Lost, LossOf
    <3> QED BY <1>3, <1>4, <2>2, <2>3, <3>1
  <2>5. CASE w \notin ExpandY
    <3>1. Lost(w, q) = 0 /\ Lost(w, Loss(n)) = 0 /\ LossOf(w, n) = 0
      BY <2>5 DEF Lost, LossOf
    <3> QED BY <1>3, <1>4, <2>2, <2>3, <3>1
  <2> QED BY <2>4, <2>5
<1> QED BY <1>6, <1>7 DEF new

(* The end of a gluing, and of a regluing. *)
LEMMA ResizedLays ==
  ASSUME Roomy, NEW t \in Seq(Gluing), Distinct(t), Len(t) > 0, NEW q \in Nat,
         q + Squeeze(Len(t)) <= Loss(Len(t)),
         NEW lay, Sound(t, Len(t), q, lay), Contents' = t, Resized(t, lay)
  PROVE  LayoutIInv'
<1> DEFINE n == Len(t)
           R == lay.real.r
           B == lay.real.b
<1>1. /\ lay.real = Rect(0, 0, R, B) /\ R \in Nat /\ B \in Nat /\ Fits(t, n, R, B) /\ R > 0
      /\ Placed(t, n) \subseteq DOMAIN lay.frame /\ DOMAIN lay.frame \subseteq WidgetsOf(t)
      /\ Laid(lay.frame, Placed(t, n), lay.real)
      /\ \A x \in Placed(t, n) : Height(lay.frame[x]) >= Pref[x].h - Lost(x, q)
  BY DEF Sound, SoundBounds
<1>2. Width(lay.real) = R /\ Height(lay.real) = B
  <2>1. lay.real.l = 0 /\ lay.real.t = 0
    BY <1>1 DEF Rect
  <2> QED BY <1>1, <2>1 DEF Width, Height
<1>3. /\ RealBounds' = lay.real /\ bounds' = [w |-> R, h |-> B] /\ least' = [w |-> R, h |-> B]
      /\ frame' = ExpandChilds(t, lay.frame, lay.real)
  BY <1>2 DEF Resized
<1>4. Placed(t, n) = WidgetsOf(t) /\ n \in Nat
  BY SeqFacts
<1>5. DOMAIN lay.frame = WidgetsOf(t)
  BY <1>1, <1>4
<1> HIDE DEF R, B
<1>6. lay.real.r \in Int /\ lay.real.b \in Int
  BY <1>1 DEF R, B
<1>7. /\ DOMAIN frame' = WidgetsOf(t) /\ Laid(frame', WidgetsOf(t), lay.real)
      /\ \A w \in WidgetsOf(t) : Height(frame'[w]) >= Pref[w].h - Lost(w, Loss(n))
  BY <1>1, <1>3, <1>4, <1>5, <1>6, Expands
<1>8. GluedOnce'
  BY <1>7 DEF GluedOnce
<1>9. BoundsFit'
  <2>1. RealBounds'.r = R /\ RealBounds'.b = B
    BY <1>3 DEF R, B
  <2>2. bounds'.w = R /\ bounds'.h = B /\ least'.w = R /\ least'.h = B
    BY <1>3
  <2>3. RealBounds' = Rect(0, 0, R, B)
    BY <1>1, <1>3
  <2> QED BY <1>1, <2>1, <2>2, <2>3 DEF BoundsFit
<1>10. LaidOut'
  BY <1>3, <1>7 DEF LaidOut
<1> QED BY <1>8, <1>9, <1>10 DEF LayoutIInv

LEMMA RegluingLays ==
  ASSUME Roomy, LayoutIInv, NEW t \in Seq(Gluing), Distinct(t), \A i \in 1..Len(t) : Vertically(t[i]),
         NEW fr, DOMAIN fr = WidgetsOf(t), Contents' = t, ReGluing(t, fr)
  PROVE  LayoutIInv'
<1> DEFINE n == Len(t)
           base == [frame |-> fr, real |-> empty]
           lay == FoldLeft(Again, base, t)
<1>1. n \in Nat /\ DOMAIN t = 1..n
  BY SeqFacts
<1>2. CASE t = <<>>
  <2>1. n = 0 /\ WidgetsOf(t) = {}
    BY <1>2 DEF WidgetsOf
  <2>2. frame' = fr /\ UNCHANGED <<RealBounds, bounds, least>>
    BY <1>2 DEF ReGluing
  <2>3. Fits(t, 0, least.w, least.h)
    BY FitsNothing DEF LayoutIInv, BoundsFit
  <2>4. GluedOnce'
    BY <2>2 DEF GluedOnce
  <2>5. BoundsFit'
    BY <2>1, <2>2, <2>3 DEF LayoutIInv, BoundsFit
  <2>6. LaidOut'
    BY <2>1 DEF LaidOut, Laid
  <2> QED BY <2>4, <2>5, <2>6 DEF LayoutIInv
<1>3. CASE t # <<>>
  <2>1. n > 0
    BY <1>1, <1>3
  <2>2. Resized(t, lay)
    BY <1>3 DEF ReGluing
  <2>3. PICK h : Loop("ReGluing", 0, base, t, h) /\ lay = h[n]
    BY <1>1, AgainLoop
  <2>4. Sound(t, 0, 0, base)
    <3>1. Placed(t, 0) = {}
      BY DEF Placed
    <3>2. /\ base.real = Rect(0, 0, 0, 0) /\ base.real.r = 0 /\ base.real.b = 0
          /\ DOMAIN base.frame = WidgetsOf(t)
      BY DEF empty, Rect
    <3>3. Fits(t, 0, 0, 0)
      BY FitsNothing
    <3> HIDE DEF base
    <3> QED BY <3>1, <3>2, <3>3 DEF Sound, SoundBounds, Laid
  <2> HIDE DEF lay, base
  <2>5. Sound(t, n, 0, lay)
    <3>1. Len(t) = Len(t) - 0 /\ 0 \in 0..Len(t) /\ \A i \in 1..Len(t) : t[i] = t[0 + i]
      BY <1>1
    <3> DEFINE loop == "ReGluing"
    <3>2. Loop(loop, 0, base, t, h) /\ loop = "ReGluing"
      BY <2>3
    <3> HIDE DEF loop
    <3>3. Sound(t, Len(t), 0, h[Len(t)])
      BY <2>4, <3>1, <3>2, GluedAll
    <3> QED BY <2>3, <3>3
  <2>6. 0 + Squeeze(n) <= Loss(n)
    BY <1>1, LossGrows
  <2> QED BY <2>1, <2>2, <2>5, <2>6, ResizedLays
<1> QED BY <1>2, <1>3

LEMMA Joined ==
  ASSUME NEW a \in Seq(Gluing), NEW b \in Seq(Gluing)
  PROVE  /\ a \o b \in Seq(Gluing) /\ Len(a \o b) = Len(a) + Len(b)
         /\ \A i \in 1..Len(a) : (a \o b)[i] = a[i]
         /\ \A i \in 1..Len(b) : (a \o b)[Len(a) + i] = b[i]
OBVIOUS

LEMMA GlueLays ==
  ASSUME Roomy, LayoutIInv, NEW align \in Aligns, NEW ws \in Seq(Widgets), Len(ws) > 0,
         \A i, j \in 1..Len(ws) : ws[i] = ws[j] => i = j, Glue(align, ws)
  PROVE  LayoutIInv'
<1> DEFINE new == [i \in 1..Len(ws) |-> [widget |-> ws[i], align |-> align]]
           base == [frame |-> frame, real |-> RealBounds]
           lay == FoldLeft(Dynamic, base, new)
           t == Contents \o new
           n0 == Len(Contents)
           q == Loss(n0)
<1>1. /\ \A i \in 1..Len(ws) : ws[i] \notin DOMAIN frame
      /\ Contents' = t /\ Resized(t, lay)
  BY DEF Glue
<1>2. new \in Seq(Gluing) /\ Len(new) = Len(ws) /\ \A i \in 1..Len(ws) : new[i].widget = ws[i]
  BY DEF Gluing
<1>3. Contents \in Seq(Gluing) /\ Distinct(Contents) /\ DOMAIN frame = WidgetsOf(Contents) /\ n0 \in Nat
  BY DEF LayoutIInv, GluedOnce
<1>4. Len(ws) \in Nat /\ DOMAIN new = 1..Len(new)
  OBVIOUS
<1> HIDE DEF new
<1>5. /\ t \in Seq(Gluing) /\ Len(t) = n0 + Len(ws)
      /\ \A i \in 1..n0 : t[i] = Contents[i]
      /\ \A i \in 1..Len(ws) : t[n0 + i] = new[i]
  <2> DEFINE old == Contents
  <2>1. old \in Seq(Gluing)
    BY <1>3
  <2> HIDE DEF old
  <2>2. /\ old \o new \in Seq(Gluing) /\ Len(old \o new) = Len(old) + Len(new)
        /\ \A i \in 1..Len(old) : (old \o new)[i] = old[i]
        /\ \A i \in 1..Len(new) : (old \o new)[Len(old) + i] = new[i]
    BY <1>2, <2>1, Joined
  <2>3. t = old \o new /\ Len(old) = n0
    BY DEF old
  <2> HIDE DEF t, n0
  <2> QED BY <1>2, <2>2, <2>3 DEF old
<1> HIDE DEF t
<1>6. \A i \in 1..Len(t) : i \in 1..n0 \/ \E j \in 1..Len(ws) : i = n0 + j
  <2> SUFFICES ASSUME NEW i \in 1..Len(t), i \notin 1..n0 PROVE \E j \in 1..Len(ws) : i = n0 + j
    OBVIOUS
  <2>1. i - n0 \in 1..Len(ws) /\ i = n0 + (i - n0)
    BY <1>3, <1>4, <1>5
  <2> QED BY <2>1
<1>7. Distinct(t)
  <2> SUFFICES ASSUME NEW i \in 1..Len(t), NEW j \in 1..Len(t), t[i].widget = t[j].widget PROVE i = j
    BY DEF Distinct
  <2>1. \A k \in 1..n0 : t[k].widget \in DOMAIN frame
    BY <1>3, <1>5 DEF WidgetsOf
  <2>2. \A k \in 1..Len(ws) : t[n0 + k].widget = ws[k] /\ ws[k] \notin DOMAIN frame
    BY <1>1, <1>2, <1>5
  <2>3. CASE i \in 1..n0 /\ j \in 1..n0
    BY <1>3, <1>5, <2>3 DEF Distinct
  <2>4. CASE i \notin 1..n0 /\ j \notin 1..n0
    <3>1. PICK k \in 1..Len(ws), l \in 1..Len(ws) : i = n0 + k /\ j = n0 + l
      BY <1>6, <2>4
    <3>2. ws[k] = ws[l]
      BY <2>2, <3>1
    <3> QED BY <3>1, <3>2
  <2>5. CASE i \in 1..n0 /\ j \notin 1..n0
    <3>1. PICK k \in 1..Len(ws) : j = n0 + k
      BY <1>6, <2>5
    <3>2. t[j].widget \notin DOMAIN frame
      BY <2>2, <3>1
    <3> QED BY <2>1, <2>5, <3>2
  <2>6. CASE i \notin 1..n0 /\ j \in 1..n0
    <3>1. PICK k \in 1..Len(ws) : i = n0 + k
      BY <1>6, <2>6
    <3>2. t[i].widget \notin DOMAIN frame
      BY <2>2, <3>1
    <3> QED BY <2>1, <2>6, <3>2
  <2> QED BY <2>3, <2>4, <2>5, <2>6
<1>8. Placed(t, n0) = WidgetsOf(Contents)
  <2>1. \A i \in 1..n0 : t[i].widget = Contents[i].widget
    BY <1>5
  <2> HIDE DEF t
  <2> QED BY <2>1 DEF Placed, WidgetsOf
<1>9. WidgetsOf(Contents) \subseteq WidgetsOf(t)
  <2>1. \A i \in 1..n0 : i \in 1..Len(t)
    BY <1>3, <1>4, <1>5
  <2> QED BY <1>5, <2>1 DEF WidgetsOf
<1>10. Sound(t, n0, q, base)
  <2>1. /\ RealBounds = Rect(0, 0, RealBounds.r, RealBounds.b)
        /\ RealBounds.r \in Int /\ RealBounds.b \in Int
        /\ least.w \in Nat /\ least.h \in Nat
        /\ least.w <= RealBounds.r /\ least.h <= RealBounds.b
        /\ Fits(Contents, n0, least.w, least.h) /\ (n0 > 0 => least.w > 0)
    BY DEF LayoutIInv, BoundsFit
  <2>2. Fits(t, n0, least.w, least.h)
    <3> DEFINE a == least.w
               b == least.h
               old == Contents
    <3>1. /\ n0 \in Nat /\ a \in Int /\ b \in Int /\ Fits(old, n0, a, b)
          /\ \A i \in 1..n0 : old[i] = t[i]
      BY <1>3, <1>5, <2>1
    <3> HIDE DEF a, b, n0, old
    <3>2. Fits(t, n0, a, b)
      BY <3>1, FitsPrefix
    <3> QED BY <3>2 DEF a, b
  <2>3. Fits(t, n0, RealBounds.r, RealBounds.b)
    BY <1>3, <2>1, <2>2, FitsLess
  <2>4. RealBounds.r \in Nat /\ RealBounds.b \in Nat /\ (n0 > 0 => RealBounds.r > 0)
    BY <1>3, <2>1
  <2>5. SoundBounds(t, n0, RealBounds)
    BY <2>1, <2>3, <2>4 DEF SoundBounds
  <2>6. LaidOut
    BY DEF LayoutIInv
  <2> QED BY <1>3, <1>8, <1>9, <2>5, <2>6 DEF Sound, LaidOut
<1>11. q \in Nat
  BY <1>3, LossGrows
<1>12. PICK h : Loop("DynamicGluing", 0, base, new, h) /\ lay = h[Len(new)]
  BY <1>2, <1>4, DynamicLoop
<1> HIDE DEF base, lay
<1>13. Sound(t, Len(t), q, lay)
  <2> DEFINE loop == "DynamicGluing"
  <2>1. Loop(loop, 0, base, new, h) /\ loop = "DynamicGluing"
    BY <1>12
  <2>2. n0 \in 0..Len(t) /\ Len(new) = Len(t) - n0 /\ \A i \in 1..Len(new) : new[i] = t[n0 + i]
    BY <1>2, <1>3, <1>4, <1>5
  <2> HIDE DEF loop, n0, q
  <2>3. Sound(t, Len(t), q, h[Len(new)])
    BY <1>5, <1>7, <1>10, <1>11, <2>1, <2>2, GluedAll
  <2> QED BY <1>12, <2>3
<1>14. q + Squeeze(Len(t)) <= Loss(Len(t)) /\ Len(t) > 0
  <2>1. n0 < Len(t) /\ Len(t) \in Nat
    BY <1>3, <1>4, <1>5
  <2> QED BY <1>3, <2>1, LossGrows
<1> QED BY <1>1, <1>5, <1>7, <1>11, <1>13, <1>14, ResizedLays

LEMMA RemoveAtKeeps ==
  ASSUME NEW s \in Seq(Gluing), Distinct(s), NEW i \in 1..Len(s), NEW t, t = RemoveAt(s, i)
  PROVE  /\ t \in Seq(Gluing) /\ Distinct(t)
         /\ WidgetsOf(t) = WidgetsOf(s) \ {s[i].widget}
         /\ \A j \in 1..Len(t) : \E k \in 1..Len(s) : t[j] = s[k]
<1> DEFINE p(j) == IF j < i THEN j ELSE j + 1
<1>1. /\ t \in Seq(Gluing) /\ Len(t) = Len(s) - 1 /\ Len(s) \in Nat
      /\ \A j \in 1..Len(t) : t[j] = s[p(j)]
  <2> DEFINE a == SubSeq(s, 1, i - 1)
             b == SubSeq(s, i + 1, Len(s))
  <2>1. i \in Nat /\ 1 <= i /\ i <= Len(s) /\ Len(s) \in Nat
    OBVIOUS
  <2>2. \A j \in 1..Len(s) : s[j] \in Gluing
    OBVIOUS
  <2>3. a \in Seq(Gluing) /\ Len(a) = i - 1 /\ \A j \in 1..(i - 1) : a[j] = s[j]
    BY <2>1, <2>2
  <2>4. b \in Seq(Gluing) /\ Len(b) = Len(s) - i /\ \A j \in 1..(Len(s) - i) : b[j] = s[j + i]
    BY <2>1, <2>2
  <2> HIDE DEF a, b
  <2>5. /\ a \o b \in Seq(Gluing) /\ Len(a \o b) = Len(a) + Len(b)
        /\ \A j \in 1..Len(a) : (a \o b)[j] = a[j]
        /\ \A j \in 1..Len(b) : (a \o b)[Len(a) + j] = b[j]
    BY <2>3, <2>4, Joined
  <2>6. t = a \o b
    BY DEF RemoveAt, a, b
  <2>7. Len(t) = Len(s) - 1
    <3>1. Len(t) = Len(a) + Len(b)
      BY <2>5, <2>6
    <3> QED BY <2>1, <2>3, <2>4, <3>1
  <2>8. ASSUME NEW j \in 1..Len(t) PROVE t[j] = s[p(j)]
    <3>1. CASE j < i
      <4>1. j \in 1..Len(a) /\ j \in 1..(i - 1)
        BY <2>1, <2>3, <3>1
      <4> QED BY <2>3, <2>5, <2>6, <3>1, <4>1
    <3>2. CASE ~(j < i)
      <4>1. /\ Len(a) + (j - Len(a)) = j /\ j - Len(a) \in 1..Len(b)
            /\ j - Len(a) \in 1..(Len(s) - i) /\ (j - Len(a)) + i = j + 1
        BY <2>1, <2>3, <2>4, <2>7, <3>2
      <4>2. t[j] = b[j - Len(a)]
        BY <2>5, <2>6, <4>1
      <4> HIDE DEF p
      <4>3. b[j - Len(a)] = s[(j - Len(a)) + i]
        BY <2>4, <4>1
      <4>4. p(j) = j + 1
        BY <3>2 DEF p
      <4> QED BY <4>1, <4>2, <4>3, <4>4
    <3> QED BY <3>1, <3>2
  <2> QED BY <2>1, <2>5, <2>6, <2>7, <2>8
<1>2. \A j \in 1..Len(t) : p(j) \in 1..Len(s) /\ p(j) # i
  BY <1>1
<1>3. \A j, k \in 1..Len(t) : p(j) = p(k) => j = k
  BY <1>1
<1>4. \A k \in 1..Len(s) : k # i => \E j \in 1..Len(t) : p(j) = k
  <2> SUFFICES ASSUME NEW k \in 1..Len(s), k # i PROVE \E j \in 1..Len(t) : p(j) = k
    OBVIOUS
  <2>1. CASE k < i
    <3>1. k \in 1..Len(t) /\ p(k) = k
      BY <1>1, <2>1
    <3> QED BY <3>1
  <2>2. CASE k > i
    <3>1. k - 1 \in 1..Len(t) /\ p(k - 1) = k
      BY <1>1, <2>2
    <3> QED BY <3>1
  <2> QED BY <2>1, <2>2
<1> HIDE DEF p
<1>5. Distinct(t)
  BY <1>1, <1>2, <1>3 DEF Distinct
<1>6. ASSUME NEW w PROVE w \in WidgetsOf(t) <=> w \in WidgetsOf(s) \ {s[i].widget}
  <2>1. ASSUME w \in WidgetsOf(t) PROVE w \in WidgetsOf(s) \ {s[i].widget}
    <3>1. PICK j \in 1..Len(t) : t[j].widget = w
      BY <2>1 DEF WidgetsOf
    <3>2. s[p(j)].widget = w /\ p(j) \in 1..Len(s) /\ p(j) # i
      BY <1>1, <1>2, <3>1
    <3> QED BY <3>2 DEF WidgetsOf, Distinct
  <2>2. ASSUME w \in WidgetsOf(s) \ {s[i].widget} PROVE w \in WidgetsOf(t)
    <3>1. PICK k \in 1..Len(s) : s[k].widget = w /\ k # i
      BY <2>2 DEF WidgetsOf
    <3>2. PICK j \in 1..Len(t) : p(j) = k
      BY <1>4, <3>1
    <3> QED BY <1>1, <3>1, <3>2 DEF WidgetsOf
  <2> QED BY <2>1, <2>2
<1>7. WidgetsOf(t) = WidgetsOf(s) \ {s[i].widget}
  BY <1>6
<1> QED BY <1>1, <1>2, <1>5, <1>7

LEMMA FrameResizedLays ==
  ASSUME Roomy, LayoutIInv, FrameResized
  PROVE  LayoutIInv'
<1> DEFINE real == Sized(bounds.w, bounds.h, 0, 0)
           n == Len(Contents)
           D == WidgetsOf(Contents)
           lay == StaticAll(Contents, real, frame, Contents)
<1>1. UNCHANGED <<Contents, bounds, least>>
  BY DEF FrameResized
<1>2. CASE UNCHANGED <<RealBounds, frame>>
  BY <1>1, <1>2 DEF LayoutIInv, GluedOnce, BoundsFit, LaidOut
<1>3. CASE RealBounds' = real /\ frame' = ExpandChilds(Contents, lay, real)
  <2>1. Contents \in Seq(Gluing) /\ Distinct(Contents) /\ DOMAIN frame = D
    BY DEF LayoutIInv, GluedOnce
  <2>2. n \in Nat /\ DOMAIN Contents = 1..n
    BY <2>1, SeqFacts
  <2>3. /\ bounds.w \in Int /\ bounds.h \in Int /\ least.w \in Nat /\ least.h \in Nat
        /\ least.w <= bounds.w /\ least.h <= bounds.h
        /\ Fits(Contents, n, least.w, least.h) /\ (n > 0 => least.w > 0)
    BY DEF LayoutIInv, BoundsFit
  <2> DEFINE R == bounds.w
             B == bounds.h
  <2>4. real = Rect(0, 0, R, B)
    <3>1. 0 + R = R /\ 0 + B = B
      BY <2>3
    <3> QED BY <3>1 DEF Sized
  <2>5. Fits(Contents, n, R, B)
    BY <2>2, <2>3, FitsLess
  <2>6. PICK h : /\ Loop("StaticGluing", [contents |-> Contents, real |-> real], frame, Contents, h)
                 /\ lay = h[n]
    BY <2>2, StaticLoop
  <2> HIDE DEF lay, real
  <2>7. /\ DOMAIN lay = D /\ Laid(lay, D, real)
        /\ \A w \in D : Height(lay[w]) = Pref[w].h
    <3> DEFINE s == Contents
    <3>1. /\ s \in Seq(Gluing) /\ Distinct(s) /\ R \in Int /\ B \in Int /\ Fits(s, Len(s), R, B)
          /\ DOMAIN frame = WidgetsOf(s)
          /\ Loop("StaticGluing", [contents |-> s, real |-> Rect(0, 0, R, B)], frame, s, h)
      BY <2>1, <2>3, <2>4, <2>5, <2>6
    <3>2. lay = h[Len(s)]
      BY <2>6
    <3> HIDE DEF R, B, s
    <3>3. /\ DOMAIN h[Len(s)] = WidgetsOf(s)
          /\ Laid(h[Len(s)], WidgetsOf(s), Rect(0, 0, R, B))
          /\ \A w \in WidgetsOf(s) : Height(h[Len(s)][w]) = Pref[w].h
      BY <3>1, StaticLaid
    <3> QED BY <2>4, <3>2, <3>3 DEF s
  <2>8. real.r = R /\ real.b = B /\ real.r \in Int /\ real.b \in Int
    BY <2>3, <2>4 DEF Rect
  <2>9. \A w \in D : Height(lay[w]) >= Pref[w].h - Lost(w, 0)
    <3>1. \A w \in D : w \in Widgets
      BY <2>1, SeqFacts
    <3>2. \A w \in D : Pref[w].h \in Nat
      BY <3>1, PreferredFields DEF PreferredIs
    <3>3. \A w : Lost(w, 0) = 0
      BY DEF Lost
    <3> QED BY <2>7, <3>2, <3>3
  <2>10. 0 + Squeeze(n) <= Loss(n)
    BY <2>2, LossGrows
  <2>11. /\ DOMAIN frame' = D /\ Laid(frame', D, real)
         /\ \A w \in D : Height(frame'[w]) >= Pref[w].h - Lost(w, Loss(n))
    <3>1. /\ DOMAIN ExpandChilds(Contents, lay, real) = WidgetsOf(Contents)
          /\ Laid(ExpandChilds(Contents, lay, real), WidgetsOf(Contents), real)
          /\ \A w \in WidgetsOf(Contents) :
               Height(ExpandChilds(Contents, lay, real)[w]) >= Pref[w].h - Lost(w, Loss(Len(Contents)))
      BY <2>1, <2>7, <2>8, <2>9, <2>10, Expands
    <3> QED BY <1>3, <3>1
  <2>12. GluedOnce'
    BY <1>1, <2>1, <2>11 DEF GluedOnce
  <2>13. BoundsFit'
    <3>1. /\ RealBounds' = real /\ Contents' = Contents /\ bounds' = bounds /\ least' = least
      BY <1>1, <1>3
    <3> QED BY <2>3, <2>4, <2>8, <3>1 DEF BoundsFit
  <2>14. LaidOut'
    BY <1>1, <1>3, <2>11 DEF LaidOut
  <2> QED BY <2>12, <2>13, <2>14 DEF LayoutIInv
<1>4. \/ UNCHANGED <<RealBounds, frame>>
      \/ RealBounds' = real /\ frame' = ExpandChilds(Contents, lay, real)
  BY DEF FrameResized, StaticAll
<1> QED BY <1>2, <1>3, <1>4

LEMMA LayoutInit == Init => LayoutIInv
<1> SUFFICES ASSUME Init PROVE LayoutIInv
  OBVIOUS
<1>1. /\ Contents = <<>> /\ frame = <<>> /\ RealBounds = Rect(0, 0, 0, 0)
      /\ bounds.w = 0 /\ bounds.h = 0 /\ least.w = 0 /\ least.h = 0
  BY DEF Init, empty
<1>2. Contents \in Seq(Gluing) /\ Len(Contents) = 0 /\ WidgetsOf(Contents) = {} /\ DOMAIN frame = {}
  BY <1>1 DEF WidgetsOf
<1>3. GluedOnce
  BY <1>2 DEF GluedOnce, Distinct
<1>4. Fits(Contents, 0, 0, 0)
  BY FitsNothing
<1>5. Rect(0, 0, 0, 0).r = 0 /\ Rect(0, 0, 0, 0).b = 0
  BY DEF Rect
<1>6. BoundsFit
  BY <1>1, <1>2, <1>4, <1>5 DEF BoundsFit
<1>7. LaidOut
  BY <1>2 DEF LaidOut, Laid
<1> QED BY <1>3, <1>6, <1>7 DEF LayoutIInv

LEMMA LayoutNext ==
  ASSUME Roomy, Stacked, LayoutIInv, [Next]_vars
  PROVE  LayoutIInv'
<1>a. Contents \in Seq(Gluing) /\ Distinct(Contents) /\ DOMAIN frame = WidgetsOf(Contents)
  BY DEF LayoutIInv, GluedOnce
<1>b. MayReGlue => \A i \in 1..Len(Contents) : Vertically(Contents[i])
  BY DEF MayReGlue, Stacked, Vertically
<1>1. ASSUME NEW align \in Aligns, NEW w \in Widgets, Glue(align, <<w>>) PROVE LayoutIInv'
  <2>1. /\ <<w>> \in Seq(Widgets) /\ Len(<<w>>) > 0
        /\ \A i, j \in 1..Len(<<w>>) : <<w>>[i] = <<w>>[j] => i = j
    OBVIOUS
  <2> QED BY <1>1, <2>1, GlueLays
<1>2. ASSUME NEW align \in Aligns, NEW w \in Widgets, NEW x \in Widgets, w # x, Glue(align, <<w, x>>)
      PROVE  LayoutIInv'
  <2>1. /\ <<w, x>> \in Seq(Widgets) /\ Len(<<w, x>>) > 0
        /\ \A i, j \in 1..Len(<<w, x>>) : <<w, x>>[i] = <<w, x>>[j] => i = j
    BY <1>2
  <2> QED BY <1>2, <2>1, GlueLays
<1>3. CASE ReGlue
  <2>1. ReGluing(Contents, frame) /\ Contents' = Contents /\ MayReGlue
    BY <1>3 DEF ReGlue
  <2> QED BY <1>a, <1>b, <2>1, RegluingLays
<1>4. ASSUME NEW w \in Widgets, UnGlue(w) PROVE LayoutIInv'
  <2>1. PICK i \in 1..Len(Contents) : Contents[i].widget = w /\ Contents' = RemoveAt(Contents, i)
    <3>1. DOMAIN Contents = 1..Len(Contents)
      BY <1>a
    <3> QED BY <1>4, <3>1 DEF UnGlue
  <2> DEFINE t == RemoveAt(Contents, i)
             fr == [x \in DOMAIN frame \ {w} |-> frame[x]]
  <2>2. /\ t \in Seq(Gluing) /\ Distinct(t) /\ WidgetsOf(t) = WidgetsOf(Contents) \ {w}
        /\ \A j \in 1..Len(t) : \E k \in 1..Len(Contents) : t[j] = Contents[k]
    <3> DEFINE s == Contents
    <3>1. s \in Seq(Gluing) /\ Distinct(s) /\ s[i].widget = w
      BY <1>a, <2>1
    <3> HIDE DEF s
    <3>2. t = RemoveAt(s, i) /\ i \in 1..Len(s)
      BY DEF s
    <3> HIDE DEF t
    <3> QED BY <3>1, <3>2, RemoveAtKeeps DEF s
  <2>3. MayReGlue /\ Contents' = t /\ ReGluing(t, fr)
    BY <1>4, <2>1 DEF UnGlue
  <2>4. DOMAIN fr = WidgetsOf(t)
    BY <1>a, <2>2
  <2> HIDE DEF t, fr
  <2>5. \A j \in 1..Len(t) : Vertically(t[j])
    BY <1>b, <2>2, <2>3
  <2> QED BY <2>2, <2>3, <2>4, <2>5, RegluingLays
<1>5. ASSUME NEW size \in UserSizes, UserResizes(size) PROVE LayoutIInv'
  <2>1. /\ bounds' = [w |-> least.w + size.w, h |-> least.h + size.h]
        /\ UNCHANGED <<Contents, frame, RealBounds, least>>
    BY <1>5 DEF UserResizes
  <2>2. size.w \in Nat /\ size.h \in Nat
    BY GluingAssumption
  <2>3. BoundsFit
    BY DEF LayoutIInv
  <2>4. /\ bounds'.w \in Int /\ bounds'.h \in Int /\ least.w <= bounds'.w /\ least.h <= bounds'.h
    BY <2>1, <2>2, <2>3 DEF BoundsFit
  <2>5. BoundsFit'
    BY <2>1, <2>3, <2>4 DEF BoundsFit
  <2>6. GluedOnce' /\ LaidOut'
    BY <2>1 DEF LayoutIInv, GluedOnce, LaidOut
  <2> QED BY <2>5, <2>6 DEF LayoutIInv
<1>6. CASE FrameResized
  BY <1>6, FrameResizedLays
<1>7. CASE UNCHANGED vars
  BY <1>7 DEF vars, LayoutIInv, GluedOnce, BoundsFit, LaidOut
<1> QED BY <1>1, <1>2, <1>3, <1>4, <1>5, <1>6, <1>7 DEF Next

(* No two widgets cover each other, none is turned inside out and none sticks out
   of the window, however scripts glue, unglue and reglue them and the user
   resizes the window, if those that are unglued and reglued are glued to the top
   and the bottom and those that expand in height are high enough for the pixels
   ExpandChilds takes of them at the edges they share. *)
THEOREM LayoutIsSound ==
  ASSUME Roomy, Stacked
  PROVE  Spec => []LayoutSound
<1>1. LayoutIInv => LayoutSound
  <2> SUFFICES ASSUME LayoutIInv PROVE LayoutSound
    OBVIOUS
  <2>1. /\ DOMAIN frame = WidgetsOf(Contents) /\ Laid(frame, WidgetsOf(Contents), RealBounds)
    BY DEF LayoutIInv, GluedOnce, LaidOut
  <2>2. ASSUME NEW w \in DOMAIN frame
        PROVE  /\ frame[w] \in Rects
               /\ Width(frame[w]) >= 0 /\ Height(frame[w]) >= 0
               /\ frame[w].l >= 0 /\ frame[w].r <= RealBounds.r
               /\ frame[w].t >= 0 /\ frame[w].b <= RealBounds.b
    <3>1. frame[w] \in Rects /\ Inside(frame[w], RealBounds)
      BY <2>1 DEF Laid
    <3> QED BY <3>1 DEF Inside, Rects, Width, Height
  <2>3. ASSUME NEW w \in DOMAIN frame, NEW x \in DOMAIN frame, w # x PROVE Apart(frame[w], frame[x])
    <3>1. Away(frame[w], frame[x]) /\ frame[w] \in Rects /\ frame[x] \in Rects
      BY <2>1, <2>3 DEF Laid
    <3> QED BY <3>1 DEF Away, Apart, Rects
  <2> QED BY <2>1, <2>2, <2>3 DEF LayoutSound, WidgetsOf
<1>2. LayoutIInv /\ [Next]_vars => LayoutIInv'
  BY LayoutNext
<1> QED BY <1>1, <1>2, LayoutInit, PTL DEF Spec
=============================================================================
