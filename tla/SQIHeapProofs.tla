---------------------------- MODULE SQIHeapProofs ----------------------------
(***************************************************************************)
(* Theorems of SQIHeap: types, the linked lists of the heaps, that a       *)
(* collection is complete, and that the module implements SQIObject.       *)
(*                                                                         *)
(* The invariant HInv joins the invariant of SQIObject, read through the   *)
(* refinement mapping, to what holds of the pointers (Lasting): the list   *)
(* of a heap is in some order c, of which top, bottom, next, previous and  *)
(* size are read off; the lists are ranked, so that Export ends; at most   *)
(* one activation of Suicidal runs on a list; what GC is about to look at  *)
(* is in its heap.  Every step is shown to keep Lasting and to be a step   *)
(* of SQIObject or to change nothing of it, and SQIObjectProofs then gives *)
(* its half of HInv.  Swept, which says what the second pass of GC has     *)
(* left behind it, is inductive on top of HInv.                            *)
(***************************************************************************)
EXTENDS SQIHeap, FiniteSetTheorems, SequenceTheorems, WellFoundedInduction, TLAPS

-----------------------------------------------------------------------------
(* The doubly linked list of a heap.                                       *)

LinksType == [heap : [Obj -> Heaps], next : [Obj -> Ptr], previous : [Obj -> Ptr],
              top : [Heaps -> Ptr], bottom : [Heaps -> Ptr], size : [Heaps -> Nat]]

\* What is at place i of a list of n objects.
Place(c, n, i) == IF i \in 1..n THEN c[i] ELSE NULL

\* The objects of S that are in heap h are linked in the order c.
Ordered(L, S, h, c) ==
  LET n == L.size[h]
  IN /\ c \in [1..n -> S]
     /\ \A i \in 1..n : L.heap[c[i]] = h
     /\ \A i, j \in 1..n : c[i] = c[j] => i = j
     /\ \A o \in S : L.heap[o] = h => \E i \in 1..n : c[i] = o
     /\ L.top[h] = Place(c, n, 1) /\ L.bottom[h] = Place(c, n, n)
     /\ \A i \in 1..n : L.previous[c[i]] = Place(c, n, i - 1) /\ L.next[c[i]] = Place(c, n, i + 1)

\* Every heap is, and what is in none of S points nowhere.
Sound(L, S) ==
  /\ L \in LinksType
  /\ \A h \in Heaps : \E c : Ordered(L, S, h, c)
  /\ \A o \in Obj \ S : L.next[o] = NULL /\ L.previous[o] = NULL

\* NULL is no object and no heap.
LEMMA NullIs == NULL \notin Obj /\ NULL \notin Heaps
BY PointerAssumption

\* Writing one link.
ToHeap(L, x, y) == [L EXCEPT !.heap[x] = y]
ToNext(L, x, y) == [L EXCEPT !.next[x] = y]
ToPrevious(L, x, y) == [L EXCEPT !.previous[x] = y]
ToTop(L, x, y) == [L EXCEPT !.top[x] = y]
ToBottom(L, x, y) == [L EXCEPT !.bottom[x] = y]
ToSize(L, x, y) == [L EXCEPT !.size[x] = y]

\* Writing the heap of an object changes that field and no other, and so on.
LEMMA WriteHeap ==
  ASSUME NEW L \in LinksType, NEW x \in Obj, NEW y \in Heaps
  PROVE  /\ ToHeap(L, x, y) \in LinksType
         /\ ToHeap(L, x, y).heap = [L.heap EXCEPT ![x] = y]
         /\ ToHeap(L, x, y).next = L.next
         /\ ToHeap(L, x, y).previous = L.previous
         /\ ToHeap(L, x, y).top = L.top
         /\ ToHeap(L, x, y).bottom = L.bottom
         /\ ToHeap(L, x, y).size = L.size
BY DEF LinksType, ToHeap

\* Writing the next of an object.
LEMMA WriteNext ==
  ASSUME NEW L \in LinksType, NEW x \in Obj, NEW y \in Ptr
  PROVE  /\ ToNext(L, x, y) \in LinksType
         /\ ToNext(L, x, y).next = [L.next EXCEPT ![x] = y]
         /\ ToNext(L, x, y).heap = L.heap
         /\ ToNext(L, x, y).previous = L.previous
         /\ ToNext(L, x, y).top = L.top
         /\ ToNext(L, x, y).bottom = L.bottom
         /\ ToNext(L, x, y).size = L.size
BY DEF LinksType, ToNext

\* Writing the previous of an object.
LEMMA WritePrevious ==
  ASSUME NEW L \in LinksType, NEW x \in Obj, NEW y \in Ptr
  PROVE  /\ ToPrevious(L, x, y) \in LinksType
         /\ ToPrevious(L, x, y).previous = [L.previous EXCEPT ![x] = y]
         /\ ToPrevious(L, x, y).heap = L.heap
         /\ ToPrevious(L, x, y).next = L.next
         /\ ToPrevious(L, x, y).top = L.top
         /\ ToPrevious(L, x, y).bottom = L.bottom
         /\ ToPrevious(L, x, y).size = L.size
BY DEF LinksType, ToPrevious

\* Writing the top of a heap.
LEMMA WriteTop ==
  ASSUME NEW L \in LinksType, NEW x \in Heaps, NEW y \in Ptr
  PROVE  /\ ToTop(L, x, y) \in LinksType
         /\ ToTop(L, x, y).top = [L.top EXCEPT ![x] = y]
         /\ ToTop(L, x, y).heap = L.heap
         /\ ToTop(L, x, y).next = L.next
         /\ ToTop(L, x, y).previous = L.previous
         /\ ToTop(L, x, y).bottom = L.bottom
         /\ ToTop(L, x, y).size = L.size
BY DEF LinksType, ToTop

\* Writing the bottom of a heap.
LEMMA WriteBottom ==
  ASSUME NEW L \in LinksType, NEW x \in Heaps, NEW y \in Ptr
  PROVE  /\ ToBottom(L, x, y) \in LinksType
         /\ ToBottom(L, x, y).bottom = [L.bottom EXCEPT ![x] = y]
         /\ ToBottom(L, x, y).heap = L.heap
         /\ ToBottom(L, x, y).next = L.next
         /\ ToBottom(L, x, y).previous = L.previous
         /\ ToBottom(L, x, y).top = L.top
         /\ ToBottom(L, x, y).size = L.size
BY DEF LinksType, ToBottom

\* Writing the size of a heap.
LEMMA WriteSize ==
  ASSUME NEW L \in LinksType, NEW x \in Heaps, NEW y \in Nat
  PROVE  /\ ToSize(L, x, y) \in LinksType
         /\ ToSize(L, x, y).size = [L.size EXCEPT ![x] = y]
         /\ ToSize(L, x, y).heap = L.heap
         /\ ToSize(L, x, y).next = L.next
         /\ ToSize(L, x, y).previous = L.previous
         /\ ToSize(L, x, y).top = L.top
         /\ ToSize(L, x, y).bottom = L.bottom
BY DEF LinksType, ToSize

\* F is L without o, which is at place p of the n objects of its heap h.
Freed(L, F, o, h, n, c, p) ==
  /\ F.heap = L.heap
  /\ F.size = [L.size EXCEPT ![h] = n - 1]
  /\ F.top = [L.top EXCEPT ![h] = IF p = 1 THEN Place(c, n, 2) ELSE @]
  /\ F.bottom = [L.bottom EXCEPT ![h] = IF p = n THEN Place(c, n, n - 1) ELSE @]
  /\ F.next = [x \in Obj |-> IF x = o THEN NULL
                             ELSE IF p > 1 /\ x = c[p - 1] THEN Place(c, n, p + 1)
                             ELSE L.next[x]]
  /\ F.previous = [x \in Obj |-> IF x = o THEN NULL
                                 ELSE IF p < n /\ x = c[p + 1] THEN Place(c, n, p - 1)
                                 ELSE L.previous[x]]

\* Free, given where the object is.
LEMMA FreeFields ==
  ASSUME NEW S \in SUBSET Obj, NEW L, Sound(L, S), NEW o \in S, NEW h, h = L.heap[o],
         NEW n, n = L.size[h], NEW c, Ordered(L, S, h, c), NEW p \in 1..n, c[p] = o,
         NEW F, F = Free(L, o)
  PROVE  F \in LinksType /\ Freed(L, F, o, h, n, c, p)
<1>1. /\ L \in LinksType /\ h \in Heaps /\ n \in Nat \ {0} /\ o \in Obj
      /\ L.top \in [Heaps -> Ptr] /\ L.bottom \in [Heaps -> Ptr] /\ L.size \in [Heaps -> Nat]
      /\ L.next \in [Obj -> Ptr] /\ L.previous \in [Obj -> Ptr] /\ L.heap \in [Obj -> Heaps]
  BY DEF Sound, LinksType
<1>2. /\ \A i \in 1..n : c[i] \in S /\ c[i] \in Obj /\ c[i] # NULL
      /\ \A i, j \in 1..n : c[i] = c[j] => i = j
      /\ L.top[h] = c[1] /\ L.bottom[h] = c[n]
      /\ L.previous[o] = Place(c, n, p - 1) /\ L.next[o] = Place(c, n, p + 1)
  <2>1. /\ c \in [1..n -> S] /\ \A i, j \in 1..n : c[i] = c[j] => i = j
        /\ L.top[h] = Place(c, n, 1) /\ L.bottom[h] = Place(c, n, n)
        /\ L.previous[c[p]] = Place(c, n, p - 1) /\ L.next[c[p]] = Place(c, n, p + 1)
    BY DEF Ordered
  <2>2. 1 \in 1..n /\ n \in 1..n
    BY <1>1
  <2> QED BY <2>1, <2>2, NullIs DEF Place
<1>3. CASE p = 1 /\ n = 1
  <2>a. L.size[h] = n /\ L.heap[o] = h /\ o = L.top[h] /\ L.top[h] = L.bottom[h]
    BY <1>1, <1>2, <1>3 DEF Place
  <2>b. n - 1 \in Nat /\ NULL \in Ptr /\ h \in Heaps /\ o \in Obj
    BY <1>1, <1>2, <1>3 DEF Ptr
  <2>1. L \in LinksType
    BY <1>1
  <2> DEFINE R1 == ToSize(L, h, n - 1)
  <2>2. /\ R1 \in LinksType /\ R1.size = [L.size EXCEPT ![h] = n - 1]
        /\ R1.heap = L.heap /\ R1.next = L.next /\ R1.previous = L.previous /\ R1.top = L.top /\ R1.bottom = L.bottom
    BY <2>b, <2>1, WriteSize
  <2> HIDE DEF R1
  <2> DEFINE R2 == ToTop(R1, h, NULL)
  <2>3. /\ R2 \in LinksType /\ R2.top = [R1.top EXCEPT ![h] = NULL]
        /\ R2.heap = R1.heap /\ R2.next = R1.next /\ R2.previous = R1.previous /\ R2.bottom = R1.bottom /\ R2.size = R1.size
    BY <2>b, <2>2, WriteTop
  <2> HIDE DEF R2
  <2> DEFINE R3 == ToBottom(R2, h, NULL)
  <2>4. /\ R3 \in LinksType /\ R3.bottom = [R2.bottom EXCEPT ![h] = NULL]
        /\ R3.heap = R2.heap /\ R3.next = R2.next /\ R3.previous = R2.previous /\ R3.top = R2.top /\ R3.size = R2.size
    BY <2>b, <2>3, WriteBottom
  <2> HIDE DEF R3
  <2> DEFINE R4 == ToPrevious(R3, o, NULL)
  <2>5. /\ R4 \in LinksType /\ R4.previous = [R3.previous EXCEPT ![o] = NULL]
        /\ R4.heap = R3.heap /\ R4.next = R3.next /\ R4.top = R3.top /\ R4.bottom = R3.bottom /\ R4.size = R3.size
    BY <2>b, <2>4, WritePrevious
  <2> HIDE DEF R4
  <2> DEFINE R5 == ToNext(R4, o, NULL)
  <2>6. /\ R5 \in LinksType /\ R5.next = [R4.next EXCEPT ![o] = NULL]
        /\ R5.heap = R4.heap /\ R5.previous = R4.previous /\ R5.top = R4.top /\ R5.bottom = R4.bottom /\ R5.size = R4.size
    BY <2>b, <2>5, WriteNext
  <2> HIDE DEF R5
  <2>7. F = R5
    BY <2>a DEF Free, ToSize, ToTop, ToBottom, ToPrevious, ToNext, R1, R2, R3, R4, R5
  <2>c. F.next = [x \in Obj |-> IF x = o THEN NULL
                               ELSE IF p > 1 /\ x = c[p - 1] THEN Place(c, n, p + 1) ELSE L.next[x]]
    BY <1>1, <1>2, <1>3, <2>1, <2>2, <2>3, <2>4, <2>5, <2>6, <2>7 DEF Place
  <2>d. F.previous = [x \in Obj |-> IF x = o THEN NULL
                                   ELSE IF p < n /\ x = c[p + 1] THEN Place(c, n, p - 1) ELSE L.previous[x]]
    BY <1>1, <1>2, <1>3, <2>1, <2>2, <2>3, <2>4, <2>5, <2>6, <2>7 DEF Place
  <2>e. /\ F.top = [L.top EXCEPT ![h] = IF p = 1 THEN Place(c, n, 2) ELSE @]
        /\ F.bottom = [L.bottom EXCEPT ![h] = IF p = n THEN Place(c, n, n - 1) ELSE @]
    BY <1>1, <1>2, <1>3, <2>1, <2>2, <2>3, <2>4, <2>5, <2>6, <2>7 DEF Place
  <2>f. F \in LinksType /\ F.heap = L.heap /\ F.size = [L.size EXCEPT ![h] = n - 1]
    BY <1>1, <1>2, <1>3, <2>1, <2>2, <2>3, <2>4, <2>5, <2>6, <2>7
  <2> QED BY <2>c, <2>d, <2>e, <2>f DEF Freed
<1>4. CASE p = 1 /\ n > 1
  <2>a. L.size[h] = n /\ L.heap[o] = h /\ o = L.top[h] /\ L.top[h] # L.bottom[h] /\ L.next[o] = c[2]
    BY <1>1, <1>2, <1>4 DEF Place
  <2>b. n - 1 \in Nat /\ NULL \in Ptr /\ h \in Heaps /\ o \in Obj /\ c[2] \in Obj /\ c[2] \in Ptr
    BY <1>1, <1>2, <1>4 DEF Ptr
  <2>1. L \in LinksType
    BY <1>1
  <2> DEFINE R1 == ToSize(L, h, n - 1)
  <2>2. /\ R1 \in LinksType /\ R1.size = [L.size EXCEPT ![h] = n - 1]
        /\ R1.heap = L.heap /\ R1.next = L.next /\ R1.previous = L.previous /\ R1.top = L.top /\ R1.bottom = L.bottom
    BY <2>b, <2>1, WriteSize
  <2> HIDE DEF R1
  <2> DEFINE R2 == ToTop(R1, h, c[2])
  <2>3. /\ R2 \in LinksType /\ R2.top = [R1.top EXCEPT ![h] = c[2]]
        /\ R2.heap = R1.heap /\ R2.next = R1.next /\ R2.previous = R1.previous /\ R2.bottom = R1.bottom /\ R2.size = R1.size
    BY <2>b, <2>2, WriteTop
  <2> HIDE DEF R2
  <2> DEFINE R3 == ToPrevious(R2, c[2], NULL)
  <2>4. /\ R3 \in LinksType /\ R3.previous = [R2.previous EXCEPT ![c[2]] = NULL]
        /\ R3.heap = R2.heap /\ R3.next = R2.next /\ R3.top = R2.top /\ R3.bottom = R2.bottom /\ R3.size = R2.size
    BY <2>b, <2>3, WritePrevious
  <2> HIDE DEF R3
  <2> DEFINE R4 == ToPrevious(R3, o, NULL)
  <2>5. /\ R4 \in LinksType /\ R4.previous = [R3.previous EXCEPT ![o] = NULL]
        /\ R4.heap = R3.heap /\ R4.next = R3.next /\ R4.top = R3.top /\ R4.bottom = R3.bottom /\ R4.size = R3.size
    BY <2>b, <2>4, WritePrevious
  <2> HIDE DEF R4
  <2> DEFINE R5 == ToNext(R4, o, NULL)
  <2>6. /\ R5 \in LinksType /\ R5.next = [R4.next EXCEPT ![o] = NULL]
        /\ R5.heap = R4.heap /\ R5.previous = R4.previous /\ R5.top = R4.top /\ R5.bottom = R4.bottom /\ R5.size = R4.size
    BY <2>b, <2>5, WriteNext
  <2> HIDE DEF R5
  <2>7. F = R5
    BY <2>a DEF Free, ToSize, ToTop, ToPrevious, ToNext, R1, R2, R3, R4, R5
  <2>c. F.next = [x \in Obj |-> IF x = o THEN NULL
                               ELSE IF p > 1 /\ x = c[p - 1] THEN Place(c, n, p + 1) ELSE L.next[x]]
    BY <1>1, <1>2, <1>4, <2>1, <2>2, <2>3, <2>4, <2>5, <2>6, <2>7 DEF Place
  <2>d. F.previous = [x \in Obj |-> IF x = o THEN NULL
                                   ELSE IF p < n /\ x = c[p + 1] THEN Place(c, n, p - 1) ELSE L.previous[x]]
    BY <1>1, <1>2, <1>4, <2>1, <2>2, <2>3, <2>4, <2>5, <2>6, <2>7 DEF Place
  <2>e. /\ F.top = [L.top EXCEPT ![h] = IF p = 1 THEN Place(c, n, 2) ELSE @]
        /\ F.bottom = [L.bottom EXCEPT ![h] = IF p = n THEN Place(c, n, n - 1) ELSE @]
    BY <1>1, <1>2, <1>4, <2>1, <2>2, <2>3, <2>4, <2>5, <2>6, <2>7 DEF Place
  <2>f. F \in LinksType /\ F.heap = L.heap /\ F.size = [L.size EXCEPT ![h] = n - 1]
    BY <1>1, <1>2, <1>4, <2>1, <2>2, <2>3, <2>4, <2>5, <2>6, <2>7
  <2> QED BY <2>c, <2>d, <2>e, <2>f DEF Freed
<1>5. CASE p > 1 /\ p = n
  <2>a. L.size[h] = n /\ L.heap[o] = h /\ o # L.top[h] /\ o = L.bottom[h] /\ L.previous[o] = c[n - 1]
    BY <1>1, <1>2, <1>5 DEF Place
  <2>b. n - 1 \in Nat /\ NULL \in Ptr /\ h \in Heaps /\ o \in Obj /\ c[n - 1] \in Obj /\ c[n - 1] \in Ptr
    BY <1>1, <1>2, <1>5 DEF Ptr
  <2>1. L \in LinksType
    BY <1>1
  <2> DEFINE R1 == ToSize(L, h, n - 1)
  <2>2. /\ R1 \in LinksType /\ R1.size = [L.size EXCEPT ![h] = n - 1]
        /\ R1.heap = L.heap /\ R1.next = L.next /\ R1.previous = L.previous /\ R1.top = L.top /\ R1.bottom = L.bottom
    BY <2>b, <2>1, WriteSize
  <2> HIDE DEF R1
  <2> DEFINE R2 == ToBottom(R1, h, c[n - 1])
  <2>3. /\ R2 \in LinksType /\ R2.bottom = [R1.bottom EXCEPT ![h] = c[n - 1]]
        /\ R2.heap = R1.heap /\ R2.next = R1.next /\ R2.previous = R1.previous /\ R2.top = R1.top /\ R2.size = R1.size
    BY <2>b, <2>2, WriteBottom
  <2> HIDE DEF R2
  <2> DEFINE R3 == ToNext(R2, c[n - 1], NULL)
  <2>4. /\ R3 \in LinksType /\ R3.next = [R2.next EXCEPT ![c[n - 1]] = NULL]
        /\ R3.heap = R2.heap /\ R3.previous = R2.previous /\ R3.top = R2.top /\ R3.bottom = R2.bottom /\ R3.size = R2.size
    BY <2>b, <2>3, WriteNext
  <2> HIDE DEF R3
  <2> DEFINE R4 == ToPrevious(R3, o, NULL)
  <2>5. /\ R4 \in LinksType /\ R4.previous = [R3.previous EXCEPT ![o] = NULL]
        /\ R4.heap = R3.heap /\ R4.next = R3.next /\ R4.top = R3.top /\ R4.bottom = R3.bottom /\ R4.size = R3.size
    BY <2>b, <2>4, WritePrevious
  <2> HIDE DEF R4
  <2> DEFINE R5 == ToNext(R4, o, NULL)
  <2>6. /\ R5 \in LinksType /\ R5.next = [R4.next EXCEPT ![o] = NULL]
        /\ R5.heap = R4.heap /\ R5.previous = R4.previous /\ R5.top = R4.top /\ R5.bottom = R4.bottom /\ R5.size = R4.size
    BY <2>b, <2>5, WriteNext
  <2> HIDE DEF R5
  <2>7. F = R5
    BY <2>a DEF Free, ToSize, ToBottom, ToNext, ToPrevious, R1, R2, R3, R4, R5
  <2>g. Place(c, n, p + 1) = NULL /\ c[p - 1] = c[n - 1] /\ ~(p < n) /\ c[n - 1] # o
    BY <1>1, <1>2, <1>5 DEF Place
  <2>h. F.next = [[L.next EXCEPT ![c[n - 1]] = NULL] EXCEPT ![o] = NULL]
    BY <2>2, <2>3, <2>4, <2>5, <2>6, <2>7
  <2>i. F.previous = [L.previous EXCEPT ![o] = NULL]
    BY <2>2, <2>3, <2>4, <2>5, <2>6, <2>7
  <2>c. F.next = [x \in Obj |-> IF x = o THEN NULL
                               ELSE IF p > 1 /\ x = c[p - 1] THEN Place(c, n, p + 1) ELSE L.next[x]]
    BY <1>1, <1>5, <2>b, <2>g, <2>h
  <2>d. F.previous = [x \in Obj |-> IF x = o THEN NULL
                                   ELSE IF p < n /\ x = c[p + 1] THEN Place(c, n, p - 1) ELSE L.previous[x]]
    BY <1>1, <2>g, <2>i
  <2>e. /\ F.top = [L.top EXCEPT ![h] = IF p = 1 THEN Place(c, n, 2) ELSE @]
        /\ F.bottom = [L.bottom EXCEPT ![h] = IF p = n THEN Place(c, n, n - 1) ELSE @]
    BY <1>1, <1>2, <1>5, <2>1, <2>2, <2>3, <2>4, <2>5, <2>6, <2>7 DEF Place
  <2>f. F \in LinksType /\ F.heap = L.heap /\ F.size = [L.size EXCEPT ![h] = n - 1]
    BY <1>1, <1>2, <1>5, <2>1, <2>2, <2>3, <2>4, <2>5, <2>6, <2>7
  <2> QED BY <2>c, <2>d, <2>e, <2>f DEF Freed
<1>6. CASE p > 1 /\ p < n
  <2>a. L.size[h] = n /\ L.heap[o] = h /\ o # L.top[h] /\ o # L.bottom[h]
        /\ L.previous[o] = c[p - 1] /\ L.next[o] = c[p + 1]
    BY <1>1, <1>2, <1>6 DEF Place
  <2>b. n - 1 \in Nat /\ NULL \in Ptr /\ h \in Heaps /\ o \in Obj
        /\ c[p - 1] \in Obj /\ c[p + 1] \in Obj /\ c[p - 1] \in Ptr /\ c[p + 1] \in Ptr
    BY <1>1, <1>2, <1>6 DEF Ptr
  <2>1. L \in LinksType
    BY <1>1
  <2> DEFINE R1 == ToSize(L, h, n - 1)
  <2>2. /\ R1 \in LinksType /\ R1.size = [L.size EXCEPT ![h] = n - 1]
        /\ R1.heap = L.heap /\ R1.next = L.next /\ R1.previous = L.previous /\ R1.top = L.top /\ R1.bottom = L.bottom
    BY <2>b, <2>1, WriteSize
  <2> HIDE DEF R1
  <2> DEFINE R2 == ToNext(R1, c[p - 1], c[p + 1])
  <2>3. /\ R2 \in LinksType /\ R2.next = [R1.next EXCEPT ![c[p - 1]] = c[p + 1]]
        /\ R2.heap = R1.heap /\ R2.previous = R1.previous /\ R2.top = R1.top /\ R2.bottom = R1.bottom /\ R2.size = R1.size
    BY <2>b, <2>2, WriteNext
  <2> HIDE DEF R2
  <2> DEFINE R3 == ToPrevious(R2, c[p + 1], c[p - 1])
  <2>4. /\ R3 \in LinksType /\ R3.previous = [R2.previous EXCEPT ![c[p + 1]] = c[p - 1]]
        /\ R3.heap = R2.heap /\ R3.next = R2.next /\ R3.top = R2.top /\ R3.bottom = R2.bottom /\ R3.size = R2.size
    BY <2>b, <2>3, WritePrevious
  <2> HIDE DEF R3
  <2> DEFINE R4 == ToPrevious(R3, o, NULL)
  <2>5. /\ R4 \in LinksType /\ R4.previous = [R3.previous EXCEPT ![o] = NULL]
        /\ R4.heap = R3.heap /\ R4.next = R3.next /\ R4.top = R3.top /\ R4.bottom = R3.bottom /\ R4.size = R3.size
    BY <2>b, <2>4, WritePrevious
  <2> HIDE DEF R4
  <2> DEFINE R5 == ToNext(R4, o, NULL)
  <2>6. /\ R5 \in LinksType /\ R5.next = [R4.next EXCEPT ![o] = NULL]
        /\ R5.heap = R4.heap /\ R5.previous = R4.previous /\ R5.top = R4.top /\ R5.bottom = R4.bottom /\ R5.size = R4.size
    BY <2>b, <2>5, WriteNext
  <2> HIDE DEF R5
  <2>7. F = R5
    BY <2>a DEF Free, ToSize, ToNext, ToPrevious, R1, R2, R3, R4, R5
  <2>c. F.next = [x \in Obj |-> IF x = o THEN NULL
                               ELSE IF p > 1 /\ x = c[p - 1] THEN Place(c, n, p + 1) ELSE L.next[x]]
    BY <1>1, <1>2, <1>6, <2>1, <2>2, <2>3, <2>4, <2>5, <2>6, <2>7 DEF Place
  <2>d. F.previous = [x \in Obj |-> IF x = o THEN NULL
                                   ELSE IF p < n /\ x = c[p + 1] THEN Place(c, n, p - 1) ELSE L.previous[x]]
    BY <1>1, <1>2, <1>6, <2>1, <2>2, <2>3, <2>4, <2>5, <2>6, <2>7 DEF Place
  <2>e. /\ F.top = [L.top EXCEPT ![h] = IF p = 1 THEN Place(c, n, 2) ELSE @]
        /\ F.bottom = [L.bottom EXCEPT ![h] = IF p = n THEN Place(c, n, n - 1) ELSE @]
    BY <1>1, <1>2, <1>6, <2>1, <2>2, <2>3, <2>4, <2>5, <2>6, <2>7 DEF Place
  <2>f. F \in LinksType /\ F.heap = L.heap /\ F.size = [L.size EXCEPT ![h] = n - 1]
    BY <1>1, <1>2, <1>6, <2>1, <2>2, <2>3, <2>4, <2>5, <2>6, <2>7
  <2> QED BY <2>c, <2>d, <2>e, <2>f DEF Freed
<1> QED BY <1>1, <1>3, <1>4, <1>5, <1>6 DEF Freed

\* The order without the object at place p, and with one more at the end.
Without(c, n, p) == [i \in 1..(n - 1) |-> IF i < p THEN c[i] ELSE c[i + 1]]
With(c, n, o) == [i \in 1..(n + 1) |-> IF i = n + 1 THEN o ELSE c[i]]

\* Free takes its object out of the order of its heap, and leaves the others alone.
LEMMA FreeOrdered ==
  ASSUME NEW S \in SUBSET Obj, NEW L, Sound(L, S), NEW o \in S, NEW h, h = L.heap[o],
         NEW n, n = L.size[h], NEW c, Ordered(L, S, h, c), NEW p \in 1..n, c[p] = o,
         NEW F, F = Free(L, o)
  PROVE  /\ Ordered(F, S \ {o}, h, Without(c, n, p))
         /\ \A g \in Heaps \ {h} : \A d : Ordered(L, S, g, d) => Ordered(F, S \ {o}, g, d)
<1>1. /\ F.heap = L.heap
      /\ F.size = [L.size EXCEPT ![h] = n - 1]
      /\ F.top = [L.top EXCEPT ![h] = IF p = 1 THEN Place(c, n, 2) ELSE @]
      /\ F.bottom = [L.bottom EXCEPT ![h] = IF p = n THEN Place(c, n, n - 1) ELSE @]
      /\ F.next = [x \in Obj |-> IF x = o THEN NULL
                                 ELSE IF p > 1 /\ x = c[p - 1] THEN Place(c, n, p + 1)
                                 ELSE L.next[x]]
      /\ F.previous = [x \in Obj |-> IF x = o THEN NULL
                                     ELSE IF p < n /\ x = c[p + 1] THEN Place(c, n, p - 1)
                                     ELSE L.previous[x]]
  <2>1. Freed(L, F, o, h, n, c, p)
    BY FreeFields
  <2> QED BY <2>1 DEF Freed
<1>2. /\ h \in Heaps /\ n \in Nat /\ n > 0 /\ n - 1 \in Nat
      /\ L.top \in [Heaps -> Ptr] /\ L.bottom \in [Heaps -> Ptr] /\ L.size \in [Heaps -> Nat]
  BY DEF Sound, LinksType
<1>3. /\ c \in [1..n -> S]
      /\ \A i \in 1..n : L.heap[c[i]] = h
      /\ \A i, j \in 1..n : c[i] = c[j] => i = j
      /\ \A x \in S : L.heap[x] = h => \E i \in 1..n : c[i] = x
      /\ L.top[h] = Place(c, n, 1) /\ L.bottom[h] = Place(c, n, n)
      /\ \A i \in 1..n : L.previous[c[i]] = Place(c, n, i - 1) /\ L.next[c[i]] = Place(c, n, i + 1)
  BY DEF Ordered
<1> DEFINE m == n - 1
           d == Without(c, n, p)
<1>4. F.size[h] = m
  BY <1>1, <1>2
<1>5. Ordered(F, S \ {o}, h, d)
  <2>1. \A i \in 1..m : /\ i \in 1..n /\ i + 1 \in 1..n
                        /\ d[i] = IF i < p THEN c[i] ELSE c[i + 1]
    BY <1>2 DEF Without
  <2>2. d \in [1..m -> S \ {o}]
    <3>1. \A i \in 1..m : d[i] \in S \ {o}
      BY <1>3, <2>1
    <3> QED BY <3>1 DEF Without
  <2>a. \A i \in 1..m : \E j \in 1..n : d[i] = c[j] /\ j # p
    BY <1>2, <2>1
  <2>3. \A i \in 1..m : F.heap[d[i]] = h
    <3> HIDE DEF d, m
    <3> QED BY <1>1, <1>3, <2>a
  <2>4. \A i, j \in 1..m : d[i] = d[j] => i = j
    BY <1>3, <2>1
  <2>5. ASSUME NEW x \in S \ {o}, F.heap[x] = h PROVE \E i \in 1..m : d[i] = x
    <3>1. PICK k \in 1..n : c[k] = x
      BY <1>1, <1>3, <2>5
    <3>2. k # p
      BY <3>1
    <3>3. CASE k < p
      <4>1. k \in 1..m
        BY <1>2, <3>3
      <4> QED BY <2>1, <3>1, <3>3, <4>1
    <3>4. CASE k > p
      <4>1. k - 1 \in 1..m /\ ~(k - 1 < p) /\ k - 1 + 1 = k
        BY <1>2, <3>4
      <4> QED BY <2>1, <3>1, <4>1
    <3> QED BY <3>2, <3>3, <3>4
  <2>6. F.top[h] = Place(d, m, 1)
    <3>1. F.top[h] = IF p = 1 THEN Place(c, n, 2) ELSE Place(c, n, 1)
      BY <1>1, <1>2, <1>3
    <3>2. CASE m = 0
      BY <1>2, <3>1, <3>2 DEF Place
    <3>3. CASE m # 0
      <4>1. 1 \in 1..m /\ 1 \in 1..n /\ 2 \in 1..n
        BY <1>2, <3>3
      <4>2. d[1] = IF 1 < p THEN c[1] ELSE c[2]
        BY <2>1, <4>1
      <4> QED BY <3>1, <4>1, <4>2 DEF Place
    <3> QED BY <3>2, <3>3
  <2>7. F.bottom[h] = Place(d, m, m)
    <3>1. F.bottom[h] = IF p = n THEN Place(c, n, n - 1) ELSE Place(c, n, n)
      BY <1>1, <1>2, <1>3
    <3>2. CASE m = 0
      BY <1>2, <3>1, <3>2 DEF Place
    <3>3. CASE m # 0
      <4>1. m \in 1..m /\ m \in 1..n /\ n \in 1..n /\ (m < p <=> p = n) /\ m + 1 = n
        BY <1>2, <3>3
      <4>2. d[m] = IF m < p THEN c[m] ELSE c[n]
        BY <2>1, <4>1
      <4> QED BY <3>1, <4>1, <4>2 DEF Place
    <3> QED BY <3>2, <3>3
  <2>8. ASSUME NEW i \in 1..m PROVE F.previous[d[i]] = Place(d, m, i - 1)
    <3>1. d[i] \in Obj /\ d[i] # o
      BY <2>2
    <3>2. F.previous[d[i]] = IF p < n /\ d[i] = c[p + 1] THEN Place(c, n, p - 1) ELSE L.previous[d[i]]
      BY <1>1, <3>1
    <3>3. CASE i < p
      <4>1. d[i] = c[i] /\ i \in 1..n /\ i - 1 < p /\ i # p + 1
        BY <2>1, <3>3
      <4>2. ~(p < n /\ d[i] = c[p + 1])
        BY <1>2, <1>3, <4>1
      <4>3. F.previous[d[i]] = Place(c, n, i - 1)
        BY <1>3, <3>2, <4>1, <4>2
      <4>4. i - 1 \in 1..m <=> i - 1 \in 1..n
        BY <1>2
      <4> QED BY <2>1, <4>1, <4>3, <4>4 DEF Place
    <3>4. CASE i = p
      <4>1. d[i] = c[p + 1] /\ p < n /\ p - 1 < p
        BY <1>2, <2>1, <3>4
      <4>2. F.previous[d[i]] = Place(c, n, p - 1)
        BY <3>2, <4>1
      <4>4. p - 1 \in 1..m <=> p - 1 \in 1..n
        BY <1>2
      <4> QED BY <2>1, <3>4, <4>1, <4>2, <4>4 DEF Place
    <3>5. CASE i > p
      <4>1. d[i] = c[i + 1] /\ i + 1 \in 1..n /\ i \in 1..n /\ i - 1 \in 1..m /\ ~(i - 1 < p) /\ i - 1 + 1 = i
        BY <1>2, <2>1, <3>5
      <4>2. ~(p < n /\ d[i] = c[p + 1])
        BY <1>2, <1>3, <3>5, <4>1
      <4>3. F.previous[d[i]] = Place(c, n, i)
        BY <1>3, <3>2, <4>1, <4>2
      <4>4. d[i - 1] = c[i]
        BY <2>1, <4>1
      <4> QED BY <4>1, <4>3, <4>4 DEF Place
    <3> QED BY <3>3, <3>4, <3>5
  <2>9. ASSUME NEW i \in 1..m PROVE F.next[d[i]] = Place(d, m, i + 1)
    <3>1. d[i] \in Obj /\ d[i] # o
      BY <2>2
    <3>2. F.next[d[i]] = IF p > 1 /\ d[i] = c[p - 1] THEN Place(c, n, p + 1) ELSE L.next[d[i]]
      BY <1>1, <3>1
    <3>3. CASE i = p - 1
      <4>1. d[i] = c[p - 1] /\ p > 1 /\ i + 1 = p /\ ~(i + 1 < p)
        BY <2>1, <3>3
      <4>2. F.next[d[i]] = Place(c, n, p + 1)
        BY <3>2, <4>1
      <4>4. i + 1 \in 1..m <=> p + 1 \in 1..n
        BY <1>2, <3>3
      <4>5. i + 1 \in 1..m => d[i + 1] = c[p + 1]
        BY <2>1, <4>1
      <4> QED BY <4>2, <4>4, <4>5 DEF Place
    <3>4. CASE i < p - 1
      <4>1. d[i] = c[i] /\ i \in 1..n /\ i + 1 < p /\ i + 1 \in 1..m /\ i + 1 \in 1..n
        BY <1>2, <2>1, <3>4
      <4>2. ~(p > 1 /\ d[i] = c[p - 1])
        BY <1>2, <1>3, <3>4, <4>1
      <4>3. F.next[d[i]] = Place(c, n, i + 1)
        BY <1>3, <3>2, <4>1, <4>2
      <4> QED BY <2>1, <4>1, <4>3 DEF Place
    <3>5. CASE i > p - 1
      <4>1. d[i] = c[i + 1] /\ i + 1 \in 1..n /\ ~(i + 1 < p) /\ i + 1 # p - 1
        BY <2>1, <3>5
      <4>2. ~(p > 1 /\ d[i] = c[p - 1])
        BY <1>2, <1>3, <4>1
      <4>3. F.next[d[i]] = Place(c, n, i + 1 + 1)
        BY <1>3, <3>2, <4>1, <4>2
      <4>4. i + 1 \in 1..m <=> i + 1 + 1 \in 1..n
        BY <1>2
      <4>5. i + 1 \in 1..m => d[i + 1] = c[i + 1 + 1]
        BY <2>1, <4>1
      <4> QED BY <4>3, <4>4, <4>5 DEF Place
    <3> QED BY <3>3, <3>4, <3>5
  <2> HIDE DEF d, m
  <2> QED BY <1>4, <2>2, <2>3, <2>4, <2>5, <2>6, <2>7, <2>8, <2>9 DEF Ordered
<1>6. ASSUME NEW g \in Heaps \ {h}, NEW e, Ordered(L, S, g, e) PROVE Ordered(F, S \ {o}, g, e)
  <2>1. /\ F.size[g] = L.size[g] /\ F.top[g] = L.top[g] /\ F.bottom[g] = L.bottom[g]
        /\ L.size[g] \in Nat
    BY <1>1, <1>2, <1>6
  <2> DEFINE k == L.size[g]
  <2>2. /\ e \in [1..k -> S]
        /\ \A i \in 1..k : L.heap[e[i]] = g
        /\ \A i, j \in 1..k : e[i] = e[j] => i = j
        /\ \A x \in S : L.heap[x] = g => \E i \in 1..k : e[i] = x
        /\ L.top[g] = Place(e, k, 1) /\ L.bottom[g] = Place(e, k, k)
        /\ \A i \in 1..k : L.previous[e[i]] = Place(e, k, i - 1) /\ L.next[e[i]] = Place(e, k, i + 1)
    BY <1>6 DEF Ordered
  <2>3. \A i \in 1..k : /\ e[i] \in Obj /\ e[i] # o
                        /\ (p > 1 => e[i] # c[p - 1]) /\ (p < n => e[i] # c[p + 1])
    <3>1. (p > 1 => p - 1 \in 1..n) /\ (p < n => p + 1 \in 1..n)
      BY <1>2
    <3>2. \A i \in 1..k, j \in 1..n : e[i] # c[j]
      <4>1. \A i \in 1..k : L.heap[e[i]] = g
        BY <2>2
      <4>2. \A j \in 1..n : L.heap[c[j]] = h
        BY <1>3
      <4> HIDE DEF k
      <4> QED BY <4>1, <4>2
    <3>3. \A i \in 1..k : e[i] \in Obj
      BY <2>2
    <3> QED BY <3>1, <3>2, <3>3
  <2>4. \A i \in 1..k : F.previous[e[i]] = L.previous[e[i]] /\ F.next[e[i]] = L.next[e[i]]
    BY <1>1, <2>3
  <2>5. e \in [1..k -> S \ {o}]
    BY <2>2, <2>3
  <2>6. F.heap = L.heap
    BY <1>1
  <2> HIDE DEF k
  <2>7. F.size[g] = k
    BY <2>1 DEF k
  <2>8. \A x \in S \ {o} : F.heap[x] = g => \E i \in 1..k : e[i] = x
    BY <2>2, <2>6
  <2> QED BY <2>1, <2>2, <2>4, <2>5, <2>6, <2>7, <2>8 DEF Ordered
<1> QED BY <1>5, <1>6

\* The list of a heap stays one, whichever object leaves.
LEMMA FreeSound ==
  ASSUME NEW S \in SUBSET Obj, NEW L, Sound(L, S), NEW o \in S
  PROVE  /\ Sound(Free(L, o), S \ {o})
         /\ Free(L, o).heap = L.heap
<1> DEFINE F == Free(L, o)
           h == L.heap[o]
           n == L.size[h]
<1>1. h \in Heaps /\ n \in Nat
  BY DEF Sound, LinksType
<1>2. PICK c : Ordered(L, S, h, c)
  BY <1>1 DEF Sound
<1>3. PICK p \in 1..n : c[p] = o
  BY <1>2 DEF Ordered
<1>4. F \in LinksType /\ Freed(L, F, o, h, n, c, p)
  BY <1>2, <1>3, FreeFields
<1>5. /\ Ordered(F, S \ {o}, h, Without(c, n, p))
      /\ \A g \in Heaps \ {h} : \A d : Ordered(L, S, g, d) => Ordered(F, S \ {o}, g, d)
  BY <1>2, <1>3, FreeOrdered
<1> HIDE DEF F
<1>6. \A g \in Heaps : \E d : Ordered(F, S \ {o}, g, d)
  BY <1>5 DEF Sound
<1>7. ASSUME NEW x \in Obj \ (S \ {o}) PROVE F.next[x] = NULL /\ F.previous[x] = NULL
  <2>1. x # o => L.next[x] = NULL /\ L.previous[x] = NULL /\ x \notin S
    BY DEF Sound
  <2>2. (p > 1 => c[p - 1] \in S) /\ (p < n => c[p + 1] \in S)
    BY <1>1, <1>2, <1>3 DEF Ordered
  <2> QED BY <1>4, <2>1, <2>2 DEF Freed
<1> QED BY <1>4, <1>6, <1>7 DEF Sound, Freed, F

\* A is L with o at the end of heap h.
Added(L, A, o, h, n, c) ==
  /\ A.heap = [L.heap EXCEPT ![o] = h]
  /\ A.size = [L.size EXCEPT ![h] = n + 1]
  /\ A.top = [L.top EXCEPT ![h] = IF n = 0 THEN o ELSE @]
  /\ A.bottom = [L.bottom EXCEPT ![h] = o]
  /\ A.next = [x \in Obj |-> IF n > 0 /\ x = c[n] THEN o ELSE L.next[x]]
  /\ A.previous = [L.previous EXCEPT ![o] = Place(c, n, n)]

\* AddObject, given the order of the heap.
LEMMA AddFields ==
  ASSUME NEW S \in SUBSET Obj, NEW L, Sound(L, S), NEW o \in Obj \ S, NEW h \in Heaps,
         NEW n, n = L.size[h], NEW c, Ordered(L, S, h, c), NEW A, A = AddObject(L, o, h)
  PROVE  A \in LinksType /\ Added(L, A, o, h, n, c)
<1>1. /\ L \in LinksType /\ h \in Heaps /\ n \in Nat /\ o \in Obj /\ o \in Ptr /\ n + 1 \in Nat
      /\ L.top \in [Heaps -> Ptr] /\ L.bottom \in [Heaps -> Ptr] /\ L.size \in [Heaps -> Nat]
      /\ L.next \in [Obj -> Ptr] /\ L.previous \in [Obj -> Ptr] /\ L.heap \in [Obj -> Heaps]
      /\ L.previous[o] = NULL
  BY DEF Sound, LinksType, Ptr
<1>2. /\ \A i \in 1..n : c[i] \in S /\ c[i] \in Obj /\ c[i] # NULL
      /\ L.bottom[h] = Place(c, n, n)
  BY NullIs DEF Ordered
<1>3. CASE n = 0
  <2>a. L.size[h] = n /\ L.bottom[h] = NULL /\ L.previous[o] = NULL /\ Place(c, n, n) = NULL
    BY <1>1, <1>2, <1>3 DEF Place
  <2>b. n + 1 \in Nat /\ h \in Heaps /\ o \in Obj /\ o \in Ptr
    BY <1>1, <1>2, <1>3 DEF Ptr
  <2>1. L \in LinksType
    BY <1>1
  <2> DEFINE R1 == ToHeap(L, o, h)
  <2>2. /\ R1 \in LinksType /\ R1.heap = [L.heap EXCEPT ![o] = h]
        /\ R1.size = L.size /\ R1.top = L.top /\ R1.bottom = L.bottom /\ R1.next = L.next /\ R1.previous = L.previous
    BY <2>b, <2>1, WriteHeap
  <2> HIDE DEF R1
  <2> DEFINE R2 == ToSize(R1, h, n + 1)
  <2>3. /\ R2 \in LinksType /\ R2.size = [R1.size EXCEPT ![h] = n + 1]
        /\ R2.heap = R1.heap /\ R2.top = R1.top /\ R2.bottom = R1.bottom /\ R2.next = R1.next /\ R2.previous = R1.previous
    BY <2>b, <2>2, WriteSize
  <2> HIDE DEF R2
  <2> DEFINE R3 == ToBottom(R2, h, o)
  <2>4. /\ R3 \in LinksType /\ R3.bottom = [R2.bottom EXCEPT ![h] = o]
        /\ R3.heap = R2.heap /\ R3.size = R2.size /\ R3.top = R2.top /\ R3.next = R2.next /\ R3.previous = R2.previous
    BY <2>b, <2>3, WriteBottom
  <2> HIDE DEF R3
  <2> DEFINE R4 == ToTop(R3, h, o)
  <2>5. /\ R4 \in LinksType /\ R4.top = [R3.top EXCEPT ![h] = o]
        /\ R4.heap = R3.heap /\ R4.size = R3.size /\ R4.bottom = R3.bottom /\ R4.next = R3.next /\ R4.previous = R3.previous
    BY <2>b, <2>4, WriteTop
  <2> HIDE DEF R4
  <2>6. A = R4
    BY <2>a DEF AddObject, ToBottom, ToHeap, ToSize, ToTop, R1, R2, R3, R4
  <2>c. A \in LinksType /\ A.heap = [L.heap EXCEPT ![o] = h] /\ A.size = [L.size EXCEPT ![h] = n + 1]
    BY <2>2, <2>3, <2>4, <2>5, <2>6
  <2>d. A.top = [L.top EXCEPT ![h] = IF n = 0 THEN o ELSE @] /\ A.bottom = [L.bottom EXCEPT ![h] = o]
    BY <1>1, <1>3, <2>2, <2>3, <2>4, <2>5, <2>6
  <2>e. A.next = [x \in Obj |-> IF n > 0 /\ x = c[n] THEN o ELSE L.next[x]]
    BY <1>1, <1>3, <2>b, <2>2, <2>3, <2>4, <2>5, <2>6
  <2>f. A.previous = [L.previous EXCEPT ![o] = Place(c, n, n)]
    BY <1>1, <1>2, <1>3, <2>a, <2>2, <2>3, <2>4, <2>5, <2>6
  <2> QED BY <2>c, <2>d, <2>e, <2>f DEF Added
<1>4. CASE n > 0
  <2>a. L.size[h] = n /\ L.bottom[h] = c[n] /\ c[n] # NULL /\ Place(c, n, n) = c[n]
    BY <1>1, <1>2, <1>4 DEF Place
  <2>b. n + 1 \in Nat /\ h \in Heaps /\ o \in Obj /\ o \in Ptr /\ c[n] \in Obj /\ c[n] \in Ptr
    BY <1>1, <1>2, <1>4 DEF Ptr
  <2>1. L \in LinksType
    BY <1>1
  <2> DEFINE R1 == ToHeap(L, o, h)
  <2>2. /\ R1 \in LinksType /\ R1.heap = [L.heap EXCEPT ![o] = h]
        /\ R1.size = L.size /\ R1.top = L.top /\ R1.bottom = L.bottom /\ R1.next = L.next /\ R1.previous = L.previous
    BY <2>b, <2>1, WriteHeap
  <2> HIDE DEF R1
  <2> DEFINE R2 == ToSize(R1, h, n + 1)
  <2>3. /\ R2 \in LinksType /\ R2.size = [R1.size EXCEPT ![h] = n + 1]
        /\ R2.heap = R1.heap /\ R2.top = R1.top /\ R2.bottom = R1.bottom /\ R2.next = R1.next /\ R2.previous = R1.previous
    BY <2>b, <2>2, WriteSize
  <2> HIDE DEF R2
  <2> DEFINE R3 == ToNext(R2, c[n], o)
  <2>4. /\ R3 \in LinksType /\ R3.next = [R2.next EXCEPT ![c[n]] = o]
        /\ R3.heap = R2.heap /\ R3.size = R2.size /\ R3.top = R2.top /\ R3.bottom = R2.bottom /\ R3.previous = R2.previous
    BY <2>b, <2>3, WriteNext
  <2> HIDE DEF R3
  <2> DEFINE R4 == ToPrevious(R3, o, c[n])
  <2>5. /\ R4 \in LinksType /\ R4.previous = [R3.previous EXCEPT ![o] = c[n]]
        /\ R4.heap = R3.heap /\ R4.size = R3.size /\ R4.top = R3.top /\ R4.bottom = R3.bottom /\ R4.next = R3.next
    BY <2>b, <2>4, WritePrevious
  <2> HIDE DEF R4
  <2> DEFINE R5 == ToBottom(R4, h, o)
  <2>6. /\ R5 \in LinksType /\ R5.bottom = [R4.bottom EXCEPT ![h] = o]
        /\ R5.heap = R4.heap /\ R5.size = R4.size /\ R5.top = R4.top /\ R5.next = R4.next /\ R5.previous = R4.previous
    BY <2>b, <2>5, WriteBottom
  <2> HIDE DEF R5
  <2>7. A = R5
    BY <2>a DEF AddObject, ToBottom, ToHeap, ToNext, ToPrevious, ToSize, R1, R2, R3, R4, R5
  <2>c. A \in LinksType /\ A.heap = [L.heap EXCEPT ![o] = h] /\ A.size = [L.size EXCEPT ![h] = n + 1]
    BY <2>2, <2>3, <2>4, <2>5, <2>6, <2>7
  <2>d. A.top = [L.top EXCEPT ![h] = IF n = 0 THEN o ELSE @] /\ A.bottom = [L.bottom EXCEPT ![h] = o]
    BY <1>1, <1>4, <2>2, <2>3, <2>4, <2>5, <2>6, <2>7
  <2>e. A.next = [x \in Obj |-> IF n > 0 /\ x = c[n] THEN o ELSE L.next[x]]
    BY <1>1, <1>4, <2>b, <2>2, <2>3, <2>4, <2>5, <2>6, <2>7
  <2>f. A.previous = [L.previous EXCEPT ![o] = Place(c, n, n)]
    BY <1>1, <1>2, <1>4, <2>a, <2>2, <2>3, <2>4, <2>5, <2>6, <2>7
  <2> QED BY <2>c, <2>d, <2>e, <2>f DEF Added
<1> QED BY <1>1, <1>3, <1>4

\* AddObject puts an object that is in no list at the end of one.
LEMMA AddSound ==
  ASSUME NEW S \in SUBSET Obj, NEW L, Sound(L, S), NEW o \in Obj \ S, NEW h \in Heaps
  PROVE  /\ Sound(AddObject(L, o, h), S \cup {o})
         /\ AddObject(L, o, h).heap = [L.heap EXCEPT ![o] = h]
<1> DEFINE A == AddObject(L, o, h)
           n == L.size[h]
<1>1. /\ n \in Nat /\ L.heap \in [Obj -> Heaps]
      /\ L.top \in [Heaps -> Ptr] /\ L.bottom \in [Heaps -> Ptr] /\ L.size \in [Heaps -> Nat]
      /\ L.next \in [Obj -> Ptr] /\ L.previous \in [Obj -> Ptr]
      /\ L.next[o] = NULL
  BY DEF Sound, LinksType
<1>2. PICK c : Ordered(L, S, h, c)
  BY DEF Sound
<1>3. A \in LinksType /\ Added(L, A, o, h, n, c)
  BY <1>2, AddFields
<1>4. /\ c \in [1..n -> S]
      /\ \A i \in 1..n : L.heap[c[i]] = h
      /\ \A i, j \in 1..n : c[i] = c[j] => i = j
      /\ \A x \in S : L.heap[x] = h => \E i \in 1..n : c[i] = x
      /\ L.top[h] = Place(c, n, 1) /\ L.bottom[h] = Place(c, n, n)
      /\ \A i \in 1..n : L.previous[c[i]] = Place(c, n, i - 1) /\ L.next[c[i]] = Place(c, n, i + 1)
  BY <1>2 DEF Ordered
<1> HIDE DEF A
<1> DEFINE m == n + 1
           d == With(c, n, o)
<1>5. Ordered(A, S \cup {o}, h, d)
  <2>1. /\ \A i \in 1..n : i \in 1..m /\ d[i] = c[i] /\ c[i] \in S /\ c[i] # o /\ c[i] \in Obj
        /\ m \in 1..m /\ d[m] = o
        /\ \A i \in 1..m : i \in 1..n \/ i = m
    <3>1. \A i \in 1..n : i \in 1..m /\ i # m
      BY <1>1
    <3>2. m \in 1..m /\ \A i \in 1..m : i \in 1..n \/ i = m
      BY <1>1
    <3>3. \A i \in 1..m : d[i] = IF i = m THEN o ELSE c[i]
      BY DEF With
    <3>4. \A i \in 1..n : c[i] \in S /\ c[i] # o /\ c[i] \in Obj
      BY <1>4
    <3> HIDE DEF d, m
    <3> QED BY <3>1, <3>2, <3>3, <3>4
  <2>2. d \in [1..m -> S \cup {o}]
    <3>1. \A i \in 1..m : d[i] \in S \cup {o}
      BY <2>1
    <3> QED BY <3>1 DEF With
  <2>3. A.size[h] = m
    BY <1>1, <1>3 DEF Added
  <2>4. \A x \in Obj : A.heap[x] = IF x = o THEN h ELSE L.heap[x]
    BY <1>1, <1>3 DEF Added
  <2>5. \A i \in 1..m : A.heap[d[i]] = h
    <3> HIDE DEF d, m
    <3> QED BY <1>4, <2>1, <2>4
  <2>6. \A i, j \in 1..m : d[i] = d[j] => i = j
    <3> HIDE DEF d, m
    <3> QED BY <1>4, <2>1
  <2>7. \A x \in S \cup {o} : A.heap[x] = h => \E i \in 1..m : d[i] = x
    <3> HIDE DEF d, m
    <3> QED BY <1>4, <2>1, <2>4
  <2>8. A.top[h] = Place(d, m, 1)
    <3>1. A.top[h] = IF n = 0 THEN o ELSE Place(c, n, 1)
      BY <1>1, <1>3, <1>4 DEF Added
    <3>2. 1 \in 1..m /\ (n # 0 => 1 \in 1..n) /\ (n = 0 => m = 1)
      BY <1>1
    <3> HIDE DEF d, m
    <3> QED BY <2>1, <3>1, <3>2 DEF Place
  <2>9. A.bottom[h] = Place(d, m, m)
    BY <1>1, <1>3, <2>1 DEF Added, Place
  <2>10. ASSUME NEW i \in 1..m PROVE A.previous[d[i]] = Place(d, m, i - 1)
    <3>1. \A x \in Obj : A.previous[x] = IF x = o THEN Place(c, n, n) ELSE L.previous[x]
      BY <1>1, <1>3 DEF Added
    <3>2. CASE i \in 1..n
      <4>1. A.previous[d[i]] = Place(c, n, i - 1)
        <5> HIDE DEF d, m
        <5> QED BY <1>4, <2>1, <3>1, <3>2
      <4>2. (i - 1 \in 1..n <=> i - 1 \in 1..m) /\ (i - 1 \in 1..n => d[i - 1] = c[i - 1])
        BY <1>1, <2>1, <3>2
      <4> QED BY <4>1, <4>2 DEF Place
    <3>3. CASE i = m
      <4>1. A.previous[d[i]] = Place(c, n, n)
        BY <2>1, <3>1, <3>3
      <4>2. i - 1 = n /\ (n \in 1..n <=> n \in 1..m) /\ (n \in 1..n => d[n] = c[n])
        BY <1>1, <2>1, <3>3
      <4> QED BY <4>1, <4>2 DEF Place
    <3> QED BY <2>1, <3>2, <3>3
  <2>11. ASSUME NEW i \in 1..m PROVE A.next[d[i]] = Place(d, m, i + 1)
    <3>1. \A x \in Obj : A.next[x] = IF n > 0 /\ x = c[n] THEN o ELSE L.next[x]
      BY <1>1, <1>3 DEF Added
    <3>2. CASE i \in 1..n /\ i # n
      <4>1. i + 1 \in 1..n /\ i + 1 \in 1..m /\ n \in 1..n
        BY <1>1, <3>2
      <4>2. A.next[d[i]] = c[i + 1]
        <5>1. c[i] # c[n] /\ L.next[c[i]] = Place(c, n, i + 1)
          BY <1>4, <3>2, <4>1
        <5> HIDE DEF d, m
        <5> QED BY <2>1, <3>1, <3>2, <4>1, <5>1 DEF Place
      <4> QED BY <2>1, <4>1, <4>2 DEF Place
    <3>3. CASE i \in 1..n /\ i = n
      <4>1. i + 1 = m /\ n > 0
        BY <1>1, <3>3
      <4> QED BY <2>1, <3>1, <3>3, <4>1 DEF Place
    <3>4. CASE i = m
      <4>1. A.next[o] = NULL /\ i + 1 \notin 1..m
        <5>1. n > 0 => n \in 1..n
          BY <1>1
        <5> QED BY <1>1, <2>1, <3>1, <3>4, <5>1
      <4> QED BY <2>1, <3>4, <4>1 DEF Place
    <3> QED BY <2>1, <3>2, <3>3, <3>4
  <2> HIDE DEF d, m
  <2> QED BY <2>2, <2>3, <2>5, <2>6, <2>7, <2>8, <2>9, <2>10, <2>11 DEF Ordered
<1>6. ASSUME NEW g \in Heaps \ {h}, NEW e, Ordered(L, S, g, e) PROVE Ordered(A, S \cup {o}, g, e)
  <2> DEFINE k == L.size[g]
  <2>1. A.size[g] = k /\ A.top[g] = L.top[g] /\ A.bottom[g] = L.bottom[g] /\ g # h
    BY <1>1, <1>3, <1>6 DEF Added
  <2>2. /\ e \in [1..k -> S]
        /\ \A i \in 1..k : L.heap[e[i]] = g
        /\ \A i, j \in 1..k : e[i] = e[j] => i = j
        /\ \A x \in S : L.heap[x] = g => \E i \in 1..k : e[i] = x
        /\ L.top[g] = Place(e, k, 1) /\ L.bottom[g] = Place(e, k, k)
        /\ \A i \in 1..k : L.previous[e[i]] = Place(e, k, i - 1) /\ L.next[e[i]] = Place(e, k, i + 1)
    BY <1>6 DEF Ordered
  <2> HIDE DEF k
  <2>3. n > 0 => n \in 1..n /\ L.heap[c[n]] = h
    BY <1>1, <1>4
  <2>4. \A i \in 1..k : e[i] \in Obj /\ e[i] \in S /\ e[i] # o /\ (n > 0 => e[i] # c[n])
    BY <2>1, <2>2, <2>3
  <2>5. \A i \in 1..k : A.previous[e[i]] = L.previous[e[i]] /\ A.next[e[i]] = L.next[e[i]]
                        /\ A.heap[e[i]] = L.heap[e[i]]
    BY <1>1, <1>3, <2>4 DEF Added
  <2>6. e \in [1..k -> S \cup {o}]
    BY <2>2
  <2>7. \A x \in S \cup {o} : A.heap[x] = g => x \in S /\ L.heap[x] = g
    BY <1>1, <1>3, <2>1 DEF Added
  <2> QED BY <2>1, <2>2, <2>5, <2>6, <2>7 DEF Ordered
<1>7. \A g \in Heaps : \E e : Ordered(A, S \cup {o}, g, e)
  BY <1>5, <1>6 DEF Sound
<1>8. ASSUME NEW x \in Obj \ (S \cup {o}) PROVE A.next[x] = NULL /\ A.previous[x] = NULL
  <2>1. L.next[x] = NULL /\ L.previous[x] = NULL
    BY DEF Sound
  <2>2. n > 0 => c[n] \in S
    BY <1>1, <1>4
  <2> QED BY <1>1, <1>3, <2>1, <2>2 DEF Added
<1> QED BY <1>3, <1>7, <1>8 DEF Sound, Added, A

\* Import leaves the lists of both heaps sound.
LEMMA ImportSound ==
  ASSUME NEW S \in SUBSET Obj, NEW L, Sound(L, S), NEW o \in S, NEW h \in Heaps
  PROVE  /\ Sound(Import(L, o, h), S)
         /\ Import(L, o, h).heap = [L.heap EXCEPT ![o] = h]
<1>1. Sound(Free(L, o), S \ {o}) /\ Free(L, o).heap = L.heap
  BY FreeSound
<1>2. S \ {o} \in SUBSET Obj /\ o \in Obj \ (S \ {o}) /\ (S \ {o}) \cup {o} = S
  OBVIOUS
<1> QED BY <1>1, <1>2, AddSound DEF Import

-----------------------------------------------------------------------------
(* Recursive functions: that they exist is shown by induction.             *)

\* Induction, for a set of numbers.
LEMMA Induction ==
  ASSUME NEW K, 0 \in K, \A n \in Nat : n \in K => n + 1 \in K
  PROVE  \A n \in Nat : n \in K
<1> DEFINE T == Nat \ K
<1> SUFFICES ASSUME T # {} PROVE FALSE
  OBVIOUS
<1>1. PICK x \in T : \A y \in T : ~ (<<y, x>> \in OpToRel(<, Nat))
  BY WFMin, NatLessThanWellFounded
<1>2. x \in Nat /\ x # 0 /\ x - 1 \in Nat
  OBVIOUS
<1>3. x - 1 \in T
  BY <1>2
<1>4. <<x - 1, x>> \in OpToRel(<, Nat)
  BY <1>2 DEF OpToRel
<1> QED BY <1>1, <1>3, <1>4

\* Induction along ranks.
LEMMA RankInduction ==
  ASSUME NEW D, NEW rank \in [D -> Nat], NEW G,
         \A o \in D : (\A e \in D : rank[e] < rank[o] => e \in G) => o \in G
  PROVE  D \subseteq G
<1> DEFINE K == {n \in Nat : \A o \in D : rank[o] < n => o \in G}
<1>1. 0 \in K
  OBVIOUS
<1>2. ASSUME NEW n \in Nat, n \in K PROVE n + 1 \in K
  <2>1. ASSUME NEW o \in D, rank[o] < n + 1 PROVE o \in G
    <3>1. \A e \in D : rank[e] < rank[o] => rank[e] < n
      BY <2>1
    <3>2. \A e \in D : rank[e] < n => e \in G
      BY <1>2
    <3> QED BY <3>1, <3>2
  <2> QED BY <2>1
<1>3. \A n \in Nat : n \in K
  <2> HIDE DEF K
  <2> QED BY <1>1, <1>2, Induction
<1> SUFFICES ASSUME NEW o \in D PROVE o \in G
  OBVIOUS
<1>4. rank[o] + 1 \in K /\ rank[o] < rank[o] + 1
  BY <1>3
<1> QED BY <1>4

\* The last place of a prefix that has it.
LEMMA MaxOfPrefix ==
  ASSUME NEW n \in Nat, NEW S \in SUBSET (1..(n + 1)), n + 1 \in S
  PROVE  Max(S) = n + 1 /\ S \ {Max(S)} \in SUBSET (1..n)
<1>1. n + 1 \in S /\ \A y \in S : n + 1 >= y
  OBVIOUS
<1>2. \A x \in S : (\A y \in S : x >= y) => x = n + 1
  OBVIOUS
<1>3. Max(S) = n + 1
  BY <1>1, <1>2 DEF Max
<1> QED BY <1>3

\* What Export makes of the places S of s, from what it makes of fewer.
Turn(base, s, h, it, S) ==
  IF S = {} THEN base ELSE Import(it[S \ {Max(S)}], s[Max(S)], h)

Folded(base, s, h, n, it) ==
  it = [S \in SUBSET (1..n) |-> Turn(base, s, h, it, S)]

\* The fold Export makes is defined, however long the sequence.
LEMMA FoldExists ==
  ASSUME NEW base, NEW s, NEW h
  PROVE  \A n \in Nat : \E it : Folded(base, s, h, n, it)
<1> DEFINE Good(n, it) == it = [S \in SUBSET (1..n) |-> Turn(base, s, h, it, S)]
           K == {n \in Nat : \E it : Good(n, it)}
<1>1. 0 \in K
  <2> DEFINE it == [S \in SUBSET (1..0) |-> base]
  <2>1. \A S \in SUBSET (1..0) : S = {}
    OBVIOUS
  <2>2. \A S \in SUBSET (1..0) : Turn(base, s, h, it, S) = base
    BY <2>1 DEF Turn
  <2>3. Good(0, it)
    BY <2>2
  <2> QED BY <2>3
<1>2. ASSUME NEW n \in Nat, n \in K PROVE n + 1 \in K
  <2>1. PICK old : Good(n, old)
    BY <1>2
  <2> DEFINE more(S) == IF n + 1 \in S THEN Import(old[S \ {n + 1}], s[n + 1], h) ELSE old[S]
             it == [S \in SUBSET (1..(n + 1)) |-> more(S)]
  <2>2. \A S \in SUBSET (1..n) : S \in SUBSET (1..(n + 1)) /\ n + 1 \notin S
    OBVIOUS
  <2>3. \A S \in SUBSET (1..n) : it[S] = old[S]
    BY <2>2
  <2>4. ASSUME NEW S \in SUBSET (1..(n + 1)) PROVE it[S] = Turn(base, s, h, it, S)
    <3>1. CASE n + 1 \in S
      <4>1. Max(S) = n + 1 /\ S \ {n + 1} \in SUBSET (1..n)
        BY <3>1, MaxOfPrefix
      <4>2. it[S \ {n + 1}] = old[S \ {n + 1}]
        BY <4>1, <2>3
      <4>3. it[S] = Import(old[S \ {n + 1}], s[n + 1], h)
        BY <3>1
      <4> HIDE DEF it
      <4> QED BY <3>1, <4>1, <4>2, <4>3 DEF Turn
    <3>2. CASE n + 1 \notin S
      <4>0. \A x \in 1..(n + 1) : x = n + 1 \/ x \in 1..n
        OBVIOUS
      <4>1. S \in SUBSET (1..n) /\ S \ {Max(S)} \in SUBSET (1..n)
        BY <3>2, <4>0
      <4>2. it[S] = old[S] /\ it[S \ {Max(S)}] = old[S \ {Max(S)}]
        BY <4>1, <2>3
      <4>3. old[S] = Turn(base, s, h, old, S)
        BY <4>1, <2>1
      <4> HIDE DEF it
      <4> QED BY <4>2, <4>3 DEF Turn
    <3> QED BY <3>1, <3>2
  <2>5. Good(n + 1, it)
    <3>1. it = [S \in SUBSET (1..(n + 1)) |-> it[S]]
      OBVIOUS
    <3> HIDE DEF it
    <3> QED BY <3>1, <2>4
  <2> HIDE DEF Good, it
  <2> QED BY <2>5
<1>3. \A n \in Nat : n \in K
  <2> HIDE DEF K
  <2> QED BY <1>1, <1>2, Induction
<1> QED BY <1>3 DEF Folded

\* Heap h has got all of s.
Got(L, E, s, n, h) ==
  E.heap = [x \in Obj |-> IF \E i \in 1..n : s[i] = x THEN h ELSE L.heap[x]]

\* ImportSound, for any links.
LEMMA ImportAny ==
  \A S \in SUBSET Obj, h \in Heaps : \A L : \A o \in S :
    Sound(L, S) => /\ Sound(Import(L, o, h), S)
                   /\ Import(L, o, h).heap = [L.heap EXCEPT ![o] = h]
BY ImportSound

\* A prefix and the one before it.
LEMMA Prefix ==
  ASSUME NEW n \in Nat, NEW m \in Nat, n + 1 <= m
  PROVE  /\ 1..(n + 1) \in SUBSET (1..m) /\ n + 1 \in 1..(n + 1) /\ n <= m
         /\ (1..(n + 1)) \ {n + 1} = 1..n /\ 1..(n + 1) # {}
OBVIOUS

\* Importing objects one after another leaves the lists sound, and moves exactly these.
LEMMA FoldSound ==
  ASSUME NEW S \in SUBSET Obj, NEW L, Sound(L, S), NEW h \in Heaps, NEW s \in Seq(S),
         NEW it, Folded(L, s, h, Len(s), it)
  PROVE  Sound(it[1..Len(s)], S) /\ Got(L, it[1..Len(s)], s, Len(s), h)
<1> DEFINE K == {n \in Nat : n <= Len(s) => Sound(it[1..n], S) /\ Got(L, it[1..n], s, n, h)}
<1>0. Len(s) \in Nat /\ L.heap \in [Obj -> Heaps]
  BY DEF Sound, LinksType
<1>1. \A T \in SUBSET (1..Len(s)) : it[T] = Turn(L, s, h, it, T)
  BY DEF Folded
<1>2. 0 \in K
  <2>1. 1..0 = {} /\ {} \in SUBSET (1..Len(s))
    OBVIOUS
  <2>2. it[{}] = L
    BY <1>1, <2>1 DEF Turn
  <2>3. Got(L, L, s, 0, h)
    BY <1>0 DEF Got
  <2> QED BY <2>1, <2>2, <2>3
<1>3. ASSUME NEW n \in Nat, n \in K PROVE n + 1 \in K
  <2> SUFFICES ASSUME n + 1 <= Len(s)
               PROVE  Sound(it[1..(n + 1)], S) /\ Got(L, it[1..(n + 1)], s, n + 1, h)
    OBVIOUS
  <2>1. /\ 1..(n + 1) \in SUBSET (1..Len(s)) /\ n + 1 \in 1..(n + 1) /\ n <= Len(s)
        /\ (1..(n + 1)) \ {n + 1} = 1..n /\ 1..(n + 1) # {}
    BY <1>0, Prefix
  <2>2. Max(1..(n + 1)) = n + 1
    BY <2>1, MaxOfPrefix
  <2> DEFINE E == it[1..n]
             F == it[1..(n + 1)]
             x == s[n + 1]
  <2>3. F = Import(E, x, h)
    BY <1>1, <2>1, <2>2 DEF Turn
  <2>4. x \in S /\ x \in Obj
    BY <1>0
  <2>5. Sound(E, S) /\ Got(L, E, s, n, h)
    BY <1>3, <2>1
  <2> HIDE DEF E, F, x
  <2>6. Sound(F, S) /\ F.heap = [E.heap EXCEPT ![x] = h]
    <3>1. Sound(Import(E, x, h), S) /\ Import(E, x, h).heap = [E.heap EXCEPT ![x] = h]
      <4> HIDE DEF K
      <4>1. Sound(E, S) /\ x \in S /\ h \in Heaps /\ S \in SUBSET Obj
        BY <2>4, <2>5
      <4>2. x \in S /\ Sound(E, S) => Sound(Import(E, x, h), S)
        BY <4>1, ImportAny
      <4>3. Import(E, x, h).heap = [E.heap EXCEPT ![x] = h]
        BY <4>1, ImportAny
      <4> QED BY <4>1, <4>2, <4>3
    <3> QED BY <2>3, <3>1
  <2>7. Got(L, F, s, n + 1, h)
    <3>1. \A i \in 1..(n + 1) : i \in 1..n \/ i = n + 1
      OBVIOUS
    <3>2. \A i \in 1..n : i \in 1..(n + 1)
      OBVIOUS
    <3>3. \A y \in Obj : (\E i \in 1..(n + 1) : s[i] = y) <=> (\E i \in 1..n : s[i] = y) \/ y = x
      BY <2>1, <3>1, <3>2 DEF x
    <3>4. F.heap = [y \in Obj |-> IF y = x THEN h ELSE E.heap[y]]
      BY <2>4, <2>5, <2>6 DEF Got
    <3>5. \A y \in Obj : E.heap[y] = IF \E i \in 1..n : s[i] = y THEN h ELSE L.heap[y]
      BY <2>5 DEF Got
    <3> QED BY <3>3, <3>4, <3>5 DEF Got
  <2> QED BY <2>6, <2>7 DEF E, F
<1>4. \A n \in Nat : n \in K
  <2> HIDE DEF K
  <2> QED BY <1>2, <1>3, Induction
<1>5. Len(s) \in K
  BY <1>0, <1>4
<1> QED BY <1>0, <1>5

\* Export, given the objects it visits.
LEMMA ExportSound ==
  ASSUME NEW S \in SUBSET Obj, Sound(links, S), NEW h \in Heaps, NEW o,
         NEW s \in Seq(S), s = ExportOrder[o]
  PROVE  Sound(Export(o, h), S) /\ Got(links, Export(o, h), s, Len(s), h)
<1> DEFINE Folds(it) == it = [T \in SUBSET DOMAIN s |->
                                IF T = {} THEN links ELSE Import(it[T \ {Max(T)}], s[Max(T)], h)]
           rec == CHOOSE it : Folds(it)
<1>1. Export(o, h) = rec[DOMAIN s]
  BY DEF Export, FoldLeft, MapThenFoldSet
<1>2. Len(s) \in Nat /\ DOMAIN s = 1..Len(s)
  OBVIOUS
<1>3. ASSUME NEW it PROVE Folds(it) <=> Folded(links, s, h, Len(s), it)
  <2>1. \A T : Turn(links, s, h, it, T)
                = IF T = {} THEN links ELSE Import(it[T \ {Max(T)}], s[Max(T)], h)
    BY DEF Turn
  <2> QED BY <1>2, <2>1 DEF Folded
<1>4. \E it : Folds(it)
  <2> HIDE DEF Folds
  <2> QED BY <1>2, <1>3, FoldExists
<1>5. Folds(rec)
  <2> HIDE DEF Folds
  <2> QED BY <1>4
<1> HIDE DEF Folds, rec
<1>6. Sound(rec[1..Len(s)], S) /\ Got(links, rec[1..Len(s)], s, Len(s), h)
  BY <1>3, <1>5, FoldSound
<1> QED BY <1>1, <1>2, <1>6

\* What FlattenSeq makes of the first m sequences of w.
Flattened(w, m, fl) ==
  fl = [i \in 1..m |-> IF i = 1 THEN w[i] ELSE fl[i - 1] \o w[i]]

\* FlattenSeq is defined, however many sequences there are.
LEMMA FlattenExists ==
  ASSUME NEW w
  PROVE  \A m \in Nat : \E fl : Flattened(w, m, fl)
<1> DEFINE Good(m, fl) == fl = [i \in 1..m |-> IF i = 1 THEN w[i] ELSE fl[i - 1] \o w[i]]
           K == {m \in Nat : \E fl : Good(m, fl)}
<1>1. 0 \in K
  <2>1. Good(0, [i \in 1..0 |-> NULL])
    OBVIOUS
  <2> QED BY <2>1
<1>2. ASSUME NEW m \in Nat, m \in K PROVE m + 1 \in K
  <2>1. PICK old : Good(m, old)
    BY <1>2
  <2> DEFINE more(i) == IF i = m + 1 THEN IF i = 1 THEN w[i] ELSE old[m] \o w[i] ELSE old[i]
             fl == [i \in 1..(m + 1) |-> more(i)]
  <2>2. ASSUME NEW i \in 1..(m + 1)
        PROVE  fl[i] = IF i = 1 THEN w[i] ELSE fl[i - 1] \o w[i]
    <3>1. CASE i = m + 1
      <4>1. i # 1 => m \in 1..(m + 1) /\ m # m + 1 /\ i - 1 = m
        BY <3>1
      <4>2. i # 1 => fl[i - 1] = old[m]
        BY <4>1
      <4>3. fl[i] = IF i = 1 THEN w[i] ELSE old[m] \o w[i]
        BY <3>1
      <4> HIDE DEF fl
      <4> QED BY <4>2, <4>3
    <3>2. CASE i # m + 1
      <4>1. i \in 1..m /\ (i # 1 => i - 1 \in 1..(m + 1) /\ i - 1 # m + 1)
        BY <3>2
      <4>2. fl[i] = old[i] /\ (i # 1 => fl[i - 1] = old[i - 1])
        BY <3>2, <4>1
      <4>3. old[i] = IF i = 1 THEN w[i] ELSE old[i - 1] \o w[i]
        BY <2>1, <4>1
      <4> HIDE DEF fl
      <4> QED BY <4>2, <4>3
    <3> QED BY <3>1, <3>2
  <2>3. fl = [i \in 1..(m + 1) |-> fl[i]]
    OBVIOUS
  <2>4. Good(m + 1, fl)
    <3> HIDE DEF fl
    <3> QED BY <2>2, <2>3
  <2> HIDE DEF Good, fl
  <2> QED BY <2>4
<1>3. \A m \in Nat : m \in K
  <2> HIDE DEF K
  <2> QED BY <1>1, <1>2, Induction
<1> QED BY <1>3 DEF Flattened

\* s lists what the first m sequences of w list.
Joins(s, w, m, T) ==
  s \in Seq(T) /\ \A x : x \in Range(s) <=> \E i \in 1..m : x \in Range(w[i])

\* What is built of the first m sequences lists what they list.
LEMMA FlattenedIs ==
  ASSUME NEW T, NEW n \in Nat, NEW w \in [1..n -> Seq(T)], NEW fl, Flattened(w, n, fl),
         NEW k \in 1..n
  PROVE  Joins(fl[k], w, k, T)
<1> DEFINE Ok(m) == fl[m] \in Seq(T) /\ \A x : x \in Range(fl[m]) <=> \E i \in 1..m : x \in Range(w[i])
           K == {m \in Nat : m + 1 \in 1..n => Ok(m + 1)}
<1>1. \A i \in 1..n : fl[i] = IF i = 1 THEN w[i] ELSE fl[i - 1] \o w[i]
  BY DEF Flattened
<1>2. 0 \in K
  <2>1. ASSUME 1 \in 1..n PROVE Ok(1)
    <3>1. fl[1] = w[1]
      <4>1. fl[1] = IF 1 = 1 THEN w[1] ELSE fl[1 - 1] \o w[1]
        BY <1>1, <2>1
      <4> QED BY <4>1
    <3>2. w[1] \in Seq(T)
      BY <2>1
    <3>3. 1 \in 1..1 /\ \A i \in 1..1 : i = 1
      OBVIOUS
    <3> QED BY <3>1, <3>2, <3>3
  <2> QED BY <2>1
<1>3. ASSUME NEW m \in Nat, m \in K PROVE m + 1 \in K
  <2> SUFFICES ASSUME m + 2 \in 1..n PROVE Ok(m + 2)
    OBVIOUS
  <2>1. m + 1 \in 1..n /\ m + 2 # 1 /\ m + 2 - 1 = m + 1
    OBVIOUS
  <2>2. fl[m + 2] = fl[m + 1] \o w[m + 2]
    <3>1. \A i, j : i \in 1..n /\ i # 1 /\ j = i - 1 => fl[i] = fl[j] \o w[i]
      BY <1>1
    <3> DEFINE i == m + 2
               j == m + 1
    <3>2. i \in 1..n /\ i # 1 /\ j = i - 1
      OBVIOUS
    <3> HIDE DEF K, i, j
    <3>3. fl[i] = fl[j] \o w[i]
      BY <3>1, <3>2
    <3> QED BY <3>3 DEF i, j
  <2>3. Ok(m + 1)
    BY <1>3, <2>1
  <2>4. w[m + 2] \in Seq(T)
    OBVIOUS
  <2>5. Range(fl[m + 2]) = Range(fl[m + 1]) \cup Range(w[m + 2])
    BY <2>2, <2>3, <2>4, RangeConcatenation
  <2>6. fl[m + 2] \in Seq(T)
    BY <2>2, <2>3, <2>4
  <2>7. \A i \in 1..(m + 2) : i = m + 2 \/ i \in 1..(m + 1)
    OBVIOUS
  <2>8. m + 2 \in 1..(m + 2) /\ \A i \in 1..(m + 1) : i \in 1..(m + 2)
    OBVIOUS
  <2>9. ASSUME NEW x PROVE x \in Range(fl[m + 2]) <=> \E i \in 1..(m + 2) : x \in Range(w[i])
    BY <2>3, <2>5, <2>7, <2>8
  <2> QED BY <2>6, <2>9
<1>4. \A m \in Nat : m \in K
  <2> HIDE DEF K
  <2> QED BY <1>2, <1>3, Induction
<1>5. k - 1 \in Nat /\ k - 1 + 1 = k
  OBVIOUS
<1>6. k - 1 \in K
  BY <1>4, <1>5
<1>7. Ok(k)
  <2> HIDE DEF Ok
  <2> QED BY <1>5, <1>6
<1> QED BY <1>7 DEF Joins

\* FlattenSeq lists what its sequences list.
LEMMA FlattenIs ==
  ASSUME NEW T, NEW n \in Nat, NEW w \in [1..n -> Seq(T)]
  PROVE  Joins(FlattenSeq(w), w, n, T)
<1> DEFINE Good(fl) == fl = [i \in 1..Len(w) |-> IF i = 1 THEN w[i] ELSE fl[i - 1] \o w[i]]
           rec == CHOOSE fl : Good(fl)
<1>1. w \in Seq(Seq(T)) /\ Len(w) = n
  OBVIOUS
<1>2. CASE n = 0
  <2>1. FlattenSeq(w) = w /\ w = <<>>
    BY <1>1, <1>2 DEF FlattenSeq
  <2>2. Range(w) = {}
    BY <1>2 DEF Range
  <2> QED BY <1>2, <2>1, <2>2 DEF Joins
<1>3. CASE n # 0
  <2>1. FlattenSeq(w) = rec[n]
    BY <1>1, <1>3 DEF FlattenSeq
  <2>2. \A fl : Good(fl) <=> Flattened(w, n, fl)
    BY <1>1 DEF Flattened
  <2>3. Good(rec)
    <3>1. \E fl : Good(fl)
      <4> HIDE DEF Good
      <4> QED BY <2>2, FlattenExists
    <3> HIDE DEF Good
    <3> QED BY <3>1
  <2> HIDE DEF Good, rec
  <2>4. n \in 1..n
    BY <1>3
  <2>5. Flattened(w, n, rec)
    BY <2>2, <2>3
  <2>6. Joins(rec[n], w, n, T)
    BY <2>4, <2>5, FlattenedIs
  <2> QED BY <2>1, <2>6
<1> QED BY <1>2, <1>3

-----------------------------------------------------------------------------
(* The order in which Export visits what a list holds.                     *)

\* What ExportOrder[o] is made of, with f for ExportOrder.
Visits(f, o) ==
  IF IsEternal(o) THEN <<>>
  ELSE IF o \in Lists
       THEN FlattenSeq([k \in 1..Len(data[o]) |-> f[data[o][k]]]) \o <<o>>
       ELSE <<o>>

\* What a list that can be exported holds can be exported and is of a lower rank.
Falls(rank) ==
  \A l \in Lists : \A k \in 1..Len(data[l]) :
    IsEternal(l) \/ IsEternal(data[l][k]) \/ rank[data[l][k]] < rank[l]

\* No list holds itself, however deep.
Ranked ==
  \E N \in Nat : \E rank \in [Obj -> Nat] : (\A o \in Obj : rank[o] < N) /\ Falls(rank)

DataType == data \in [Lists -> Seq(Obj)]

\* Visits only looks at what the list holds.
LEMMA SameVisits ==
  ASSUME NEW f, NEW g, NEW o,
         ~IsEternal(o) /\ o \in Lists => \A k \in 1..Len(data[o]) : f[data[o][k]] = g[data[o][k]]
  PROVE  Visits(f, o) = Visits(g, o)
<1>1. CASE ~IsEternal(o) /\ o \in Lists
  <2>1. [k \in 1..Len(data[o]) |-> f[data[o][k]]] = [k \in 1..Len(data[o]) |-> g[data[o][k]]]
    BY <1>1
  <2> QED BY <2>1 DEF Visits
<1>2. CASE IsEternal(o) \/ o \notin Lists
  BY <1>2 DEF Visits
<1> QED BY <1>1, <1>2

\* The order, for the objects of rank below n.
Below(f, n, rank) ==
  f = [o \in Obj |-> IF IsEternal(o) \/ rank[o] < n THEN Visits(f, o) ELSE <<>>]

\* The order exists below every rank.
LEMMA BelowExists ==
  ASSUME DataType, NEW rank \in [Obj -> Nat], Falls(rank)
  PROVE  \A n \in Nat : \E f : Below(f, n, rank)
<1> DEFINE K == {n \in Nat : \E f : Below(f, n, rank)}
<1>1. 0 \in K
  <2> DEFINE f == [o \in Obj |-> <<>>]
  <2>1. \A o \in Obj : ~(rank[o] < 0) /\ (IsEternal(o) => Visits(f, o) = <<>>)
    BY DEF Visits
  <2>2. Below(f, 0, rank)
    BY <2>1 DEF Below
  <2> QED BY <2>2
<1>2. ASSUME NEW n \in Nat, n \in K PROVE n + 1 \in K
  <2>1. PICK f : Below(f, n, rank)
    BY <1>2
  <2> DEFINE g == [o \in Obj |-> IF IsEternal(o) \/ rank[o] < n + 1 THEN Visits(f, o) ELSE <<>>]
  <2>2. \A o \in Obj : g[o] = IF IsEternal(o) \/ rank[o] < n + 1 THEN Visits(f, o) ELSE <<>>
    OBVIOUS
  <2>3. \A o \in Obj : f[o] = IF IsEternal(o) \/ rank[o] < n THEN Visits(f, o) ELSE <<>>
    BY <2>1 DEF Below
  <2>4. g = [o \in Obj |-> g[o]]
    OBVIOUS
  <2> HIDE DEF g
  <2>5. \A o \in Obj : IsEternal(o) \/ rank[o] < n => f[o] = g[o]
    <3>1. \A o \in Obj : rank[o] < n => rank[o] < n + 1
      OBVIOUS
    <3> QED BY <2>2, <2>3, <3>1
  <2>6. ASSUME NEW o \in Obj, IsEternal(o) \/ rank[o] < n + 1
        PROVE  Visits(f, o) = Visits(g, o)
    <3>1. ASSUME ~IsEternal(o), o \in Lists, NEW k \in 1..Len(data[o])
          PROVE  f[data[o][k]] = g[data[o][k]]
      <4>1. data[o][k] \in Obj
        BY <3>1 DEF DataType
      <4>2. IsEternal(data[o][k]) \/ rank[data[o][k]] < rank[o]
        BY <3>1 DEF Falls
      <4>3. IsEternal(data[o][k]) \/ rank[data[o][k]] < n
        BY <2>6, <3>1, <4>1, <4>2
      <4> QED BY <2>5, <4>1, <4>3
    <3> QED BY <3>1, SameVisits
  <2>7. \A o \in Obj : g[o] = IF IsEternal(o) \/ rank[o] < n + 1 THEN Visits(g, o) ELSE <<>>
    BY <2>2, <2>6
  <2>8. Below(g, n + 1, rank)
    BY <2>4, <2>7 DEF Below
  <2> QED BY <2>8
<1> HIDE DEF K
<1>3. \A n \in Nat : n \in K
  BY <1>1, <1>2, Induction
<1> QED BY <1>3 DEF K

\* ExportOrder is what it is defined to be.
LEMMA OrderIs ==
  ASSUME DataType, Ranked
  PROVE  \A o \in Obj : ExportOrder[o] = Visits(ExportOrder, o)
<1> DEFINE Good(f) ==
      f = [o \in Obj |->
             IF IsEternal(o) THEN <<>>
             ELSE IF o \in Lists
                  THEN FlattenSeq([k \in 1..Len(data[o]) |-> f[data[o][k]]]) \o <<o>>
                  ELSE <<o>>]
<1>1. PICK N \in Nat, rank \in [Obj -> Nat] : (\A o \in Obj : rank[o] < N) /\ Falls(rank)
  BY DEF Ranked
<1>2. PICK f : Below(f, N, rank)
  BY <1>1, BelowExists
<1>3. f = [o \in Obj |-> Visits(f, o)]
  BY <1>1, <1>2 DEF Below
<1>4. \A g : Good(g) <=> g = [o \in Obj |-> Visits(g, o)]
  BY DEF Visits
<1>5. \E g : Good(g)
  <2> HIDE DEF Good
  <2> QED BY <1>3, <1>4
<1>6. ExportOrder = CHOOSE g : Good(g)
  BY DEF ExportOrder
<1>7. Good(ExportOrder)
  <2> HIDE DEF Good
  <2> QED BY <1>5, <1>6
<1>8. ExportOrder = [o \in Obj |-> Visits(ExportOrder, o)]
  <2> HIDE DEF Good
  <2> QED BY <1>4, <1>7
<1> QED BY <1>8

\* The order is a sequence of objects.
LEMMA OrderOfSeq ==
  ASSUME DataType, Ranked
  PROVE  \A o \in Obj : ExportOrder[o] \in Seq(Obj)
<1>1. PICK N \in Nat, rank \in [Obj -> Nat] : (\A o \in Obj : rank[o] < N) /\ Falls(rank)
  BY DEF Ranked
<1> DEFINE G == {o \in Obj : ExportOrder[o] \in Seq(Obj)}
<1>2. \A o \in Obj : ExportOrder[o] = Visits(ExportOrder, o)
  BY OrderIs
<1>e. \A e \in Obj : IsEternal(e) => ExportOrder[e] \in Seq(Obj)
  <2>1. ASSUME NEW e \in Obj, IsEternal(e) PROVE ExportOrder[e] \in Seq(Obj)
    <3>1. ExportOrder[e] = <<>>
      BY <1>2, <2>1 DEF Visits
    <3> QED BY <3>1
  <2> QED BY <2>1
<1>3. ASSUME NEW o \in Obj, \A e \in Obj : rank[e] < rank[o] => e \in G
      PROVE  o \in G
  <2>1. CASE IsEternal(o) \/ o \notin Lists
    <3>1. Visits(ExportOrder, o) \in Seq(Obj)
      BY <2>1 DEF Visits
    <3> QED BY <1>2, <3>1
  <2>2. CASE ~IsEternal(o) /\ o \in Lists
    <3> DEFINE n == Len(data[o])
               w == [k \in 1..n |-> ExportOrder[data[o][k]]]
    <3>1. n \in Nat
      BY <2>2 DEF DataType
    <3>2. ASSUME NEW k \in 1..n PROVE ExportOrder[data[o][k]] \in Seq(Obj)
      <4>1. data[o][k] \in Obj
        BY <2>2 DEF DataType
      <4>2. CASE IsEternal(data[o][k])
        BY <1>e, <4>1, <4>2
      <4>3. CASE ~IsEternal(data[o][k])
        <5>1. rank[data[o][k]] < rank[o]
          BY <1>1, <2>2, <4>3 DEF Falls
        <5> QED BY <1>3, <4>1, <5>1
      <4> QED BY <4>2, <4>3
    <3>3. w \in [1..n -> Seq(Obj)]
      BY <3>2
    <3>4. Visits(ExportOrder, o) = FlattenSeq(w) \o <<o>>
      BY <2>2 DEF Visits
    <3> HIDE DEF n, w
    <3>5. FlattenSeq(w) \in Seq(Obj)
      BY <3>1, <3>3, FlattenIs DEF Joins
    <3>6. ExportOrder[o] = FlattenSeq(w) \o <<o>>
      BY <1>2, <3>4
    <3>7. <<o>> \in Seq(Obj)
      OBVIOUS
    <3>8. FlattenSeq(w) \o <<o>> \in Seq(Obj)
      BY <3>5, <3>7
    <3> QED BY <3>6, <3>8
  <2> QED BY <2>1, <2>2
<1>4. Obj \subseteq G
  <2> HIDE DEF G
  <2> QED BY <1>3, RankInduction
<1> QED BY <1>4

Visited(o) == Range(ExportOrder[o])

\* What it visits.
LEMMA VisitedIs ==
  ASSUME DataType, Ranked, NEW o \in Obj
  PROVE  /\ Visited(o) \subseteq Obj
         /\ IsEternal(o) => Visited(o) = {}
         /\ ~IsEternal(o) /\ o \notin Lists => Visited(o) = {o}
         /\ ~IsEternal(o) /\ o \in Lists =>
              \A x : x \in Visited(o) <=> x = o \/ \E k \in 1..Len(data[o]) : x \in Visited(data[o][k])
<1>1. ExportOrder[o] = Visits(ExportOrder, o) /\ ExportOrder[o] \in Seq(Obj)
  BY OrderIs, OrderOfSeq
<1>2. Visited(o) \subseteq Obj
  BY <1>1 DEF Visited, Range
<1>3. Range(<<>>) = {} /\ Range(<<o>>) = {o}
  BY DEF Range
<1>4. ASSUME IsEternal(o) PROVE Visited(o) = {}
  BY <1>1, <1>3, <1>4 DEF Visits, Visited
<1>5. ASSUME ~IsEternal(o), o \notin Lists PROVE Visited(o) = {o}
  BY <1>1, <1>3, <1>5 DEF Visits, Visited
<1>6. ASSUME ~IsEternal(o), o \in Lists
      PROVE  \A x : x \in Visited(o) <=> x = o \/ \E k \in 1..Len(data[o]) : x \in Visited(data[o][k])
  <2> DEFINE n == Len(data[o])
             w == [k \in 1..n |-> ExportOrder[data[o][k]]]
  <2>1. n \in Nat
    BY <1>6 DEF DataType
  <2>2. \A k \in 1..n : data[o][k] \in Obj
    BY <1>6 DEF DataType
  <2>3. w \in [1..n -> Seq(Obj)]
    BY <2>2, OrderOfSeq
  <2>4. ExportOrder[o] = FlattenSeq(w) \o <<o>>
    BY <1>1, <1>6 DEF Visits
  <2>5. \A k \in 1..n : Range(w[k]) = Visited(data[o][k])
    BY DEF Visited
  <2> HIDE DEF w
  <2>6. Joins(FlattenSeq(w), w, n, Obj)
    <3> HIDE DEF n
    <3> QED BY <2>1, <2>3, FlattenIs
  <2>7. FlattenSeq(w) \in Seq(Obj) /\ <<o>> \in Seq(Obj)
    BY <2>6 DEF Joins
  <2>8. Visited(o) = Range(FlattenSeq(w)) \cup {o}
    <3> DEFINE u == FlattenSeq(w)
               v == <<o>>
    <3>1. u \in Seq(Obj) /\ v \in Seq(Obj) /\ Range(v) = {o} /\ ExportOrder[o] = u \o v
      BY <1>3, <2>4, <2>7
    <3> HIDE DEF u, v
    <3>2. Range(u \o v) = Range(u) \cup Range(v)
      BY <3>1, RangeConcatenation
    <3> QED BY <3>1, <3>2 DEF Visited, u
  <2>9. \A x : x \in Range(FlattenSeq(w)) <=> \E i \in 1..n : x \in Range(w[i])
    BY <2>6 DEF Joins
  <2> QED BY <2>5, <2>8, <2>9
<1> QED BY <1>2, <1>4, <1>5, <1>6

-----------------------------------------------------------------------------
(* The state of SQIObject this state stands for.                           *)

P == INSTANCE SQIObjectProofs WITH
  heap  <- links.heap,
  held  <- heldBar,
  stack <- stackBar,
  gc    <- walk.heap

\* The constants of this module are constants of SQIObject.
LEMMA ConstantsFit == P!ObjAssumption /\ P!HeapAssumption /\ P!CellAssumption
<1>1. ASSUME NEW S, IsFiniteSet(S) PROVE P!IsFiniteSet(S)
  BY <1>1 DEF IsFiniteSet, P!IsFiniteSet
<1> QED BY <1>1, PointerAssumption DEF P!ObjAssumption, P!HeapAssumption, P!CellAssumption

\* The invariant of SQIObject holds at its start.
LEMMA ObjectInit == P!Init => P!IInv
BY ConstantsFit, P!InitInv DEF P!ObjAssumption, P!HeapAssumption, P!CellAssumption

\* The steps of SQIObject keep its invariant.
LEMMA ObjectNext == P!IInv /\ [P!Next]_(P!vars) => P!IInv'
BY ConstantsFit, P!NextInv DEF P!ObjAssumption, P!HeapAssumption, P!CellAssumption

\* The activations of Suicidal.
FrameType == [list : Lists, pos : Nat \ {0}, force : BOOLEAN]

\* No list is being deleted twice.
OneFrame(fs) == \A j, k \in 1..Len(fs) : fs[j].list = fs[k].list => j = k

\* Element i of l, when the activations fs have taken out what they have.
Elem(d, fs, l, i) ==
  IF i <= Len(d[l]) /\ \A k \in 1..Len(fs) : fs[k].list = l => fs[k].pos <= i
  THEN d[l][i] ELSE NULL

ElemCells == Lists \X (1..MaxLen)

HeldIn(r, d, fs) ==
  [c \in ElemCells \cup Vars \cup Args |->
     IF c \in Vars \cup Args THEN r[c] ELSE Elem(d, fs, c[1], c[2])]

StackOf(fs) == [k \in 1..Len(fs) |-> [list |-> fs[k].list, force |-> fs[k].force]]

\* What is held, without Consumed: at most one activation runs on a list.
LEMMA HeldIs ==
  ASSUME frames \in Seq(FrameType), OneFrame(frames)
  PROVE  heldBar = HeldIn(root, data, frames)
<1>1. ASSUME NEW l \in Lists, NEW i \in 1..MaxLen
      PROVE  LET k == Consumed(l)
             IN  (IF i <= Len(data[l]) /\ (k # 0 => i >= frames[k].pos) THEN data[l][i] ELSE NULL)
                 = Elem(data, frames, l, i)
  <2>0. Len(frames) \in Nat /\ \A k \in 1..Len(frames) : frames[k].pos \in Nat
    <3>1. Len(frames) \in Nat /\ \A k \in 1..Len(frames) : frames[k] \in FrameType
      OBVIOUS
    <3> QED BY <3>1 DEF FrameType
  <2>1. CASE \E k \in 1..Len(frames) : frames[k].list = l
    <3>1. PICK k \in 1..Len(frames) : frames[k].list = l
      BY <2>1
    <3>2. Consumed(l) \in 1..Len(frames) /\ frames[Consumed(l)].list = l
      BY <2>1 DEF Consumed
    <3>3. Consumed(l) = k /\ k # 0
      BY <3>1, <3>2 DEF OneFrame
    <3>4. \A m \in 1..Len(frames) : frames[m].list = l => m = k
      BY <3>1 DEF OneFrame
    <3>5. (i >= frames[k].pos) <=> (frames[k].pos <= i)
      BY <2>0, <3>1
    <3> QED BY <3>1, <3>3, <3>4, <3>5 DEF Elem
  <2>2. CASE ~\E k \in 1..Len(frames) : frames[k].list = l
    <3>1. Consumed(l) = 0
      BY <2>2 DEF Consumed
    <3> QED BY <2>2, <3>1 DEF Elem
  <2> QED BY <2>1, <2>2
<1>2. \A c \in ElemCells : c[1] \in Lists /\ c[2] \in 1..MaxLen
  BY DEF ElemCells
<1> QED BY <1>1, <1>2 DEF heldBar, HeldIn, ElemCells

\* The same after a step.
LEMMA HeldIsPrime ==
  ASSUME frames' \in Seq(FrameType), OneFrame(frames')
  PROVE  heldBar' = HeldIn(root', data', frames')
<1>1. ASSUME NEW l \in Lists, NEW i \in 1..MaxLen
      PROVE  LET k == Consumed(l)'
             IN  (IF i <= Len(data'[l]) /\ (k # 0 => i >= frames'[k].pos) THEN data'[l][i] ELSE NULL)
                 = Elem(data', frames', l, i)
  <2>0. Len(frames') \in Nat /\ \A k \in 1..Len(frames') : frames'[k].pos \in Nat
    <3>1. Len(frames') \in Nat /\ \A k \in 1..Len(frames') : frames'[k] \in FrameType
      OBVIOUS
    <3> QED BY <3>1 DEF FrameType
  <2>1. CASE \E k \in 1..Len(frames') : frames'[k].list = l
    <3>1. PICK k \in 1..Len(frames') : frames'[k].list = l
      BY <2>1
    <3>2. Consumed(l)' \in 1..Len(frames') /\ frames'[Consumed(l)'].list = l
      BY <2>1 DEF Consumed
    <3>3. Consumed(l)' = k /\ k # 0
      BY <3>1, <3>2 DEF OneFrame
    <3>4. \A m \in 1..Len(frames') : frames'[m].list = l => m = k
      BY <3>1 DEF OneFrame
    <3>5. (i >= frames'[k].pos) <=> (frames'[k].pos <= i)
      BY <2>0, <3>1
    <3> QED BY <3>1, <3>3, <3>4, <3>5 DEF Elem
  <2>2. CASE ~\E k \in 1..Len(frames') : frames'[k].list = l
    <3>1. Consumed(l)' = 0
      BY <2>2 DEF Consumed
    <3> QED BY <2>2, <3>1 DEF Elem
  <2> QED BY <2>1, <2>2
<1>2. \A c \in ElemCells : c[1] \in Lists /\ c[2] \in 1..MaxLen
  BY DEF ElemCells
<1> QED BY <1>1, <1>2 DEF heldBar, HeldIn, ElemCells

\* A list starting on its elements has taken none out.
Pushed(fs, o, force) == Append(fs, [list |-> o, pos |-> 1, force |-> force])

\* Starting on a list holds what was held.
LEMMA PushHolds ==
  ASSUME NEW r, NEW d, NEW fs \in Seq(FrameType), NEW o \in Lists, NEW force \in BOOLEAN
  PROVE  /\ Pushed(fs, o, force) \in Seq(FrameType)
         /\ HeldIn(r, d, Pushed(fs, o, force)) = HeldIn(r, d, fs)
         /\ StackOf(Pushed(fs, o, force)) = Append(StackOf(fs), [list |-> o, force |-> force])
<1> DEFINE f == [list |-> o, pos |-> 1, force |-> force]
           gs == Pushed(fs, o, force)
<1>1. f \in FrameType /\ f.list = o /\ f.pos = 1 /\ f.force = force
  BY DEF FrameType
<1> HIDE DEF f
<1>2. /\ gs \in Seq(FrameType) /\ Len(gs) = Len(fs) + 1 /\ gs[Len(fs) + 1] = f
      /\ \A k \in 1..Len(fs) : gs[k] = fs[k]
      /\ Len(fs) \in Nat
  BY <1>1 DEF f, Pushed
<1> HIDE DEF gs
<1>3. ASSUME NEW l \in Lists, NEW i \in 1..MaxLen PROVE Elem(d, gs, l, i) = Elem(d, fs, l, i)
  <2>1. (\A k \in 1..Len(gs) : gs[k].list = l => gs[k].pos <= i)
        <=> (\A k \in 1..Len(fs) : fs[k].list = l => fs[k].pos <= i)
    <3>1. \A k \in 1..Len(fs) : k \in 1..Len(gs)
      BY <1>2
    <3>2. \A k \in 1..Len(gs) : k \in 1..Len(fs) \/ k = Len(fs) + 1
      BY <1>2
    <3>3. 1 <= i
      OBVIOUS
    <3> QED BY <1>1, <1>2, <3>1, <3>2, <3>3
  <2> QED BY <2>1 DEF Elem
<1>4. HeldIn(r, d, gs) = HeldIn(r, d, fs)
  <2>1. \A c \in ElemCells : c[1] \in Lists /\ c[2] \in 1..MaxLen
    BY DEF ElemCells
  <2> QED BY <1>3, <2>1 DEF HeldIn
<1>5. StackOf(gs) = Append(StackOf(fs), [list |-> o, force |-> force])
  <2>1. StackOf(fs) \in Seq([list : Lists, force : BOOLEAN])
    <3> DEFINE T == [list : Lists, force : BOOLEAN]
               n == Len(fs)
    <3>1. \A k \in 1..n : fs[k] \in FrameType
      OBVIOUS
    <3>2. \A k \in 1..n : [list |-> fs[k].list, force |-> fs[k].force] \in T
      BY <3>1 DEF FrameType
    <3>3. n \in Nat /\ StackOf(fs) = [k \in 1..n |-> [list |-> fs[k].list, force |-> fs[k].force]]
      BY <1>2 DEF StackOf
    <3> HIDE DEF n, T
    <3>4. StackOf(fs) \in [1..n -> T]
      BY <3>2, <3>3
    <3>5. StackOf(fs) \in Seq(T)
      BY <3>3, <3>4
    <3> QED BY <3>5 DEF T
  <2>2. Len(StackOf(fs)) = Len(fs)
    BY <1>2 DEF StackOf
  <2> DEFINE s == StackOf(fs)
             e == [list |-> o, force |-> force]
  <2>3. Append(s, e) = [k \in 1..(Len(s) + 1) |-> IF k = Len(s) + 1 THEN e ELSE s[k]]
    BY <2>1
  <2>4. \A k \in 1..Len(fs) : s[k] = [list |-> fs[k].list, force |-> fs[k].force]
    BY DEF StackOf
  <2>5. \A k \in 1..(Len(fs) + 1) : k = Len(fs) + 1 \/ (k \in 1..Len(fs) /\ k # Len(fs) + 1)
    BY <1>2
  <2> HIDE DEF s
  <2>6. ASSUME NEW k \in 1..(Len(fs) + 1)
        PROVE  [list |-> gs[k].list, force |-> gs[k].force]
               = IF k = Len(s) + 1 THEN e ELSE s[k]
    BY <1>1, <1>2, <2>2, <2>4, <2>5 DEF s
  <2> QED BY <1>2, <2>2, <2>3, <2>6 DEF StackOf, s
<1> QED BY <1>2, <1>4, <1>5 DEF gs

-----------------------------------------------------------------------------
(* The inductive invariant.                                                *)

WalkType == [heap : Heaps, pass : {1, 2}, current : Ptr, previous : Ptr,
             resume : BOOLEAN, wasTop : BOOLEAN, number : Nat, before : SUBSET Obj]

\* Where the activations of Suicidal are; a collection only makes forced ones.
FramesOK ==
  /\ frames \in Seq(FrameType) /\ OneFrame(frames)
  /\ \A k \in 1..Len(frames) :
       /\ frames[k].pos <= Len(data[frames[k].list]) + 1
       /\ walk # NoGC => frames[k].force

DataOK ==
  /\ DataType
  /\ \A l \in Lists : Len(data[l]) <= MaxLen
  /\ \A l \in Lists \ live : data[l] = <<>>

\* What a collection is about to look at is an object of its heap, and while
\* Suicidal runs the collection waits for it.
WalkOK ==
  \/ walk = NoGC
  \/ /\ walk \in WalkType
     /\ frames # <<>> => walk.resume
     /\ ~walk.resume /\ walk.current # NULL =>
          walk.current \in live /\ links.heap[walk.current] = walk.heap
     /\ walk.previous # NULL => links.heap[walk.previous] = walk.heap

Shape == root \in [Vars \cup Args -> Ptr] /\ fault \in {"none", "uaf", "crash"}

Lasting == FramesOK /\ DataOK /\ WalkOK /\ Shape /\ Sound(links, live) /\ Ranked

HInv == Lasting /\ P!IInv

\* A collection is under way exactly when it has a heap.
LEMMA NoWalk == WalkOK => (walk = NoGC <=> walk.heap = NULL)
BY NullIs DEF WalkOK, WalkType, NoGC

\* The places of the lists are cells.
LEMMA CellIs == \A l \in Lists, i \in 1..MaxLen : <<l, i>> \in P!Cells
BY DEF P!Cells, P!ElemCells

\* What is held depends on roots, lists and activations only.
LEMMA SameHeld ==
  ASSUME UNCHANGED <<root, data, frames>>
  PROVE  heldBar' = heldBar /\ stackBar' = stackBar
BY DEF heldBar, stackBar, Consumed

\* Suicidal runs in both states or in neither.
LEMMA EmptyStack ==
  ASSUME FramesOK
  PROVE  stackBar = <<>> <=> frames = <<>>
<1>1. Len(frames) \in Nat /\ (Len(frames) = 0 <=> frames = <<>>)
  BY DEF FramesOK
<1>2. DOMAIN stackBar = 1..Len(frames)
  BY DEF stackBar
<1>3. ASSUME frames = <<>> PROVE stackBar = <<>>
  BY <1>3 DEF stackBar
<1>4. ASSUME frames # <<>> PROVE stackBar # <<>>
  <2>1. 1 \in DOMAIN stackBar
    BY <1>1, <1>2, <1>4
  <2>2. 1 \notin DOMAIN << >>
    OBVIOUS
  <2> QED BY <2>1, <2>2
<1> QED BY <1>3, <1>4

\* Between two calls here, between two calls there.
LEMMA IdleIs ==
  ASSUME FramesOK, WalkOK, Idle
  PROVE  P!Idle /\ frames = <<>> /\ walk = NoGC
BY EmptyStack, NoWalk DEF P!Idle, Idle

\* The cells of lists are not those of variables and arguments.
LEMMA CellsApart ==
  /\ \A c \in Vars \cup Args : c \notin ElemCells
  /\ \A l \in Lists, i \in 1..MaxLen : <<l, i>> \in ElemCells /\ <<l, i>> \notin Vars \cup Args
BY PointerAssumption DEF ElemCells

\* A variable holds its value.
LEMMA RootHeld ==
  ASSUME FramesOK, NEW c \in Vars \cup Args
  PROVE  heldBar[c] = root[c]
BY HeldIs DEF FramesOK, HeldIn

\* A place of a list holds its element, unless it was taken out.
LEMMA ElemHeld ==
  ASSUME FramesOK, NEW l \in Lists, NEW i \in 1..MaxLen
  PROVE  heldBar[<<l, i>>] = Elem(data, frames, l, i)
BY HeldIs, CellsApart DEF FramesOK, HeldIn

\* Between two calls, nothing is taken out.
LEMMA IdleElem ==
  ASSUME FramesOK, frames = <<>>, NEW l \in Lists, NEW i \in 1..MaxLen
  PROVE  heldBar[<<l, i>>] = IF i <= Len(data[l]) THEN data[l][i] ELSE NULL
<1>1. \A k \in 1..Len(frames) : FALSE
  OBVIOUS
<1> QED BY <1>1, ElemHeld DEF Elem

\* Between two calls, what a list holds is alive.
LEMMA IdleKids ==
  ASSUME HInv, frames = <<>>, NEW l \in Lists, NEW k \in 1..Len(data[l])
  PROVE  k \in 1..MaxLen /\ heldBar[<<l, k>>] = data[l][k] /\ data[l][k] \in live /\ data[l][k] \in Obj
<1>1. data[l] \in Seq(Obj) /\ Len(data[l]) \in Nat /\ Len(data[l]) <= MaxLen /\ MaxLen \in Nat
  BY PointerAssumption DEF HInv, Lasting, DataOK, DataType
<1>2. k \in 1..MaxLen /\ data[l][k] \in Obj /\ data[l][k] # NULL
  BY <1>1, NullIs
<1>3. heldBar[<<l, k>>] = data[l][k]
  BY <1>1, <1>2, IdleElem DEF HInv, Lasting
<1>4. <<l, k>> \in P!Cells
  BY <1>2 DEF P!Cells, P!ElemCells
<1> QED BY <1>2, <1>3, <1>4 DEF HInv, P!IInv, P!NoDangling

Put(f, c, v) == [f EXCEPT ![c] = v]

\* Writing a variable writes its cell.
LEMMA RootWrite ==
  ASSUME NEW r \in [Vars \cup Args -> Ptr], NEW d, NEW fs, NEW c \in Vars \cup Args, NEW v
  PROVE  HeldIn(Put(r, c, v), d, fs) = Put(HeldIn(r, d, fs), c, v)
BY DEF HeldIn, Put

\* What Suicidal does to this state and to the one it stands for.
Died(o, ref, force, below) ==
  /\ frames' \in Seq(FrameType) /\ OneFrame(frames')
  /\ Sound(links', live') /\ links'.heap = links.heap
  /\ live' \subseteq live /\ Lists \ live' = Lists \ live
  /\ \A r, d : HeldIn(r, d, frames') = HeldIn(r, d, below)
  /\ \A k \in 1..Len(frames') :
       \/ k \in 1..Len(below) /\ frames'[k] = below[k]
       \/ frames'[k] = [list |-> o, pos |-> 1, force |-> force]
  /\ IF P!Dies(o, ref, force) /\ o \in Lists
     THEN /\ StackOf(frames') = Append(StackOf(below), [list |-> o, force |-> force])
          /\ live' = live
     ELSE /\ StackOf(frames') = StackOf(below)
          /\ live' = IF P!Dies(o, ref, force) THEN live \ {o} ELSE live

\* Suicidal, on any activations that do not run on its object.
LEMMA Dying ==
  ASSUME Sound(links, live), live \in SUBSET Obj,
         NEW below \in Seq(FrameType), OneFrame(below),
         NEW o \in live, NEW ref, NEW force \in BOOLEAN,
         o \in Lists /\ Dies(o, ref, force) => \A k \in 1..Len(below) : below[k].list # o,
         Suicidal(o, ref, force, below)
  PROVE  Died(o, ref, force, below)
<1>1. P!Dies(o, ref, force) <=> Dies(o, ref, force)
  BY DEF P!Dies, P!IsEternal, Dies, IsEternal
<1>2. CASE Dies(o, ref, force) /\ o \in Lists
  <2> DEFINE new == [list |-> o, pos |-> 1, force |-> force]
  <2>1. frames' = Append(below, new) /\ UNCHANGED <<live, links>>
    BY <1>2 DEF Suicidal
  <2>2. /\ frames' \in Seq(FrameType)
        /\ \A r, d : HeldIn(r, d, frames') = HeldIn(r, d, below)
        /\ StackOf(frames') = Append(StackOf(below), [list |-> o, force |-> force])
    <3>1. frames' = Pushed(below, o, force)
      BY <2>1 DEF Pushed
    <3>2. ASSUME NEW r, NEW d
          PROVE  /\ frames' \in Seq(FrameType)
                 /\ HeldIn(r, d, frames') = HeldIn(r, d, below)
                 /\ StackOf(frames') = Append(StackOf(below), [list |-> o, force |-> force])
      <4>1. o \in Lists
        BY <1>2
      <4> QED BY <3>1, <4>1, PushHolds
    <3> QED BY <3>2
  <2>3. \A k \in 1..Len(frames') : (k \in 1..Len(below) /\ frames'[k] = below[k]) \/ (k = Len(below) + 1 /\ frames'[k] = new)
    BY <2>1
  <2>4. new.list = o
    OBVIOUS
  <2> HIDE DEF new
  <2>5. OneFrame(frames')
    <3>1. ASSUME NEW j \in 1..Len(frames'), NEW k \in 1..Len(frames'), frames'[j].list = frames'[k].list
          PROVE  j = k
      BY <1>2, <2>3, <2>4, <3>1 DEF OneFrame
    <3> QED BY <3>1 DEF OneFrame
  <2> QED BY <1>1, <1>2, <2>1, <2>2, <2>3, <2>5 DEF new, Died
<1>3. CASE Dies(o, ref, force) /\ o \notin Lists
  <2>1. frames' = below /\ live' = live \ {o} /\ links' = Free(links, o)
    BY <1>3 DEF Suicidal
  <2>2. Sound(links', live') /\ links'.heap = links.heap
    BY <2>1, FreeSound
  <2> QED BY <1>1, <1>3, <2>1, <2>2 DEF Died
<1>4. CASE ~Dies(o, ref, force)
  <2>1. frames' = below /\ UNCHANGED <<live, links>>
    BY <1>4 DEF Suicidal
  <2> QED BY <1>1, <1>4, <2>1 DEF Died
<1> QED BY <1>2, <1>3, <1>4

-----------------------------------------------------------------------------
(* Each action is a step of SQIObject, or changes nothing of it, and keeps  *)
(* the invariant of the pointers.                                          *)

\* A heap of eternal objects stays one, and so on: Ranked speaks of nothing else.
LEMMA RankedStays ==
  ASSUME Ranked, data' = data, \A o \in Obj : IsEternal(o)' = IsEternal(o), DataType
  PROVE  Ranked'
<1>1. PICK N \in Nat, rank \in [Obj -> Nat] : (\A o \in Obj : rank[o] < N) /\ Falls(rank)
  BY DEF Ranked
<1>2. \A l \in Lists : l \in Obj /\ \A k \in 1..Len(data[l]) : data[l][k] \in Obj
  BY PointerAssumption DEF DataType
<1>3. Falls(rank)'
  BY <1>1, <1>2 DEF Falls
<1> QED BY <1>1, <1>3 DEF Ranked

\* The steps that leave the lists, the heaps and the activations alone.
LEMMA OnlyRoots ==
  ASSUME HInv, UNCHANGED <<live, links, data, frames, walk, fault>>,
         root' \in [Vars \cup Args -> Ptr]
  PROVE  Lasting' /\ stackBar' = stackBar
<1>1. FramesOK' /\ DataOK' /\ WalkOK' /\ Shape'
  BY DEF HInv, Lasting, FramesOK, DataOK, DataType, WalkOK, Shape
<1>2. Sound(links', live')
  BY DEF HInv, Lasting
<1>3. Ranked'
  BY RankedStays DEF HInv, Lasting, DataOK, IsEternal
<1>4. stackBar' = stackBar
  BY DEF stackBar
<1> QED BY <1>1, <1>2, <1>3, <1>4 DEF Lasting

\* RootWrite, for the variables of this state.
LEMMA RootPut ==
  ASSUME root \in [Vars \cup Args -> Ptr], NEW c \in Vars \cup Args, NEW v
  PROVE  HeldIn(Put(root, c, v), data, frames) = Put(HeldIn(root, data, frames), c, v)
BY RootWrite

\* AddSound, for the links of this state.
LEMMA AddNow ==
  ASSUME Sound(links, live), live \in SUBSET Obj, NEW o \in Obj \ live, NEW h \in Heaps
  PROVE  /\ Sound(AddObject(links, o, h), live \cup {o})
         /\ AddObject(links, o, h).heap = [links.heap EXCEPT ![o] = h]
BY AddSound

\* A step that writes one variable writes one cell.
LEMMA HeldAfter ==
  ASSUME HInv, UNCHANGED <<data, frames>>, NEW c \in Vars \cup Args, NEW v,
         root' = [root EXCEPT ![c] = v]
  PROVE  heldBar' = [heldBar EXCEPT ![c] = v]
<1>1. FramesOK /\ frames' \in Seq(FrameType) /\ OneFrame(frames') /\ root \in [Vars \cup Args -> Ptr]
  BY DEF HInv, Lasting, FramesOK, Shape
<1>2. heldBar' = HeldIn(root', data, frames)
  BY <1>1, HeldIsPrime
<1>3. heldBar = HeldIn(root, data, frames)
  BY <1>1, HeldIs DEF FramesOK
<1>4. HeldIn(Put(root, c, v), data, frames) = Put(HeldIn(root, data, frames), c, v)
  BY <1>1, RootPut
<1> QED BY <1>2, <1>3, <1>4 DEF Put

\* SQI_VarMap::Set on a new name, SQI_Args::push_back.
LEMMA HoldStep ==
  ASSUME HInv, NEW c \in Vars \cup Args, NEW o \in Obj, Hold(c, o)
  PROVE  Lasting' /\ P!Hold(c, o)
<1>1. P!Idle /\ heldBar[c] = root[c] /\ root \in [Vars \cup Args -> Ptr]
  BY IdleIs, RootHeld DEF HInv, Lasting, Hold, Shape
<1>2. root' \in [Vars \cup Args -> Ptr]
  BY <1>1 DEF Hold, Ptr
<1>3. Lasting' /\ stackBar' = stackBar
  BY <1>2, OnlyRoots DEF Hold
<1>4. heldBar' = [heldBar EXCEPT ![c] = o]
  BY HeldAfter DEF Hold
<1>5. P!Hold(c, o)
  BY <1>1, <1>3, <1>4 DEF P!Hold, Hold
<1> QED BY <1>3, <1>5

\* ~SQI_Args.
LEMMA DropArgStep ==
  ASSUME HInv, NEW a \in Args, DropArg(a)
  PROVE  Lasting' /\ P!DropArg(a)
<1>1. P!Idle /\ heldBar[a] = root[a] /\ root \in [Vars \cup Args -> Ptr]
  BY IdleIs, RootHeld DEF HInv, Lasting, DropArg, Shape
<1>2. root' \in [Vars \cup Args -> Ptr]
  BY <1>1 DEF DropArg, Ptr
<1>3. Lasting' /\ stackBar' = stackBar
  BY <1>2, OnlyRoots DEF DropArg
<1>4. heldBar' = [heldBar EXCEPT ![a] = NULL]
  BY HeldAfter DEF DropArg
<1>5. P!DropArg(a)
  BY <1>1, <1>3, <1>4 DEF P!DropArg, DropArg
<1> QED BY <1>3, <1>5

\* A call that lets go of an object between two calls.
LEMMA LetGo ==
  ASSUME HInv, Idle, UNCHANGED <<data, walk, fault>>, NEW v \in Vars, NEW w \in Ptr, NEW ref,
         root' = [root EXCEPT ![v] = w], root[v] # NULL,
         Suicidal(root[v], ref, FALSE, frames)
  PROVE  /\ Lasting' /\ P!Suicidal(root[v], ref, FALSE)
         /\ heldBar' = [heldBar EXCEPT ![v] = w] /\ links'.heap = links.heap
<1> DEFINE o == root[v]
<1>1. P!Idle /\ frames = <<>> /\ walk = NoGC /\ heldBar[v] = o
  BY IdleIs, RootHeld DEF HInv, Lasting
<1>2. /\ Sound(links, live) /\ live \in SUBSET Obj /\ frames \in Seq(FrameType) /\ OneFrame(frames)
      /\ root \in [Vars \cup Args -> Ptr] /\ FALSE \in BOOLEAN
  BY DEF HInv, Lasting, FramesOK, Shape, P!IInv, P!TypeOK
<1>3. o \in live
  BY <1>1 DEF HInv, P!IInv, P!NoDangling, P!Cells
<1>4. \A k \in 1..Len(frames) : FALSE
  BY <1>1
<1> HIDE DEF o
<1>5. /\ frames' \in Seq(FrameType) /\ OneFrame(frames')
      /\ Sound(links', live') /\ links'.heap = links.heap
      /\ live' \subseteq live /\ Lists \ live' = Lists \ live
      /\ HeldIn(root', data, frames') = HeldIn(root', data, frames)
      /\ \A k \in 1..Len(frames') : frames'[k] = [list |-> o, pos |-> 1, force |-> FALSE]
      /\ IF P!Dies(o, ref, FALSE) /\ o \in Lists
         THEN /\ StackOf(frames') = Append(StackOf(frames), [list |-> o, force |-> FALSE])
              /\ live' = live
         ELSE /\ StackOf(frames') = StackOf(frames)
              /\ live' = IF P!Dies(o, ref, FALSE) THEN live \ {o} ELSE live
  <2>1. Suicidal(o, ref, FALSE, frames)
    BY DEF o
  <2>2. Died(o, ref, FALSE, frames)
    BY <1>2, <1>3, <1>4, <2>1, Dying
  <2> QED BY <1>4, <2>2 DEF Died
<1>6. stackBar = StackOf(frames) /\ stackBar' = StackOf(frames')
  BY DEF stackBar, StackOf
<1>7. P!Suicidal(o, ref, FALSE)
  BY <1>5, <1>6 DEF P!Suicidal
<1>8. heldBar' = [heldBar EXCEPT ![v] = w]
  <2>1. heldBar' = HeldIn(root', data, frames')
    BY <1>5, HeldIsPrime
  <2>2. heldBar = HeldIn(root, data, frames)
    BY <1>2, HeldIs
  <2>3. HeldIn(Put(root, v, w), data, frames) = Put(HeldIn(root, data, frames), v, w)
    BY <1>2, RootPut
  <2> QED BY <1>5, <2>1, <2>2, <2>3 DEF Put
<1>9. FramesOK'
  <2>1. ASSUME NEW k \in 1..Len(frames')
        PROVE  frames'[k].pos <= Len(data[frames'[k].list]) + 1
    <3>1. frames'[k].pos = 1 /\ frames'[k].list = o /\ frames'[k] \in FrameType
      BY <1>5
    <3>2. o \in Lists
      BY <3>1 DEF FrameType
    <3>3. Len(data[o]) \in Nat
      BY <3>2 DEF HInv, Lasting, DataOK, DataType
    <3> QED BY <3>1, <3>3
  <2> QED BY <1>1, <1>5, <2>1 DEF FramesOK
<1>10. DataOK' /\ Shape' /\ WalkOK' /\ Ranked'
  <2>1. DataOK'
    BY <1>5 DEF HInv, Lasting, DataOK, DataType
  <2>2. Shape'
    BY <1>2 DEF HInv, Lasting, Shape
  <2>3. WalkOK'
    BY <1>1 DEF WalkOK
  <2>4. Ranked'
    BY <1>5, RankedStays DEF HInv, Lasting, DataOK, IsEternal
  <2> QED BY <2>1, <2>2, <2>3, <2>4
<1> QED BY <1>5, <1>7, <1>8, <1>9, <1>10 DEF Lasting, o

\* SQI_VarMap::Remove and Clean.
LEMMA ReleaseStep ==
  ASSUME HInv, NEW v \in Vars, Release(v)
  PROVE  Lasting' /\ P!Release(v)
<1>1. P!Idle /\ heldBar[v] = root[v]
  BY IdleIs, RootHeld DEF HInv, Lasting, Release
<1>2. /\ Lasting' /\ P!Suicidal(root[v], Less1(REF[root[v]]), FALSE)
      /\ heldBar' = [heldBar EXCEPT ![v] = NULL] /\ links'.heap = links.heap
  BY LetGo DEF Release, Ptr
<1> QED BY <1>1, <1>2 DEF P!Release, Release, Less1, P!Less1

\* SQI_VarMap::Set on a name that has a value.
LEMMA ReplaceStep ==
  ASSUME HInv, NEW v \in Vars, NEW o \in Obj, Replace(v, o)
  PROVE  Lasting' /\ P!Replace(v, o)
<1>1. P!Idle /\ heldBar[v] = root[v]
  BY IdleIs, RootHeld DEF HInv, Lasting, Replace
<1>2. /\ Lasting' /\ P!Suicidal(root[v], Less1([REF EXCEPT ![o] = @ + 1][root[v]]), FALSE)
      /\ heldBar' = [heldBar EXCEPT ![v] = o] /\ links'.heap = links.heap
  BY LetGo DEF Replace, Ptr
<1> QED BY <1>1, <1>2 DEF P!Replace, Replace, Less1, P!Less1

\* A new object.
LEMMA NewStep ==
  ASSUME HInv, NEW o \in Obj, NEW h \in Heaps, New(o, h)
  PROVE  Lasting' /\ P!New(o, h)
<1>1. P!Idle /\ frames = <<>> /\ walk = NoGC
  BY IdleIs DEF HInv, Lasting, New
<1>2. Sound(links', live') /\ links'.heap = [links.heap EXCEPT ![o] = h]
  <2>1. Sound(links, live) /\ live \in SUBSET Obj
    BY DEF HInv, Lasting, P!IInv, P!TypeOK
  <2>2. live' = live \cup {o} /\ links' = AddObject(links, o, h) /\ o \in Obj \ live
    BY DEF New
  <2>3. /\ Sound(AddObject(links, o, h), live \cup {o})
        /\ AddObject(links, o, h).heap = [links.heap EXCEPT ![o] = h]
    BY <2>1, <2>2, AddNow
  <2> QED BY <2>2, <2>3
<1>3. heldBar' = heldBar /\ stackBar' = stackBar
  BY SameHeld DEF New
<1>4. P!New(o, h)
  BY <1>1, <1>2, <1>3, NoWalk DEF P!New, New
<1>5. FramesOK' /\ DataOK' /\ Shape' /\ WalkOK'
  <2>1. FramesOK'
    BY DEF HInv, Lasting, FramesOK, New
  <2>2. DataOK'
    BY DEF HInv, Lasting, DataOK, DataType, New
  <2>3. Shape' /\ WalkOK'
    BY <1>1 DEF HInv, Lasting, Shape, WalkOK, New
  <2> QED BY <2>1, <2>2, <2>3
<1>6. Ranked'
  <2>1. PICK N \in Nat, rank \in [Obj -> Nat] : (\A x \in Obj : rank[x] < N) /\ Falls(rank)
    BY DEF HInv, Lasting, Ranked
  <2>2. ASSUME NEW l \in Lists, NEW k \in 1..Len(data[l])
        PROVE  l # o /\ data[l][k] # o /\ data[l][k] \in Obj
    <3>1. data[l][k] \in live /\ data[l][k] \in Obj
      BY <1>1, IdleKids
    <3>2. data[l] # <<>>
      OBVIOUS
    <3>3. l \in live
      BY <3>2 DEF HInv, Lasting, DataOK
    <3> QED BY <3>1, <3>3 DEF New
  <2>3. \A x \in Obj \ {o} : links'.heap[x] = links.heap[x]
    BY <1>2 DEF HInv, Lasting, Sound, LinksType
  <2>4. \A l \in Lists : l \in Obj
    BY PointerAssumption
  <2>5. data' = data
    BY DEF New
  <2>6. Falls(rank)'
    <3>1. ASSUME NEW l \in Lists, NEW k \in 1..Len(data[l])
          PROVE  links'.heap[l] \in EternalHeaps \/ links'.heap[data[l][k]] \in EternalHeaps
                 \/ rank[data[l][k]] < rank[l]
      <4>1. l \in Obj \ {o} /\ data[l][k] \in Obj \ {o}
        BY <2>2, <2>4
      <4>2. IsEternal(l) \/ IsEternal(data[l][k]) \/ rank[data[l][k]] < rank[l]
        BY <2>1 DEF Falls
      <4> QED BY <2>3, <4>1, <4>2 DEF IsEternal
    <3> QED BY <2>5, <3>1 DEF Falls, IsEternal
  <2> QED BY <2>1, <2>6 DEF Ranked
<1> QED BY <1>2, <1>4, <1>5, <1>6 DEF Lasting

\* S holds what its lists hold, except the eternal objects.
Shut(S) ==
  \A l \in S \cap Lists : \A k \in 1..Len(data[l]) :
    ~IsEternal(data[l][k]) => data[l][k] \in S

\* This is what SQIObject says of the cells.
LEMMA ShutIsClosed ==
  ASSUME HInv, frames = <<>>, NEW S
  PROVE  Shut(S) <=> P!Closed(S)
<1>1. ASSUME NEW l \in Lists, NEW k \in 1..Len(data[l])
      PROVE  k \in 1..MaxLen /\ heldBar[<<l, k>>] = data[l][k] /\ data[l][k] # NULL
  BY IdleKids, NullIs
<1>2. ASSUME NEW l \in Lists, NEW i \in 1..MaxLen, heldBar[<<l, i>>] # NULL
      PROVE  i \in 1..Len(data[l]) /\ heldBar[<<l, i>>] = data[l][i]
  <2>1. Len(data[l]) \in Nat
    BY DEF HInv, Lasting, DataOK, DataType
  <2>2. FramesOK
    BY DEF HInv, Lasting
  <2>3. i <= Len(data[l]) /\ heldBar[<<l, i>>] = data[l][i]
    BY <1>2, <2>2, IdleElem
  <2> QED BY <2>1, <2>3
<1>3. ASSUME Shut(S) PROVE P!Closed(S)
  BY <1>2, <1>3 DEF Shut, P!Closed, P!IsEternal, IsEternal
<1>4. ASSUME P!Closed(S) PROVE Shut(S)
  BY <1>1, <1>4 DEF Shut, P!Closed, P!IsEternal, IsEternal
<1> QED BY <1>3, <1>4

\* What Export visits is in every such set the object is in, and is one.
LEMMA VisitedStays ==
  ASSUME DataType, Ranked
  PROVE  \A o \in Obj : \A S : o \in S /\ Shut(S) => Visited(o) \subseteq S
<1>1. PICK N \in Nat, rank \in [Obj -> Nat] : (\A o \in Obj : rank[o] < N) /\ Falls(rank)
  BY DEF Ranked
<1> DEFINE In(o) == \A S : o \in S /\ Shut(S) => Visited(o) \subseteq S
           G == {o \in Obj : In(o)}
<1>2. ASSUME NEW o \in Obj, \A e \in Obj : rank[e] < rank[o] => e \in G
      PROVE  o \in G
  <2>1. ASSUME NEW S, o \in S, Shut(S), ~IsEternal(o), o \in Lists, NEW k \in 1..Len(data[o])
        PROVE  Visited(data[o][k]) \subseteq S
    <3>1. data[o][k] \in Obj
      BY <2>1 DEF DataType
    <3>2. CASE IsEternal(data[o][k])
      BY <3>1, <3>2, VisitedIs
    <3>3. CASE ~IsEternal(data[o][k])
      <4>1. data[o][k] \in S
        BY <2>1, <3>3 DEF Shut
      <4>2. rank[data[o][k]] < rank[o]
        BY <1>1, <2>1, <3>3 DEF Falls
      <4> QED BY <1>2, <2>1, <3>1, <4>1, <4>2
    <3> QED BY <3>2, <3>3
  <2>2. ASSUME NEW S, o \in S, Shut(S) PROVE Visited(o) \subseteq S
    <3>1. CASE ~IsEternal(o) /\ o \in Lists
      <4>1. \A x : x \in Visited(o) <=> x = o \/ \E k \in 1..Len(data[o]) : x \in Visited(data[o][k])
        BY <3>1, VisitedIs
      <4> QED BY <2>1, <2>2, <3>1, <4>1
    <3>2. CASE IsEternal(o) \/ o \notin Lists
      BY <2>2, <3>2, VisitedIs
    <3> QED BY <3>1, <3>2
  <2> QED BY <2>2
<1>3. Obj \subseteq G
  <2> HIDE DEF G
  <2> QED BY <1>2, RankInduction
<1> QED BY <1>3

\* Export goes into every list it meets.
LEMMA VisitedShut ==
  ASSUME DataType, Ranked
  PROVE  \A o \in Obj : Shut(Visited(o))
<1>1. PICK N \in Nat, rank \in [Obj -> Nat] : (\A o \in Obj : rank[o] < N) /\ Falls(rank)
  BY DEF Ranked
<1> DEFINE G == {o \in Obj : Shut(Visited(o))}
<1>2. ASSUME NEW o \in Obj, \A e \in Obj : rank[e] < rank[o] => e \in G
      PROVE  o \in G
  <2>1. CASE IsEternal(o) \/ o \notin Lists
    BY <2>1, VisitedIs DEF Shut
  <2>2. CASE ~IsEternal(o) /\ o \in Lists
    <3>0. \A x : x \in Visited(o) <=> x = o \/ \E k \in 1..Len(data[o]) : x \in Visited(data[o][k])
      BY <2>2, VisitedIs
    <3>1. ASSUME NEW l \in Visited(o) \cap Lists, NEW k \in 1..Len(data[l]), ~IsEternal(data[l][k])
          PROVE  data[l][k] \in Visited(o)
      <4>0. data[l][k] \in Obj
        BY DEF DataType
      <4>1. CASE l = o
        <5>1. data[l][k] \in Visited(data[l][k])
          <6>1. CASE data[l][k] \in Lists
            BY <3>1, <4>0, <6>1, VisitedIs
          <6>2. CASE data[l][k] \notin Lists
            BY <3>1, <4>0, <6>2, VisitedIs
          <6> QED BY <6>1, <6>2
        <5> QED BY <3>0, <4>1, <5>1
      <4>2. CASE l # o
        <5>1. PICK m \in 1..Len(data[o]) : l \in Visited(data[o][m])
          BY <3>0, <4>2
        <5>2. data[o][m] \in Obj
          BY <2>2 DEF DataType
        <5>3. ~IsEternal(data[o][m])
          BY <5>1, <5>2, VisitedIs
        <5>4. rank[data[o][m]] < rank[o]
          BY <1>1, <2>2, <5>3 DEF Falls
        <5>5. Shut(Visited(data[o][m]))
          BY <1>2, <5>2, <5>4
        <5>6. data[l][k] \in Visited(data[o][m])
          BY <3>1, <5>1, <5>5 DEF Shut
        <5> QED BY <3>0, <5>6
      <4> QED BY <4>1, <4>2
    <3> QED BY <3>1 DEF Shut
  <2> QED BY <2>1, <2>2
<1>3. Obj \subseteq G
  <2> HIDE DEF G
  <2> QED BY <1>2, RankInduction
<1> QED BY <1>3

\* Export visits what SQIObject says is exported.
LEMMA VisitedIsExported ==
  ASSUME HInv, frames = <<>>, NEW o \in live
  PROVE  /\ Visited(o) = P!Exported(o) /\ Visited(o) \subseteq live
         /\ ~IsEternal(o) => o \in Visited(o)
         /\ \A x \in Visited(o) : ~IsEternal(x)
<1>1. DataType /\ Ranked /\ o \in Obj /\ live \subseteq Obj
  BY DEF HInv, Lasting, DataOK, P!IInv, P!TypeOK
<1>2. Visited(o) \subseteq Obj
  BY <1>1, VisitedIs
<1>3. ~IsEternal(o) => o \in Visited(o)
  <2>1. CASE o \in Lists
    BY <1>1, <2>1, VisitedIs
  <2>2. CASE o \notin Lists
    BY <1>1, <2>2, VisitedIs
  <2> QED BY <2>1, <2>2
<1>4. IsEternal(o) => Visited(o) = {}
  BY <1>1, VisitedIs
<1>5. Visited(o) \subseteq live
  <2>1. Shut(live)
    BY IdleKids DEF Shut
  <2> QED BY <1>1, <2>1, VisitedStays
<1>6. \A x \in Visited(o) : ~IsEternal(x)
  <2> DEFINE S == {x \in Obj : ~IsEternal(x)}
  <2>1. Shut(S)
    BY <1>1 DEF Shut, DataType
  <2>2. CASE ~IsEternal(o)
    <3>1. o \in S
      BY <1>1, <2>2
    <3> HIDE DEF S
    <3>2. Visited(o) \subseteq S
      BY <1>1, <2>1, <3>1, VisitedStays
    <3> QED BY <3>2 DEF S
  <2>3. CASE IsEternal(o)
    BY <1>4, <2>3
  <2> QED BY <2>2, <2>3
<1>7. P!IsEternal(o) <=> IsEternal(o)
  BY DEF P!IsEternal, IsEternal
<1>8. P!Exported(o) \subseteq Visited(o)
  <2>1. ASSUME NEW x \in P!Exported(o) PROVE x \in Visited(o)
    <3>1. ~IsEternal(o) /\ \A S \in SUBSET Obj : o \in S /\ P!Closed(S) => x \in S
      BY <1>7 DEF P!Exported
    <3>2. P!Closed(Visited(o))
      BY <1>1, VisitedShut, ShutIsClosed
    <3> QED BY <1>2, <1>3, <3>1, <3>2
  <2> QED BY <2>1
<1>9. Visited(o) \subseteq P!Exported(o)
  <2>1. ASSUME NEW x \in Visited(o) PROVE x \in P!Exported(o)
    <3>1. ~IsEternal(o)
      BY <1>4
    <3>2. ASSUME NEW S \in SUBSET Obj, o \in S, P!Closed(S) PROVE x \in S
      <4>1. Shut(S)
        BY <3>2, ShutIsClosed
      <4> QED BY <1>1, <3>2, <4>1, VisitedStays
    <3> QED BY <1>2, <1>7, <3>1, <3>2 DEF P!Exported
  <2> QED BY <2>1
<1> QED BY <1>3, <1>5, <1>6, <1>8, <1>9

\* Export leaves the lists sound, moves what SQIObject says, and makes nothing eternal.
LEMMA ExportIs ==
  ASSUME HInv, frames = <<>>, NEW o \in live, NEW h \in Heaps
  PROVE  /\ Sound(Export(o, h), live)
         /\ Export(o, h).heap = P!MovedTo(h, P!Exported(o))
         /\ h \notin EternalHeaps \/ IsEternal(o) =>
              \A x \in Obj : Export(o, h).heap[x] \in EternalHeaps <=> IsEternal(x)
<1>1. DataType /\ Ranked /\ o \in Obj /\ live \in SUBSET Obj /\ Sound(links, live)
  BY DEF HInv, Lasting, DataOK, P!IInv, P!TypeOK
<1> DEFINE s == ExportOrder[o]
<1>2. s \in Seq(Obj) /\ Visited(o) = Range(s)
  BY <1>1, OrderOfSeq DEF Visited
<1>3. /\ Visited(o) = P!Exported(o) /\ Visited(o) \subseteq live
      /\ ~IsEternal(o) => o \in Visited(o)
      /\ \A x \in Visited(o) : ~IsEternal(x)
      /\ IsEternal(o) => Visited(o) = {}
  BY <1>1, VisitedIs, VisitedIsExported
<1> HIDE DEF s
<1>4. \A x : x \in Visited(o) <=> \E i \in 1..Len(s) : s[i] = x
  BY <1>2 DEF Range
<1>5. s \in Seq(live)
  <2>1. \A i \in 1..Len(s) : s[i] \in live
    BY <1>3, <1>4
  <2> QED BY <1>2, <2>1
<1>6. Sound(Export(o, h), live) /\ Got(links, Export(o, h), s, Len(s), h)
  BY <1>1, <1>5, ExportSound DEF s
<1>7. Export(o, h).heap = [x \in Obj |-> IF x \in Visited(o) THEN h ELSE links.heap[x]]
  BY <1>4, <1>6 DEF Got
<1>8. Export(o, h).heap = P!MovedTo(h, P!Exported(o))
  BY <1>3, <1>7 DEF P!MovedTo
<1>9. ASSUME h \notin EternalHeaps \/ IsEternal(o), NEW x \in Obj
      PROVE  Export(o, h).heap[x] \in EternalHeaps <=> IsEternal(x)
  <2>1. Export(o, h).heap[x] = IF x \in Visited(o) THEN h ELSE links.heap[x]
    BY <1>7
  <2> QED BY <1>3, <1>9, <2>1 DEF IsEternal
<1> QED BY <1>6, <1>8, <1>9

\* Export to a heap.
LEMMA ExportToStep ==
  ASSUME HInv, NEW o \in Obj, NEW h \in Heaps, ExportTo(o, h)
  PROVE  Lasting' /\ P!Export(o, h)
<1>1. P!Idle /\ frames = <<>> /\ walk = NoGC
  BY IdleIs DEF HInv, Lasting, ExportTo
<1>2. /\ o \in live /\ h \in Heaps \ EternalHeaps /\ links' = Export(o, h)
      /\ UNCHANGED <<live, REF, contained, data, root, frames, walk, fault>>
  BY DEF ExportTo
<1>3. /\ Sound(links', live') /\ links'.heap = P!MovedTo(h, P!Exported(o))
      /\ \A x \in Obj : links'.heap[x] \in EternalHeaps <=> IsEternal(x)
  BY <1>1, <1>2, ExportIs
<1>4. heldBar' = heldBar /\ stackBar' = stackBar
  BY <1>2, SameHeld
<1>5. P!Export(o, h)
  BY <1>1, <1>2, <1>3, <1>4 DEF P!Export
<1>6. FramesOK' /\ DataOK' /\ Shape' /\ WalkOK'
  BY <1>1, <1>2 DEF HInv, Lasting, FramesOK, DataOK, DataType, Shape, WalkOK
<1>7. Ranked'
  BY <1>2, <1>3, RankedStays DEF HInv, Lasting, DataOK, IsEternal
<1> QED BY <1>3, <1>5, <1>6, <1>7 DEF Lasting

\* A list stays above what it gets, if it is not among it.
LEMMA Add2EndRanked ==
  ASSUME HInv, frames = <<>>, NEW l \in Lists, NEW o \in live, l \notin Visited(o),
         IsEternal(l) => IsEternal(o),
         data' = [data EXCEPT ![l] = Append(@, o)],
         \A x \in Obj : links'.heap[x] \in EternalHeaps <=> IsEternal(x)
  PROVE  Ranked'
<1>1. PICK N \in Nat, rank \in [Obj -> Nat] : (\A x \in Obj : rank[x] < N) /\ Falls(rank)
  BY DEF HInv, Lasting, Ranked
<1>2. DataType /\ Ranked /\ o \in Obj /\ Lists \subseteq Obj
  BY PointerAssumption DEF HInv, Lasting, DataOK, P!IInv, P!TypeOK
<1>u. PICK M, up : /\ M = N + rank[o] + 1
                   /\ up = [x \in Obj |-> IF x \in Visited(o) THEN rank[x] ELSE rank[x] + rank[o] + 1]
  OBVIOUS
<1>3. M \in Nat /\ up \in [Obj -> Nat] /\ \A x \in Obj : up[x] < M
  <2>1. rank[o] \in Nat /\ \A x \in Obj : rank[x] \in Nat /\ rank[x] < N
    BY <1>1, <1>2
  <2> QED BY <1>u, <2>1
<1>4. ASSUME NEW m \in Lists, NEW e \in Obj, ~IsEternal(m), ~IsEternal(e), rank[e] < rank[m],
             m \in Visited(o) => e \in Visited(o)
      PROVE  up[e] < up[m]
  <2>1. rank[o] \in Nat /\ rank[e] \in Nat /\ rank[m] \in Nat /\ m \in Obj
    BY <1>2
  <2> QED BY <1>u, <1>4, <2>1
<1>5. ~IsEternal(o) => up[o] < up[l]
  <2>1. ASSUME ~IsEternal(o) PROVE up[o] < up[l]
    <3>1. o \in Visited(o)
      BY <2>1, VisitedIsExported
    <3>2. rank[o] \in Nat /\ rank[l] \in Nat /\ l \in Obj
      BY <1>2
    <3> QED BY <1>u, <1>2, <3>1, <3>2
  <2> QED BY <2>1
<1>6. ASSUME NEW m \in Lists, NEW k \in 1..Len(data'[m]), ~IsEternal(m), ~IsEternal(data'[m][k])
      PROVE  up[data'[m][k]] < up[m]
  <2>1. \/ k \in 1..Len(data[m]) /\ data'[m][k] = data[m][k]
        \/ m = l /\ data'[m][k] = o
    <3>1. CASE m = l
      <4>1. data[l] \in Seq(Obj) /\ data'[l] = Append(data[l], o)
        BY <1>2 DEF DataType
      <4> QED BY <1>2, <3>1, <4>1
    <3>2. CASE m # l
      <4>1. data'[m] = data[m]
        BY <1>2, <3>2 DEF DataType
      <4> QED BY <4>1
    <3> QED BY <3>1, <3>2
  <2>2. CASE m = l /\ data'[m][k] = o
    BY <1>5, <1>6, <2>2
  <2>3. CASE k \in 1..Len(data[m]) /\ data'[m][k] = data[m][k]
    <3> DEFINE e == data[m][k]
    <3>1. e \in Obj
      BY <1>2, <2>3 DEF DataType
    <3>2. rank[e] < rank[m]
      BY <1>1, <1>6, <2>3 DEF Falls
    <3>3. m \in Visited(o) => e \in Visited(o)
      <4>1. Shut(Visited(o))
        BY <1>2, VisitedShut
      <4> QED BY <1>6, <2>3, <4>1 DEF Shut
    <3>4. ~IsEternal(m) /\ ~IsEternal(e)
      BY <1>6, <2>3
    <3> HIDE DEF e
    <3>5. up[e] < up[m]
      BY <1>4, <3>1, <3>2, <3>3, <3>4
    <3> QED BY <2>3, <3>5 DEF e
  <2> QED BY <2>1, <2>2, <2>3
<1>7. \A m \in Lists : m \in Obj /\ \A k \in 1..Len(data'[m]) : data'[m][k] \in Obj
  <2>1. data' \in [Lists -> Seq(Obj)]
    BY <1>2 DEF DataType
  <2> QED BY <1>2, <2>1
<1>8. Falls(up)'
  <2>1. ASSUME NEW m \in Lists, NEW k \in 1..Len(data'[m])
        PROVE  links'.heap[m] \in EternalHeaps \/ links'.heap[data'[m][k]] \in EternalHeaps
               \/ up[data'[m][k]] < up[m]
    BY <1>6, <1>7
  <2> QED BY <2>1 DEF Falls, IsEternal
<1> QED BY <1>3, <1>8 DEF Ranked

\* SQI_List::Add2End.
LEMMA Add2EndStep ==
  ASSUME HInv, NEW l \in Lists, NEW o \in Obj, Add2End(l, o)
  PROVE  Lasting' /\ P!Add2End(l, Len(data[l]) + 1, o) /\ Len(data[l]) + 1 \in 1..MaxLen
<1> DEFINE n == Len(data[l])
<1>1. P!Idle /\ frames = <<>> /\ walk = NoGC /\ FramesOK
  BY IdleIs DEF HInv, Lasting, Add2End
<1>2. /\ l \in live /\ o \in live
      /\ IsEternal(l) => IsEternal(o) /\ REF[l] = 0 /\ o # l
      /\ n < MaxLen /\ l \notin Visited(o)
      /\ data' = [data EXCEPT ![l] = Append(@, o)]
      /\ REF' = [REF EXCEPT ![o] = @ + 1]
      /\ contained' = [contained EXCEPT ![o] = @ + 1]
      /\ links' = Export(o, links.heap[l])
      /\ UNCHANGED <<live, root, frames, walk, fault>>
  BY DEF Add2End, Visited
<1>3. /\ DataType /\ n \in Nat /\ MaxLen \in Nat /\ data[l] \in Seq(Obj) /\ l \in Obj
      /\ links.heap[l] \in Heaps /\ \A m \in Lists : Len(data[m]) <= MaxLen
  BY PointerAssumption DEF HInv, Lasting, DataOK, DataType, Sound, LinksType
<1>4. /\ Sound(links', live') /\ links'.heap = P!MovedTo(links.heap[l], P!Exported(o))
      /\ \A x \in Obj : links'.heap[x] \in EternalHeaps <=> IsEternal(x)
  <2>1. links.heap[l] \notin EternalHeaps \/ IsEternal(o)
    BY <1>2 DEF IsEternal
  <2> QED BY <1>1, <1>2, <1>3, <2>1, ExportIs
<1>5. n + 1 \in 1..MaxLen
  BY <1>2, <1>3
<1>6. heldBar[<<l, n + 1>>] = NULL /\ \A j \in 1..n : heldBar[<<l, j>>] # NULL
  <2>1. ~(n + 1 <= n)
    BY <1>3
  <2>2. heldBar[<<l, n + 1>>] = NULL
    BY <1>1, <1>5, <2>1, IdleElem
  <2>3. \A j \in 1..n : heldBar[<<l, j>>] # NULL
    BY <1>1, IdleKids, NullIs
  <2> QED BY <2>2, <2>3
<1>7. data'[l] = Append(data[l], o) /\ Len(data'[l]) = n + 1 /\ data'[l][n + 1] = o
      /\ (\A k \in 1..n : data'[l][k] = data[l][k]) /\ data'[l] \in Seq(Obj)
      /\ \A m \in Lists \ {l} : data'[m] = data[m]
  BY <1>2, <1>3 DEF DataType
<1>8. heldBar' = [heldBar EXCEPT ![<<l, n + 1>>] = o] /\ stackBar' = stackBar
  <2>1. heldBar = HeldIn(root, data, <<>>)
    BY <1>1, HeldIs DEF FramesOK
  <2>2. heldBar' = HeldIn(root, data', <<>>)
    BY <1>1, <1>2, HeldIsPrime DEF FramesOK
  <2>3. \A d, m, i : Elem(d, <<>>, m, i) = IF i <= Len(d[m]) THEN d[m][i] ELSE NULL
    BY DEF Elem
  <2>4. ASSUME NEW m \in Lists, NEW i \in 1..MaxLen
        PROVE  Elem(data', <<>>, m, i) = IF m = l /\ i = n + 1 THEN o ELSE Elem(data, <<>>, m, i)
    <3>1. CASE m = l
      <4>1. i <= n + 1 <=> i = n + 1 \/ i \in 1..n
        BY <1>3
      <4>2. i <= n <=> i \in 1..n
        BY <1>3
      <4>3. ~(n + 1 <= n) /\ n + 1 <= n + 1
        BY <1>3
      <4> QED BY <1>7, <2>3, <3>1, <4>1, <4>2, <4>3
    <3>2. CASE m # l
      BY <1>7, <2>3, <3>2
    <3> QED BY <3>1, <3>2
  <2> DEFINE c == <<l, n + 1>>
  <2>5. c \in ElemCells /\ c \notin Vars \cup Args /\ c[1] = l /\ c[2] = n + 1
    BY <1>5, CellsApart
  <2>6. \A d \in ElemCells : d[1] \in Lists /\ d[2] \in 1..MaxLen /\ (d = c <=> d[1] = l /\ d[2] = n + 1)
    BY DEF ElemCells
  <2> HIDE DEF c
  <2>7. HeldIn(root, data', <<>>) = [HeldIn(root, data, <<>>) EXCEPT ![c] = o]
    BY <2>4, <2>5, <2>6 DEF HeldIn
  <2>8. stackBar' = stackBar
    BY <1>2 DEF stackBar
  <2> QED BY <2>1, <2>2, <2>7, <2>8 DEF c
<1>9. P!Add2End(l, n + 1, o)
  <2>1. \A j \in 1..(n + 1 - 1) : heldBar[<<l, j>>] # NULL
    BY <1>3, <1>6
  <2>2. l \notin P!Exported(o)
    BY <1>1, <1>2, VisitedIsExported
  <2>3. P!IsEternal(l) => P!IsEternal(o) /\ REF[l] = 0 /\ o # l
    BY <1>2 DEF P!IsEternal, IsEternal
  <2> QED BY <1>1, <1>2, <1>4, <1>5, <1>6, <1>8, <2>1, <2>2, <2>3 DEF P!Add2End
<1>10. DataOK'
  <2>1. data' \in [Lists -> Seq(Obj)]
    BY <1>2, <1>3, <1>7 DEF DataType
  <2>2. \A m \in Lists : Len(data'[m]) <= MaxLen
    BY <1>3, <1>5, <1>7
  <2>3. \A m \in Lists \ live' : data'[m] = <<>>
    BY <1>2, <1>7 DEF HInv, Lasting, DataOK
  <2> QED BY <2>1, <2>2, <2>3 DEF DataOK, DataType
<1>11. FramesOK' /\ Shape' /\ WalkOK'
  <2>1. FramesOK'
    BY <1>1, <1>2 DEF FramesOK
  <2>2. Shape' /\ WalkOK'
    BY <1>1, <1>2 DEF HInv, Lasting, Shape, WalkOK
  <2> QED BY <2>1, <2>2
<1>12. Ranked'
  BY <1>1, <1>2, <1>4, Add2EndRanked
<1> QED BY <1>4, <1>5, <1>9, <1>10, <1>11, <1>12 DEF Lasting

\* The activation at the top takes one more element out.
NextPos(fs) == [fs EXCEPT ![Len(fs)].pos = @ + 1]

TakenOut(fs, gs, n, l, p, r, d) ==
  /\ gs \in Seq(FrameType) /\ OneFrame(gs) /\ Len(gs) = n /\ StackOf(gs) = StackOf(fs)
  /\ \A k \in 1..n : gs[k].list = fs[k].list /\ gs[k].force = fs[k].force
                     /\ gs[k].pos = IF k = n THEN p + 1 ELSE fs[k].pos
  /\ HeldIn(r, d, gs) = Put(HeldIn(r, d, fs), <<l, p>>, NULL)

\* Taking one element out empties one cell and changes no other.
LEMMA TakeOut ==
  ASSUME NEW fs \in Seq(FrameType), OneFrame(fs), fs # <<>>, NEW d, NEW r,
         NEW n, n = Len(fs), NEW l, l = fs[n].list, NEW p, p = fs[n].pos,
         p \in 1..MaxLen
  PROVE  TakenOut(fs, NextPos(fs), n, l, p, r, d)
<1> DEFINE gs == NextPos(fs)
<1>0. gs = [fs EXCEPT ![n].pos = @ + 1]
  BY DEF NextPos
<1> HIDE DEF gs
<1>1. /\ n \in 1..n /\ fs[n] \in FrameType /\ \A k \in 1..n : fs[k] \in FrameType
  OBVIOUS
<1>2. l \in Lists /\ p \in Nat /\ p + 1 \in Nat \ {0}
  BY <1>1 DEF FrameType
<1> DEFINE g == [list |-> l, pos |-> p + 1, force |-> fs[n].force]
<1>3. g \in FrameType /\ g = [fs[n] EXCEPT !.pos = @ + 1]
  BY <1>1, <1>2 DEF FrameType
<1>4. gs = [fs EXCEPT ![n] = g]
  BY <1>0, <1>3
<1>5. g.list = l /\ g.pos = p + 1 /\ g.force = fs[n].force
  OBVIOUS
<1> HIDE DEF g
<1>6. /\ gs \in Seq(FrameType) /\ Len(gs) = n
      /\ \A k \in 1..n : gs[k] = IF k = n THEN g ELSE fs[k]
  BY <1>1, <1>3, <1>4
<1>7. \A k \in 1..n : gs[k].list = fs[k].list /\ gs[k].force = fs[k].force
                      /\ gs[k].pos = IF k = n THEN p + 1 ELSE fs[k].pos
  BY <1>5, <1>6
<1>8. OneFrame(gs)
  BY <1>6, <1>7 DEF OneFrame
<1>9. StackOf(gs) = StackOf(fs)
  BY <1>6, <1>7 DEF StackOf
<1>10. ASSUME NEW m \in Lists, NEW i \in 1..MaxLen
       PROVE  Elem(d, gs, m, i) = IF m = l /\ i = p THEN NULL ELSE Elem(d, fs, m, i)
  <2>1. CASE m = l /\ i = p
    <3>1. ~(gs[n].pos <= i) /\ gs[n].list = m
      BY <1>1, <1>2, <1>7, <2>1
    <3> QED BY <1>1, <1>6, <2>1, <3>1 DEF Elem
  <2>2. CASE m = l /\ i # p
    <3>1. \A k \in 1..n : fs[k].list = m => k = n
      BY <1>1, <2>2 DEF OneFrame
    <3>2. p + 1 <= i <=> p <= i
      BY <1>2, <2>2
    <3>3. (\A k \in 1..n : gs[k].list = m => gs[k].pos <= i)
          <=> (\A k \in 1..n : fs[k].list = m => fs[k].pos <= i)
      BY <1>1, <1>7, <2>2, <3>1, <3>2
    <3> QED BY <1>6, <2>2, <3>3 DEF Elem
  <2>3. CASE m # l
    <3>1. (\A k \in 1..n : gs[k].list = m => gs[k].pos <= i)
          <=> (\A k \in 1..n : fs[k].list = m => fs[k].pos <= i)
      BY <1>1, <1>7, <2>3
    <3> QED BY <1>6, <2>3, <3>1 DEF Elem
  <2> QED BY <2>1, <2>2, <2>3
<1>11. HeldIn(r, d, gs) = Put(HeldIn(r, d, fs), <<l, p>>, NULL)
  <2> DEFINE c == <<l, p>>
  <2>1. c \in ElemCells /\ c \notin Vars \cup Args /\ c[1] = l /\ c[2] = p
    BY <1>2, CellsApart
  <2>2. \A b \in ElemCells : b[1] \in Lists /\ b[2] \in 1..MaxLen /\ (b = c <=> b[1] = l /\ b[2] = p)
    BY DEF ElemCells
  <2> HIDE DEF c
  <2>3. HeldIn(r, d, gs) = [HeldIn(r, d, fs) EXCEPT ![c] = NULL]
    BY <1>10, <2>1, <2>2 DEF HeldIn
  <2> QED BY <2>3 DEF Put, c
<1> QED BY <1>6, <1>7, <1>8, <1>9, <1>11 DEF TakenOut, gs

\* TakeOut, for the activations of this state.
LEMMA TakeOutNow ==
  ASSUME FramesOK, frames # <<>>,
         NEW n, n = Len(frames), NEW l, l = frames[n].list, NEW p, p = frames[n].pos,
         p \in 1..MaxLen
  PROVE  TakenOut(frames, NextPos(frames), n, l, p, root, data)
BY TakeOut DEF FramesOK

\* What the activations are doing, in both states.
LEMMA FrameFacts ==
  ASSUME HInv, NEW k \in 1..Len(frames)
  PROVE  /\ frames[k] \in FrameType /\ frames[k].list \in Lists /\ frames[k].list \in live
         /\ frames[k].pos \in Nat \ {0} /\ frames[k].force \in BOOLEAN
         /\ stackBar[k] = [list |-> frames[k].list, force |-> frames[k].force]
         /\ k \in 1..Len(stackBar) /\ Len(stackBar) = Len(frames)
         /\ REF[frames[k].list] = 0
<1>1. frames[k] \in FrameType /\ Len(frames) \in Nat
  BY DEF HInv, Lasting, FramesOK
<1>2. frames[k].list \in Lists /\ frames[k].pos \in Nat \ {0} /\ frames[k].force \in BOOLEAN
  BY <1>1 DEF FrameType
<1>3. stackBar[k] = [list |-> frames[k].list, force |-> frames[k].force] /\ Len(stackBar) = Len(frames)
  BY <1>1 DEF stackBar
<1>4. stackBar[k].list = frames[k].list
  BY <1>3
<1>5. stackBar[k].list \in live /\ REF[stackBar[k].list] = 0
  BY <1>3 DEF HInv, P!IInv, P!NoDoubleDelete, P!StackOK
<1> QED BY <1>1, <1>2, <1>3, <1>4, <1>5

\* SQI_List::Suicidal, one element.
LEMMA DropElemStep ==
  ASSUME HInv, DropElem
  PROVE  Lasting' /\ P!DropElem
<1> DEFINE n == Len(frames)
           f == frames[n]
           l == f.list
           p == f.pos
           e == data[l][p]
           below == [frames EXCEPT ![n].pos = @ + 1]
<1>1. /\ frames # <<>> /\ p <= Len(data[l])
      /\ contained' = [contained EXCEPT ![e] = @ - 1]
      /\ REF' = [REF EXCEPT ![e] = Less1(@)]
      /\ Suicidal(e, Less1(REF[e]), f.force, below)
      /\ UNCHANGED <<data, root, walk, fault>>
  BY DEF DropElem
<1>0. /\ n = Len(frames) /\ f = frames[n] /\ l = frames[n].list /\ p = frames[n].pos
      /\ l = f.list /\ p = f.pos /\ e = data[l][p] /\ below = NextPos(frames)
  BY DEF NextPos
<1> HIDE DEF n, f, l, p, e, below
<1>2. FramesOK /\ DataOK /\ WalkOK /\ n \in Nat /\ n \in 1..n
  <2>1. FramesOK /\ DataOK /\ WalkOK
    BY DEF HInv, Lasting
  <2>2. frames \in Seq(FrameType)
    BY <2>1 DEF FramesOK
  <2>3. Len(frames) \in Nat /\ Len(frames) # 0
    BY <1>1, <2>2
  <2> QED BY <1>0, <2>1, <2>3
<1>3. /\ f \in FrameType /\ l \in Lists /\ l \in live /\ p \in Nat \ {0} /\ f.force \in BOOLEAN
      /\ stackBar[n] = [list |-> l, force |-> f.force] /\ Len(stackBar) = n
      /\ \A k \in 1..n : REF[frames[k].list] = 0
  BY <1>0, <1>2, FrameFacts
<1>4. /\ data[l] \in Seq(Obj) /\ Len(data[l]) \in Nat /\ Len(data[l]) <= MaxLen /\ MaxLen \in Nat
  BY <1>2, <1>3, PointerAssumption DEF DataOK, DataType
<1>5. p \in 1..MaxLen /\ p \in 1..Len(data[l]) /\ e \in Obj /\ e # NULL
  <2>1. p \in 1..Len(data[l]) /\ p \in 1..MaxLen
    BY <1>1, <1>3, <1>4
  <2>2. e \in Obj
    BY <1>0, <1>4, <2>1
  <2> QED BY <2>1, <2>2, NullIs
<1>6. heldBar[<<l, p>>] = e /\ \A j \in 1..(p - 1) : heldBar[<<l, j>>] = NULL
  <2>1. \A k \in 1..Len(frames) : frames[k].list = l => k = n
    BY <1>0, <1>2 DEF FramesOK, OneFrame
  <2>2. \A k \in 1..Len(frames) : frames[k].list = l => frames[k].pos <= p
    BY <1>0, <1>3, <2>1
  <2>3. heldBar[<<l, p>>] = e
    BY <1>0, <1>1, <1>2, <1>3, <1>5, <2>2, ElemHeld DEF Elem
  <2>4. ASSUME NEW j \in 1..(p - 1) PROVE heldBar[<<l, j>>] = NULL
    <3>1. j \in 1..MaxLen /\ ~(p <= j)
      BY <1>3, <1>4, <1>5
    <3>2. frames[n].list = l /\ ~(frames[n].pos <= j)
      BY <1>0, <3>1
    <3> QED BY <1>0, <1>2, <1>3, <3>1, <3>2, ElemHeld DEF Elem
  <2> QED BY <2>3, <2>4
<1>7. e \in live /\ REF[e] \in Nat \ {0}
  <2>1. <<l, p>> \in P!Cells
    BY <1>3, <1>5, CellIs
  <2>2. heldBar[<<l, p>>] \in live /\ REF[heldBar[<<l, p>>]] \in Nat \ {0}
    <3>1. P!IInv /\ heldBar[<<l, p>>] # NULL
      BY <1>5, <1>6 DEF HInv
    <3> QED BY <2>1, <3>1, ConstantsFit, P!HeldIsCounted DEF P!ObjAssumption, P!HeapAssumption, P!CellAssumption
  <2> QED BY <1>6, <2>2
<1>8. /\ below \in Seq(FrameType) /\ OneFrame(below) /\ Len(below) = n /\ StackOf(below) = StackOf(frames)
      /\ \A k \in 1..n : below[k].list = frames[k].list /\ below[k].force = frames[k].force
                         /\ below[k].pos = IF k = n THEN p + 1 ELSE frames[k].pos
      /\ HeldIn(root, data, below) = Put(HeldIn(root, data, frames), <<l, p>>, NULL)
  <2>1. TakenOut(frames, NextPos(frames), n, l, p, root, data)
    BY <1>0, <1>1, <1>2, <1>5, TakeOutNow
  <2> QED BY <1>0, <2>1 DEF TakenOut
<1>9. \A k \in 1..Len(below) : below[k].list # e
  BY <1>3, <1>7, <1>8
<1>10. Sound(links, live) /\ live \in SUBSET Obj
  BY DEF HInv, Lasting, P!IInv, P!TypeOK
<1> DEFINE ref == Less1(REF[e])
           force == f.force
<1>11. Suicidal(e, ref, force, below) /\ force \in BOOLEAN
  BY <1>1, <1>3
<1> HIDE DEF ref, force
<1>12. /\ frames' \in Seq(FrameType) /\ OneFrame(frames')
       /\ Sound(links', live') /\ links'.heap = links.heap
       /\ live' \subseteq live /\ Lists \ live' = Lists \ live
       /\ HeldIn(root, data, frames') = HeldIn(root, data, below)
       /\ \A k \in 1..Len(frames') :
            \/ k \in 1..Len(below) /\ frames'[k] = below[k]
            \/ frames'[k] = [list |-> e, pos |-> 1, force |-> force]
       /\ IF P!Dies(e, ref, force) /\ e \in Lists
          THEN /\ StackOf(frames') = Append(StackOf(below), [list |-> e, force |-> force])
               /\ live' = live
          ELSE /\ StackOf(frames') = StackOf(below)
               /\ live' = IF P!Dies(e, ref, force) THEN live \ {e} ELSE live
  <2>1. Died(e, ref, force, below)
    BY <1>7, <1>8, <1>9, <1>10, <1>11, Dying
  <2> QED BY <2>1 DEF Died
<1>13. stackBar = StackOf(below) /\ stackBar' = StackOf(frames')
  BY <1>8 DEF stackBar, StackOf
<1>14. P!Suicidal(e, ref, force)
  BY <1>12, <1>13 DEF P!Suicidal
<1>15. heldBar' = [heldBar EXCEPT ![<<l, p>>] = NULL]
  <2>1. heldBar' = HeldIn(root, data, frames')
    BY <1>1, <1>12, HeldIsPrime
  <2>2. heldBar = HeldIn(root, data, frames)
    BY <1>2, HeldIs DEF FramesOK
  <2> QED BY <1>8, <1>12, <2>1, <2>2 DEF Put
<1>16. P!DropElem
  <2>1. stackBar # <<>> /\ stackBar[Len(stackBar)].list = l /\ stackBar[Len(stackBar)].force = force
    BY <1>1, <1>2, <1>3, EmptyStack DEF force
  <2>2. P!Suicidal(e, P!Less1(REF[e]), force)
    BY <1>14 DEF ref, Less1, P!Less1
  <2>3. REF' = [REF EXCEPT ![e] = P!Less1(@)]
    BY <1>1 DEF Less1, P!Less1
  <2>4. contained' = [contained EXCEPT ![e] = @ - 1] /\ UNCHANGED <<links.heap, walk.heap>>
    BY <1>1, <1>12
  <2> QED BY <1>5, <1>6, <1>15, <2>1, <2>2, <2>3, <2>4 DEF P!DropElem
<1>17. FramesOK'
  <2>1. ASSUME NEW k \in 1..Len(frames')
        PROVE  /\ frames'[k].pos <= Len(data[frames'[k].list]) + 1
               /\ walk # NoGC => frames'[k].force
    <3>1. CASE k \in 1..Len(below) /\ frames'[k] = below[k]
      <4>1. p + 1 <= Len(data[l]) + 1
        BY <1>1, <1>3, <1>4
      <4>2. frames[k].pos <= Len(data[frames[k].list]) + 1 /\ (walk # NoGC => frames[k].force)
        BY <1>0, <1>2, <1>8, <3>1 DEF FramesOK
      <4>3. k \in 1..n /\ below[k].list = frames[k].list /\ below[k].force = frames[k].force
            /\ below[k].pos = IF k = n THEN p + 1 ELSE frames[k].pos
        BY <1>8, <3>1
      <4>4. k = n => below[k].list = l
        BY <1>0, <4>3
      <4> QED BY <3>1, <4>1, <4>2, <4>3, <4>4
    <3>2. CASE frames'[k] = [list |-> e, pos |-> 1, force |-> force]
      <4>1. frames'[k].pos = 1 /\ frames'[k].list = e /\ frames'[k].force = force /\ frames'[k] \in FrameType
        BY <1>12, <3>2
      <4>2. e \in Lists
        BY <4>1 DEF FrameType
      <4>3. Len(data[e]) \in Nat
        BY <1>2, <4>2 DEF DataOK, DataType
      <4>4. walk # NoGC => force
        BY <1>0, <1>2 DEF FramesOK, force
      <4> QED BY <4>1, <4>3, <4>4
    <3> QED BY <1>12, <3>1, <3>2
  <2> QED BY <1>1, <1>12, <2>1 DEF FramesOK
<1>18. DataOK' /\ Shape' /\ WalkOK'
  <2>1. DataOK'
    BY <1>1, <1>12 DEF HInv, Lasting, DataOK, DataType
  <2>2. Shape'
    BY <1>1 DEF HInv, Lasting, Shape
  <2>3. WalkOK'
    BY <1>1, <1>2, <1>12 DEF WalkOK
  <2> QED BY <2>1, <2>2, <2>3
<1>19. Ranked'
  BY <1>1, <1>2, <1>12, RankedStays DEF HInv, Lasting, DataOK, IsEternal
<1> QED BY <1>12, <1>16, <1>17, <1>18, <1>19 DEF Lasting

\* Front takes the last element off.
LEMMA FrontIs ==
  ASSUME NEW T, NEW s \in Seq(T), s # <<>>
  PROVE  /\ Front(s) \in Seq(T) /\ Len(Front(s)) = Len(s) - 1
         /\ Front(s) = [k \in 1..(Len(s) - 1) |-> s[k]]
<1> DEFINE n == Len(s) - 1
           t == Front(s)
<1>1. n \in Nat /\ \A k \in 1..n : s[k] \in T
  <2>1. Len(s) \in Nat /\ Len(s) # 0
    OBVIOUS
  <2> QED BY <2>1
<1>2. t = SubSeq(s, 1, n)
  BY DEF Front
<1> HIDE DEF n, t
<1>3. n \in Int /\ 1 \in Int
  BY <1>1
<1>4. /\ SubSeq(s, 1, n) \in Seq(T)
      /\ Len(SubSeq(s, 1, n)) = IF 1 <= n THEN n - 1 + 1 ELSE 0
      /\ \A k \in 1..(n - 1 + 1) : SubSeq(s, 1, n)[k] = s[1 + k - 1]
  BY <1>1, <1>3, SubSeqProperties
<1>5. Len(t) = n /\ t \in Seq(T)
  BY <1>1, <1>2, <1>4
<1>6. \A k \in 1..n : k \in 1..(n - 1 + 1) /\ 1 + k - 1 = k
  BY <1>1
<1>7. \A k \in 1..n : t[k] = s[k]
  BY <1>2, <1>4, <1>6
<1>8. t = [k \in 1..n |-> t[k]]
  BY <1>5
<1>9. t = [k \in 1..n |-> s[k]]
  BY <1>7, <1>8
<1> QED BY <1>5, <1>9 DEF n, t

\* The activation at the top returns.
PoppedTo(fs, gs, n) ==
  /\ gs \in Seq(FrameType) /\ OneFrame(gs) /\ Len(gs) = n - 1
  /\ \A k \in 1..(n - 1) : k \in 1..n /\ k # n /\ gs[k] = fs[k]
  /\ StackOf(gs) = SubSeq(StackOf(fs), 1, Len(StackOf(fs)) - 1)

\* What is left when the activation at the top is gone.
LEMMA PopFrame ==
  ASSUME NEW fs \in Seq(FrameType), OneFrame(fs), fs # <<>>, NEW n, n = Len(fs)
  PROVE  PoppedTo(fs, Front(fs), n)
<1> DEFINE gs == Front(fs)
           T == [list : Lists, force : BOOLEAN]
           s == StackOf(fs)
<1>1. gs \in Seq(FrameType) /\ Len(gs) = n - 1 /\ gs = [k \in 1..(n - 1) |-> fs[k]]
  BY FrontIs
<1> HIDE DEF gs
<1>2. n \in Nat \ {0} /\ \A k \in 1..n : fs[k] \in FrameType
  <2>1. Len(fs) \in Nat /\ Len(fs) # 0
    OBVIOUS
  <2> QED BY <2>1
<1>3. \A k \in 1..(n - 1) : k \in 1..n /\ k # n /\ gs[k] = fs[k]
  BY <1>1, <1>2
<1>4. OneFrame(gs)
  BY <1>1, <1>3 DEF OneFrame
<1>5. s = [k \in 1..n |-> [list |-> fs[k].list, force |-> fs[k].force]]
  BY DEF StackOf
<1> HIDE DEF s, T
<1>6. s \in Seq(T) /\ Len(s) = n /\ s # <<>>
  <2>1. \A k \in 1..n : [list |-> fs[k].list, force |-> fs[k].force] \in T
    BY <1>2 DEF FrameType, T
  <2>2. s \in [1..n -> T]
    BY <1>5, <2>1
  <2>3. s \in Seq(T) /\ Len(s) = n
    BY <1>2, <2>2
  <2>4. n # 0
    BY <1>2
  <2> QED BY <2>3, <2>4
<1>7. SubSeq(s, 1, Len(s) - 1) = [k \in 1..(n - 1) |-> s[k]]
  BY <1>6, FrontIs DEF Front
<1>8. StackOf(gs) = [k \in 1..(n - 1) |-> [list |-> gs[k].list, force |-> gs[k].force]]
  BY <1>1 DEF StackOf
<1>9. \A k \in 1..(n - 1) : s[k] = [list |-> gs[k].list, force |-> gs[k].force]
  BY <1>3, <1>5
<1>10. StackOf(gs) = SubSeq(s, 1, Len(s) - 1)
  BY <1>7, <1>8, <1>9
<1> QED BY <1>1, <1>3, <1>4, <1>10 DEF PoppedTo, gs, s

\* PopFrame, for the activations of this state.
LEMMA PopNow ==
  ASSUME FramesOK, frames # <<>>, NEW n, n = Len(frames)
  PROVE  PoppedTo(frames, Front(frames), n)
BY PopFrame DEF FramesOK

\* FreeSound, for the links of this state.
LEMMA FreeNow ==
  ASSUME Sound(links, live), live \in SUBSET Obj, NEW o \in live
  PROVE  Sound(Free(links, o), live \ {o}) /\ Free(links, o).heap = links.heap
BY FreeSound

\* SQI_List::Suicidal, "delete this".
LEMMA DeleteListStep ==
  ASSUME HInv, DeleteList
  PROVE  Lasting' /\ P!DeleteList
<1> DEFINE n == Len(frames)
           f == frames[n]
           l == f.list
           p == f.pos
<1>1. /\ frames # <<>> /\ p > Len(data[l])
      /\ live' = live \ {l}
      /\ links' = Free(links, l)
      /\ data' = [data EXCEPT ![l] = <<>>]
      /\ frames' = Front(frames)
      /\ UNCHANGED <<REF, contained, root, walk, fault>>
  BY DEF DeleteList
<1>0. n = Len(frames) /\ f = frames[n] /\ l = frames[n].list /\ p = frames[n].pos /\ l = f.list
  OBVIOUS
<1> HIDE DEF n, f, l, p
<1>2. FramesOK /\ DataOK /\ WalkOK /\ n \in Nat \ {0} /\ n \in 1..n
  <2>1. FramesOK /\ DataOK /\ WalkOK
    BY DEF HInv, Lasting
  <2>2. frames \in Seq(FrameType)
    BY <2>1 DEF FramesOK
  <2>3. Len(frames) \in Nat /\ Len(frames) # 0
    BY <1>1, <2>2
  <2> QED BY <1>0, <2>1, <2>3
<1>3. /\ l \in Lists /\ l \in live /\ p \in Nat \ {0}
      /\ stackBar[n] = [list |-> l, force |-> f.force] /\ Len(stackBar) = n
  BY <1>0, <1>2, FrameFacts
<1>4. /\ data \in [Lists -> Seq(Obj)] /\ Len(data[l]) \in Nat
  BY <1>2, <1>3 DEF DataOK, DataType
<1>5. PoppedTo(frames, frames', n)
  BY <1>0, <1>1, <1>2, PopNow
<1>6. /\ frames' \in Seq(FrameType) /\ OneFrame(frames') /\ Len(frames') = n - 1
      /\ \A k \in 1..(n - 1) : k \in 1..n /\ k # n /\ frames'[k] = frames[k]
      /\ StackOf(frames') = SubSeq(StackOf(frames), 1, Len(StackOf(frames)) - 1)
  BY <1>5 DEF PoppedTo
<1>7. Sound(links', live') /\ links'.heap = links.heap
  <2>1. Sound(links, live) /\ live \in SUBSET Obj
    BY DEF HInv, Lasting, P!IInv, P!TypeOK
  <2> QED BY <1>1, <1>3, <2>1, FreeNow
<1>8. data'[l] = <<>> /\ Len(data'[l]) = 0 /\ \A m \in Lists \ {l} : data'[m] = data[m]
  BY <1>1, <1>3, <1>4
<1>9. \A i \in 1..MaxLen : Elem(data, frames, l, i) = NULL
  <2>1. ASSUME NEW i \in 1..MaxLen, i <= Len(data[l]) PROVE ~(frames[n].pos <= i)
    BY <1>0, <1>1, <1>3, <1>4, <2>1
  <2> QED BY <1>0, <1>2, <2>1 DEF Elem
<1>10. \A i \in 1..MaxLen : heldBar[<<l, i>>] = NULL
  BY <1>2, <1>3, <1>9, ElemHeld
<1>11. heldBar' = heldBar
  <2>1. heldBar = HeldIn(root, data, frames)
    BY <1>2, HeldIs DEF FramesOK
  <2>2. heldBar' = HeldIn(root, data', frames')
    BY <1>1, <1>6, HeldIsPrime
  <2>3. ASSUME NEW m \in Lists, NEW i \in 1..MaxLen
        PROVE  Elem(data', frames', m, i) = Elem(data, frames, m, i)
    <3>1. CASE m = l
      <4>1. ~(i <= Len(data'[l]))
        BY <1>8
      <4> QED BY <1>9, <3>1, <4>1 DEF Elem
    <3>2. CASE m # l
      <4>1. (\A k \in 1..Len(frames') : frames'[k].list = m => frames'[k].pos <= i)
            <=> (\A k \in 1..Len(frames) : frames[k].list = m => frames[k].pos <= i)
        <5>1. \A k \in 1..n : k = n \/ k \in 1..(n - 1)
          BY <1>2
        <5> QED BY <1>0, <1>6, <3>2, <5>1
      <4> QED BY <1>8, <3>2, <4>1 DEF Elem
    <3> QED BY <3>1, <3>2
  <2>4. \A c \in ElemCells : c[1] \in Lists /\ c[2] \in 1..MaxLen
    BY DEF ElemCells
  <2> QED BY <2>1, <2>2, <2>3, <2>4 DEF HeldIn
<1>12. P!DeleteList
  <2>1. stackBar = StackOf(frames) /\ stackBar' = StackOf(frames')
    BY DEF stackBar, StackOf
  <2>2. stackBar # <<>> /\ stackBar[Len(stackBar)].list = l
    BY <1>1, <1>2, <1>3, EmptyStack
  <2> QED BY <1>1, <1>6, <1>7, <1>10, <1>11, <2>1, <2>2 DEF P!DeleteList
<1>13. FramesOK'
  <2>1. ASSUME NEW k \in 1..Len(frames')
        PROVE  /\ frames'[k].pos <= Len(data'[frames'[k].list]) + 1
               /\ walk # NoGC => frames'[k].force
    <3>1. k \in 1..n /\ k # n /\ frames'[k] = frames[k]
      BY <1>6
    <3>2. frames[k].list # l /\ frames[k].list \in Lists
      <4>1. frames[k] \in FrameType
        BY <1>0, <1>2, <3>1 DEF FramesOK
      <4>2. frames[k].list # frames[n].list
        BY <1>0, <1>2, <3>1 DEF FramesOK, OneFrame
      <4> QED BY <1>0, <4>1, <4>2 DEF FrameType
    <3>3. data'[frames[k].list] = data[frames[k].list]
      BY <1>8, <3>2
    <3> QED BY <1>0, <1>2, <3>1, <3>3 DEF FramesOK
  <2> QED BY <1>1, <1>6, <2>1 DEF FramesOK
<1>14. DataOK'
  <2>1. data' \in [Lists -> Seq(Obj)]
    BY <1>1, <1>3, <1>4
  <2>2. \A m \in Lists : Len(data'[m]) <= MaxLen
    BY <1>2, <1>8, PointerAssumption DEF DataOK
  <2>3. \A m \in Lists \ live' : data'[m] = <<>>
    BY <1>1, <1>2, <1>8 DEF DataOK
  <2> QED BY <2>1, <2>2, <2>3 DEF DataOK, DataType
<1>15. Shape' /\ WalkOK'
  <2>1. Shape'
    BY <1>1 DEF HInv, Lasting, Shape
  <2>2. WalkOK'
    BY <1>1, <1>2, <1>7 DEF WalkOK
  <2> QED BY <2>1, <2>2
<1>16. Ranked'
  <2>1. PICK N \in Nat, rank \in [Obj -> Nat] : (\A x \in Obj : rank[x] < N) /\ Falls(rank)
    BY DEF HInv, Lasting, Ranked
  <2>2. ASSUME NEW m \in Lists, NEW k \in 1..Len(data'[m])
        PROVE  links'.heap[m] \in EternalHeaps \/ links'.heap[data'[m][k]] \in EternalHeaps
               \/ rank[data'[m][k]] < rank[m]
    <3>1. m # l
      BY <1>8
    <3> QED BY <1>7, <1>8, <2>1, <3>1 DEF Falls, IsEternal
  <2>3. Falls(rank)'
    BY <2>2 DEF Falls, IsEternal
  <2> QED BY <2>1, <2>3 DEF Ranked
<1> QED BY <1>7, <1>12, <1>13, <1>14, <1>15, <1>16 DEF Lasting

\* The list of a heap starts in the heap and stays in it.
LEMMA TopIn ==
  ASSUME NEW S, NEW L, Sound(L, S), NEW h \in Heaps, L.top[h] # NULL
  PROVE  L.top[h] \in S /\ L.heap[L.top[h]] = h
<1>1. PICK c : Ordered(L, S, h, c)
  BY DEF Sound
<1> DEFINE n == L.size[h]
<1>2. L.top[h] = Place(c, n, 1) /\ (\A i \in 1..n : L.heap[c[i]] = h) /\ c \in [1..n -> S]
  BY <1>1 DEF Ordered
<1> HIDE DEF n
<1>3. 1 \in 1..n /\ L.top[h] = c[1]
  BY <1>2 DEF Place
<1> QED BY <1>2, <1>3

\* The list of a heap stays in the heap.
LEMMA NextIn ==
  ASSUME NEW S, NEW L, Sound(L, S), NEW o \in S, L.next[o] # NULL, L.heap[o] \in Heaps
  PROVE  L.next[o] \in S /\ L.heap[L.next[o]] = L.heap[o]
<1> DEFINE h == L.heap[o]
           n == L.size[h]
<1>1. PICK c : Ordered(L, S, h, c)
  BY DEF Sound
<1>2. /\ \A i \in 1..n : L.heap[c[i]] = h /\ L.next[c[i]] = Place(c, n, i + 1)
      /\ c \in [1..n -> S] /\ \E i \in 1..n : c[i] = o
  BY <1>1 DEF Ordered
<1> HIDE DEF n
<1>3. PICK i \in 1..n : c[i] = o
  BY <1>2
<1>4. L.next[o] = Place(c, n, i + 1)
  BY <1>2, <1>3
<1>5. i + 1 \in 1..n /\ L.next[o] = c[i + 1]
  BY <1>4 DEF Place
<1> QED BY <1>2, <1>5

\* Both, for the links of this state.
LEMMA LinkTypes ==
  ASSUME HInv
  PROVE  /\ Sound(links, live) /\ live \in SUBSET Obj /\ NULL \notin live
         /\ \A h \in Heaps : links.top[h] \in Ptr /\ links.size[h] \in Nat
         /\ \A o \in Obj : links.next[o] \in Ptr /\ links.heap[o] \in Heaps
         /\ \A o \in live : links.next[o] # NULL =>
              links.next[o] \in live /\ links.heap[links.next[o]] = links.heap[o]
         /\ \A h \in Heaps : links.top[h] # NULL =>
              links.top[h] \in live /\ links.heap[links.top[h]] = h
<1>1. Sound(links, live) /\ live \in SUBSET Obj /\ links \in LinksType /\ NULL \notin live
  BY NullIs DEF HInv, Lasting, Sound, P!IInv, P!TypeOK
<1>2. /\ \A h \in Heaps : links.top[h] \in Ptr /\ links.size[h] \in Nat
      /\ \A o \in Obj : links.next[o] \in Ptr /\ links.heap[o] \in Heaps
  BY <1>1 DEF LinksType
<1>3. ASSUME NEW o \in live, links.next[o] # NULL
      PROVE  links.next[o] \in live /\ links.heap[links.next[o]] = links.heap[o]
  <2>1. links.heap[o] \in Heaps
    BY <1>1, <1>2
  <2> QED BY <1>1, <1>3, <2>1, NextIn
<1>4. ASSUME NEW h \in Heaps, links.top[h] # NULL
      PROVE  links.top[h] \in live /\ links.heap[links.top[h]] = h
  BY <1>1, <1>4, TopIn
<1> QED BY <1>1, <1>2, <1>3, <1>4

\* A step of a collection that only moves its pointers.
LEMMA OnlyWalk ==
  ASSUME HInv, frames = <<>>, UNCHANGED <<live, REF, contained, links, data, root, frames>>,
         WalkOK', fault' \in {"none", "uaf", "crash"}
  PROVE  /\ Lasting' /\ heldBar' = heldBar /\ stackBar' = stackBar
         /\ (walk'.heap = walk.heap => UNCHANGED P!vars)
<1>1. heldBar' = heldBar /\ stackBar' = stackBar
  BY SameHeld
<1>2. FramesOK' /\ DataOK' /\ Shape'
  BY DEF HInv, Lasting, FramesOK, DataOK, DataType, Shape
<1>3. Sound(links', live')
  BY DEF HInv, Lasting
<1>4. Ranked'
  BY RankedStays DEF HInv, Lasting, DataOK, IsEternal
<1>5. walk'.heap = walk.heap => UNCHANGED P!vars
  BY <1>1 DEF P!vars
<1> QED BY <1>1, <1>2, <1>3, <1>4, <1>5 DEF Lasting

\* A collection starts.
LEMMA GCStartStep ==
  ASSUME HInv, NEW h \in Heaps, GCStart(h)
  PROVE  Lasting' /\ P!GCStart(h)
<1>1. P!Idle /\ frames = <<>> /\ walk = NoGC
  BY IdleIs DEF HInv, Lasting, GCStart
<1>2. /\ walk' = [heap |-> h, pass |-> 1, current |-> links.top[h], previous |-> links.top[h],
                  resume |-> FALSE, wasTop |-> FALSE, number |-> links.size[h], before |-> live]
      /\ UNCHANGED <<live, REF, contained, links, data, root, frames, fault>>
  BY DEF GCStart
<1>3. /\ links.top[h] \in Ptr /\ links.size[h] \in Nat /\ live \in SUBSET Obj
      /\ links.top[h] # NULL => links.top[h] \in live /\ links.heap[links.top[h]] = h
  BY LinkTypes
<1>4. WalkOK'
  <2>1. walk' \in WalkType
    BY <1>2, <1>3 DEF WalkType
  <2>2. ~walk'.resume /\ walk'.heap = h /\ walk'.current = links.top[h] /\ walk'.previous = links.top[h]
    BY <1>2
  <2> QED BY <1>1, <1>2, <1>3, <2>1, <2>2 DEF WalkOK
<1>5. Lasting' /\ heldBar' = heldBar /\ stackBar' = stackBar
  BY <1>1, <1>2, <1>4, OnlyWalk DEF HInv, Lasting, Shape
<1>6. walk'.heap = h
  BY <1>2
<1> QED BY <1>1, <1>2, <1>5, <1>6 DEF P!GCStart

\* What holds while a collection is at work.
LEMMA InWalk ==
  ASSUME HInv, InGC
  PROVE  /\ walk \in WalkType /\ frames = <<>> /\ walk.heap \in Heaps /\ walk.heap # NULL /\ stackBar = <<>>
         /\ walk.current \in Ptr /\ walk.previous \in Ptr
         /\ ~walk.resume /\ walk.current # NULL =>
              walk.current \in live /\ links.heap[walk.current] = walk.heap
         /\ walk.previous # NULL => links.heap[walk.previous] = walk.heap
<1>1. walk # NoGC /\ frames = <<>> /\ WalkOK /\ FramesOK
  BY DEF InGC, HInv, Lasting
<1>2. /\ walk \in WalkType
      /\ ~walk.resume /\ walk.current # NULL =>
           walk.current \in live /\ links.heap[walk.current] = walk.heap
      /\ walk.previous # NULL => links.heap[walk.previous] = walk.heap
  BY <1>1 DEF WalkOK
<1>3. walk.heap \in Heaps /\ walk.current \in Ptr /\ walk.previous \in Ptr
  BY <1>2 DEF WalkType
<1> QED BY <1>1, <1>2, <1>3, NullIs, EmptyStack

\* The two pointers moved.
Moved(w, cur, prev, pass) == [w EXCEPT !.current = cur, !.previous = prev, !.pass = pass, !.resume = FALSE]

\* Moving the pointers to objects of the heap changes nothing of SQIObject.
LEMMA WalkMoved ==
  ASSUME HInv, InGC, UNCHANGED <<live, REF, contained, links, data, root, frames>>,
         fault' \in {"none", "uaf", "crash"},
         NEW cur \in Ptr, NEW prev \in Ptr, NEW pass \in {1, 2},
         walk' = Moved(walk, cur, prev, pass),
         cur # NULL => cur \in live /\ links.heap[cur] = walk.heap,
         prev # NULL => links.heap[prev] = walk.heap
  PROVE  Lasting' /\ UNCHANGED P!vars
<1>1. /\ walk' \in WalkType /\ walk'.heap = walk.heap /\ walk'.current = cur /\ walk'.previous = prev
  <2>1. walk \in WalkType
    BY InWalk
  <2> QED BY <2>1 DEF WalkType, Moved
<1>2. frames = <<>>
  BY InWalk
<1>3. WalkOK'
  BY <1>1, <1>2 DEF WalkOK
<1> QED BY <1>1, <1>2, <1>3, OnlyWalk

\* The steps of a collection that only move its pointers, as Moved.
LEMMA SameFields ==
  ASSUME walk \in WalkType
  PROVE  /\ \A c : ~walk.resume => [walk EXCEPT !.current = c] = Moved(walk, c, walk.previous, walk.pass)
         /\ \A c, q : ~walk.resume =>
              [walk EXCEPT !.previous = q, !.current = c] = Moved(walk, c, q, walk.pass)
         /\ \A c : [walk EXCEPT !.resume = FALSE, !.current = c] = Moved(walk, c, walk.previous, walk.pass)
         /\ \A c, q : ~walk.resume =>
              [walk EXCEPT !.pass = 2, !.current = c, !.previous = q] = Moved(walk, c, q, 2)
BY DEF WalkType, Moved

\* The first pass steps over a contained object.
LEMMA GCSkipStep ==
  ASSUME HInv, GCSkip
  PROVE  Lasting' /\ UNCHANGED P!vars
<1>1. /\ InGC /\ ~walk.resume /\ walk.current # NULL
      /\ walk' = [walk EXCEPT !.current = links.next[walk.current]]
      /\ UNCHANGED <<live, REF, contained, links, data, root, frames, fault>>
  BY DEF GCSkip
<1>2. /\ walk \in WalkType /\ walk.current \in live /\ links.heap[walk.current] = walk.heap
      /\ walk.previous \in Ptr /\ (walk.previous # NULL => links.heap[walk.previous] = walk.heap)
      /\ walk.pass \in {1, 2} /\ walk.resume = FALSE
  BY <1>1, InWalk DEF WalkType
<1> DEFINE x == links.next[walk.current]
<1>3. x \in Ptr /\ (x # NULL => x \in live /\ links.heap[x] = walk.heap)
  BY <1>2, LinkTypes
<1>4. walk' = Moved(walk, x, walk.previous, walk.pass)
  BY <1>1, <1>2, SameFields
<1> HIDE DEF x
<1> QED BY <1>1, <1>2, <1>3, <1>4, WalkMoved DEF HInv, Lasting, Shape

\* The walk goes on after a deletion.
LEMMA GCResumeStep ==
  ASSUME HInv, GCResume
  PROVE  Lasting' /\ UNCHANGED P!vars
<1> DEFINE x == IF walk.wasTop THEN links.top[walk.heap] ELSE links.next[walk.previous]
<1>1. /\ InGC /\ (walk.wasTop \/ walk.previous \in live)
      /\ walk' = [walk EXCEPT !.resume = FALSE, !.current = x]
      /\ UNCHANGED <<live, REF, contained, links, data, root, frames, fault>>
  BY DEF GCResume
<1>2. /\ walk \in WalkType /\ walk.heap \in Heaps
      /\ walk.previous \in Ptr /\ (walk.previous # NULL => links.heap[walk.previous] = walk.heap)
      /\ walk.pass \in {1, 2} /\ walk.wasTop \in BOOLEAN
  BY <1>1, InWalk DEF WalkType
<1>3. x \in Ptr /\ (x # NULL => x \in live /\ links.heap[x] = walk.heap)
  BY <1>1, <1>2, LinkTypes
<1>4. walk' = Moved(walk, x, walk.previous, walk.pass)
  BY <1>1, <1>2, SameFields
<1> HIDE DEF x
<1> QED BY <1>1, <1>2, <1>3, <1>4, WalkMoved DEF HInv, Lasting, Shape

\* The second pass starts.
LEMMA GCSecondPassStep ==
  ASSUME HInv, GCSecondPass
  PROVE  Lasting' /\ UNCHANGED P!vars
<1> DEFINE x == links.top[walk.heap]
<1>1. /\ InGC /\ ~walk.resume
      /\ walk' = [walk EXCEPT !.pass = 2, !.current = x, !.previous = x]
      /\ UNCHANGED <<live, REF, contained, links, data, root, frames, fault>>
  BY DEF GCSecondPass
<1>2. walk \in WalkType /\ walk.heap \in Heaps
  BY <1>1, InWalk
<1>3. x \in Ptr /\ (x # NULL => x \in live /\ links.heap[x] = walk.heap)
  BY <1>2, LinkTypes
<1>4. walk' = Moved(walk, x, x, 2)
  BY <1>1, <1>2, SameFields
<1> HIDE DEF x
<1> QED BY <1>1, <1>3, <1>4, WalkMoved DEF HInv, Lasting, Shape

\* The walk goes on after a deletion, from an object that was freed.
LEMMA GCResumeStaleStep ==
  ASSUME HInv, GCResumeStale
  PROVE  Lasting' /\ UNCHANGED P!vars
<1>1. /\ InGC /\ UNCHANGED <<live, REF, contained, links, data, root, frames>>
      /\ fault' \in {"none", "uaf", "crash"}
      /\ (walk' = [walk EXCEPT !.resume = FALSE, !.current = NULL] \/ walk' = walk)
  BY DEF GCResumeStale
<1>2. /\ walk \in WalkType /\ frames = <<>> /\ walk.pass \in {1, 2}
      /\ walk.previous \in Ptr /\ (walk.previous # NULL => links.heap[walk.previous] = walk.heap)
  BY <1>1, InWalk DEF WalkType
<1>3. CASE walk' = walk
  BY <1>1, <1>2, <1>3, OnlyWalk DEF HInv, Lasting, WalkOK
<1>4. CASE walk' = [walk EXCEPT !.resume = FALSE, !.current = NULL]
  <2>1. walk' = Moved(walk, NULL, walk.previous, walk.pass)
    BY <1>2, <1>4, SameFields
  <2>2. NULL \in Ptr
    BY DEF Ptr
  <2> QED BY <1>1, <1>2, <2>1, <2>2, WalkMoved
<1> QED BY <1>1, <1>3, <1>4

\* Nothing happens, or the process dies.
LEMMA StayingStep ==
  ASSUME HInv, \/ \E l \in Lists, o \in Obj : AppendToItself(l, o)
               \/ Crashed \/ UNCHANGED vars
  PROVE  Lasting' /\ UNCHANGED P!vars
<1>1. /\ UNCHANGED <<live, REF, contained, links, data, root, frames, walk>>
      /\ fault' \in {"none", "uaf", "crash"}
  BY DEF HInv, Lasting, Shape, AppendToItself, Crashed, vars
<1>2. heldBar' = heldBar /\ stackBar' = stackBar
  BY <1>1, SameHeld
<1>3. FramesOK' /\ DataOK' /\ Shape' /\ WalkOK'
  BY <1>1 DEF HInv, Lasting, FramesOK, DataOK, DataType, Shape, WalkOK
<1>4. Sound(links', live')
  BY <1>1 DEF HInv, Lasting
<1>5. Ranked'
  BY <1>1, RankedStays DEF HInv, Lasting, DataOK, IsEternal
<1> QED BY <1>1, <1>2, <1>3, <1>4, <1>5 DEF Lasting, P!vars

\* A collection ends.
LEMMA GCEndStep ==
  ASSUME HInv, GCEnd
  PROVE  Lasting' /\ P!GCEnd
<1>1. /\ InGC /\ walk' = NoGC /\ fault' = "none"
      /\ UNCHANGED <<live, REF, contained, links, data, root, frames>>
  BY DEF GCEnd, AtGCEnd
<1>2. frames = <<>> /\ walk.heap # NULL /\ stackBar = <<>>
  BY <1>1, InWalk
<1>3. WalkOK'
  BY <1>1 DEF WalkOK
<1>4. Lasting' /\ heldBar' = heldBar /\ stackBar' = stackBar
  BY <1>1, <1>2, <1>3, OnlyWalk
<1>5. walk'.heap = NULL
  BY <1>1 DEF NoGC
<1> QED BY <1>1, <1>2, <1>4, <1>5 DEF P!GCEnd

\* A collection visits an object something refers to.
LEMMA GCPassStep ==
  ASSUME HInv, GCVisit, REF[walk.current] # 0
  PROVE  Lasting' /\ UNCHANGED P!vars
<1> DEFINE o == walk.current
           x == links.next[o]
<1>1. /\ InGC /\ ~walk.resume /\ o # NULL /\ ~Dies(o, REF[o], TRUE)
      /\ walk' = [walk EXCEPT !.previous = o, !.current = x]
      /\ UNCHANGED <<REF, contained, data, root, fault>>
  BY DEF GCVisit, Dies
<1>2. UNCHANGED <<live, links, frames>>
  BY <1>1 DEF GCVisit, Suicidal
<1>3. /\ walk \in WalkType /\ o \in live /\ links.heap[o] = walk.heap /\ o \in Ptr /\ walk.pass \in {1, 2}
  BY <1>1, InWalk DEF WalkType
<1>4. x \in Ptr /\ (x # NULL => x \in live /\ links.heap[x] = walk.heap)
  BY <1>3, LinkTypes
<1>5. walk' = Moved(walk, x, o, walk.pass)
  BY <1>1, <1>3, SameFields
<1> HIDE DEF x, o
<1> QED BY <1>1, <1>2, <1>3, <1>4, <1>5, WalkMoved DEF HInv, Lasting, Shape

\* A collection deletes an object.
LEMMA GCKillStep ==
  ASSUME HInv, GCVisit, REF[walk.current] = 0
  PROVE  Lasting' /\ P!Collect(walk.current)
<1> DEFINE o == walk.current
           top == (o = links.top[walk.heap])
<1>1. /\ InGC /\ ~walk.resume /\ o # NULL /\ REF[o] = 0
      /\ Suicidal(o, 0, TRUE, frames)
      /\ walk' = [walk EXCEPT !.resume = TRUE, !.wasTop = top]
      /\ UNCHANGED <<REF, contained, data, root, fault>>
  BY DEF GCVisit
<1>2. /\ walk \in WalkType /\ frames = <<>> /\ o \in live /\ links.heap[o] = walk.heap
      /\ walk.heap # NULL /\ stackBar = <<>> /\ top \in BOOLEAN
      /\ walk.previous # NULL => links.heap[walk.previous] = walk.heap
  BY <1>1, InWalk
<1>3. /\ walk' \in WalkType /\ walk' # NoGC /\ walk'.heap = walk.heap /\ walk'.resume = TRUE
      /\ walk'.previous = walk.previous
  <2>1. /\ walk' \in WalkType /\ walk'.heap = walk.heap /\ walk'.resume = TRUE
        /\ walk'.previous = walk.previous
    BY <1>1, <1>2 DEF WalkType
  <2> QED BY <1>2, <2>1 DEF NoGC
<1> HIDE DEF o, top
<1>4. /\ Sound(links, live) /\ live \in SUBSET Obj /\ frames \in Seq(FrameType) /\ OneFrame(frames)
      /\ TRUE \in BOOLEAN
  BY DEF HInv, Lasting, FramesOK, P!IInv, P!TypeOK
<1>5. \A k \in 1..Len(frames) : FALSE
  BY <1>2
<1>6. Died(o, 0, TRUE, frames)
  BY <1>1, <1>2, <1>4, <1>5, Dying
<1>7. /\ frames' \in Seq(FrameType) /\ OneFrame(frames')
      /\ Sound(links', live') /\ links'.heap = links.heap
      /\ live' \subseteq live /\ Lists \ live' = Lists \ live
      /\ HeldIn(root, data, frames') = HeldIn(root, data, frames)
      /\ \A k \in 1..Len(frames') : frames'[k] = [list |-> o, pos |-> 1, force |-> TRUE]
      /\ IF P!Dies(o, 0, TRUE) /\ o \in Lists
         THEN /\ StackOf(frames') = Append(StackOf(frames), [list |-> o, force |-> TRUE])
              /\ live' = live
         ELSE /\ StackOf(frames') = StackOf(frames)
              /\ live' = IF P!Dies(o, 0, TRUE) THEN live \ {o} ELSE live
  BY <1>5, <1>6 DEF Died
<1>8. stackBar = StackOf(frames) /\ stackBar' = StackOf(frames')
  BY DEF stackBar, StackOf
<1>9. P!Suicidal(o, 0, TRUE)
  BY <1>7, <1>8 DEF P!Suicidal
<1>10. heldBar' = heldBar
  <2>1. heldBar' = HeldIn(root, data, frames')
    BY <1>1, <1>7, HeldIsPrime
  <2> QED BY <1>4, <1>7, <2>1, HeldIs
<1>11. P!Collect(o)
  BY <1>1, <1>2, <1>3, <1>7, <1>9, <1>10 DEF P!Collect
<1>12. FramesOK'
  <2>1. ASSUME NEW k \in 1..Len(frames')
        PROVE  frames'[k].pos <= Len(data[frames'[k].list]) + 1 /\ frames'[k].force
    <3>1. frames'[k].pos = 1 /\ frames'[k].list = o /\ frames'[k].force /\ frames'[k] \in FrameType
      BY <1>7
    <3>2. o \in Lists
      BY <3>1 DEF FrameType
    <3>3. Len(data[o]) \in Nat
      BY <3>2 DEF HInv, Lasting, DataOK, DataType
    <3> QED BY <3>1, <3>3
  <2> QED BY <1>1, <1>7, <2>1 DEF FramesOK
<1>13. DataOK' /\ Shape' /\ WalkOK'
  <2>1. DataOK'
    BY <1>1, <1>7 DEF HInv, Lasting, DataOK, DataType
  <2>2. Shape'
    BY <1>1 DEF HInv, Lasting, Shape
  <2>3. WalkOK'
    BY <1>2, <1>3, <1>7 DEF WalkOK
  <2> QED BY <2>1, <2>2, <2>3
<1>14. Ranked'
  BY <1>1, <1>7, RankedStays DEF HInv, Lasting, DataOK, IsEternal
<1> QED BY <1>7, <1>11, <1>12, <1>13, <1>14 DEF Lasting, o

-----------------------------------------------------------------------------
\* Every step is a step of SQIObject or changes nothing of it, and keeps the pointers sound.
LEMMA LastingNext ==
  ASSUME HInv, [Next]_vars
  PROVE  Lasting' /\ [P!Next]_(P!vars)
<1>1. CASE \E o \in Obj, h \in Heaps : New(o, h)
  BY <1>1, NewStep DEF P!Next
<1>2. CASE \E c \in Vars \cup Args, o \in Obj : Hold(c, o)
  BY <1>2, HoldStep DEF P!Next
<1>3. CASE \E v \in Vars, o \in Obj : Replace(v, o)
  BY <1>3, ReplaceStep DEF P!Next
<1>4. CASE \E v \in Vars : Release(v)
  BY <1>4, ReleaseStep DEF P!Next
<1>5. CASE \E a \in Args : DropArg(a)
  BY <1>5, DropArgStep DEF P!Next
<1>6. CASE \E l \in Lists, o \in Obj : Add2End(l, o)
  <2>1. PICK l \in Lists, o \in Obj : Add2End(l, o)
    BY <1>6
  <2>2. Lasting' /\ P!Add2End(l, Len(data[l]) + 1, o) /\ Len(data[l]) + 1 \in 1..MaxLen
    BY <2>1, Add2EndStep
  <2> QED BY <2>2 DEF P!Next
<1>7. CASE \E o \in Obj, h \in Heaps : ExportTo(o, h)
  <2>1. PICK o \in Obj, h \in Heaps : ExportTo(o, h)
    BY <1>7
  <2>2. Lasting' /\ P!Export(o, h)
    BY <2>1, ExportToStep
  <2> QED BY <2>2 DEF P!Next
<1>8. CASE DropElem
  BY <1>8, DropElemStep DEF P!Next
<1>9. CASE DeleteList
  BY <1>9, DeleteListStep DEF P!Next
<1>10. CASE \E h \in Heaps : GCStart(h)
  BY <1>10, GCStartStep DEF P!Next
<1>11. CASE GCStep
  <2>1. CASE GCVisit /\ REF[walk.current] = 0
    <3>1. Lasting' /\ P!Collect(walk.current)
      BY <2>1, GCKillStep
    <3>2. walk.current \in Obj
      <4>1. walk.current \in live
        BY <2>1, InWalk DEF GCVisit
      <4> QED BY <4>1, LinkTypes
    <3> QED BY <3>1, <3>2 DEF P!Next
  <2>2. CASE GCVisit /\ REF[walk.current] # 0
    BY <2>2, GCPassStep
  <2>3. CASE GCSkip
    BY <2>3, GCSkipStep
  <2>4. CASE GCResume
    BY <2>4, GCResumeStep
  <2>5. CASE GCResumeStale
    BY <2>5, GCResumeStaleStep
  <2>6. CASE GCSecondPass
    BY <2>6, GCSecondPassStep
  <2>7. CASE GCEnd
    BY <2>7, GCEndStep DEF P!Next
  <2> QED BY <1>11, <2>1, <2>2, <2>3, <2>4, <2>5, <2>6, <2>7 DEF GCStep
<1>12. CASE \E l \in Lists, o \in Obj : AppendToItself(l, o)
  BY <1>12, StayingStep
<1>13. CASE Crashed \/ UNCHANGED vars
  BY <1>13, StayingStep
<1> QED BY <1>1, <1>2, <1>3, <1>4, <1>5, <1>6, <1>7, <1>8, <1>9, <1>10, <1>11, <1>12, <1>13 DEF Next

\* The invariant holds at the start.
LEMMA Start ==
  ASSUME Init
  PROVE  HInv /\ P!Init
<1>1. PICK h \in Heaps :
        links = [heap |-> [o \in Obj |-> h],
                 next |-> [o \in Obj |-> NULL], previous |-> [o \in Obj |-> NULL],
                 top |-> [g \in Heaps |-> NULL], bottom |-> [g \in Heaps |-> NULL],
                 size |-> [g \in Heaps |-> 0]]
  BY DEF Init
<1>2. /\ links \in LinksType /\ links.heap = [o \in Obj |-> h]
      /\ \A o \in Obj : links.next[o] = NULL /\ links.previous[o] = NULL
      /\ \A g \in Heaps : links.top[g] = NULL /\ links.bottom[g] = NULL /\ links.size[g] = 0
  BY <1>1 DEF LinksType, Ptr
<1>3. live = {} /\ frames = <<>> /\ walk = NoGC /\ fault = "none" /\ data = [l \in Lists |-> <<>>]
      /\ root = [c \in Vars \cup Args |-> NULL]
  BY DEF Init
<1>4. Sound(links, live)
  <2>1. ASSUME NEW g \in Heaps PROVE \E c : Ordered(links, live, g, c)
    <3> DEFINE c == [i \in 1..0 |-> NULL]
    <3>1. c \in [1..0 -> {}] /\ \A i \in 1..0 : FALSE
      OBVIOUS
    <3> HIDE DEF c
    <3>2. Place(c, 0, 1) = NULL /\ Place(c, 0, 0) = NULL
      BY DEF Place
    <3>3. Ordered(links, live, g, c)
      BY <1>2, <1>3, <3>1, <3>2 DEF Ordered
    <3> QED BY <3>3
  <2> QED BY <1>2, <2>1 DEF Sound
<1>5. FramesOK
  BY <1>3 DEF FramesOK, OneFrame
<1>6. DataOK
  BY <1>3, PointerAssumption DEF DataOK, DataType
<1>7. WalkOK /\ Shape
  BY <1>3 DEF WalkOK, Shape, Ptr
<1>8. Ranked
  <2> DEFINE rank == [o \in Obj |-> 0]
  <2>1. rank \in [Obj -> Nat] /\ \A o \in Obj : rank[o] < 1
    OBVIOUS
  <2>2. Falls(rank)
    BY <1>3 DEF Falls
  <2> QED BY <2>1, <2>2 DEF Ranked
<1>9. P!Init
  <2>1. heldBar = [c \in P!Cells |-> NULL]
    <3>1. \A r \in ElemCells : Elem(data, frames, r[1], r[2]) = NULL
      <4>1. \A l \in Lists, i \in 1..MaxLen : ~(i <= Len(data[l]))
        BY <1>3
      <4> QED BY <4>1 DEF Elem, ElemCells
    <3>2. heldBar = HeldIn(root, data, frames)
      BY <1>5, HeldIs DEF FramesOK
    <3> QED BY <1>3, <3>1, <3>2 DEF HeldIn, P!Cells, P!ElemCells, ElemCells
  <2>2. stackBar = <<>> /\ walk.heap = NULL
    BY <1>3, <1>5, EmptyStack DEF NoGC
  <2>3. REF = [o \in Obj |-> 0] /\ contained = [o \in Obj |-> 0]
    BY DEF Init
  <2> QED BY <1>2, <1>3, <2>1, <2>2, <2>3 DEF P!Init
<1> QED BY <1>4, <1>5, <1>6, <1>7, <1>8, <1>9, ObjectInit DEF HInv, Lasting

\* The invariant is inductive.
LEMMA HInvNext == HInv /\ [Next]_vars => HInv'
<1> SUFFICES ASSUME HInv, [Next]_vars PROVE HInv'
  OBVIOUS
<1>1. Lasting' /\ [P!Next]_(P!vars)
  BY LastingNext
<1>2. P!IInv'
  BY <1>1, ObjectNext DEF HInv
<1> QED BY <1>1, <1>2 DEF HInv

\* The invariant holds always.
LEMMA HInvariance == Spec => []HInv
<1>1. Init => HInv
  BY Start
<1> QED BY <1>1, HInvNext, PTL DEF Spec

-----------------------------------------------------------------------------
(* The variables keep their types: the pointers of the heaps are objects or
   NULL, the iterator of Suicidal stays within its list and one past it, no
   list is longer than MaxLen. *)
THEOREM TypeCorrect == Spec => []TypeOK
<1>1. HInv => TypeOK
  <2> SUFFICES ASSUME HInv PROVE TypeOK
    OBVIOUS
  <2>1. /\ live \in SUBSET Obj /\ REF \in [Obj -> Nat] /\ contained \in [Obj -> Nat]
    BY DEF HInv, P!IInv, P!TypeOK
  <2>2. links \in LinksType
    BY DEF HInv, Lasting, Sound
  <2>3. data \in [Lists -> BoundedSeq(Obj, MaxLen)]
    <3>1. \A l \in Lists : data[l] \in BoundedSeq(Obj, MaxLen)
      <4> SUFFICES ASSUME NEW l \in Lists PROVE data[l] \in BoundedSeq(Obj, MaxLen)
        OBVIOUS
      <4>1. data[l] \in Seq(Obj) /\ Len(data[l]) \in Nat /\ Len(data[l]) <= MaxLen /\ MaxLen \in Nat
        BY PointerAssumption DEF HInv, Lasting, DataOK, DataType
      <4>2. Len(data[l]) \in 0..MaxLen /\ data[l] \in [1..Len(data[l]) -> Obj]
        BY <4>1
      <4> QED BY <4>2 DEF BoundedSeq, SeqOf
    <3> QED BY <3>1 DEF HInv, Lasting, DataOK, DataType
  <2>4. root \in [Vars \cup Args -> Ptr] /\ fault \in {"none", "uaf", "crash"}
    BY DEF HInv, Lasting, Shape
  <2>5. ASSUME NEW k \in 1..Len(frames)
        PROVE  frames[k] \in [list : Lists, pos : 1..(MaxLen + 1), force : BOOLEAN]
    <3>1. frames[k] \in FrameType /\ frames[k].list \in Lists
          /\ frames[k].pos <= Len(data[frames[k].list]) + 1
      BY FrameFacts DEF HInv, Lasting, FramesOK
    <3>2. /\ Len(data[frames[k].list]) <= MaxLen /\ MaxLen \in Nat
          /\ Len(data[frames[k].list]) \in Nat
      BY <3>1, PointerAssumption DEF HInv, Lasting, DataOK, DataType
    <3>3. frames[k].pos \in Nat \ {0}
      BY <3>1 DEF FrameType
    <3>4. frames[k].pos \in 1..(MaxLen + 1)
      BY <3>1, <3>2, <3>3
    <3> QED BY <3>1, <3>4 DEF FrameType
  <2>6. walk = NoGC \/ walk \in WalkType
    BY DEF HInv, Lasting, WalkOK
  <2> QED BY <2>1, <2>2, <2>3, <2>4, <2>5, <2>6 DEF TypeOK, LinksType, WalkType
<1> QED BY <1>1, HInvariance, PTL

-----------------------------------------------------------------------------
\* SQIObject as its proofs see it is SQIObject as this module sees it.
LEMMA SameSpec ==
  /\ P!Init => Object!Init
  /\ [P!Next]_(P!vars) => [Object!Next]_(Object!vars)
<1>1. P!Init => Object!Init
  BY DEF P!Init, Object!Init, P!Cells, Object!Cells, P!ElemCells, Object!ElemCells
<1>2. P!vars = Object!vars /\ P!vars' = Object!vars'
  BY DEF P!vars, Object!vars
<1>3. \A o, r, f : /\ P!Dies(o, r, f) <=> Object!Dies(o, r, f)
                   /\ P!Suicidal(o, r, f) <=> Object!Suicidal(o, r, f)
  BY DEF P!Dies, Object!Dies, P!IsEternal, Object!IsEternal, P!Suicidal, Object!Suicidal
<1>4. \A n : P!Less1(n) = Object!Less1(n)
  BY DEF P!Less1, Object!Less1
<1>5. P!Idle <=> Object!Idle
  BY DEF P!Idle, Object!Idle
<1>6. \A o : P!IsEternal(o) <=> Object!IsEternal(o)
  BY DEF P!IsEternal, Object!IsEternal
<1>7. \A S : P!Closed(S) <=> Object!Closed(S)
  BY <1>6 DEF P!Closed, Object!Closed
<1>8. \A o : P!Exported(o) = Object!Exported(o)
  BY <1>6, <1>7 DEF P!Exported, Object!Exported
<1>9. \A h, S : P!MovedTo(h, S) = Object!MovedTo(h, S)
  BY DEF P!MovedTo, Object!MovedTo
<1>10. P!Next => Object!Next
  <2>1. ASSUME NEW o \in Obj, NEW h \in Heaps, P!New(o, h) PROVE Object!New(o, h)
    BY <1>5, <2>1 DEF P!New, Object!New
  <2>2. ASSUME NEW c \in Vars \cup Args, NEW o \in Obj, P!Hold(c, o) PROVE Object!Hold(c, o)
    BY <1>5, <2>2 DEF P!Hold, Object!Hold
  <2>3. ASSUME NEW v \in Vars, NEW o \in Obj, P!Replace(v, o) PROVE Object!Replace(v, o)
    BY <1>3, <1>4, <1>5, <2>3 DEF P!Replace, Object!Replace
  <2>4. ASSUME NEW v \in Vars, P!Release(v) PROVE Object!Release(v)
    BY <1>3, <1>4, <1>5, <2>4 DEF P!Release, Object!Release
  <2>5. ASSUME NEW a \in Args, P!DropArg(a) PROVE Object!DropArg(a)
    BY <1>5, <2>5 DEF P!DropArg, Object!DropArg
  <2>6. ASSUME NEW l \in Lists, NEW i \in 1..MaxLen, NEW o \in Obj, P!Add2End(l, i, o)
        PROVE  Object!Add2End(l, i, o)
    BY <1>5, <1>6, <1>8, <1>9, <2>6 DEF P!Add2End, Object!Add2End
  <2>7. ASSUME NEW o \in Obj, NEW h \in Heaps, P!Export(o, h) PROVE Object!Export(o, h)
    BY <1>5, <1>8, <1>9, <2>7 DEF P!Export, Object!Export
  <2>8. ASSUME P!DropElem PROVE Object!DropElem
    BY <1>3, <1>4, <2>8 DEF P!DropElem, Object!DropElem
  <2>9. ASSUME P!DeleteList PROVE Object!DeleteList
    BY <2>9 DEF P!DeleteList, Object!DeleteList
  <2>10. ASSUME NEW h \in Heaps, P!GCStart(h) PROVE Object!GCStart(h)
    BY <1>5, <2>10 DEF P!GCStart, Object!GCStart
  <2>11. ASSUME NEW o \in Obj, P!Collect(o) PROVE Object!Collect(o)
    BY <1>3, <2>11 DEF P!Collect, Object!Collect
  <2>12. ASSUME P!GCEnd PROVE Object!GCEnd
    BY <2>12 DEF P!GCEnd, Object!GCEnd
  <2> QED BY <2>1, <2>2, <2>3, <2>4, <2>5, <2>6, <2>7, <2>8, <2>9, <2>10, <2>11, <2>12
             DEF P!Next, Object!Next
<1> QED BY <1>1, <1>2, <1>10

(* Every behaviour of the pointers is one of SQIObject: the linked lists, the
   recursion of Export, the iterator of Suicidal and the two passes of GC, also
   once GC has followed the stale pointer, keep the ownership discipline. *)
THEOREM Implements == Spec => ImplementsObject
<1>1. Init => Object!Init
  BY Start, SameSpec
<1>2. HInv /\ [Next]_vars => [Object!Next]_(Object!vars)
  BY LastingNext, SameSpec
<1> QED BY <1>1, <1>2, HInvariance, PTL DEF Spec, ImplementsObject, Object!Spec

(* At the level of the pointers too, nothing refers to a deleted object and the
   two counts of every object are exact: P is SQIObject, and what is held there
   are the elements, variables and arguments here. *)
THEOREM NothingDangles == Spec => [](P!NoDangling /\ P!RefExact /\ P!ContainedExact)
<1>1. HInv => P!NoDangling /\ P!RefExact /\ P!ContainedExact
  BY DEF HInv, P!IInv
<1> QED BY <1>1, HInvariance, PTL

\* The objects met from the top of a heap are those of its order.
LEMMA ChainIs ==
  ASSUME NEW h \in Heaps, NEW S, NEW c, Ordered(links, S, h, c), links.size[h] \in Nat
  PROVE  Chain(h) = c
<1> DEFINE n == links.size[h]
           Good(a) == a = [i \in 1..n |-> IF i = 1 THEN links.top[h] ELSE links.next[a[i - 1]]]
<1>1. /\ c \in [1..n -> S] /\ links.top[h] = Place(c, n, 1) /\ n \in Nat
      /\ \A i \in 1..n : links.next[c[i]] = Place(c, n, i + 1)
  BY DEF Ordered
<1>2. Chain(h) = [i \in 1..n |-> (CHOOSE a : Good(a))[i]]
  BY DEF Chain
<1>3. \A a : Good(a) <=> a = [i \in 1..n |-> IF i = 1 THEN links.top[h] ELSE links.next[a[i - 1]]]
  OBVIOUS
<1> HIDE DEF n, Good
<1>4. \A i \in 1..n : c[i] = IF i = 1 THEN links.top[h] ELSE links.next[c[i - 1]]
  <2> SUFFICES ASSUME NEW i \in 1..n PROVE c[i] = IF i = 1 THEN links.top[h] ELSE links.next[c[i - 1]]
    OBVIOUS
  <2>1. CASE i = 1
    BY <1>1, <2>1 DEF Place
  <2>2. CASE i # 1
    <3>1. i - 1 \in 1..n /\ (i - 1) + 1 = i
      BY <1>1, <2>2
    <3>2. links.next[c[i - 1]] = Place(c, n, (i - 1) + 1)
      BY <1>1, <3>1
    <3> QED BY <2>2, <3>1, <3>2 DEF Place
  <2> QED BY <2>1, <2>2
<1>5. Good(c)
  <2>1. c = [i \in 1..n |-> c[i]]
    BY <1>1
  <2>2. c = [i \in 1..n |-> IF i = 1 THEN links.top[h] ELSE links.next[c[i - 1]]]
    BY <1>4, <2>1
  <2> QED BY <1>3, <2>2
<1>6. PICK a : a = (CHOOSE x : Good(x)) /\ Good(a)
  BY <1>5
<1>7. \A i \in 1..n : a[i] = IF i = 1 THEN links.top[h] ELSE links.next[a[i - 1]]
  BY <1>3, <1>6
<1>8. \A i \in 1..n : a[i] = c[i]
  <2> DEFINE K == {k \in Nat : k + 1 \in 1..n => a[k + 1] = c[k + 1]}
  <2>1. 0 \in K
    BY <1>4, <1>7
  <2>2. ASSUME NEW k \in Nat, k \in K PROVE k + 1 \in K
    <3>1. ASSUME (k + 1) + 1 \in 1..n PROVE a[(k + 1) + 1] = c[(k + 1) + 1]
      <4>1. k + 1 \in 1..n /\ (k + 1) + 1 # 1 /\ ((k + 1) + 1) - 1 = k + 1
        BY <1>1, <3>1
      <4>2. a[k + 1] = c[k + 1]
        BY <2>2, <4>1
      <4> QED BY <1>4, <1>7, <3>1, <4>1, <4>2
    <3> QED BY <3>1
  <2> HIDE DEF K
  <2>3. \A k \in Nat : k \in K
    BY <2>1, <2>2, Induction
  <2>4. ASSUME NEW i \in 1..n PROVE a[i] = c[i]
    <3>1. i - 1 \in Nat /\ (i - 1) + 1 = i
      BY <1>1
    <3>2. i - 1 \in K
      BY <2>3, <3>1
    <3> QED BY <3>1, <3>2 DEF K
  <2> QED BY <2>4
<1>9. Chain(h) = [i \in 1..n |-> a[i]]
  BY <1>2, <1>6
<1> QED BY <1>1, <1>8, <1>9

(* The list of each heap is exactly its objects, each once, linked both ways
   and counted by size, at every moment. *)
THEOREM HeapsWellLinked == Spec => []WellLinked
<1>1. HInv => WellLinked
  <2> SUFFICES ASSUME HInv, NEW h \in Heaps
               PROVE  /\ Cardinality({o \in live : links.heap[o] = h}) = links.size[h]
                      /\ {o \in live : links.heap[o] = h} = ToSet(Chain(h))
                      /\ \A n \in 1..links.size[h] :
                           links.previous[Chain(h)[n]] = IF n = 1 THEN NULL ELSE Chain(h)[n - 1]
                      /\ links.bottom[h] = IF links.size[h] = 0 THEN NULL ELSE Chain(h)[links.size[h]]
    BY DEF WellLinked
  <2>1. Sound(links, live) /\ links.size[h] \in Nat
    BY LinkTypes
  <2>2. PICK c : Ordered(links, live, h, c)
    BY <2>1 DEF Sound
  <2>3. Chain(h) = c
    BY <2>1, <2>2, ChainIs
  <2> DEFINE n == links.size[h]
             S == {o \in live : links.heap[o] = h}
  <2>4. /\ c \in [1..n -> live] /\ n \in Nat
        /\ \A i \in 1..n : links.heap[c[i]] = h
        /\ \A i, j \in 1..n : c[i] = c[j] => i = j
        /\ \A o \in live : links.heap[o] = h => \E i \in 1..n : c[i] = o
        /\ links.bottom[h] = Place(c, n, n)
        /\ \A i \in 1..n : links.previous[c[i]] = Place(c, n, i - 1)
    BY <2>1, <2>2 DEF Ordered
  <2>5. \A i \in 1..n : c[i] \in S
    BY <2>4
  <2>6. \A o \in S : \E i \in 1..n : c[i] = o
    BY <2>4
  <2> HIDE DEF n, S
  <2>7. S = ToSet(c)
    BY <2>4, <2>5, <2>6 DEF ToSet
  <2>8. Cardinality(S) = n
    <3>1. c \in [1..n -> S]
      BY <2>4, <2>5
    <3>2. c \in Bijection(1..n, S)
      BY <2>4, <2>6, <3>1 DEF Bijection, Injection, Surjection, IsInjective
    <3> QED BY <2>4, <3>2, FS_CountingElements DEF ExistsBijection
  <2>9. \A i \in 1..n : links.previous[c[i]] = IF i = 1 THEN NULL ELSE c[i - 1]
    <3>1. \A i \in 1..n : i - 1 \in 1..n <=> i # 1
      BY <2>4
    <3> QED BY <2>4, <3>1 DEF Place
  <2>10. links.bottom[h] = IF n = 0 THEN NULL ELSE c[n]
    <3>1. n \in 1..n <=> n # 0
      BY <2>4
    <3> QED BY <2>4, <3>1 DEF Place
  <2> QED BY <2>3, <2>7, <2>8, <2>9, <2>10 DEF n, S
<1> QED BY <1>1, HInvariance, PTL

-----------------------------------------------------------------------------
(* What the second pass of a collection leaves behind.                     *)

\* The objects a collection need not delete any more: something refers to them,
\* or they are being deleted.
Done == {o \in Obj : REF[o] > 0 \/ \E k \in 1..Len(frames) : frames[k].list = o}

\* From the top of heap h to x, if x is there, the objects are in D.
UpTo(L, S, h, x, D) ==
  \E c : /\ Ordered(L, S, h, c)
         /\ \A i \in DOMAIN c : c[i] = x => \A j \in 1..i : c[j] \in D

\* The objects before cur are in D, and prev is the last of them.
Before(L, S, h, cur, prev, D) ==
  \E c : /\ Ordered(L, S, h, c)
         /\ cur = NULL => \A j \in DOMAIN c : c[j] \in D
         /\ \A i \in DOMAIN c : c[i] = cur => /\ \A j \in 1..(i - 1) : c[j] \in D
                                              /\ i > 1 => prev = c[i - 1]

\* The second pass has not missed an object, unless it has met a freed one.
Swept ==
  walk # NoGC /\ walk.pass = 2 /\ fault = "none" =>
    IF walk.resume
    THEN ~walk.wasTop => UpTo(links, live, walk.heap, walk.previous, Done)
    ELSE Before(links, live, walk.heap, walk.current, walk.previous, Done)

\* With more objects in the set.
LEMMA UpToMore ==
  ASSUME NEW L, NEW S, NEW h, NEW x, NEW D, NEW E, D \subseteq E, UpTo(L, S, h, x, D)
  PROVE  UpTo(L, S, h, x, E)
BY DEF UpTo

\* An object leaves its heap.
LEMMA UpToFree ==
  ASSUME NEW S \in SUBSET Obj, NEW L, Sound(L, S), NEW o \in S, NEW h \in Heaps,
         NEW x, NEW D, UpTo(L, S, h, x, D), NEW E, D \ {o} \subseteq E
  PROVE  UpTo(Free(L, o), S \ {o}, h, x, E)
<1> DEFINE g == L.heap[o]
           m == L.size[g]
           F == Free(L, o)
<1>1. g \in Heaps /\ L.size \in [Heaps -> Nat]
  BY DEF Sound, LinksType
<1>2. PICK d : Ordered(L, S, g, d)
  BY <1>1 DEF Sound
<1>3. d \in [1..m -> S] /\ m \in Nat /\ (\A i, j \in 1..m : d[i] = d[j] => i = j)
      /\ \E i \in 1..m : d[i] = o
  BY <1>1, <1>2 DEF Ordered
<1>4. PICK p \in 1..m : d[p] = o
  BY <1>3
<1>5. PICK c : Ordered(L, S, h, c) /\ \A i \in DOMAIN c : c[i] = x => \A j \in 1..i : c[j] \in D
  BY DEF UpTo
<1>6. CASE h = g
  <2>1. c \in [1..m -> S] /\ \A i, j \in 1..m : c[i] = c[j] => i = j
    BY <1>5, <1>6 DEF Ordered
  <2>2. PICK q \in 1..m : c[q] = o
    BY <1>5, <1>6 DEF Ordered
  <2>3. Ordered(F, S \ {o}, h, Without(c, m, q))
    BY <1>5, <1>6, <2>2, FreeOrdered
  <2> HIDE DEF g, m, F
  <2>4. ASSUME NEW i \in 1..(m - 1), Without(c, m, q)[i] = x, NEW j \in 1..i
        PROVE  Without(c, m, q)[j] \in E
    <3>1. j \in 1..(m - 1) /\ i \in 1..m /\ i + 1 \in 1..m /\ j \in 1..m /\ j + 1 \in 1..m
      BY <1>3
    <3>2. Without(c, m, q)[i] = (IF i < q THEN c[i] ELSE c[i + 1])
          /\ Without(c, m, q)[j] = (IF j < q THEN c[j] ELSE c[j + 1])
      BY <3>1 DEF Without
    <3>3. DOMAIN c = 1..m
      BY <2>1
    <3>4. PICK k \in 1..m : k # q /\ Without(c, m, q)[j] = c[k] /\ c[k] \in D
      <4>1. CASE i < q
        <5>1. j < q /\ j # q
          BY <4>1
        <5> QED BY <1>5, <2>4, <3>1, <3>2, <3>3, <4>1, <5>1
      <4>2. CASE ~(i < q)
        <5>1. c[i + 1] = x
          BY <2>4, <3>2, <4>2
        <5>2. \A k \in 1..(i + 1) : c[k] \in D
          BY <1>5, <3>1, <3>3, <5>1
        <5>3. CASE j < q
          BY <3>1, <3>2, <5>2, <5>3
        <5>4. CASE ~(j < q)
          <6>1. j + 1 \in 1..(i + 1) /\ j + 1 # q
            BY <3>1, <5>4
          <6> QED BY <3>1, <3>2, <5>2, <5>4, <6>1
        <5> QED BY <5>3, <5>4
      <4> QED BY <4>1, <4>2
    <3>5. c[k] # o
      BY <2>1, <2>2, <3>4
    <3> QED BY <3>4, <3>5
  <2>5. DOMAIN Without(c, m, q) = 1..(m - 1)
    BY DEF Without
  <2> QED BY <2>3, <2>4, <2>5 DEF UpTo, F
<1>7. CASE h # g
  <2>1. Ordered(F, S \ {o}, h, c)
    BY <1>2, <1>4, <1>5, <1>7, FreeOrdered
  <2>2. \A i \in DOMAIN c : c[i] # o /\ \A j \in 1..i : j \in DOMAIN c
    <3> DEFINE n == L.size[h]
    <3>1. c \in [1..n -> S] /\ n \in Nat /\ \A i \in 1..n : L.heap[c[i]] = h
      BY <1>1, <1>5 DEF Ordered
    <3> HIDE DEF n
    <3>2. \A i \in 1..n : \A j \in 1..i : j \in 1..n
      BY <3>1
    <3> QED BY <1>7, <3>1, <3>2
  <2> HIDE DEF F, g
  <2>3. \A i \in DOMAIN c : c[i] = x => \A j \in 1..i : c[j] \in E
    BY <1>5, <2>2
  <2> QED BY <2>1, <2>3 DEF UpTo, F
<1> QED BY <1>6, <1>7

\* An object dies, in the middle of a collection.
LEMMA UpToDeath ==
  ASSUME Sound(links, live), live \in SUBSET Obj, NEW o \in live, NEW ref, NEW below,
         Suicidal(o, ref, TRUE, below), NEW h \in Heaps, NEW x, NEW D,
         UpTo(links, live, h, x, D), NEW E, D \ {o} \subseteq E,
         o \in Lists \/ ref # 0 => D \subseteq E
  PROVE  UpTo(links', live', h, x, E)
<1>1. CASE o \in Lists \/ ref # 0
  <2>1. live' = live /\ links' = links
    BY <1>1 DEF Suicidal, Dies
  <2> QED BY <1>1, <2>1, UpToMore
<1>2. CASE ~(o \in Lists \/ ref # 0)
  <2>1. live' = live \ {o} /\ links' = Free(links, o)
    BY <1>2 DEF Suicidal, Dies
  <2> QED BY <2>1, UpToFree
<1> QED BY <1>1, <1>2

\* An order, with top and next read off it.
LEMMA OrderFacts ==
  ASSUME NEW L, NEW S, NEW h, NEW c, Ordered(L, S, h, c), L.size[h] \in Nat, NULL \notin S
  PROVE  \E n \in Nat :
           /\ c \in [1..n -> S] /\ \A i, j \in 1..n : c[i] = c[j] => i = j
           /\ \A o \in S : L.heap[o] = h => \E i \in 1..n : c[i] = o
           /\ L.top[h] = IF n = 0 THEN NULL ELSE c[1]
           /\ \A i \in 1..n : L.next[c[i]] = IF i = n THEN NULL ELSE c[i + 1]
<1> DEFINE n == L.size[h]
<1>1. /\ c \in [1..n -> S] /\ \A i, j \in 1..n : c[i] = c[j] => i = j
      /\ \A o \in S : L.heap[o] = h => \E i \in 1..n : c[i] = o
      /\ L.top[h] = Place(c, n, 1) /\ n \in Nat
      /\ \A i \in 1..n : L.next[c[i]] = Place(c, n, i + 1)
  BY DEF Ordered
<1> HIDE DEF n
<1>2. L.top[h] = IF n = 0 THEN NULL ELSE c[1]
  <2>1. 1 \in 1..n <=> n # 0
    BY <1>1
  <2> QED BY <1>1, <2>1 DEF Place
<1>3. \A i \in 1..n : L.next[c[i]] = IF i = n THEN NULL ELSE c[i + 1]
  <2>1. \A i \in 1..n : i + 1 \in 1..n <=> i # n
    BY <1>1
  <2> QED BY <1>1, <2>1 DEF Place
<1> QED BY <1>1, <1>2, <1>3

\* A walk that starts at the top.
LEMMA FromTop ==
  ASSUME NEW L, NEW S, Sound(L, S), NULL \notin S, NEW h \in Heaps, NEW prev, NEW D
  PROVE  Before(L, S, h, L.top[h], prev, D)
<1>1. PICK c : Ordered(L, S, h, c)
  BY DEF Sound
<1>2. L.size[h] \in Nat
  BY DEF Sound, LinksType
<1>3. PICK n \in Nat :
        /\ c \in [1..n -> S] /\ \A i, j \in 1..n : c[i] = c[j] => i = j
        /\ L.top[h] = IF n = 0 THEN NULL ELSE c[1]
  BY <1>1, <1>2, OrderFacts
<1>4. L.top[h] = NULL => DOMAIN c = {}
  <2>1. n # 0 => c[1] \in S
    BY <1>3
  <2> QED BY <1>3, <2>1
<1>5. ASSUME NEW i \in DOMAIN c, c[i] = L.top[h] PROVE i = 1
  <2>1. i \in 1..n /\ 1 \in 1..n /\ n # 0
    BY <1>3
  <2> QED BY <1>3, <1>5, <2>1
<1> QED BY <1>1, <1>4, <1>5 DEF Before

\* A walk that steps over x, up to which all is in D.
LEMMA StepOver ==
  ASSUME NEW L, NEW S, Sound(L, S), NULL \notin S, NEW h \in Heaps,
         NEW x \in S, L.heap[x] = h, NEW D, UpTo(L, S, h, x, D)
  PROVE  Before(L, S, h, L.next[x], x, D)
<1>1. PICK c : Ordered(L, S, h, c) /\ \A i \in DOMAIN c : c[i] = x => \A j \in 1..i : c[j] \in D
  BY DEF UpTo
<1>2. L.size[h] \in Nat
  BY DEF Sound, LinksType
<1>3. PICK n \in Nat :
        /\ c \in [1..n -> S] /\ \A i, j \in 1..n : c[i] = c[j] => i = j
        /\ \A o \in S : L.heap[o] = h => \E i \in 1..n : c[i] = o
        /\ \A i \in 1..n : L.next[c[i]] = IF i = n THEN NULL ELSE c[i + 1]
  BY <1>1, <1>2, OrderFacts
<1>4. PICK p \in 1..n : c[p] = x
  BY <1>3
<1>5. \A j \in 1..p : c[j] \in D
  BY <1>1, <1>3, <1>4
<1>6. L.next[x] = IF p = n THEN NULL ELSE c[p + 1]
  BY <1>3, <1>4
<1>7. p # n => p + 1 \in 1..n
  BY <1>4
<1>8. L.next[x] = NULL => \A j \in DOMAIN c : c[j] \in D
  <2>1. p # n => c[p + 1] \in S
    BY <1>3, <1>7
  <2> QED BY <1>3, <1>5, <1>6, <2>1
<1>9. ASSUME NEW i \in DOMAIN c, c[i] = L.next[x]
      PROVE  (\A j \in 1..(i - 1) : c[j] \in D) /\ (i > 1 => x = c[i - 1])
  <2>1. i \in 1..n /\ c[i] \in S
    BY <1>3
  <2>2. p # n /\ i = p + 1
    BY <1>3, <1>6, <1>7, <1>9, <2>1
  <2> QED BY <1>4, <1>5, <2>2
<1> QED BY <1>1, <1>8, <1>9 DEF Before

\* A walk at cur, which is not the top.
LEMMA BehindIt ==
  ASSUME NEW L, NEW S, Sound(L, S), NULL \notin S, NEW h \in Heaps, NEW cur \in S, L.heap[cur] = h,
         NEW prev, NEW D, Before(L, S, h, cur, prev, D)
  PROVE  /\ cur # L.top[h] => UpTo(L, S, h, prev, D)
         /\ cur \in D => UpTo(L, S, h, cur, D)
<1>1. PICK c : /\ Ordered(L, S, h, c)
               /\ \A i \in DOMAIN c : c[i] = cur => /\ \A j \in 1..(i - 1) : c[j] \in D
                                                    /\ i > 1 => prev = c[i - 1]
  BY DEF Before
<1>2. L.size[h] \in Nat
  BY DEF Sound, LinksType
<1>3. PICK n \in Nat :
        /\ c \in [1..n -> S] /\ \A i, j \in 1..n : c[i] = c[j] => i = j
        /\ \A o \in S : L.heap[o] = h => \E i \in 1..n : c[i] = o
        /\ L.top[h] = IF n = 0 THEN NULL ELSE c[1]
  BY <1>1, <1>2, OrderFacts
<1>4. PICK p \in 1..n : c[p] = cur
  BY <1>3
<1>5. (\A j \in 1..(p - 1) : c[j] \in D) /\ (p > 1 => prev = c[p - 1])
  BY <1>1, <1>3, <1>4
<1>6. ASSUME cur # L.top[h] PROVE UpTo(L, S, h, prev, D)
  <2>1. p > 1 /\ p - 1 \in 1..n
    BY <1>3, <1>4, <1>6
  <2>2. ASSUME NEW i \in DOMAIN c, c[i] = prev, NEW j \in 1..i PROVE c[j] \in D
    <3>1. i = p - 1
      BY <1>3, <1>5, <2>1, <2>2
    <3> QED BY <1>5, <2>2, <3>1
  <2> QED BY <1>1, <2>2 DEF UpTo
<1>7. ASSUME cur \in D PROVE UpTo(L, S, h, cur, D)
  <2>1. ASSUME NEW i \in DOMAIN c, c[i] = cur, NEW j \in 1..i PROVE c[j] \in D
    <3>1. i = p /\ (j = p \/ j \in 1..(p - 1))
      BY <1>3, <1>4, <2>1
    <3> QED BY <1>4, <1>5, <1>7, <3>1
  <2> QED BY <1>1, <2>1 DEF UpTo
<1> QED BY <1>6, <1>7

-----------------------------------------------------------------------------
\* Suicidal of a list, during the second pass: its elements die, wherever they are.
LEMMA DropElemSwept ==
  ASSUME HInv, Swept, DropElem
  PROVE  Swept'
<1> SUFFICES ASSUME walk # NoGC, walk.pass = 2, fault = "none"
             PROVE  walk.resume /\ (~walk.wasTop => UpTo(links', live', walk.heap, walk.previous, Done'))
  BY DEF Swept, DropElem
<1> DEFINE n == Len(frames)
           f == frames[n]
           e == data[f.list][f.pos]
           ref == Less1(REF[e])
           below == [frames EXCEPT ![n].pos = @ + 1]
<1>1. /\ frames # <<>> /\ f.pos <= Len(data[f.list])
      /\ REF' = [REF EXCEPT ![e] = ref]
      /\ Suicidal(e, ref, f.force, below)
  BY DEF DropElem
<1>2. frames \in Seq(FrameType) /\ n \in Nat \ {0} /\ walk \in WalkType /\ walk.resume
  BY <1>1 DEF HInv, Lasting, FramesOK, WalkOK
<1>3. /\ f \in FrameType /\ f.list \in Lists /\ f.pos \in Nat \ {0} /\ f.force = TRUE
  <2>1. n \in 1..Len(frames)
    BY <1>2
  <2>2. FramesOK
    BY DEF HInv, Lasting
  <2>3. frames[n].force
    BY <2>1, <2>2 DEF FramesOK
  <2>4. /\ frames[n] \in FrameType /\ frames[n].list \in Lists /\ frames[n].pos \in Nat \ {0}
        /\ frames[n].force \in BOOLEAN
    BY <2>1, FrameFacts
  <2> QED BY <2>3, <2>4
<1>4. e \in Obj /\ REF[e] \in Nat /\ REF \in [Obj -> Nat] /\ live \in SUBSET Obj /\ Sound(links, live)
      /\ walk.heap \in Heaps
  <2>1. data[f.list] \in Seq(Obj) /\ f.pos \in 1..Len(data[f.list])
    BY <1>1, <1>3 DEF HInv, Lasting, DataOK, DataType
  <2>2. e \in Obj
    BY <2>1
  <2>3. REF \in [Obj -> Nat] /\ live \in SUBSET Obj /\ Sound(links, live)
    BY DEF HInv, Lasting, P!IInv, P!TypeOK
  <2> QED BY <1>2, <2>2, <2>3 DEF WalkType
<1>5. e \in live
  <2>1. f.pos \in 1..MaxLen /\ \A k \in 1..n : frames[k].list = f.list => frames[k].pos <= f.pos
    <3>1. Len(data[f.list]) <= MaxLen /\ Len(data[f.list]) \in Nat /\ MaxLen \in Nat
      BY <1>3, PointerAssumption DEF HInv, Lasting, DataOK, DataType
    <3>2. \A k \in 1..n : frames[k].list = f.list => k = n
      BY <1>2 DEF HInv, Lasting, FramesOK, OneFrame
    <3> QED BY <1>1, <1>3, <3>1, <3>2
  <2>2. heldBar[<<f.list, f.pos>>] = e
    BY <1>1, <1>3, <2>1, ElemHeld DEF HInv, Lasting, Elem
  <2>3. <<f.list, f.pos>> \in P!Cells
    BY <1>3, <2>1, CellIs
  <2> QED BY <1>4, <2>2, <2>3, NullIs DEF HInv, P!IInv, P!NoDangling
<1>6. below \in Seq(FrameType) /\ Len(below) = n /\ \A k \in 1..n : below[k].list = frames[k].list
  <2>1. [f EXCEPT !.pos = @ + 1] \in FrameType /\ [f EXCEPT !.pos = @ + 1].list = f.list
    BY <1>3 DEF FrameType
  <2> DEFINE g == [f EXCEPT !.pos = @ + 1]
  <2>2. below = [frames EXCEPT ![n] = g]
    OBVIOUS
  <2> HIDE DEF g
  <2> QED BY <1>2, <2>1, <2>2 DEF g
<1>7. /\ \A k \in 1..n : k \in 1..Len(frames') /\ frames'[k].list = frames[k].list
      /\ e \in Lists /\ ref = 0 => \E k \in 1..Len(frames') : frames'[k].list = e
  <2> DEFINE new == [list |-> e, pos |-> 1, force |-> f.force]
  <2>1. frames' = below \/ frames' = Append(below, new)
    BY <1>1 DEF Suicidal
  <2>2. e \in Lists /\ ref = 0 => frames' = Append(below, new)
    BY <1>1, <1>3 DEF Suicidal, Dies
  <2>3. new.list = e
    OBVIOUS
  <2> HIDE DEF new, below
  <2>4. /\ Len(Append(below, new)) = n + 1 /\ Append(below, new)[n + 1] = new
        /\ \A k \in 1..n : Append(below, new)[k] = below[k]
    BY <1>2, <1>6
  <2>5. CASE frames' = below
    <3>1. ~(e \in Lists /\ ref = 0)
      BY <1>2, <1>6, <2>2, <2>4, <2>5
    <3> QED BY <1>6, <2>5, <3>1
  <2>6. CASE frames' = Append(below, new)
    <3>1. Len(frames') = n + 1 /\ frames'[n + 1] = new /\ \A k \in 1..n : frames'[k] = below[k]
      BY <2>4, <2>6
    <3>2. n + 1 \in 1..(n + 1) /\ \A k \in 1..n : k \in 1..(n + 1)
      BY <1>2
    <3> QED BY <1>6, <2>3, <3>1, <3>2
  <2> QED BY <2>1, <2>5, <2>6
<1> HIDE DEF n, f, e, ref, below
<1>8. \A x \in Done : x # e => x \in Done'
  <2> SUFFICES ASSUME NEW x \in Done, x # e PROVE x \in Done'
    OBVIOUS
  <2>1. x \in Obj /\ REF'[x] = REF[x]
    BY <1>1, <1>4 DEF Done
  <2>2. ASSUME NEW k \in 1..n, frames[k].list = x PROVE \E i \in 1..Len(frames') : frames'[i].list = x
    BY <1>7, <2>2
  <2> QED BY <2>1, <2>2 DEF Done, n
<1>9. ASSUME e \in Lists \/ ref # 0 PROVE e \in Done'
  <2>1. ref # 0 => REF'[e] > 0
    BY <1>1, <1>4 DEF ref, Less1
  <2> QED BY <1>4, <1>7, <1>9, <2>1 DEF Done
<1>10. ASSUME ~walk.wasTop PROVE UpTo(links', live', walk.heap, walk.previous, Done')
  <2>1. UpTo(links, live, walk.heap, walk.previous, Done)
    BY <1>2, <1>10 DEF Swept
  <2>2. Suicidal(e, ref, TRUE, below)
    BY <1>1, <1>3
  <2>3. Done \ {e} \subseteq Done' /\ (e \in Lists \/ ref # 0 => Done \subseteq Done')
    BY <1>8, <1>9
  <2> QED BY <1>4, <1>5, <2>1, <2>2, <2>3, UpToDeath
<1> QED BY <1>2, <1>10

\* The list dies after its elements.
LEMMA DeleteListSwept ==
  ASSUME HInv, Swept, DeleteList
  PROVE  Swept'
<1> SUFFICES ASSUME walk # NoGC, walk.pass = 2, fault = "none"
             PROVE  walk.resume /\ (~walk.wasTop => UpTo(links', live', walk.heap, walk.previous, Done'))
  BY DEF Swept, DeleteList
<1> DEFINE n == Len(frames)
           l == frames[n].list
<1>1. /\ frames # <<>> /\ live' = live \ {l} /\ links' = Free(links, l) /\ REF' = REF
      /\ frames' = Front(frames)
  BY DEF DeleteList
<1>2. FramesOK /\ frames \in Seq(FrameType) /\ n \in Nat \ {0} /\ walk \in WalkType /\ walk.resume
  BY <1>1 DEF HInv, Lasting, FramesOK, WalkOK
<1>3. /\ l \in live /\ live \in SUBSET Obj /\ Sound(links, live) /\ walk.heap \in Heaps
  <2>1. n \in 1..Len(frames)
    BY <1>2
  <2>2. l \in live
    BY <2>1, FrameFacts
  <2> QED BY <1>2, <2>2 DEF HInv, Lasting, P!IInv, P!TypeOK, WalkType
<1>4. Len(frames') = n - 1 /\ \A k \in 1..(n - 1) : frames'[k] = frames[k]
  <2>1. PoppedTo(frames, frames', n)
    BY <1>1, <1>2, PopNow
  <2> QED BY <2>1 DEF PoppedTo
<1>5. Done \ {l} \subseteq Done'
  <2> SUFFICES ASSUME NEW x \in Done, x # l PROVE x \in Done'
    OBVIOUS
  <2>1. x \in Obj /\ REF'[x] = REF[x]
    BY <1>1 DEF Done
  <2>2. ASSUME NEW k \in 1..n, frames[k].list = x PROVE \E i \in 1..Len(frames') : frames'[i].list = x
    <3>1. k \in 1..(n - 1)
      BY <1>2, <2>2
    <3> QED BY <1>4, <2>2, <3>1
  <2> QED BY <2>1, <2>2 DEF Done
<1> HIDE DEF n, l
<1>6. ASSUME ~walk.wasTop PROVE UpTo(links', live', walk.heap, walk.previous, Done')
  <2>1. UpTo(links, live, walk.heap, walk.previous, Done)
    BY <1>2, <1>6 DEF Swept
  <2> QED BY <1>1, <1>3, <1>5, <2>1, UpToFree
<1> QED BY <1>2, <1>6

\* The second pass steps over an object something refers to.
LEMMA GCPassSwept ==
  ASSUME HInv, Swept, GCVisit, REF[walk.current] # 0
  PROVE  Swept'
<1> DEFINE o == walk.current
           x == links.next[o]
<1>1. /\ InGC /\ ~walk.resume /\ o # NULL /\ ~Dies(o, REF[o], TRUE)
      /\ walk' = [walk EXCEPT !.previous = o, !.current = x]
      /\ UNCHANGED <<REF, contained, data, root, fault>>
  BY DEF GCVisit, Dies
<1>2. UNCHANGED <<live, links, frames>>
  BY <1>1 DEF GCVisit, Suicidal
<1>3. /\ walk \in WalkType /\ o \in live /\ links.heap[o] = walk.heap /\ o \in Ptr /\ walk.heap \in Heaps
      /\ walk.pass \in {1, 2} /\ walk # NoGC
  BY <1>1, InWalk DEF WalkType, InGC
<1>4. /\ Sound(links, live) /\ NULL \notin live /\ live \in SUBSET Obj /\ x \in Ptr
  BY <1>3, LinkTypes
<1>5. walk' = Moved(walk, x, o, walk.pass)
  BY <1>1, <1>3, SameFields
<1> HIDE DEF x
<1>6. /\ walk'.heap = walk.heap /\ walk'.current = x /\ walk'.previous = o /\ walk'.resume = FALSE
      /\ walk'.pass = walk.pass
  BY <1>3, <1>4, <1>5 DEF Moved, WalkType
<1>7. Done' = Done
  BY <1>1, <1>2 DEF Done
<1>8. o \in Done
  <2>1. o \in Obj /\ REF[o] \in Nat /\ REF[o] # 0
    BY <1>3, <1>4 DEF HInv, P!IInv, P!TypeOK
  <2> QED BY <2>1 DEF Done
<1>9. ASSUME walk.pass = 2, fault = "none"
      PROVE  Before(links, live, walk.heap, x, o, Done)
  <2>1. Before(links, live, walk.heap, walk.current, walk.previous, Done)
    BY <1>1, <1>3, <1>9 DEF Swept
  <2>2. UpTo(links, live, walk.heap, o, Done)
    BY <1>3, <1>4, <1>8, <2>1, BehindIt
  <2> QED BY <1>3, <1>4, <2>2, StepOver DEF x
<1> QED BY <1>1, <1>2, <1>6, <1>7, <1>9 DEF Swept

\* The second pass has an object deleted.
LEMMA GCKillSwept ==
  ASSUME HInv, Swept, GCVisit, REF[walk.current] = 0
  PROVE  Swept'
<1> DEFINE o == walk.current
           top == (o = links.top[walk.heap])
<1>1. /\ InGC /\ ~walk.resume /\ o # NULL /\ REF[o] = 0
      /\ Suicidal(o, 0, TRUE, frames)
      /\ walk' = [walk EXCEPT !.resume = TRUE, !.wasTop = top]
      /\ UNCHANGED <<REF, contained, data, root, fault>>
  BY DEF GCVisit
<1>2. /\ walk \in WalkType /\ frames = <<>> /\ o \in live /\ links.heap[o] = walk.heap
      /\ walk.heap \in Heaps /\ walk # NoGC
  BY <1>1, InWalk DEF InGC
<1>3. /\ walk'.heap = walk.heap /\ walk'.resume = TRUE /\ walk'.wasTop = top
      /\ walk'.previous = walk.previous /\ walk'.pass = walk.pass
  BY <1>1, <1>2 DEF WalkType
<1>4. /\ Sound(links, live) /\ NULL \notin live /\ live \in SUBSET Obj
  BY LinkTypes
<1>5. /\ Done \ {o} \subseteq Done' /\ (o \in Lists \/ 0 # 0 => Done \subseteq Done')
  <2>1. \A x \in Done : REF[x] > 0
    BY <1>2 DEF Done
  <2> QED BY <1>1, <2>1 DEF Done
<1>6. ASSUME walk.pass = 2, fault = "none", ~top
      PROVE  UpTo(links', live', walk.heap, walk.previous, Done')
  <2>1. Before(links, live, walk.heap, walk.current, walk.previous, Done)
    BY <1>1, <1>2, <1>6 DEF Swept
  <2>2. UpTo(links, live, walk.heap, walk.previous, Done)
    BY <1>2, <1>4, <1>6, <2>1, BehindIt
  <2> HIDE DEF o
  <2> QED BY <1>1, <1>2, <1>4, <1>5, <2>2, UpToDeath
<1> QED BY <1>1, <1>3, <1>6 DEF Swept

\* The second pass goes on after it.
LEMMA GCResumeSwept ==
  ASSUME HInv, Swept, GCResume
  PROVE  Swept'
<1> DEFINE x == IF walk.wasTop THEN links.top[walk.heap] ELSE links.next[walk.previous]
<1>1. /\ InGC /\ walk.resume /\ (walk.wasTop \/ walk.previous \in live)
      /\ walk' = [walk EXCEPT !.resume = FALSE, !.current = x]
      /\ UNCHANGED <<live, REF, contained, links, data, root, frames, fault>>
  BY DEF GCResume
<1>2. /\ walk \in WalkType /\ walk.heap \in Heaps /\ walk # NoGC
      /\ walk.previous \in Ptr /\ (walk.previous # NULL => links.heap[walk.previous] = walk.heap)
      /\ walk.pass \in {1, 2} /\ walk.wasTop \in BOOLEAN
  BY <1>1, InWalk DEF WalkType, InGC
<1>3. x \in Ptr /\ Sound(links, live) /\ NULL \notin live
  BY <1>1, <1>2, LinkTypes
<1>4. walk' = Moved(walk, x, walk.previous, walk.pass)
  BY <1>1, <1>2, SameFields
<1> HIDE DEF x
<1>5. /\ walk'.heap = walk.heap /\ walk'.current = x /\ walk'.previous = walk.previous
      /\ walk'.resume = FALSE /\ walk'.pass = walk.pass
  BY <1>2, <1>3, <1>4 DEF Moved, WalkType
<1>6. Done' = Done
  BY <1>1 DEF Done
<1>7. ASSUME walk.pass = 2, fault = "none"
      PROVE  Before(links, live, walk.heap, x, walk.previous, Done)
  <2>1. CASE walk.wasTop
    BY <1>2, <1>3, <2>1, FromTop DEF x
  <2>2. CASE ~walk.wasTop
    <3>1. UpTo(links, live, walk.heap, walk.previous, Done)
      BY <1>1, <1>2, <1>7, <2>2 DEF Swept
    <3>2. walk.previous \in live /\ links.heap[walk.previous] = walk.heap
      BY <1>1, <1>2, <1>3, <2>2
    <3> QED BY <1>2, <1>3, <2>2, <3>1, <3>2, StepOver DEF x
  <2> QED BY <2>1, <2>2
<1> QED BY <1>1, <1>5, <1>6, <1>7 DEF Swept

\* The second pass starts.
LEMMA GCSecondPassSwept ==
  ASSUME HInv, Swept, GCSecondPass
  PROVE  Swept'
<1> DEFINE x == links.top[walk.heap]
<1>1. /\ InGC /\ ~walk.resume
      /\ walk' = [walk EXCEPT !.pass = 2, !.current = x, !.previous = x]
      /\ UNCHANGED <<live, REF, contained, links, data, root, frames, fault>>
  BY DEF GCSecondPass
<1>2. walk \in WalkType /\ walk.heap \in Heaps
  BY <1>1, InWalk
<1>3. x \in Ptr /\ Sound(links, live) /\ NULL \notin live
  BY <1>2, LinkTypes
<1>4. walk' = Moved(walk, x, x, 2)
  BY <1>1, <1>2, SameFields
<1> HIDE DEF x
<1>5. walk'.heap = walk.heap /\ walk'.current = x /\ walk'.previous = x /\ walk'.resume = FALSE
  BY <1>2, <1>3, <1>4 DEF Moved, WalkType
<1>6. Before(links, live, walk.heap, x, x, Done')
  BY <1>2, <1>3, FromTop DEF x
<1> QED BY <1>1, <1>5, <1>6 DEF Swept

\* Everything a run that is not in a collection does leaves it so.
LEMMA NotSweeping ==
  ASSUME HInv, Swept, [Next]_vars, ~GCStep, ~DropElem, ~DeleteList
  PROVE  Swept'
<1>1. ASSUME walk' = NoGC PROVE Swept'
  BY <1>1 DEF Swept
<1>2. ASSUME Idle, walk' = walk PROVE Swept'
  BY <1>1, <1>2 DEF Idle
<1>3. CASE \E o \in Obj, h \in Heaps : New(o, h)
  BY <1>2, <1>3 DEF New
<1>4. CASE \E c \in Vars \cup Args, o \in Obj : Hold(c, o)
  BY <1>2, <1>4 DEF Hold
<1>5. CASE \E v \in Vars, o \in Obj : Replace(v, o)
  BY <1>2, <1>5 DEF Replace
<1>6. CASE \E v \in Vars : Release(v)
  BY <1>2, <1>6 DEF Release
<1>7. CASE \E a \in Args : DropArg(a)
  BY <1>2, <1>7 DEF DropArg
<1>8. CASE \E l \in Lists, o \in Obj : Add2End(l, o)
  BY <1>2, <1>8 DEF Add2End
<1>9. CASE \E l \in Lists, o \in Obj : AppendToItself(l, o)
  BY <1>2, <1>9 DEF AppendToItself
<1>10. CASE \E o \in Obj, h \in Heaps : ExportTo(o, h)
  BY <1>2, <1>10 DEF ExportTo
<1>11. CASE \E h \in Heaps : GCStart(h)
  <2>1. PICK h \in Heaps : GCStart(h)
    BY <1>11
  <2>2. walk'.pass = 1
    BY <2>1 DEF GCStart
  <2> QED BY <2>2 DEF Swept
<1>12. CASE Crashed \/ UNCHANGED vars
  BY <1>12 DEF Crashed, vars, Swept, Done
<1> QED BY <1>3, <1>4, <1>5, <1>6, <1>7, <1>8, <1>9, <1>10, <1>11, <1>12 DEF Next

\* No step makes the second pass miss an object.
LEMMA SweptNext == HInv /\ Swept /\ [Next]_vars => Swept'
<1> SUFFICES ASSUME HInv, Swept, [Next]_vars PROVE Swept'
  OBVIOUS
<1>1. CASE GCVisit
  BY <1>1, GCPassSwept, GCKillSwept
<1>2. CASE GCSkip
  <2>1. walk'.pass = 1
    <3>1. walk \in WalkType /\ walk.pass = 1 /\ walk' = [walk EXCEPT !.current = links.next[walk.current]]
      BY <1>2, InWalk DEF GCSkip
    <3> QED BY <3>1 DEF WalkType
  <2> QED BY <2>1 DEF Swept
<1>3. CASE GCResume
  BY <1>3, GCResumeSwept
<1>4. CASE GCResumeStale
  <2>1. fault' # "none"
    BY <1>4 DEF GCResumeStale
  <2> QED BY <2>1 DEF Swept
<1>5. CASE GCSecondPass
  BY <1>5, GCSecondPassSwept
<1>6. CASE GCEnd
  BY <1>6 DEF GCEnd, Swept
<1>7. CASE DropElem
  BY <1>7, DropElemSwept
<1>8. CASE DeleteList
  BY <1>8, DeleteListSwept
<1>9. CASE ~GCStep /\ ~DropElem /\ ~DeleteList
  BY <1>9, NotSweeping
<1> QED BY <1>1, <1>2, <1>3, <1>4, <1>5, <1>6, <1>7, <1>8, <1>9 DEF GCStep

(* A collection that has not met a freed object leaves only objects something
   refers to in its heap, whatever the order of its list and whatever else the
   deletions it makes delete. *)
THEOREM CollectionsComplete == Spec => []GCCompleteUnlessStale
<1>1. Init => Swept
  BY DEF Init, Swept
<1>2. HInv /\ Swept => GCCompleteUnlessStale
  <2> SUFFICES ASSUME HInv, Swept, AtGCEnd, fault = "none", NEW o \in live, links.heap[o] = walk.heap
               PROVE  REF[o] > 0
    BY DEF GCCompleteUnlessStale
  <2>1. walk # NoGC /\ frames = <<>> /\ ~walk.resume /\ walk.pass = 2 /\ walk.current = NULL
    BY DEF AtGCEnd, InGC
  <2>2. Before(links, live, walk.heap, NULL, walk.previous, Done)
    BY <2>1 DEF Swept
  <2>3. PICK c : Ordered(links, live, walk.heap, c) /\ \A j \in DOMAIN c : c[j] \in Done
    BY <2>2 DEF Before
  <2>4. \E i \in DOMAIN c : c[i] = o
    BY <2>3 DEF Ordered
  <2>5. o \in Done
    BY <2>3, <2>4
  <2> QED BY <2>1, <2>5 DEF Done
<1> QED BY <1>1, <1>2, SweptNext, HInvariance, PTL DEF Spec
=============================================================================
