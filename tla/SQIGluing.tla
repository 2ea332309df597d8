------------------------------ MODULE SQIGluing ------------------------------
(***************************************************************************)
(* The gluing of widgets on a window of the GUI add-on: Glue and           *)
(* DynamicGluing, Unglue and ReGluing, StaticGluing when the window is     *)
(* resized, and ExpandChilds, which gives the free space to the widgets    *)
(* that want it and aligns the others.  SQI_Box and SQI_Frame hold copies  *)
(* of this code.                                                           *)
(*                                                                         *)
(* Coordinates are pixels; a BRect holds its right and bottom pixels, and  *)
(* its Width is one less than its pixels.  The window learns of its size   *)
(* from FrameResized messages, and a counter tells it which of them it has *)
(* caused itself.                                                          *)
(***************************************************************************)
EXTENDS Integers, FiniteSets, Sequences, SequencesExt, FiniteSetsExt

CONSTANTS
  Widgets,
  Pref,        \* their preferred sizes: a function to records of w and h
  ExpandX,     \* the widgets that expand in a direction
  ExpandY,
  HAlign,      \* how widgets are aligned that do not fill their space
  VAlign,
  Aligns,      \* the sides widgets are glued to, of the four
  UserSizes,   \* by how much the user makes the window larger than its least size
  Regluable,   \* scripts unglue and reglue while all widgets are at these sides
  MaxChanges   \* bound: how often the user resizes and scripts unglue and reglue

ASSUME GluingAssumption ==
  /\ Pref \in [Widgets -> [w : Nat \ {0}, h : Nat \ {0}]]
  /\ ExpandX \subseteq Widgets /\ ExpandY \subseteq Widgets
  /\ HAlign \in [Widgets -> {"left", "center", "right"}]
  /\ VAlign \in [Widgets -> {"top", "center", "bottom"}]
  /\ Aligns \subseteq {"top", "bottom", "left", "right"}
  /\ UserSizes \subseteq [w : Nat, h : Nat]
  /\ Regluable \subseteq Aligns
  /\ MaxChanges \in Nat

VARIABLES
  Contents,       \* the gluing sequence: widgets and alignments
  frame,          \* the frames of the widgets glued
  RealBounds,     \* the bounds the layout is for
  bounds,         \* Width and Height of the window
  least,          \* minw and minh
  resized_count,  \* how many FrameResized of its own the window expects
  messages,       \* the FrameResized messages under way
  unsent,         \* history: a resizing to the size the window had sent no message
  changes         \* how often the user has resized or a script unglued or reglued

vars == <<Contents, frame, RealBounds, bounds, least, resized_count, messages, unsent, changes>>

Rect(l, t, r, b) == [l |-> l, t |-> t, r |-> r, b |-> b]
empty    == Rect(0, 0, 0, 0)
Width(f)  == f.r - f.l
Height(f) == f.b - f.t
Sized(w, h, x, y) == Rect(x, y, x + w, y + h)
Shifted(f, h, v)  == Rect(f.l + h, f.t + v, f.r + h, f.b + v)
Preferred(w)      == Sized(Pref[w].w, Pref[w].h, 0, 0)

Init ==
  /\ Contents = <<>> /\ frame = <<>>
  /\ RealBounds = empty
  /\ bounds = [w |-> 0, h |-> 0] /\ least = bounds
  /\ resized_count = 0 /\ messages = <<>>
  /\ unsent = FALSE /\ changes = 0

-----------------------------------------------------------------------------
\* MoveByChilds, for the widgets of S.
MoveByChilds(fr, S, h, v) ==
  [w \in DOMAIN fr |-> IF w \in S THEN Shifted(fr[w], h, v) ELSE fr[w]]

\* Two frames that share rows, or columns, as OnLeft, OnRight, OnTop and OnBottom
\* see it: a row at the edge is not enough, a column is.
ShareRows(f, g)    == g.b > f.t /\ g.t < f.b
ShareColumns(f, g) == g.r >= f.l /\ g.l <= f.r

\* Mutant: a neighbour counts only if it lies wholly beside the frame.
OnSideWhole(side, f, g) ==
  CASE side = "left"   -> g.r <= f.l /\ g.t >= f.t /\ g.b <= f.b
    [] side = "right"  -> g.l >= f.r /\ g.t >= f.t /\ g.b <= f.b
    [] side = "top"    -> g.b <= f.t /\ g.l >= f.l /\ g.r <= f.r
    [] side = "bottom" -> g.t >= f.b /\ g.l >= f.l /\ g.r <= f.r

OnSide(side, f, g) ==
  CASE side = "left"   -> g.r <= f.l /\ ShareRows(f, g)
    [] side = "right"  -> g.l >= f.r /\ ShareRows(f, g)
    [] side = "top"    -> g.b <= f.t /\ ShareColumns(f, g)
    [] side = "bottom" -> g.t >= f.b /\ ShareColumns(f, g)

Distance(side, f, g) ==
  CASE side = "left"   -> f.l - g.r
    [] side = "right"  -> g.l - f.r
    [] side = "top"    -> f.t - g.b
    [] side = "bottom" -> g.t - f.b

\* FindClosest, and the edge of the window when there is no widget on that side.
Room(fr, real, w, side) ==
  LET f    == fr[w]
      near == {Distance(side, f, fr[x]) : x \in {y \in DOMAIN fr \ {w} : OnSide(side, f, fr[y])}}
      edge == CASE side = "left"  -> f.l [] side = "right"  -> real.r - f.r
                [] side = "top"   -> f.t [] side = "bottom" -> real.b - f.b
  IN IF near = {} THEN edge ELSE Min(near) - 1

Area(f) == Width(f) * Height(f)
AreaChilds(fr) == FoldSet(LAMBDA w, n : n + Area(fr[w]), 0, DOMAIN fr)

GrowX(fr, real, w) ==
  IF w \notin ExpandX THEN fr
  ELSE [fr EXCEPT ![w].l = @ - Room(fr, real, w, "left"), ![w].r = @ + Room(fr, real, w, "right")]
GrowY(fr, real, w) ==
  IF w \notin ExpandY THEN fr
  ELSE [fr EXCEPT ![w].t = @ - Room(fr, real, w, "top"), ![w].b = @ + Room(fr, real, w, "bottom")]

\* The first loop of ExpandChilds: across the side it is glued to last.
Expanded(contents, fr, real) ==
  FoldLeft(LAMBDA now, g :
             IF Area(real) <= AreaChilds(now) THEN now
             ELSE IF g.align \in {"top", "bottom"} THEN GrowX(GrowY(now, real, g.widget), real, g.widget)
             ELSE GrowY(GrowX(now, real, g.widget), real, g.widget),
           fr, contents)

\* How far a widget is moved between what is before and after it.  Half a pixel is
\* rounded off.
Offset(how, before, after) ==
  CASE how = "center"            -> IF after > before THEN (after - before) \div 2 ELSE 0
    [] how \in {"right", "bottom"} -> IF after > 0 /\ after # before THEN after ELSE 0
    [] OTHER                     -> 0

\* The second loop: f is the frame before both moves, the rooms are those of the moment.
Aligned(contents, fr, real) ==
  LET hor(now, w) == Offset(HAlign[w], Room(now, real, w, "left"), Room(now, real, w, "right"))
      ver(now, w) == Offset(VAlign[w], Room(now, real, w, "top"), Room(now, real, w, "bottom"))
      move(now, w) == LET moved == MoveByChilds(now, {w}, hor(now, w), 0)
                      IN MoveByChilds(moved, {w}, 0, ver(moved, w))
  IN FoldLeft(LAMBDA now, g : move(now, g.widget), fr, contents)

\* The frames are those the widgets keep: Virtual2Real, which moves the views there,
\* and which the return out of the first loop skips, is left out.
ExpandChilds(contents, fr, real) ==
  LET grown == Expanded(contents, fr, real)
  IN IF Area(real) <= AreaChilds(grown) THEN grown ELSE Aligned(contents, grown, real)

-----------------------------------------------------------------------------
Put(fr, w, f) == [x \in DOMAIN fr \cup {w} |-> IF x = w THEN f ELSE fr[x]]

\* One widget of size f is glued to a side of what is glued already, and the
\* bounds grow by hor and ver.
GlueTo(lay, g, f, hor, ver) ==
  LET all == DOMAIN lay.frame
      fr  == CASE g.align = "top"  -> MoveByChilds(lay.frame, all, 0, ver)
               [] g.align = "left" -> MoveByChilds(lay.frame, all, Width(f) + 1, 0)
               [] OTHER            -> lay.frame
      x   == IF g.align = "right" THEN lay.real.r + 1 ELSE 0
      y   == IF g.align = "bottom" THEN lay.real.b + 1 ELSE 0
  IN [frame |-> Put(fr, g.widget, Shifted(f, x, y)),
      real  |-> Rect(0, 0, lay.real.r + hor, lay.real.b + ver)]

Vertically(g) == g.align \in {"top", "bottom"}

\* Mutant: the bounds do not grow across the side.
DynamicNarrow(lay, g) ==
  LET f == Preferred(g.widget)
  IN IF lay.real = empty THEN [frame |-> Put(lay.frame, g.widget, f), real |-> f]
     ELSE IF Vertically(g) THEN GlueTo(lay, g, f, 0, Height(f) + 1)
     ELSE GlueTo(lay, g, f, Width(f) + 1, 0)

\* DynamicGluing of one widget.
Dynamic(lay, g) ==
  LET f    == Preferred(g.widget)
      more(size, old) == IF size > old THEN size - old + 1 ELSE 0
  IN IF lay.real = empty THEN [frame |-> Put(lay.frame, g.widget, f), real |-> f]
     ELSE IF Vertically(g)
     THEN GlueTo(lay, g, f, more(Width(f), Width(lay.real)), Height(f) + 1)
     ELSE GlueTo(lay, g, f, Width(f) + 1, more(Height(f), Height(lay.real)))

\* ReGluing of one widget: the bounds never grow in height for one glued to the
\* left or to the right.
Again(lay, g) ==
  LET f    == Preferred(g.widget)
      more == IF Width(f) > Width(lay.real) THEN Width(f) - Width(lay.real) ELSE 0
  IN IF lay.real = empty THEN [frame |-> Put(lay.frame, g.widget, f), real |-> f]
     ELSE IF Vertically(g) THEN GlueTo(lay, g, f, more, Height(f) + 1)
     ELSE GlueTo(lay, g, f, Width(f) + 1, 0)

\* StaticGluing of one widget, in bounds that stay.
Static(contents, real, fr, g) ==
  LET f     == Preferred(g.widget)
      glued(S) == {contents[i].widget : i \in {j \in 1..Len(contents) : contents[j].align \in S}}
  IN CASE g.align = "top" ->
            Put(MoveByChilds(fr, glued({"top", "left", "right"}), 0, Height(f) + 1), g.widget, f)
       [] g.align = "left" ->
            Put(MoveByChilds(fr, glued({"top", "bottom", "left"}), Width(f) + 1, 0), g.widget, f)
       [] g.align = "bottom" ->
            Put(MoveByChilds(fr, glued({"bottom"}), 0, -(Height(f) + 1)), g.widget,
                Shifted(f, 0, real.b - Height(f)))
       [] g.align = "right" ->
            Put(MoveByChilds(fr, glued({"right"}), -(Width(f) + 1), 0), g.widget,
                Shifted(f, real.r - Width(f), 0))

-----------------------------------------------------------------------------
\* The end of DynamicGluing and ReGluing: the window takes the size of the layout,
\* which sends FrameResized if it is another one, and space is given away.
Resized(contents, lay) ==
  LET size == [w |-> Width(lay.real), h |-> Height(lay.real)]
  IN /\ RealBounds' = lay.real
     /\ bounds' = size /\ least' = size
     /\ resized_count' = resized_count + 1
     /\ messages' = IF size = bounds THEN messages ELSE Append(messages, size)
     /\ unsent' = (unsent \/ size = bounds)
     /\ frame' = ExpandChilds(contents, lay.frame, lay.real)

\* Glue of a set of widgets, one after the other, to one side.  One step, although
\* the views are added to the window before it is locked: no frame changes then.
Glue(align, ws) ==
  LET new == [i \in 1..Len(ws) |-> [widget |-> ws[i], align |-> align]]
  IN /\ \A i \in 1..Len(ws) : ws[i] \notin DOMAIN frame
     /\ Contents' = Contents \o new
     /\ Resized(Contents', FoldLeft(Dynamic, [frame |-> frame, real |-> RealBounds], new))
     /\ UNCHANGED changes

\* WINDOW~reglue.
ReGluing(contents, fr) ==
  IF contents = <<>> THEN frame' = fr /\ UNCHANGED <<RealBounds, bounds, least, resized_count, messages, unsent>>
  ELSE Resized(contents, FoldLeft(Again, [frame |-> fr, real |-> empty], contents))

MayReGlue ==
  /\ changes < MaxChanges /\ changes' = changes + 1
  /\ \A i \in 1..Len(Contents) : Contents[i].align \in Regluable

ReGlue ==
  /\ MayReGlue /\ Contents # <<>>
  /\ ReGluing(Contents, frame)
  /\ UNCHANGED Contents

\* Unglue takes a widget off and reglues what is left.
UnGlue(w) ==
  /\ MayReGlue
  /\ \E i \in DOMAIN Contents :
       Contents[i].widget = w /\ Contents' = RemoveAt(Contents, i)
  /\ ReGluing(Contents', [x \in DOMAIN frame \ {w} |-> frame[x]])

\* The user resizes the window, within its limits.
UserResizes(size) ==
  /\ changes < MaxChanges /\ Contents # <<>>
  /\ bounds' = [w |-> least.w + size.w, h |-> least.h + size.h]
  /\ bounds' # bounds
  /\ messages' = Append(messages, bounds')
  /\ changes' = changes + 1
  /\ UNCHANGED <<Contents, frame, RealBounds, least, resized_count, unsent>>

\* Mutant: the window does not look at its size after a FrameResized it expected.
FrameResizedOnce ==
  /\ messages # <<>>
  /\ messages' = Tail(messages)
  /\ resized_count' = 0
  /\ UNCHANGED <<Contents, frame, RealBounds, bounds, least, unsent, changes>>

\* FrameResized, with StaticGluing.
FrameResized ==
  LET real == Sized(bounds.w, bounds.h, 0, 0)
      put(fr, g) == Static(Contents, real, fr, g)
  IN /\ messages # <<>>
     /\ messages' = Tail(messages)
     /\ IF resized_count > 0
        THEN resized_count' = resized_count - 1 /\ UNCHANGED <<RealBounds, frame>>
        ELSE /\ IF real # RealBounds /\ Contents # <<>>
                THEN /\ RealBounds' = real
                     /\ frame' = ExpandChilds(Contents, FoldLeft(put, frame, Contents), real)
                ELSE UNCHANGED <<RealBounds, frame>>
             /\ UNCHANGED resized_count
     /\ UNCHANGED <<Contents, bounds, least, unsent, changes>>

Next ==
  \/ \E align \in Aligns :
       \/ \E w \in Widgets : Glue(align, <<w>>)
       \/ \E w, x \in Widgets : w # x /\ Glue(align, <<w, x>>)
  \/ ReGlue
  \/ \E w \in Widgets : UnGlue(w)
  \/ \E size \in UserSizes : UserResizes(size)
  \/ FrameResized

Spec == Init /\ [][Next]_vars

-----------------------------------------------------------------------------
\* Frames may share the pixels of an edge: OnLeft and OnRight do not see a
\* neighbour that only shares a row.
Apart(f, g) == f.r <= g.l \/ g.r <= f.l \/ f.b <= g.t \/ g.b <= f.t

(* No two widgets cover each other, none is turned inside out and nothing sticks out
   of the bounds the layout is for, whatever is glued where, expanded, aligned and
   taken away again. *)
LayoutSound ==
  /\ DOMAIN frame = {Contents[i].widget : i \in 1..Len(Contents)}
  /\ \A w, x \in DOMAIN frame : w # x => Apart(frame[w], frame[x])
  /\ \A w \in DOMAIN frame :
       /\ Width(frame[w]) >= 0 /\ Height(frame[w]) >= 0
       /\ frame[w].l >= 0 /\ frame[w].r <= RealBounds.r
       /\ frame[w].t >= 0 /\ frame[w].b <= RealBounds.b

(* When every message has arrived, the layout is for the size the window has,
   however the resizes of the user and of the window itself mix.  (After a gluing
   that did not change the size the window mistakes a resize by the user for its
   own.) *)
LayoutFollowsSize ==
  messages = <<>> /\ ~unsent /\ Contents # <<>> =>
    RealBounds = Sized(bounds.w, bounds.h, 0, 0)
=============================================================================
