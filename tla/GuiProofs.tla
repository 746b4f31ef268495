------------------------------- MODULE GuiProofs -------------------------------
(***************************************************************************)
(* Proofs about Gui for every set of windows, every layout and every size  *)
(* of the desktop; about Vga for every table of registers and every state  *)
(* the card was left in; and about both together, in Graphics.             *)
(***************************************************************************)
EXTENDS Graphics, WellFoundedInduction, TLAPS

Rectangles == [x : Int, y : Int, w : Nat, h : Nat]
Frames == [Windows -> Rectangles]

\* Before interrupts are on nothing was told, and nothing is dragged.
Quiet ==
    ~active => told.event = "none" /\ \A win \in Windows : ~Dragging[win]

\* The focus of the desktop and that of its windows agree about the control
\* that was pressed last.
FocusAgrees ==
    focusedChild = pressed /\ (focusedChild # None => focusedChild \in focused)

IInv ==
    /\ TypeOK
    /\ frame \in Frames
    /\ Quiet
    /\ FocusAgrees
    /\ FrontDragHolds
    /\ KeysToLastPressed
    /\ FrontIsTold

------------------------------------------------------------------------------
(* Which window is hit, and where a move leaves it.                         *)

\* A set of indices has a least one.
LEMMA LeastOf ==
    ASSUME NEW S, S \subseteq Nat, S # {}
    PROVE  LET m == CHOOSE i \in S : \A j \in S : i <= j
           IN  m \in S /\ \A j \in S : m <= j
<1>1. PICK l \in S : \A k \in S : ~(<<k, l>> \in OpToRel(<, Nat))
  BY NatLessThanWellFounded, WFMin
<1>2. \A k \in S : k \in Nat /\ l \in Nat /\ ~(k < l)
  BY <1>1 DEF OpToRel
<1>3. \A k \in S : l <= k
  BY <1>2
<1> QED BY <1>3

\* The window hit is the first that contains the point.
LEMMA HitIsFirst ==
    ASSUME children \in Seq(Windows), NEW frames, NEW p
    PROVE  \/ /\ Hit(frames, p) = None
              /\ \A i \in DOMAIN children : ~ContainsCoordinate(frames[children[i]], p)
           \/ \E i \in DOMAIN children :
                 /\ Hit(frames, p) = children[i]
                 /\ ContainsCoordinate(frames[children[i]], p)
                 /\ \A j \in DOMAIN children :
                       ContainsCoordinate(frames[children[j]], p) => i <= j
<1> DEFINE hits == {i \in DOMAIN children : ContainsCoordinate(frames[children[i]], p)}
           first == CHOOSE i \in hits : \A j \in hits : i <= j
<1>1. Hit(frames, p) = IF hits = {} THEN None ELSE children[first]
  BY DEF Hit
<1>2. hits \subseteq Nat
  OBVIOUS
<1>3. hits # {} => first \in hits /\ \A j \in hits : first <= j
  BY <1>2, LeastOf
<1>4. \A i : i \in hits <=>
          i \in DOMAIN children /\ ContainsCoordinate(frames[children[i]], p)
  OBVIOUS
<1> HIDE DEF hits, first
<1> QED BY <1>1, <1>3, <1>4

\* A point in the first child is the first child's.
LEMMA FrontIsHit ==
    ASSUME children \in Seq(Windows), children # <<>>, NEW frames, NEW p,
           ContainsCoordinate(frames[children[1]], p)
    PROVE  Hit(frames, p) = children[1]
<1>1. 1 \in DOMAIN children /\ \A i \in DOMAIN children : i \in Nat /\ 1 <= i
  OBVIOUS
<1>2. PICK i \in DOMAIN children : Hit(frames, p) = children[i] /\ i <= 1
  BY <1>1, HitIsFirst
<1>3. i = 1
  BY <1>1, <1>2
<1> QED BY <1>2, <1>3

\* What is hit is a window or nothing.
LEMMA HitIsWindow ==
    ASSUME children \in Seq(Windows), NEW frames, NEW p
    PROVE  Hit(frames, p) \in Windows \cup {None}
<1>1. \A i \in DOMAIN children : children[i] \in Windows
  OBVIOUS
<1> QED BY <1>1, HitIsFirst

\* After is before, with win moved as the mouse was, if it is dragged.
Follows(after, before, win, old, new) ==
    \A other \in Windows :
       IF other = win /\ win # None /\ Dragging[win]
       THEN /\ after[other].x = (before[other].x + new[1]) - old[1]
            /\ after[other].y = (before[other].y + new[2]) - old[2]
            /\ after[other].w = before[other].w
            /\ after[other].h = before[other].h
       ELSE after[other] = before[other]

\* Window::OnMouseMove moves the window it is called of, if that is dragged,
\* by as much as the mouse, and changes no size.
LEMMA MovedByMouse ==
    ASSUME NEW frames \in Frames, NEW win,
           NEW old \in Int \X Int, NEW new \in Int \X Int
    PROVE  /\ Moved(frames, win, old, new) \in Frames
           /\ Follows(Moved(frames, win, old, new), frames, win, old, new)
<1>1. /\ new[1] \in Int /\ new[2] \in Int /\ old[1] \in Int /\ old[2] \in Int
  OBVIOUS
<1>2. \A other \in Windows :
          /\ frames[other].x \in Int /\ frames[other].y \in Int
          /\ frames[other].w \in Nat /\ frames[other].h \in Nat
  BY DEF Frames, Rectangles
<1>3. CASE win \in Windows /\ win # None /\ Dragging[win]
  <2> DEFINE left == Moved(frames, win, old, new)
  <2>1. left = [frames EXCEPT ![win].x = @ + new[1] - old[1],
                              ![win].y = @ + new[2] - old[2]]
    BY <1>3, Zenon DEF Moved
  <2> DEFINE wide == [frames[win] EXCEPT !.x = @ + new[1] - old[1]]
             both == [wide EXCEPT !.y = @ + new[2] - old[2]]
  <2>2. wide \in Rectangles /\ wide.x = (frames[win].x + new[1]) - old[1]
        /\ wide.y = frames[win].y /\ wide.w = frames[win].w /\ wide.h = frames[win].h
    BY <1>1, <1>2, <1>3 DEF Frames, Rectangles
  <2>3. left = [[frames EXCEPT ![win] = wide] EXCEPT ![win].y = @ + new[2] - old[2]]
    BY <2>1
  <2> HIDE DEF left, wide
  <2>4. [frames EXCEPT ![win] = wide] \in Frames
    BY <2>2 DEF Frames
  <2>5. left = [[frames EXCEPT ![win] = wide] EXCEPT ![win] = both]
    BY <1>3, <2>3, <2>4 DEF Frames
  <2>6. both \in Rectangles /\ both.y = (frames[win].y + new[2]) - old[2]
        /\ both.x = wide.x /\ both.w = wide.w /\ both.h = wide.h
    BY <1>1, <1>2, <1>3, <2>2 DEF Rectangles
  <2> HIDE DEF both
  <2>7. left = [frames EXCEPT ![win] = both]
    BY <1>3, <2>5 DEF Frames
  <2>8. left \in Frames /\ left[win] = both
        /\ \A other \in Windows : other # win => left[other] = frames[other]
    BY <1>3, <2>6, <2>7 DEF Frames
  <2>9. /\ left \in Frames
        /\ left[win].x = (frames[win].x + new[1]) - old[1]
        /\ left[win].y = (frames[win].y + new[2]) - old[2]
        /\ left[win].w = frames[win].w
        /\ left[win].h = frames[win].h
    BY <2>2, <2>6, <2>8
  <2> QED BY <1>3, <2>8, <2>9 DEF left, Follows
<1>4. CASE ~(win \in Windows /\ win # None /\ Dragging[win])
  BY <1>4 DEF Moved, Frames, Follows
<1> QED BY <1>3, <1>4

\* A seen window is a child that is drawn at the point, and no child before it
\* is.
LEMMA SeenIsFirst ==
    ASSUME children \in Seq(Windows), NEW p
    PROVE  \/ /\ Seen(p) = {}
              /\ \A i \in DOMAIN children : ~Drawn(frame[children[i]], p)
           \/ \E i \in DOMAIN children :
                 /\ Seen(p) = {children[i]}
                 /\ Drawn(frame[children[i]], p)
                 /\ \A j \in DOMAIN children : Drawn(frame[children[j]], p) => i <= j
<1> DEFINE drawn == {i \in DOMAIN children : Drawn(frame[children[i]], p)}
           first == CHOOSE i \in drawn : \A j \in drawn : i <= j
<1>1. Seen(p) = IF drawn = {} THEN {} ELSE {children[first]}
  BY DEF Seen
<1>2. drawn \subseteq Nat
  OBVIOUS
<1>3. drawn # {} => first \in drawn /\ \A j \in drawn : first <= j
  BY <1>2, LeastOf
<1>4. \A i : i \in drawn <=> i \in DOMAIN children /\ Drawn(frame[children[i]], p)
  OBVIOUS
<1> HIDE DEF drawn, first
<1> QED BY <1>1, <1>3, <1>4

\* What contains a point is drawn there, unless it begins beyond the left or
\* the upper edge; and what is drawn there contains it, but for the leftmost
\* column.
LEMMA DrawnAndContained ==
    ASSUME NEW f \in Rectangles, NEW p \in Int \X Int
    PROVE  /\ ContainsCoordinate(f, p) => Drawn(f, p) \/ f.x < 0 \/ f.y < 0
           /\ Drawn(f, p) => ContainsCoordinate(f, p) \/ p[1] = f.x
  BY DEF ContainsCoordinate, Drawn, Rectangles

\* The window that gets an event at the mouse is the one that is seen there,
\* with the two exceptions.
LEMMA HitIsSeen ==
    ASSUME TypeOK, frame \in Frames
    PROVE  LET win == Hit(frame, mouse)
               hit == IF win = None THEN {} ELSE {win}
           IN  \/ hit = Seen(mouse)
               \/ \E other \in Seen(mouse) : mouse[1] = frame[other].x
               \/ \E other \in hit : frame[other].x < 0 \/ frame[other].y < 0
<1>1. children \in Seq(Windows) /\ mouse \in Int \X Int
  <2>1. 0 .. Width - 1 \subseteq Int /\ 0 .. Height - 1 \subseteq Int
    OBVIOUS
  <2> QED BY <2>1 DEF TypeOK
<1>2. \A i \in DOMAIN children :
          i \in Nat /\ children[i] \in Windows /\ frame[children[i]] \in Rectangles
  BY <1>1 DEF Frames
<1>3. \A i \in DOMAIN children : children[i] # None
  BY <1>2, GuiAssumption
<1>4. \A i \in DOMAIN children :
          LET f == frame[children[i]] IN
          /\ ContainsCoordinate(f, mouse) => Drawn(f, mouse) \/ f.x < 0 \/ f.y < 0
          /\ Drawn(f, mouse) => ContainsCoordinate(f, mouse) \/ mouse[1] = f.x
  BY <1>1, <1>2, DrawnAndContained
<1>5. CASE Seen(mouse) = {}
  <2>1. \A i \in DOMAIN children : ~Drawn(frame[children[i]], mouse)
    BY <1>1, <1>5, SeenIsFirst
  <2> QED BY <1>1, <1>3, <1>4, <1>5, <2>1, HitIsFirst
<1>6. CASE Seen(mouse) # {}
  <2>1. PICK s \in DOMAIN children :
            /\ Seen(mouse) = {children[s]}
            /\ Drawn(frame[children[s]], mouse)
            /\ \A j \in DOMAIN children : Drawn(frame[children[j]], mouse) => s <= j
    BY <1>1, <1>6, SeenIsFirst
  <2>2. CASE mouse[1] = frame[children[s]].x
    BY <2>1, <2>2
  <2>3. CASE mouse[1] # frame[children[s]].x
    <3>1. ContainsCoordinate(frame[children[s]], mouse)
      BY <1>4, <2>1, <2>3
    <3>2. PICK h \in DOMAIN children :
              /\ Hit(frame, mouse) = children[h]
              /\ ContainsCoordinate(frame[children[h]], mouse)
              /\ h <= s
      BY <1>1, <3>1, HitIsFirst
    <3>3. CASE Drawn(frame[children[h]], mouse)
      <4>1. s = h
        BY <1>2, <2>1, <3>2, <3>3
      <4> QED BY <1>3, <2>1, <3>2, <4>1
    <3>4. CASE frame[children[h]].x < 0 \/ frame[children[h]].y < 0
      BY <1>3, <3>2, <3>4
    <3> QED BY <1>4, <3>2, <3>3, <3>4
  <2> QED BY <2>2, <2>3
<1> QED BY <1>5, <1>6

------------------------------------------------------------------------------
(* The invariant.                                                           *)

\* It holds when the widgets have been constructed.
LEMMA InitIInv == Init => IInv
<1> SUFFICES ASSUME Init PROVE IInv
  OBVIOUS
<1>1. frame \in Frames
  BY GuiAssumption DEF Init, Frames, Rectangles
<1>2. mouse \in (0 .. Width - 1) \X (0 .. Height - 1)
  BY GuiAssumption DEF Init
<1>3. TypeOK
  <2>1. \A win \in Windows :
            /\ frame[win].x \in Int /\ frame[win].y \in Int
            /\ frame[win].w = Frame[win].w /\ frame[win].h = Frame[win].h
    BY <1>1 DEF Init, Frames, Rectangles
  <2>2. children \in Seq(Windows) /\ Len(children) <= MaxChildren
    BY GuiAssumption DEF Init
  <2>3. told.event = "none" /\ told.calls = {}
    BY DEF Init
  <2> QED BY <1>2, <2>1, <2>2, <2>3 DEF Init, TypeOK
<1>4. Quiet /\ FocusAgrees /\ FrontDragHolds /\ KeysToLastPressed /\ FrontIsTold
  BY DEF Init, Quiet, FocusAgrees, FrontDragHolds, KeysToLastPressed, FrontIsTold
<1> QED BY <1>1, <1>3, <1>4 DEF IInv

\* Building the desktop.
LEMMA AddChildIInv == ASSUME IInv, NEW win \in Windows, AddChild(win) PROVE IInv'
<1>1. TypeOK'
  <2>1. children' \in Seq(Windows) /\ Len(children') <= MaxChildren
    <3>1. /\ children \in Seq(Windows) /\ Len(children) < MaxChildren
          /\ children' = Append(children, win)
      BY DEF AddChild, IInv, TypeOK
    <3>2. MaxChildren \in Nat
      BY GuiAssumption
    <3> QED BY <3>1, <3>2
  <2> QED BY <2>1 DEF AddChild, IInv, TypeOK
<1>2. told'.event = "none" /\ \A other \in Windows : ~Dragging'[other]
  BY DEF AddChild, IInv, Quiet
<1>3. children' # <<>> => children'[1] \in Windows
  <2>1. children' \in Seq(Windows)
    BY <1>1 DEF TypeOK
  <2> QED BY <2>1
<1>4. Quiet' /\ FocusAgrees' /\ FrontDragHolds' /\ KeysToLastPressed' /\ FrontIsTold'
  BY <1>2, <1>3 DEF AddChild, IInv, Quiet, FocusAgrees, FrontDragHolds,
                    KeysToLastPressed, FrontIsTold
<1> QED BY <1>1, <1>4 DEF AddChild, IInv

\* Interrupts are switched on.
LEMMA ActivateIInv == ASSUME IInv, Activate PROVE IInv'
<1>1. told'.event = "none" /\ told' = told
  BY DEF Activate, IInv, Quiet
<1>2. TypeOK' /\ Quiet' /\ FocusAgrees' /\ FrontDragHolds'
  BY DEF Activate, IInv, TypeOK, Quiet, FocusAgrees, FrontDragHolds
<1>3. KeysToLastPressed' /\ FrontIsTold'
  BY <1>1 DEF KeysToLastPressed, FrontIsTold
<1> QED BY <1>2, <1>3 DEF Activate, IInv

\* A call of a window or of its control.
LEMMA CalledOf ==
    ASSUME NEW win \in Windows, NEW part \in {"window", "control"},
           NEW call \in {"OnMouseDown", "OnMouseUp", "OnMouseMove", "OnKeyDown"}
    PROVE  Called(win, part, call) \in Calls /\ Called(win, part, call).to = win
  BY DEF Called, Calls

\* The first child is a window.
LEMMA FrontIsWindow ==
    ASSUME children \in Seq(Windows), children # <<>> PROVE children[1] \in Windows
  OBVIOUS

\* A press ends a drag, and may move the focus.
LEMMA OnMouseDownIInv ==
    ASSUME IInv, NEW button, OnMouseDown(button) PROVE IInv'
<1> DEFINE win == Hit(frame, mouse)
<1>1. win \in Windows \cup {None} /\ None \notin Windows
  BY HitIsWindow, GuiAssumption DEF IInv, TypeOK
<1>2. active /\ UNCHANGED <<active, zeroed, children, frame, mouse>>
  BY DEF OnMouseDown
<1>3. CASE win = None
  <2>1. told' = [event |-> "press", calls |-> {}]
        /\ UNCHANGED <<Dragging, focusedChild, focused, pressed>>
    BY <1>3 DEF OnMouseDown, Event
  <2>2. told'.event = "press" /\ told'.calls = {}
    BY <2>1
  <2>3. TypeOK' /\ Quiet' /\ FocusAgrees' /\ FrontDragHolds' /\ KeysToLastPressed'
    BY <1>2, <2>1, <2>2 DEF IInv, TypeOK, Quiet, FocusAgrees, FrontDragHolds,
                            KeysToLastPressed
  <2>4. FrontIsTold'
    <3>1. {c.to : c \in told'.calls} = {}
      BY <2>2
    <3>2. Seen(mouse)' = Seen(mouse)
      BY <1>2 DEF Seen
    <3>3. {} = Seen(mouse) \/ \E other \in Seen(mouse) : mouse[1] = frame[other].x
      BY <1>3, HitIsSeen DEF IInv
    <3> QED BY <1>2, <3>1, <3>2, <3>3 DEF FrontIsTold
  <2> QED BY <1>2, <2>3, <2>4 DEF IInv
<1>4. CASE win # None
  <2>1. win \in Windows
    BY <1>1, <1>4
  <2>2. Dragging' = [Dragging EXCEPT ![win] = FALSE] /\ told'.event = "press"
    BY <1>4 DEF OnMouseDown, Event
  <2>3. /\ IF OnControl(win, mouse) THEN GetFocus(win) /\ pressed' = win
           ELSE UNCHANGED <<focusedChild, focused, pressed>>
        /\ told'.calls = {Called(win, "window", "OnMouseUp")} \cup
               IF OnControl(win, mouse) THEN {Called(win, "control", "OnMouseDown")} ELSE {}
    BY <1>4 DEF OnMouseDown, Event
  <2>4. told'.calls \subseteq Calls /\ {c.to : c \in told'.calls} = {win}
    BY <2>1, <2>3, CalledOf
  <2>5. FocusAgrees' /\ focusedChild' \in Windows \cup {None} /\ focused' \subseteq Windows
        /\ pressed' \in Windows \cup {None}
    <3>1. CASE OnControl(win, mouse)
      <4>1. focusedChild' = win /\ pressed' = win /\ focused' = focused \cup {win}
        BY <2>3, <3>1 DEF GetFocus
      <4> HIDE DEF win
      <4> QED BY <2>1, <4>1 DEF IInv, TypeOK, FocusAgrees
    <3>2. CASE ~OnControl(win, mouse)
      <4>1. UNCHANGED <<focusedChild, focused, pressed>>
        BY <2>3, <3>2
      <4> QED BY <4>1 DEF IInv, TypeOK, FocusAgrees
    <3> QED BY <3>1, <3>2
  <2>6. Dragging' \in [Windows -> BOOLEAN]
        /\ \A other \in Windows : Dragging'[other] => Dragging[other]
    BY <2>1, <2>2 DEF IInv, TypeOK
  <2>7. TypeOK'
    BY <1>2, <2>2, <2>4, <2>5, <2>6 DEF IInv, TypeOK
  <2>8. Quiet' /\ KeysToLastPressed'
    BY <1>2, <2>2 DEF Quiet, KeysToLastPressed
  <2>9. FrontDragHolds'
    <3>1. children # <<>> => children[1] \in Windows
      BY FrontIsWindow DEF IInv, TypeOK
    <3> QED BY <1>2, <2>6, <3>1 DEF IInv, FrontDragHolds
  <2>10. FrontIsTold'
    <3>1. Seen(mouse)' = Seen(mouse)
      BY <1>2 DEF Seen
    <3>2. \/ {win} = Seen(mouse)
          \/ \E other \in Seen(mouse) : mouse[1] = frame[other].x
          \/ \E other \in {win} : frame[other].x < 0 \/ frame[other].y < 0
      BY <1>4, HitIsSeen DEF IInv
    <3> QED BY <1>2, <2>4, <3>1, <3>2 DEF FrontIsTold
  <2> QED BY <1>2, <2>5, <2>7, <2>8, <2>9, <2>10 DEF IInv
<1> QED BY <1>3, <1>4

\* A release may begin a drag, of the window the mouse is in.
LEMMA OnMouseUpIInv ==
    ASSUME IInv, NEW button, OnMouseUp(button) PROVE IInv'
<1> DEFINE win == Hit(frame, mouse)
<1>1. win \in Windows \cup {None} /\ None \notin Windows
  BY HitIsWindow, GuiAssumption DEF IInv, TypeOK
<1>2. active /\ UNCHANGED <<active, zeroed, children, frame, focusedChild, focused,
                            mouse, pressed>>
  BY DEF OnMouseUp
<1>3. CASE win = None
  <2>1. told' = [event |-> "release", calls |-> {}] /\ UNCHANGED Dragging
    BY <1>3 DEF OnMouseUp, Event
  <2>2. told'.event = "release" /\ told'.calls = {}
    BY <2>1
  <2>3. TypeOK' /\ Quiet' /\ FocusAgrees' /\ FrontDragHolds' /\ KeysToLastPressed'
    BY <1>2, <2>1, <2>2 DEF IInv, TypeOK, Quiet, FocusAgrees, FrontDragHolds,
                            KeysToLastPressed
  <2>4. FrontIsTold'
    <3>1. {c.to : c \in told'.calls} = {}
      BY <2>2
    <3>2. Seen(mouse)' = Seen(mouse)
      BY <1>2 DEF Seen
    <3>3. {} = Seen(mouse) \/ \E other \in Seen(mouse) : mouse[1] = frame[other].x
      BY <1>3, HitIsSeen DEF IInv
    <3> QED BY <1>2, <3>1, <3>2, <3>3 DEF FrontIsTold
  <2> QED BY <1>2, <2>3, <2>4 DEF IInv
<1>4. CASE win # None
  <2>1. win \in Windows
    BY <1>1, <1>4
  <2>2. Dragging' = [Dragging EXCEPT ![win] = (button = 1)] /\ told'.event = "release"
    BY <1>4 DEF OnMouseUp, Event
  <2>3. told'.calls = {Called(win, "window", "OnMouseDown")} \cup
            IF OnControl(win, mouse) THEN {Called(win, "control", "OnMouseUp")} ELSE {}
    BY <1>4 DEF OnMouseUp, Event
  <2>4. told'.calls \subseteq Calls /\ {c.to : c \in told'.calls} = {win}
    BY <2>1, <2>3, CalledOf
  <2>5. Dragging' \in [Windows -> BOOLEAN]
        /\ \A other \in Windows : Dragging'[other] => Dragging[other] \/ other = win
    BY <2>1, <2>2 DEF IInv, TypeOK
  <2>6. TypeOK'
    BY <1>2, <2>2, <2>4, <2>5 DEF IInv, TypeOK
  <2>7. Quiet' /\ FocusAgrees' /\ KeysToLastPressed'
    BY <1>2, <2>2 DEF IInv, Quiet, FocusAgrees, KeysToLastPressed
  <2>8. FrontDragHolds'
    <3>1. children \in Seq(Windows)
      BY DEF IInv, TypeOK
    <3>2. ContainsCoordinate(frame[win], mouse)
      BY <1>4, <3>1, HitIsFirst
    <3>3. children # <<>> => children[1] \in Windows
      BY <3>1
    <3> QED BY <1>2, <2>5, <3>2, <3>3 DEF IInv, FrontDragHolds
  <2>9. FrontIsTold'
    <3>1. Seen(mouse)' = Seen(mouse)
      BY <1>2 DEF Seen
    <3>2. \/ {win} = Seen(mouse)
          \/ \E other \in Seen(mouse) : mouse[1] = frame[other].x
          \/ \E other \in {win} : frame[other].x < 0 \/ frame[other].y < 0
      BY <1>4, HitIsSeen DEF IInv
    <3> QED BY <1>2, <2>4, <3>1, <3>2 DEF FrontIsTold
  <2> QED BY <1>2, <2>6, <2>7, <2>8, <2>9 DEF IInv
<1> QED BY <1>3, <1>4

\* A coordinate that is moved stays on the desktop.
LEMMA Clamped ==
    ASSUME NEW a \in Int, NEW size \in Nat \ {0}
    PROVE  Clamp(a, size) \in 0 .. size - 1
  BY DEF Clamp

\* The division of a movement gives an integer.
LEMMA QuotientIsInt ==
    ASSUME NEW a \in Int, NEW b \in Nat \ {0} PROVE Quotient(a, b) \in Int
  BY DEF Quotient

\* A move: the mouse stays on the desktop, the dragged windows that are told
\* of it go with it, once each, and what they leave to stand was not dragged or
\* not told.
LEMMA MoveSteps ==
    ASSUME IInv, NEW offset \in Offsets, OnMouseMove(offset)
    PROVE  /\ mouse' \in (0 .. Width - 1) \X (0 .. Height - 1)
           /\ frame' \in Frames
           /\ \A win \in Windows :
                 \/ frame'[win] = frame[win]
                 \/ /\ Dragging[win]
                    /\ frame'[win].x = (frame[win].x + mouse'[1]) - mouse[1]
                    /\ frame'[win].y = (frame[win].y + mouse'[2]) - mouse[2]
                    /\ frame'[win].w = frame[win].w /\ frame'[win].h = frame[win].h
           /\ children # <<>> /\ Dragging[children[1]] =>
                 ContainsCoordinate(frame'[children[1]], mouse')
           /\ told'.event = "move" /\ told'.calls \subseteq Calls
<1> DEFINE new == <<Clamp(mouse[1] + Quotient(offset[1], 4), Width),
                    Clamp(mouse[2] + Quotient(offset[2], 4), Height)>>
           from == Hit(frame, mouse)
           left == Moved(frame, from, mouse, new)
           to == Hit(left, new)
           both == Moved(left, to, mouse, new)
<1>1. /\ frame' = IF to = from THEN left ELSE both
      /\ mouse' = new
      /\ told' = [event |-> "move",
                  calls |-> {Called(win, "window", "OnMouseMove") : win \in {from, to} \ {None}}]
      /\ UNCHANGED <<children, Dragging>>
  BY DEF OnMouseMove, Event
<1>2. children \in Seq(Windows) /\ frame \in Frames /\ None \notin Windows
  BY GuiAssumption DEF IInv, TypeOK
<1>3. mouse \in (0 .. Width - 1) \X (0 .. Height - 1) /\ mouse \in Int \X Int
  <2>1. mouse \in (0 .. Width - 1) \X (0 .. Height - 1)
    BY DEF IInv, TypeOK
  <2> QED BY <2>1
<1>4. new \in (0 .. Width - 1) \X (0 .. Height - 1) /\ new \in Int \X Int
  <2>1. offset[1] \in Int /\ offset[2] \in Int
    <3>1. offset \in (-128 .. 127) \X (-128 .. 127)
      BY GuiAssumption, Zenon
    <3> QED BY <3>1
  <2>2. Width \in Nat \ {0} /\ Height \in Nat \ {0} /\ 4 \in Nat \ {0}
    BY GuiAssumption
  <2>3. Quotient(offset[1], 4) \in Int /\ Quotient(offset[2], 4) \in Int
    BY <2>1, <2>2, QuotientIsInt
  <2>4. mouse[1] + Quotient(offset[1], 4) \in Int /\ mouse[2] + Quotient(offset[2], 4) \in Int
    BY <1>3, <2>3
  <2>5. new[1] \in 0 .. Width - 1 /\ new[2] \in 0 .. Height - 1
    BY <2>2, <2>4, Clamped
  <2> QED BY <2>5
<1> HIDE DEF new
<1>5. from \in Windows \cup {None} /\ to \in Windows \cup {None}
  BY <1>2, HitIsWindow
<1> HIDE DEF from, to
<1>6. left \in Frames /\ Follows(left, frame, from, mouse, new)
  BY <1>2, <1>3, <1>4, MovedByMouse
<1>7. both \in Frames /\ Follows(both, left, to, mouse, new)
  BY <1>3, <1>4, <1>6, MovedByMouse
<1>8. told'.event = "move" /\ told'.calls \subseteq Calls
  BY <1>1, <1>5, CalledOf
<1> HIDE DEF left, both
<1>9. \A win \in Windows :
         \/ frame'[win] = frame[win]
         \/ /\ Dragging[win]
            /\ frame'[win].x = (frame[win].x + new[1]) - mouse[1]
            /\ frame'[win].y = (frame[win].y + new[2]) - mouse[2]
            /\ frame'[win].w = frame[win].w /\ frame'[win].h = frame[win].h
  BY <1>1, <1>6, <1>7 DEF Follows
<1>10. ASSUME children # <<>>, Dragging[children[1]]
       PROVE  ContainsCoordinate(frame'[children[1]], new)
  <2> DEFINE front == children[1]
  <2>1. front \in Windows /\ ContainsCoordinate(frame[front], mouse)
    BY <1>2, <1>10, FrontIsWindow DEF IInv, FrontDragHolds
  <2>2. from = front
    BY <1>2, <1>10, <2>1, FrontIsHit DEF from
  <2>3. ContainsCoordinate(left[front], new)
    <3> DEFINE f == frame[front]
               g == left[front]
    <3>1. /\ g.x = (f.x + new[1]) - mouse[1] /\ g.y = (f.y + new[2]) - mouse[2]
          /\ g.w = f.w /\ g.h = f.h
      BY <1>2, <1>6, <1>10, <2>1, <2>2 DEF Follows
    <3>2. /\ f.x \in Int /\ f.y \in Int /\ f.w \in Int /\ f.h \in Int
      BY <1>2, <2>1 DEF Frames, Rectangles
    <3>3. /\ new[1] \in Int /\ new[2] \in Int /\ mouse[1] \in Int /\ mouse[2] \in Int
      BY <1>3, <1>4
    <3>4. ContainsCoordinate(f, mouse)
      BY <2>1
    <3> HIDE DEF f, g
    <3>5. ContainsCoordinate(g, new)
      BY <3>1, <3>2, <3>3, <3>4 DEF ContainsCoordinate
    <3> QED BY <3>5 DEF g
  <2>4. to = front
    BY <1>2, <1>10, <2>3, FrontIsHit DEF to
  <2> QED BY <1>1, <2>2, <2>3, <2>4
<1> QED BY <1>1, <1>4, <1>6, <1>7, <1>8, <1>9, <1>10

\* A move keeps the invariant.
LEMMA OnMouseMoveIInv ==
    ASSUME IInv, NEW offset \in Offsets, OnMouseMove(offset) PROVE IInv'
<1>1. UNCHANGED <<active, zeroed, children, Dragging, focusedChild, focused, pressed>>
      /\ active
  BY DEF OnMouseMove
<1>2. /\ mouse' \in (0 .. Width - 1) \X (0 .. Height - 1)
      /\ frame' \in Frames
      /\ told'.event = "move" /\ told'.calls \subseteq Calls
      /\ children # <<>> /\ Dragging[children[1]] =>
            ContainsCoordinate(frame'[children[1]], mouse')
      /\ \A win \in Windows : frame'[win].w = frame[win].w /\ frame'[win].h = frame[win].h
  BY MoveSteps
<1>3. \A win \in Windows :
          /\ frame'[win].x \in Int /\ frame'[win].y \in Int
          /\ frame'[win].w = Frame[win].w /\ frame'[win].h = Frame[win].h
  BY <1>2 DEF IInv, TypeOK, Frames, Rectangles
<1>4. TypeOK'
  BY <1>1, <1>2, <1>3 DEF IInv, TypeOK
<1>5. Quiet' /\ FocusAgrees' /\ FrontDragHolds' /\ KeysToLastPressed' /\ FrontIsTold'
  BY <1>1, <1>2 DEF IInv, Quiet, FocusAgrees, FrontDragHolds, KeysToLastPressed, FrontIsTold
<1> QED BY <1>2, <1>4, <1>5 DEF IInv

\* A key goes to the control pressed last, if there is one.
LEMMA KeyIInv ==
    ASSUME IInv, active, NEW event \in {"key down", "key up"}, Event(event, KeyCalls),
           UNCHANGED <<active, zeroed, children, frame, Dragging, focusedChild,
                       focused, mouse, pressed>>
    PROVE  IInv'
<1>1. told'.event = event /\ told'.calls = KeyCalls
  BY DEF Event
<1>2. KeyCalls = IF pressed = None THEN {} ELSE {Called(pressed, "control", "OnKeyDown")}
  BY DEF IInv, FocusAgrees, KeyCalls
<1>3. KeyCalls \subseteq Calls
  BY <1>2, CalledOf DEF IInv, TypeOK
<1>4. TypeOK'
  BY <1>1, <1>3 DEF IInv, TypeOK
<1>5. Quiet' /\ FocusAgrees' /\ FrontDragHolds' /\ FrontIsTold'
  BY <1>1 DEF IInv, Quiet, FocusAgrees, FrontDragHolds, FrontIsTold
<1>6. {<<c.to, c.part>> : c \in KeyCalls} =
          IF pressed = None THEN {} ELSE {<<pressed, "control">>}
  <2>1. CASE pressed = None
    BY <1>2, <2>1
  <2>2. CASE pressed # None
    <3>1. KeyCalls = {Called(pressed, "control", "OnKeyDown")}
      BY <1>2, <2>2
    <3>2. /\ Called(pressed, "control", "OnKeyDown").to = pressed
          /\ Called(pressed, "control", "OnKeyDown").part = "control"
      BY DEF Called
    <3> QED BY <2>2, <3>1, <3>2
  <2> QED BY <2>1, <2>2
<1>7. KeysToLastPressed'
  BY <1>1, <1>6 DEF KeysToLastPressed
<1> QED BY <1>4, <1>5, <1>7 DEF IInv

\* Every step keeps the invariant.
LEMMA NextIInv == IInv /\ [Next]_vars => IInv'
<1> SUFFICES ASSUME IInv, [Next]_vars PROVE IInv'
  OBVIOUS
<1>1. ASSUME NEW win \in Windows, AddChild(win) PROVE IInv'
  BY <1>1, AddChildIInv
<1>2. ASSUME Activate PROVE IInv'
  BY <1>2, ActivateIInv
<1>3. ASSUME NEW button \in Buttons, OnMouseDown(button) PROVE IInv'
  BY <1>3, OnMouseDownIInv
<1>4. ASSUME NEW button \in Buttons, OnMouseUp(button) PROVE IInv'
  BY <1>4, OnMouseUpIInv
<1>5. ASSUME NEW offset \in Offsets, OnMouseMove(offset) PROVE IInv'
  BY <1>5, OnMouseMoveIInv
<1>6. ASSUME OnKeyDown PROVE IInv'
  BY <1>6, KeyIInv DEF OnKeyDown
<1>7. ASSUME OnKeyUp PROVE IInv'
  BY <1>7, KeyIInv DEF OnKeyUp
<1>8. ASSUME UNCHANGED vars PROVE IInv'
  <2>1. Seen(mouse)' = Seen(mouse)
    BY <1>8 DEF vars, Seen
  <2>2. TypeOK' /\ Quiet' /\ FocusAgrees' /\ FrontDragHolds' /\ KeysToLastPressed'
    BY <1>8 DEF vars, IInv, TypeOK, Quiet, FocusAgrees, FrontDragHolds, KeysToLastPressed
  <2>3. FrontIsTold'
    BY <1>8, <2>1 DEF vars, IInv, FrontIsTold
  <2> QED BY <1>8, <2>2, <2>3 DEF vars, IInv
<1> QED BY <1>1, <1>2, <1>3, <1>4, <1>5, <1>6, <1>7, <1>8 DEF Next

\* The invariant holds in every state.
LEMMA Invariance == Spec => []IInv
  BY InitIInv, NextIInv, PTL DEF Spec

------------------------------------------------------------------------------
(* The theorems.                                                            *)

\* Desktop::OnMouseMove keeps the mouse on the desktop whatever the movement,
\* AddChild never exceeds MaxChildren, and no event changes a window's size.
THEOREM TypeCorrect == Spec => []TypeOK
<1>1. IInv => TypeOK
  BY DEF IInv
<1> QED BY <1>1, Invariance, PTL

\* The front window stays under the mouse as long as it is dragged, by
\* Desktop::OnMouseMove and CompositeWidget::OnMouseMove.
THEOREM FrontDragHoldsAlways == Spec => []FrontDragHolds
<1>1. IInv => FrontDragHolds
  BY DEF IInv
<1> QED BY <1>1, Invariance, PTL

\* CompositeWidget::OnKeyDown and OnKeyUp reach the control that was told of a
\* press last.
THEOREM KeysToLastPressedAlways == Spec => []KeysToLastPressed
<1>1. IInv => KeysToLastPressed
  BY DEF IInv
<1> QED BY <1>1, Invariance, PTL

\* Desktop::OnMouseDown and OnMouseUp reach the window that is drawn in front,
\* but for its leftmost column and windows beyond the left or upper edge.
THEOREM FrontIsToldAlways == Spec => []FrontIsTold
<1>1. IInv => FrontIsTold
  BY DEF IInv
<1> QED BY <1>1, Invariance, PTL

\* Only OnMouseMove moves windows, only dragged ones, and each by exactly as
\* much as the mouse.
LEMMA NextKeepsGrip ==
    ASSUME IInv, [Next]_vars, NEW win \in Windows, frame'[win] # frame[win]
    PROVE  Dragging[win] /\ Inside(frame, win, mouse)' = Inside(frame, win, mouse)
<1>1. PICK offset \in Offsets : OnMouseMove(offset)
  <2>1. frame' # frame
    OBVIOUS
  <2> QED BY <2>1 DEF Next, vars, AddChild, Activate, OnMouseDown, OnMouseUp,
                      OnKeyDown, OnKeyUp
<1>2. /\ Dragging[win]
      /\ frame'[win].x = (frame[win].x + mouse'[1]) - mouse[1]
      /\ frame'[win].y = (frame[win].y + mouse'[2]) - mouse[2]
      /\ mouse' \in (0 .. Width - 1) \X (0 .. Height - 1)
  BY <1>1, MoveSteps
<1>3. /\ frame[win].x \in Int /\ frame[win].y \in Int
      /\ mouse[1] \in Int /\ mouse[2] \in Int /\ mouse'[1] \in Int /\ mouse'[2] \in Int
  <2>1. 0 .. Width - 1 \subseteq Int /\ 0 .. Height - 1 \subseteq Int
    OBVIOUS
  <2> QED BY <1>2, <2>1 DEF IInv, TypeOK
<1>4. /\ mouse'[1] - frame'[win].x = mouse[1] - frame[win].x
      /\ mouse'[2] - frame'[win].y = mouse[2] - frame[win].y
  BY <1>2, <1>3
<1> QED BY <1>2, <1>4 DEF Inside

\* Window::OnMouseMove is called once for a move, so that the point at which a
\* dragged window is held stays under the mouse.
THEOREM DragKeepsGripAlways == Spec => DragKeepsGrip
<1>1. IInv /\ [Next]_vars =>
          [ \A win \in Windows :
                frame'[win] # frame[win] =>
                    /\ Dragging[win]
                    /\ Inside(frame, win, mouse)' = Inside(frame, win, mouse) ]_vars
  BY NextKeepsGrip
<1> QED BY <1>1, Invariance, PTL DEF Spec, DragKeepsGrip

------------------------------------------------------------------------------
(* Which pixels are put (Pixels).                                           *)

\* Every pixel of the screen has a byte of its own among the 64000 of a segment.
THEOREM OneByteEach ==
    ASSUME NEW segment \in Nat, NEW p \in Columns \X Rows, NEW q \in Columns \X Rows
    PROVE  /\ segment <= PixelAddress(segment, p) /\ PixelAddress(segment, p) < segment + 64000
           /\ PixelAddress(segment, p) = PixelAddress(segment, q) => p = q
<1> DEFINE a == p[1]  b == p[2]  c == q[1]  d == q[2]
<1>1. /\ p = <<a, b>> /\ a \in 0 .. 319 /\ b \in 0 .. 199
      /\ q = <<c, d>> /\ c \in 0 .. 319 /\ d \in 0 .. 199
  BY DEF Columns, Rows
<1>2. /\ PixelAddress(segment, p) = segment + 320 * b + a
      /\ PixelAddress(segment, q) = segment + 320 * d + c
  BY DEF PixelAddress
<1> HIDE DEF a, b, c, d
<1>3. segment + 320 * b + a = segment + 320 * d + c => a = c /\ b = d
  <2>1. CASE b = d
    BY <1>1, <2>1
  <2>2. CASE b < d
    BY <1>1, <2>2
  <2>3. CASE d < b
    BY <1>1, <2>3
  <2> QED BY <1>1, <2>1, <2>2, <2>3
<1>4. PixelAddress(segment, p) = PixelAddress(segment, q) => p = q
  BY <1>1, <1>2, <1>3
<1>5. segment <= segment + 320 * b + a /\ segment + 320 * b + a < segment + 64000
  BY <1>1
<1> QED
  BY <1>2, <1>4, <1>5

\* One loop, cut to what PutPixel goes on with, comes to what one would draw of
\* the side of a rectangle, but for one that begins below 0, of which nothing is
\* left.
LEMMA LoopSpan ==
    ASSUME NEW from \in -Half .. Half - 1, NEW size \in 0 .. Half - 1,
           NEW last \in Nat, last < Half, NEW n
    PROVE  n \in Loop(from, size) /\ 0 <= Signed(n) /\ Signed(n) <= last
             <=> 0 <= from /\ n \in from .. from + size - 1 /\ n \in 0 .. last
<1> USE PixelAssumption
<1>1. CASE 0 <= from
  <2>1. Unsigned(from) = from /\ Unsigned(from + size) = from + size
    BY <1>1, SMT DEF Unsigned
  <2> QED BY <1>1, <2>1, SMT DEF Loop, Signed
<1>2. CASE from < 0 /\ from + size < 0
  <2>1. /\ Unsigned(from) = from + 2 * Half
        /\ Unsigned(from + size) = from + size + 2 * Half
    BY <1>2, SMT DEF Unsigned
  <2> QED BY <1>2, <2>1, SMT DEF Loop, Signed
<1>3. CASE from < 0 /\ 0 <= from + size
  <2>1. Unsigned(from) = from + 2 * Half /\ Unsigned(from + size) = from + size
    BY <1>3, SMT DEF Unsigned
  <2> QED BY <1>3, <2>1, SMT DEF Loop, Signed
<1> QED BY <1>1, <1>2, <1>3, SMT

\* The loops of FillRectangle over uint32_t and PutPixel of int32_t put the part
\* of a rectangle that is on the screen, or nothing of one that begins to the
\* left of it or above.
THEOREM FilledIsPut ==
    ASSUME NEW f, Fits(f)
    PROVE  Filled(f) = IF f.x < 0 \/ f.y < 0 THEN {}
                       ELSE ((f.x .. f.x + f.w - 1) \cap Columns)
                              \X ((f.y .. f.y + f.h - 1) \cap Rows)
<1>1. /\ f.x \in -Half .. Half - 1 /\ f.w \in 0 .. Half - 1
      /\ f.y \in -Half .. Half - 1 /\ f.h \in 0 .. Half - 1
      /\ 319 \in Nat /\ 319 < Half /\ 199 \in Nat /\ 199 < Half
  BY PixelAssumption DEF Fits
<1> DEFINE xs == Loop(f.x, f.w)  ys == Loop(f.y, f.h)
<1>2. ASSUME NEW n PROVE n \in xs /\ 0 <= Signed(n) /\ Signed(n) <= 319
                           <=> 0 <= f.x /\ n \in f.x .. f.x + f.w - 1 /\ n \in Columns
  <2> DEFINE from == f.x  size == f.w  last == 319
  <2>1. /\ from \in -Half .. Half - 1 /\ size \in 0 .. Half - 1
        /\ last \in Nat /\ last < Half
    BY <1>1
  <2> HIDE DEF from, size, last
  <2>2. n \in Loop(from, size) /\ 0 <= Signed(n) /\ Signed(n) <= last
          <=> 0 <= from /\ n \in from .. from + size - 1 /\ n \in 0 .. last
    BY <2>1, LoopSpan
  <2> QED BY <2>2 DEF Columns, from, size, last
<1>3. ASSUME NEW n PROVE n \in ys /\ 0 <= Signed(n) /\ Signed(n) <= 199
                           <=> 0 <= f.y /\ n \in f.y .. f.y + f.h - 1 /\ n \in Rows
  <2> DEFINE from == f.y  size == f.h  last == 199
  <2>1. /\ from \in -Half .. Half - 1 /\ size \in 0 .. Half - 1
        /\ last \in Nat /\ last < Half
    BY <1>1
  <2> HIDE DEF from, size, last
  <2>2. n \in Loop(from, size) /\ 0 <= Signed(n) /\ Signed(n) <= last
          <=> 0 <= from /\ n \in from .. from + size - 1 /\ n \in 0 .. last
    BY <2>1, LoopSpan
  <2> QED BY <2>2 DEF Rows, from, size, last
<1>4. /\ \A n \in xs : Signed(n) \in Int
      /\ \A n \in ys : Signed(n) \in Int
  BY PixelAssumption DEF Loop, Signed
<1>5. Filled(f) = {p \in xs \X ys : Put(Signed(p[1]), Signed(p[2]))}
  BY DEF Filled
<1> HIDE DEF xs, ys
<1>6. ASSUME NEW a \in Int, NEW b \in Int
      PROVE  Put(a, b) <=> 0 <= a /\ a <= 319 /\ 0 <= b /\ b <= 199
  BY DEF Put
<1>7. Filled(f) = {p \in xs \X ys : /\ 0 <= Signed(p[1]) /\ Signed(p[1]) <= 319
                                    /\ 0 <= Signed(p[2]) /\ Signed(p[2]) <= 199}
  BY <1>4, <1>5, <1>6
<1>8. CASE f.x < 0 \/ f.y < 0
  BY <1>1, <1>2, <1>3, <1>7, <1>8
<1>9. CASE ~(f.x < 0 \/ f.y < 0)
  <2>1. 0 <= f.x /\ 0 <= f.y
    BY <1>1, <1>9
  <2> DEFINE X == (f.x .. f.x + f.w - 1) \cap Columns
             Y == (f.y .. f.y + f.h - 1) \cap Rows
  <2>2. \A n : n \in X <=> n \in xs /\ 0 <= Signed(n) /\ Signed(n) <= 319
    BY <1>2, <2>1
  <2>3. \A n : n \in Y <=> n \in ys /\ 0 <= Signed(n) /\ Signed(n) <= 199
    BY <1>3, <2>1
  <2> HIDE DEF X, Y
  <2>4. Filled(f) = X \X Y
    BY <1>7, <2>2, <2>3
  <2> QED BY <1>9, <2>4 DEF X, Y
<1> QED BY <1>8, <1>9

\* What FrontIsTold takes to be drawn of a frame is what FillRectangle puts.
THEOREM DrawnIsPut ==
    ASSUME NEW f, Fits(f), NEW p \in Columns \X Rows
    PROVE  Drawn(f, p) <=> p \in Filled(f)
<1>1. /\ f.x \in Int /\ f.w \in Int /\ f.y \in Int /\ f.h \in Int
      /\ p[1] \in Int /\ p[2] \in Int /\ p[1] \in Columns /\ p[2] \in Rows
      /\ p = <<p[1], p[2]>>
  BY PixelAssumption DEF Fits, Columns, Rows
<1>2. CASE f.x < 0 \/ f.y < 0
  BY <1>1, <1>2, FilledIsPut DEF Drawn
<1>3. CASE ~(f.x < 0 \/ f.y < 0)
  BY <1>1, <1>3, FilledIsPut DEF Drawn
<1> QED BY <1>2, <1>3

------------------------------------------------------------------------------
(* SetMode (Vga).                                                           *)

\* Where SetMode may be once the loop of a controller is over.
Later(c) ==
    CASE c = "sequencer" -> {"unlock", "crtc", "graphics", "attribute", "enable", "done"}
      [] c = "crtc" -> {"graphics", "attribute", "enable", "done"}
      [] c = "graphics" -> {"attribute", "enable", "done"}
      [] c = "attribute" -> {"enable", "done"}

\* The pointer into the table.
InTable ==
    /\ place \in {"idle", "misc"} => registers = 0
    /\ place = "unlock" => registers = 6
    /\ place \in {"enable", "done"} => registers = 61
    /\ \A c \in Controllers : place = c => registers = Offset(c) + loop
    /\ place \notin Controllers => loop = 0

\* The table is changed between the first loop and the second.
TableKept ==
    table = IF place \in {"idle", "misc", "sequencer", "unlock"} THEN Table ELSE Wanted

\* The registers that were written hold what the table has for them.
Held(c) ==
    \A n \in 0 .. Count(c) - 1 :
        place \in Later(c) \/ (place = c /\ n < loop) =>
            chip[c].data[n] = Wanted[Offset(c) + n]

\* No register of the CRT controller is protected while they are written: not
\* by what it held, nor by what the table has for register 0x11.
Open == place = "crtc" => chip["crtc"].data[17] < 128

\* The inductive invariant of SetMode.
VInv ==
    /\ VgaTypeOK /\ InTable /\ TableKept /\ Open
    /\ place \notin {"idle", "misc"} => misc = Wanted[0]
    /\ \A c \in Controllers : Held(c)
    /\ place = "done" => chip["attribute"].index = 32

\* The controllers' parts of the table follow each other.
LEMMA Layout ==
    ASSUME NEW c \in Controllers
    PROVE  /\ Count(c) \in 1 .. 25 /\ Offset(c) \in 1 .. 40 /\ Offset(c) + Count(c) <= 61
           /\ c = "sequencer" => Count(c) = 5 /\ Offset(c) = 1
           /\ c = "crtc" => Count(c) = 25 /\ Offset(c) = 6
           /\ c = "graphics" => Count(c) = 9 /\ Offset(c) = 31
           /\ c = "attribute" => Count(c) = 21 /\ Offset(c) = 40
  BY DEF Controllers, Count, Offset

\* Bytes stay bytes, and Unmarked clears the bit that protects.
LEMMA Marks ==
    ASSUME NEW byte \in Value
    PROVE  Marked(byte) \in Value /\ Unmarked(byte) \in Value /\ Unmarked(byte) < 128
  BY DEF Value, Marked, Unmarked

\* What WriteRegisters makes of the table's two bytes are bytes.
LEMMA WantedBytes == Wanted \in [0 .. 60 -> Value] /\ Wanted[0] = Table[0] /\ Wanted[23] < 128
<1>1. Table \in [0 .. 60 -> Value]
  BY VgaAssumption
<1>2. Table[9] \in Value /\ Table[23] \in Value
  BY <1>1
<1>3. Marked(Table[9]) \in Value /\ Unmarked(Table[23]) \in Value /\ Unmarked(Table[23]) < 128
  BY <1>2, Marks
<1> QED
  BY <1>1, <1>3 DEF Wanted

\* A controller stays one when its index is written, a byte or a turn.
LEMMA CardKept ==
    ASSUME NEW c \in Controllers, NEW k \in Controller(c), NEW byte \in Value
    PROVE  /\ Select(k, byte) \in Controller(c)
           /\ Store(k, byte) \in Controller(c)
           /\ Reset(k) \in Controller(c)
           /\ Turn(k, byte) \in Controller(c)
           /\ c = "crtc" => StoreCrtc(k, byte) \in Controller(c)
<1>1. ASSUME NEW n \in Value PROVE Select(k, n) \in Controller(c)
  BY DEF Select, Controller
<1>2. Store(k, byte) \in Controller(c)
  BY DEF Store, Controller
<1>3. Reset(k) \in Controller(c)
  BY DEF Reset, Controller
<1>4. Turn(k, byte) \in Controller(c)
  BY <1>1, <1>2 DEF Turn, Controller
<1>5. StoreCrtc(k, byte) \in Controller(c)
  BY <1>2 DEF StoreCrtc
<1> QED
  BY <1>1, <1>2, <1>3, <1>4, <1>5

\* An iteration of a loop stores its byte in the register it means, whatever was
\* selected before and whoever's turn it was, and in no other.
LEMMA WrittenStores ==
    ASSUME NEW c \in Controllers, chip[c] \in Controller(c),
           NEW n \in 0 .. Count(c) - 1, NEW byte \in Value,
           c = "crtc" => chip[c].data[17] < 128
    PROVE  /\ Written(c, n, byte) \in Controller(c)
           /\ Written(c, n, byte).data = [chip[c].data EXCEPT ![n] = byte]
<1>1. n \in Value /\ Select(chip[c], n) \in Controller(c) /\ Reset(chip[c]) \in Controller(c)
  BY Layout, CardKept DEF Value
<1>2. /\ Select(chip[c], n).data = chip[c].data /\ Select(chip[c], n).index = n
      /\ DOMAIN chip[c].data = 0 .. Count(c) - 1
  BY DEF Select, Controller
<1>3. Store(Select(chip[c], n), byte).data = [chip[c].data EXCEPT ![n] = byte]
  BY <1>1, <1>2 DEF Store, Controller
<1>4. CASE c = "attribute"
  <2>1. Written(c, n, byte) = Turn(Turn(Reset(chip[c]), n), byte)
    BY <1>4 DEF Written
  <2>2. Turn(Reset(chip[c]), n) = [Select(Reset(chip[c]), n) EXCEPT !.expects = "data"]
    BY DEF Turn, Reset, Controller
  <2>3. Turn(Reset(chip[c]), n) \in Controller(c)
    BY <1>1, CardKept
  <2>4. /\ Turn(Reset(chip[c]), n).expects = "data" /\ Turn(Reset(chip[c]), n).index = n
        /\ Turn(Reset(chip[c]), n).data = chip[c].data
    BY <2>2 DEF Select, Reset, Controller
  <2> HIDE DEF Turn
  <2>5. Written(c, n, byte) \in Controller(c)
    BY <2>1, <2>3, CardKept
  <2>6. Written(c, n, byte) = [Store(Turn(Reset(chip[c]), n), byte) EXCEPT !.expects = "index"]
    BY <2>1, <2>4 DEF Turn
  <2>7. Store(Turn(Reset(chip[c]), n), byte) =
          [Turn(Reset(chip[c]), n) EXCEPT !.data[n] = byte]
    BY <1>2, <2>4 DEF Store
  <2> QED BY <2>3, <2>4, <2>5, <2>6, <2>7 DEF Controller
<1>5. CASE c = "crtc"
  <2>1. Written(c, n, byte) = StoreCrtc(Select(chip[c], n), byte)
    BY <1>5 DEF Written
  <2>2. StoreCrtc(Select(chip[c], n), byte) = Store(Select(chip[c], n), byte)
    <3>1. chip[c].data[17] \in Value /\ chip[c].data[17] < 128
      BY <1>5, Layout DEF Controller
    <3>2. \A v \in Value : v < 128 => ~(v >= 128)
      BY DEF Value
    <3>3. ~(chip[c].data[17] >= 128)
      BY <3>1, <3>2
    <3>4. ~(Select(chip[c], n).data[17] >= 128)
      BY <1>2, <3>3
    <3> DEFINE k == Select(chip[c], n)
    <3>5. StoreCrtc(k, byte) = IF k.index <= 7 /\ k.data[17] >= 128 THEN k ELSE Store(k, byte)
      BY DEF StoreCrtc
    <3> HIDE DEF k
    <3> QED BY <3>4, <3>5 DEF k
  <2>3. Written(c, n, byte) = Store(Select(chip[c], n), byte)
    BY <2>1, <2>2
  <2>4. Store(Select(chip[c], n), byte) \in Controller(c)
    BY <1>1, CardKept
  <2> QED BY <1>3, <2>3, <2>4
<1>6. CASE c \in {"sequencer", "graphics"}
  <2>1. Written(c, n, byte) = Store(Select(chip[c], n), byte)
    BY <1>6 DEF Written
  <2> QED BY <1>1, <1>3, <2>1, CardKept
<1> QED
  BY <1>4, <1>5, <1>6 DEF Controllers

\* Before SetMode nothing was written.
LEMMA InitSet == VgaInit => VInv
<1> SUFFICES ASSUME VgaInit PROVE VInv
  OBVIOUS
<1> USE DEF VgaInit
<1>1. VgaTypeOK
  <2>1. DOMAIN chip = Controllers /\ \A c \in Controllers : chip[c] \in Controller(c)
    BY VgaAssumption
  <2>2. table \in [0 .. 60 -> Value]
    BY VgaAssumption
  <2>4. misc \in Value /\ loop \in 0 .. 24 /\ registers \in 0 .. 61
    BY DEF Value
  <2>3. place = "idle" /\ place \notin Controllers
    BY DEF Controllers
  <2> QED BY <2>1, <2>2, <2>3, <2>4 DEF VgaTypeOK
<1>2. InTable /\ TableKept /\ Open
  BY DEF InTable, TableKept, Open, Controllers
<1>3. \A c \in Controllers : Held(c)
  BY DEF Held, Controllers, Later
<1> QED
  BY <1>1, <1>2, <1>3 DEF VInv

\* The steps before the first loop: SetMode's answer, and the byte of the port
\* that is no controller's.
LEMMA BeginSet == VInv /\ ((\E mode \in Modes : SetMode(mode)) \/ WriteMisc) => VInv'
<1> SUFFICES ASSUME VInv, (\E mode \in Modes : SetMode(mode)) \/ WriteMisc PROVE VInv'
  OBVIOUS
<1>1. UNCHANGED <<loop, table, chip>> /\ loop = 0 /\ registers = 0 /\ table = Table
  BY DEF VInv, InTable, TableKept, SetMode, WriteMisc, Controllers
<1>2. CASE place' \in {"idle", "misc"} /\ UNCHANGED <<registers, misc>>
  <2>1. VgaTypeOK'
    BY <1>1, <1>2 DEF VInv, VgaTypeOK, Controllers
  <2>2. InTable' /\ TableKept' /\ Open'
    BY <1>1, <1>2 DEF InTable, TableKept, Open, Controllers
  <2>3. \A c \in Controllers : Held(c)'
    BY <1>2 DEF Held, Controllers, Later
  <2> QED BY <1>2, <2>1, <2>2, <2>3 DEF VInv
<1>3. CASE place' = "sequencer" /\ registers' = registers + 1 /\ misc' = table[registers]
  <2>1. misc' = Wanted[0] /\ misc' \in Value /\ registers' = 1
    BY <1>1, <1>3, WantedBytes
  <2>2. VgaTypeOK'
    BY <1>1, <1>3, <2>1 DEF VInv, VgaTypeOK, Controllers, Count
  <2>3. InTable' /\ TableKept' /\ Open'
    BY <1>1, <1>3, <2>1 DEF InTable, TableKept, Open, Controllers, Offset
  <2>4. \A c \in Controllers : Held(c)'
    BY <1>1, <1>3 DEF Held, Controllers, Later
  <2> QED BY <1>3, <2>1, <2>2, <2>3, <2>4 DEF VInv
<1> QED
  BY <1>2, <1>3 DEF SetMode, WriteMisc

\* Register 0x11 loses its protection whatever it held: it is not among those it
\* protects.
LEMMA UnlockSet == VInv /\ Unlock => VInv'
<1> SUFFICES ASSUME VInv, Unlock PROVE VInv'
  OBVIOUS
<1> DEFINE crtc == chip["crtc"]
           three == Select(crtc, 3)
           third == StoreCrtc(three, Marked(three.data[3]))
           seventeen == Select(third, 17)
           unlocked == StoreCrtc(seventeen, Unmarked(seventeen.data[17]))
<1>1. /\ place = "unlock" /\ place' = "crtc" /\ registers = 6 /\ loop = 0 /\ table = Table
      /\ UNCHANGED <<loop, registers, misc>>
      /\ table' = [table EXCEPT ![registers + 3] = Marked(@), ![registers + 17] = Unmarked(@)]
      /\ chip' = [chip EXCEPT !["crtc"] = unlocked]
  BY DEF Unlock, VInv, InTable, TableKept, Controllers
<1>2. table' = Wanted
  BY <1>1 DEF Wanted
<1>3. /\ "crtc" \in Controllers /\ crtc \in Controller("crtc") /\ Count("crtc") = 25
      /\ DOMAIN chip = Controllers /\ \A c \in Controllers : chip[c] \in Controller(c)
  BY DEF VInv, VgaTypeOK, Controllers, Count
<1> HIDE DEF crtc
<1>4. three \in Controller("crtc")
  BY <1>3, CardKept DEF Value
<1>5. third \in Controller("crtc")
  <2>1. three.data[3] \in Value
    BY <1>3, <1>4 DEF Controller
  <2> QED BY <1>3, <1>4, <2>1, CardKept, Marks
<1> HIDE DEF three, third
<1>6. seventeen \in Controller("crtc") /\ seventeen.index = 17
  <2>1. 17 \in Value
    BY DEF Value
  <2> QED BY <1>3, <1>5, <2>1, CardKept DEF Select, Controller
<1> HIDE DEF seventeen
<1>7. seventeen.data[17] \in Value
  BY <1>3, <1>6 DEF Controller
<1>8. unlocked \in Controller("crtc")
  BY <1>3, <1>6, <1>7, CardKept, Marks
<1>9. unlocked.data[17] < 128
  <2>1. unlocked = Store(seventeen, Unmarked(seventeen.data[17]))
    BY <1>6 DEF StoreCrtc
  <2>2. unlocked.data[17] = Unmarked(seventeen.data[17])
    BY <1>3, <1>6, <2>1 DEF Store, Controller
  <2> QED BY <1>7, <2>2, Marks
<1> HIDE DEF unlocked
<1>10. VgaTypeOK'
  <2>1. DOMAIN chip' = Controllers /\ \A c \in Controllers : chip'[c] \in Controller(c)
    BY <1>1, <1>3, <1>8
  <2>2. table' \in [0 .. 60 -> Value]
    BY <1>2, WantedBytes
  <2> QED BY <1>1, <1>3, <2>1, <2>2 DEF VgaTypeOK, VInv
<1>11. InTable' /\ TableKept'
  BY <1>1, <1>2 DEF InTable, TableKept, Controllers, Offset
<1>12. Open'
  BY <1>1, <1>3, <1>9 DEF Open
<1>13. ASSUME NEW c \in Controllers PROVE Held(c)'
  <2>1. CASE c = "sequencer"
    BY <1>1, <1>3, <2>1 DEF VInv, Held, Later, Controllers
  <2>2. CASE c # "sequencer"
    BY <1>1, <2>2, Layout DEF Held, Later, Controllers
  <2> QED BY <2>1, <2>2
<1> QED
  BY <1>1, <1>10, <1>11, <1>12, <1>13 DEF VInv

\* The bytes the loops take are those of the registers they write.
LEMMA WriteSet == ASSUME NEW c \in Controllers PROVE VInv /\ WriteRegister(c) => VInv'
<1> SUFFICES ASSUME VInv, WriteRegister(c) PROVE VInv'
  OBVIOUS
<1>1. /\ place = c /\ registers = Offset(c) + loop /\ loop \in 0 .. Count(c) - 1 /\ registers \in 0 .. 60
      /\ UNCHANGED <<table, misc>> /\ registers' = registers + 1
      /\ chip' = [chip EXCEPT ![c] = Written(c, loop, table[registers])]
      /\ IF loop + 1 < Count(c) THEN loop' = loop + 1 /\ UNCHANGED place
         ELSE loop' = 0 /\ place' = After(c)
  BY Layout DEF WriteRegister, VInv, VgaTypeOK, InTable
<1>2. table[registers] = Wanted[Offset(c) + loop]
  <2>1. CASE c = "sequencer"
    <3>1. registers \in 1 .. 5 /\ table = Table
      BY <1>1, <2>1, Layout DEF VInv, TableKept
    <3> QED BY <1>1, <3>1, VgaAssumption DEF Wanted
  <2>2. CASE c # "sequencer"
    BY <1>1, <2>2 DEF VInv, TableKept, Controllers
  <2> QED BY <2>1, <2>2
<1>3. table[registers] \in Value
  BY <1>1, <1>2, WantedBytes
<1>4. DOMAIN chip = Controllers /\ \A d \in Controllers : chip[d] \in Controller(d)
  BY DEF VInv, VgaTypeOK
<1>5. /\ Written(c, loop, table[registers]) \in Controller(c)
      /\ Written(c, loop, table[registers]).data = [chip[c].data EXCEPT ![loop] = table[registers]]
  BY <1>1, <1>3, <1>4, WrittenStores DEF VInv, Open
<1>6. /\ DOMAIN chip' = Controllers /\ \A d \in Controllers : chip'[d] \in Controller(d)
      /\ chip'[c].data = [chip[c].data EXCEPT ![loop] = Wanted[Offset(c) + loop]]
      /\ \A d \in Controllers : d # c => chip'[d] = chip[d]
  BY <1>1, <1>2, <1>4, <1>5
<1>7. chip[c].data \in [0 .. Count(c) - 1 -> Value]
  BY <1>4 DEF Controller
<1> HIDE DEF WriteRegister
<1>8. VgaTypeOK'
  <2>1. loop' \in 0 .. 24 /\ registers' \in 1 .. 61
    BY <1>1, Layout
  <2>2. place' \in Controllers => loop' < Count(place') /\ registers' < 61
    <3>1. CASE loop + 1 < Count(c)
      BY <1>1, <3>1, Layout
    <3>2. CASE ~(loop + 1 < Count(c))
      BY <1>1, <3>2, Layout DEF After, Controllers
    <3> QED BY <3>1, <3>2
  <2>3. place' \in Controllers \cup {"idle", "misc", "unlock", "enable", "done"}
    BY <1>1 DEF After, Controllers
  <2> QED BY <1>1, <1>6, <2>1, <2>2, <2>3 DEF VgaTypeOK, VInv
<1>9. InTable' /\ TableKept'
  <2>1. CASE loop + 1 < Count(c)
    BY <1>1, <2>1, Layout DEF VInv, InTable, TableKept, Controllers
  <2>2. CASE ~(loop + 1 < Count(c))
    BY <1>1, <2>2, Layout DEF VInv, InTable, TableKept, After, Controllers
  <2> QED BY <2>1, <2>2
<1>10. Open'
  <2>1. CASE place' = "crtc" /\ c = "crtc"
    <3>1. Wanted[Offset(c) + loop] < 128 \/ loop # 17
      BY <2>1, Layout, WantedBytes
    <3>2. chip'[c].data[17] = IF loop = 17 THEN Wanted[Offset(c) + loop] ELSE chip[c].data[17]
      <4>1. 17 \in 0 .. Count(c) - 1
        BY <2>1, Layout
      <4> QED BY <1>6, <1>7, <4>1
    <3>3. chip[c].data[17] < 128
      BY <1>1, <2>1 DEF VInv, Open
    <3>4. chip'[c].data[17] < 128
      BY <3>1, <3>2, <3>3
    <3> QED BY <2>1, <3>4 DEF Open
  <2>2. CASE place' = "crtc" /\ c # "crtc"
    BY <1>1, <2>2 DEF After, Controllers
  <2> QED BY <2>1, <2>2 DEF Open
<1>11. ASSUME NEW d \in Controllers PROVE Held(d)'
  <2>1. CASE d = c
    <3>1. place \notin Later(c) /\ c \notin Later(c)
      BY <1>1 DEF Later, Controllers
    <3>2. ASSUME NEW n \in 0 .. Count(c) - 1,
                 place' \in Later(c) \/ (place' = c /\ n < loop')
          PROVE  n = loop \/ n < loop
      BY <1>1, <3>1, <3>2, Layout
    <3>3. ASSUME NEW n \in 0 .. Count(c) - 1, n = loop \/ n < loop
          PROVE  chip'[c].data[n] = Wanted[Offset(c) + n]
      <4>1. CASE n = loop
        BY <1>6, <1>7, <4>1
      <4>2. CASE n < loop
        <5>1. chip[c].data[n] = Wanted[Offset(c) + n]
          BY <1>1, <4>2 DEF VInv, Held
        <5>2. n # loop
          BY <1>1, <4>2, Layout
        <5>3. chip'[c].data[n] = chip[c].data[n]
          BY <1>6, <1>7, <5>2
        <5> QED BY <5>1, <5>3
      <4> QED BY <3>3, <4>1, <4>2
    <3> QED BY <2>1, <3>2, <3>3 DEF Held
  <2>2. CASE d # c
    <3>1. place' \in Later(d) => place \in Later(d)
      BY <1>1, <2>2 DEF Later, After, Controllers
    <3>2. place' = d => loop' = 0
      BY <1>1, <2>2
    <3> QED BY <1>6, <2>2, <3>1, <3>2, Layout DEF VInv, Held
  <2> QED BY <2>1, <2>2
<1>12. place' # "done" /\ place \notin {"idle", "misc"}
  BY <1>1 DEF After, Controllers
<1> QED
  BY <1>1, <1>8, <1>9, <1>10, <1>11, <1>12 DEF VInv

\* The last byte is an index and no data.
LEMMA EnableSet == VInv /\ Enable => VInv'
<1> SUFFICES ASSUME VInv, Enable PROVE VInv'
  OBVIOUS
<1> DEFINE attribute == chip["attribute"]
           enabled == Turn(Reset(attribute), 32)
<1>1. /\ place = "enable" /\ place' = "done" /\ registers = 61 /\ loop = 0 /\ table = Wanted
      /\ UNCHANGED <<loop, registers, table, misc>>
      /\ chip' = [chip EXCEPT !["attribute"] = enabled]
  BY DEF Enable, VInv, InTable, TableKept, Controllers
<1>2. /\ "attribute" \in Controllers /\ attribute \in Controller("attribute")
      /\ DOMAIN chip = Controllers /\ \A c \in Controllers : chip[c] \in Controller(c)
  BY DEF VInv, VgaTypeOK, Controllers
<1> HIDE DEF attribute
<1>3. Reset(attribute) \in Controller("attribute") /\ enabled \in Controller("attribute")
  BY <1>2, CardKept DEF Value
<1>4. enabled.index = 32 /\ enabled.data = attribute.data
  <2>1. enabled = [Select(Reset(attribute), 32) EXCEPT !.expects = "data"]
    BY <1>2 DEF Turn, Reset, Controller
  <2> QED BY <1>2, <2>1 DEF Select, Reset, Controller
<1> HIDE DEF enabled
<1>5. /\ DOMAIN chip' = Controllers /\ \A c \in Controllers : chip'[c] \in Controller(c)
      /\ \A c \in Controllers : chip'[c].data = chip[c].data
      /\ chip'["attribute"].index = 32
  BY <1>1, <1>2, <1>3, <1>4 DEF attribute
<1>6. VgaTypeOK'
  BY <1>1, <1>5 DEF VInv, VgaTypeOK, Controllers
<1>7. InTable' /\ TableKept' /\ Open'
  BY <1>1 DEF InTable, TableKept, Open, Controllers
<1>8. ASSUME NEW c \in Controllers PROVE Held(c)'
  BY <1>1, <1>5 DEF VInv, Held, Later, Controllers
<1> QED
  BY <1>1, <1>5, <1>6, <1>7, <1>8 DEF VInv

\* A pixel leaves the registers alone, but for which one is selected.
LEMMA PixelSet == VInv /\ GetFrameBufferSegment => VInv'
<1> SUFFICES ASSUME VInv, GetFrameBufferSegment PROVE VInv'
  OBVIOUS
<1>1. /\ place = "done" /\ UNCHANGED <<place, loop, registers, table, misc>>
      /\ chip' = [chip EXCEPT !["graphics"] = Select(chip["graphics"], 6)]
  BY DEF GetFrameBufferSegment
<1>2. /\ {"graphics", "attribute"} \subseteq Controllers
      /\ DOMAIN chip = Controllers /\ \A c \in Controllers : chip[c] \in Controller(c)
  BY DEF VInv, VgaTypeOK, Controllers
<1>3. /\ Select(chip["graphics"], 6) \in Controller("graphics")
      /\ Select(chip["graphics"], 6).data = chip["graphics"].data
  <2>1. 6 \in Value
    BY DEF Value
  <2>2. chip["graphics"] \in Controller("graphics")
    BY <1>2
  <2> QED BY <1>2, <2>1, <2>2, CardKept DEF Select, Controller
<1>4. /\ DOMAIN chip' = Controllers /\ \A c \in Controllers : chip'[c] \in Controller(c)
      /\ \A c \in Controllers : chip'[c].data = chip[c].data
      /\ chip'["attribute"] = chip["attribute"]
  BY <1>1, <1>2, <1>3
<1>5. VgaTypeOK'
  BY <1>1, <1>4 DEF VInv, VgaTypeOK
<1>6. InTable' /\ TableKept' /\ Open'
  BY <1>1 DEF VInv, InTable, TableKept, Open
<1>7. ASSUME NEW c \in Controllers PROVE Held(c)'
  BY <1>1, <1>4 DEF VInv, Held
<1> QED
  BY <1>1, <1>4, <1>5, <1>6, <1>7 DEF VInv

\* VInv is inductive.
LEMMA NextSet == VInv /\ [VgaNext]_card => VInv'
<1> SUFFICES ASSUME VInv, [VgaNext]_card PROVE VInv'
  OBVIOUS
<1>1. CASE UNCHANGED card
  BY <1>1 DEF card, VInv, VgaTypeOK, InTable, TableKept, Open, Held
<1> QED
  BY <1>1, BeginSet, UnlockSet, WriteSet, EnableSet, PixelSet DEF VgaNext

\* So it is always true.
LEMMA VInvAlways == VgaSpec => []VInv
<1> QED BY InitSet, NextSet, PTL DEF VgaSpec

\* WriteRegisters keeps to its table and to the registers there are, and the
\* card's controllers stay controllers, for every table and every former state.
THEOREM VgaTypeCorrect == VgaSpec => []VgaTypeOK
<1>1. VInv => VgaTypeOK
  BY DEF VInv
<1> QED BY <1>1, VInvAlways, PTL

\* When SetMode returns every register holds its byte of the table, whatever
\* the card held before: protected registers, or a port that waits for data.
THEOREM EachRegisterSetAlways == VgaSpec => []EachRegisterSet
<1>1. ASSUME VInv, place = "done", NEW c \in Controllers PROVE place \in Later(c)
  BY <1>1 DEF Later, Controllers
<1>2. VInv => EachRegisterSet
  BY <1>1 DEF VInv, EachRegisterSet, Held
<1> QED BY <1>2, VInvAlways, PTL

------------------------------------------------------------------------------
(* Both together (Graphics).                                                *)

\* kernelMain with GRAPHICSMODE is the widgets and the graphics card, so that
\* what was proved of each by itself holds of it.
THEOREM GraphicsImplements == GraphicsSpec => Spec /\ VgaSpec
<1>1. GraphicsInit => Init /\ VgaInit
  BY DEF GraphicsInit
<1>2. [GraphicsNext]_<<vars, card>> => [Next]_vars /\ [VgaNext]_card
  BY DEF GraphicsNext, SetOrPut, WindowsAndEvents
<1> QED BY <1>1, <1>2, PTL DEF GraphicsSpec, Spec, VgaSpec

\* Windows, mouse and card stay what they are meant to be.
THEOREM GraphicsTypeCorrect == GraphicsSpec => []GraphicsTypeOK
<1>1. TypeOK /\ VgaTypeOK => GraphicsTypeOK
  BY DEF GraphicsTypeOK
<1> QED BY <1>1, GraphicsImplements, TypeCorrect, VgaTypeCorrect, PTL

\* The addresses of the pixels that are put are the bytes that are shown.
LEMMA AddressesShown ==
    ASSUME NEW f, Fits(f)
    PROVE  Addresses(Screen, f) = Shown(f)
<1> DEFINE xs == (f.x .. f.x + f.w - 1) \cap Columns
           ys == (f.y .. f.y + f.h - 1) \cap Rows
<1>1. CASE f.x < 0 \/ f.y < 0
  <2>1. Filled(f) = {}
    BY <1>1, FilledIsPut
  <2> QED BY <1>1, <2>1 DEF Addresses, Shown
<1>2. CASE ~(f.x < 0 \/ f.y < 0)
  <2> DEFINE Z == xs \X ys
             A == {Screen + 320 * y + x : x \in xs, y \in ys}
  <2>1. Shown(f) = A
    BY <1>2 DEF Shown
  <2>2. Filled(f) = Z
    BY <1>2, FilledIsPut
  <2> HIDE DEF xs, ys
  <2>3. Addresses(Screen, f) = {PixelAddress(Screen, p) : p \in Z}
    BY <2>2 DEF Addresses
  <2>4. ASSUME NEW p \in Z PROVE PixelAddress(Screen, p) \in A
    <3>1. p[1] \in xs /\ p[2] \in ys
      OBVIOUS
    <3>2. PixelAddress(Screen, p) = Screen + 320 * p[2] + p[1]
      BY DEF PixelAddress
    <3> QED BY <3>1, <3>2
  <2>5. ASSUME NEW x \in xs, NEW y \in ys
        PROVE  \E p \in Z : PixelAddress(Screen, p) = Screen + 320 * y + x
    <3>1. <<x, y>> \in Z
      OBVIOUS
    <3>2. PixelAddress(Screen, <<x, y>>) = Screen + 320 * y + x
      BY DEF PixelAddress
    <3> QED BY <3>1, <3>2
  <2>6. ASSUME NEW a \in A PROVE \E p \in Z : PixelAddress(Screen, p) = a
    <3>1. PICK x \in xs, y \in ys : a = Screen + 320 * y + x
      OBVIOUS
    <3> QED BY <2>5, <3>1
  <2> HIDE DEF Z, A
  <2>7. {PixelAddress(Screen, p) : p \in Z} = A
    BY <2>4, <2>6
  <2> QED BY <2>1, <2>3, <2>7
<1> QED BY <1>1, <1>2

\* With a table that puts the frame buffer at 0xA0000, as that of the code does
\* (its byte 37 is 5), a window is drawn in the bytes of the screen and nowhere
\* else, wherever it is dragged within int32_t.
THEOREM DrawnOnScreenAlways ==
    ASSUME FrameBufferSegment(Table[37]) = Screen
    PROVE  GraphicsSpec => []DrawnOnScreen
<1>1. VInv => DrawnOnScreen
  <2> SUFFICES ASSUME VInv, place = "done", NEW win \in Windows, Fits(frame[win])
               PROVE  Addresses(FrameBufferSegment(chip["graphics"].data[6]), frame[win])
                        = Shown(frame[win])
    BY DEF DrawnOnScreen
  <2>1. "graphics" \in Controllers /\ place \in Later("graphics")
    BY DEF Controllers, Later
  <2>2. Held("graphics")
    BY <2>1 DEF VInv
  <2>3. chip["graphics"].data[6] = Wanted[37]
    BY <2>1, <2>2 DEF Held, Count, Offset
  <2>4. chip["graphics"].data[6] = Table[37]
    BY <2>3, VgaAssumption DEF Wanted
  <2> QED BY <2>4, AddressesShown
<1> QED BY <1>1, GraphicsImplements, VInvAlways, PTL
================================================================================
