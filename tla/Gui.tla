---------------------------------- MODULE Gui ----------------------------------
(***************************************************************************)
(* The widgets of gui/: a Desktop whose children are Windows, each with    *)
(* one plain Widget (its control) inside, and the events the keyboard and  *)
(* the mouse driver hand to the desktop.  An event is handled inside one   *)
(* interrupt, so it is one step here.  Where the pixels of a window go is  *)
(* Widget::Draw and VideoGraphicsArray::FillRectangle.                     *)
(***************************************************************************)
EXTENDS Integers, Sequences, FiniteSets

CONSTANTS
    Windows,
    Frame,          \* window -> the rectangle it is constructed with
    Control,        \* window -> its control's rectangle inside it
    Width, Height,  \* the desktop
    MaxChildren,    \* length of CompositeWidget::children, 100
    Buttons,        \* numbers of mouse buttons
    Offsets,        \* pairs that OnMouseMove may get
    None

ASSUME GuiAssumption ==
    /\ Width \in Nat \ {0} /\ Height \in Nat \ {0}
    /\ MaxChildren \in Nat
    /\ Offsets \subseteq (-128 .. 127) \X (-128 .. 127)
    /\ None \notin Windows
    /\ Frame \in [Windows -> [x : Int, y : Int, w : Nat, h : Nat]]
    /\ Control \in [Windows -> [x : Int, y : Int, w : Nat, h : Nat]]

VARIABLES
    active,     \* interrupts are on: events arrive
    zeroed,     \* the memory of the desktop was zero before its constructor,
                \* which sets neither numChildren nor focusedChild
    children,   \* the desktop's children, as far as AddChild put them there
    frame,      \* window -> its x, y, w, h
    Dragging,   \* Window::Dragging
    focusedChild,   \* the desktop's
    focused,    \* the windows whose focusedChild is their control
    mouse,      \* MouseX, MouseY
    told,       \* history: the last event, and which widgets were called
    pressed     \* history: the window whose control was told of a press last

vars == <<active, zeroed, children, frame, Dragging, focusedChild, focused,
          mouse, told, pressed>>

\* Widget::ContainsCoordinate.
ContainsCoordinate(f, p) ==
    /\ f.x < p[1] /\ p[1] < f.x + f.w
    /\ f.y <= p[2] /\ p[2] < f.y + f.h

\* Mutant: the children are asked in the order in which they are drawn.
HitLast(frames, p) ==
    LET hits == {i \in DOMAIN children : ContainsCoordinate(frames[children[i]], p)} IN
    IF hits = {} THEN None
    ELSE children[CHOOSE i \in hits : \A j \in hits : i >= j]

\* The first child whose frame contains p, in the order of AddChild.
Hit(frames, p) ==
    LET hits == {i \in DOMAIN children : ContainsCoordinate(frames[children[i]], p)} IN
    IF hits = {} THEN None
    ELSE children[CHOOSE i \in hits : \A j \in hits : i <= j]

Inside(frames, win, p) == <<p[1] - frames[win].x, p[2] - frames[win].y>>

\* The control of win is at p of the desktop.
OnControl(win, p) == ContainsCoordinate(Control[win], Inside(frame, win, p))

Called(win, part, call) == [to |-> win, part |-> part, call |-> call]

Event(event, calls) == told' = [event |-> event, calls |-> calls]

------------------------------------------------------------------------------
\* Desktop::Desktop, the constructors of the windows and their controls.
Init ==
    /\ active = FALSE
    /\ zeroed \in BOOLEAN
    /\ children = <<>>
    /\ frame = Frame
    /\ Dragging = [win \in Windows |-> FALSE]
    /\ focusedChild = None
    /\ focused = {}
    /\ mouse = <<Width \div 2, Height \div 2>>
    /\ told = [event |-> "none", calls |-> {}]
    /\ pressed = None

\* CompositeWidget::AddChild, of the desktop, before interrupts are on.
AddChild(win) ==
    /\ ~active /\ zeroed
    /\ Len(children) < MaxChildren
    /\ children' = Append(children, win)
    /\ UNCHANGED <<active, zeroed, frame, Dragging, focusedChild, focused,
                   mouse, told, pressed>>

\* What a desktop does whose numChildren was not zero is not modelled.
Activate ==
    /\ ~active /\ zeroed
    /\ active' = TRUE
    /\ UNCHANGED <<zeroed, children, frame, Dragging, focusedChild, focused,
                   mouse, told, pressed>>

\* Mutant: the window takes the focus, and its parent is not told.
GetFocusAlone(win) ==
    /\ focused' = focused \cup {win}
    /\ UNCHANGED focusedChild

\* Widget::GetFocus of the control of win: the window's focusedChild is the
\* control, and the desktop's the window.
GetFocus(win) ==
    /\ focused' = focused \cup {win}
    /\ focusedChild' = win

\* Desktop::OnMouseDown.  CompositeWidget::OnMouseDown calls OnMouseUp of the
\* child; Window::OnMouseUp ends a drag, and CompositeWidget::OnMouseUp calls
\* OnMouseDown of the control.
OnMouseDown(button) ==
    /\ active
    /\ LET win == Hit(frame, mouse) IN
       IF win = None
       THEN /\ Event("press", {})
            /\ UNCHANGED <<Dragging, focusedChild, focused, pressed>>
       ELSE /\ Dragging' = [Dragging EXCEPT ![win] = FALSE]
            /\ IF OnControl(win, mouse)
               THEN /\ GetFocus(win)
                    /\ pressed' = win
                    /\ Event("press", {Called(win, "window", "OnMouseUp"),
                                       Called(win, "control", "OnMouseDown")})
               ELSE /\ Event("press", {Called(win, "window", "OnMouseUp")})
                    /\ UNCHANGED <<focusedChild, focused, pressed>>
    /\ UNCHANGED <<active, zeroed, children, frame, mouse>>

\* Desktop::OnMouseUp: the same the other way round.
OnMouseUp(button) ==
    /\ active
    /\ LET win == Hit(frame, mouse) IN
       IF win = None
       THEN Event("release", {}) /\ UNCHANGED Dragging
       ELSE /\ Dragging' = [Dragging EXCEPT ![win] = (button = 1)]
            /\ Event("release",
                  {Called(win, "window", "OnMouseDown")} \cup
                  (IF OnControl(win, mouse)
                   THEN {Called(win, "control", "OnMouseUp")} ELSE {}))
    /\ UNCHANGED <<active, zeroed, children, frame, focusedChild, focused,
                   mouse, pressed>>

\* The division of C, towards zero.
Quotient(a, b) == IF a < 0 THEN -((-a) \div b) ELSE a \div b

\* Mutant: the upper bound is off by one.
ClampLoose(a, size) == IF a < 0 THEN 0 ELSE IF a > size THEN size ELSE a

\* A coordinate is kept on the desktop.
Clamp(a, size) == IF a < 0 THEN 0 ELSE IF a >= size THEN size - 1 ELSE a

\* Mutant: the window follows in one direction only.
MovedHorizontally(frames, win, old, new) ==
    IF win # None /\ Dragging[win]
    THEN [frames EXCEPT ![win].x = @ + new[1] - old[1]]
    ELSE frames

\* Window::OnMouseMove; a control does nothing.
Moved(frames, win, old, new) ==
    IF win # None /\ Dragging[win]
    THEN [frames EXCEPT ![win].x = @ + new[1] - old[1],
                        ![win].y = @ + new[2] - old[2]]
    ELSE frames

\* Mutant: a window that held the mouse before and after is told twice.
OnMouseMoveTwice(offset) ==
    LET new == <<Clamp(mouse[1] + Quotient(offset[1], 4), Width),
                 Clamp(mouse[2] + Quotient(offset[2], 4), Height)>>
        from == Hit(frame, mouse)
        left == Moved(frame, from, mouse, new)
        to == Hit(left, new)
    IN  /\ active
        /\ frame' = Moved(left, to, mouse, new)
        /\ mouse' = new
        /\ Event("move", {Called(win, "window", "OnMouseMove") : win \in {from, to} \ {None}})
        /\ UNCHANGED <<active, zeroed, children, Dragging, focusedChild, focused,
                       pressed>>

\* Desktop::OnMouseMove and CompositeWidget::OnMouseMove: the child at the old
\* position is told, and then the child at the new one, as the first left it,
\* unless it is the same.
OnMouseMove(offset) ==
    LET new == <<Clamp(mouse[1] + Quotient(offset[1], 4), Width),
                 Clamp(mouse[2] + Quotient(offset[2], 4), Height)>>
        from == Hit(frame, mouse)
        left == Moved(frame, from, mouse, new)
        to == Hit(left, new)
    IN  /\ active
        /\ frame' = IF to = from THEN left ELSE Moved(left, to, mouse, new)
        /\ mouse' = new
        /\ Event("move", {Called(win, "window", "OnMouseMove") : win \in {from, to} \ {None}})
        /\ UNCHANGED <<active, zeroed, children, Dragging, focusedChild, focused,
                       pressed>>

\* The call a key event makes at the control that has the focus: OnKeyDown, of
\* a release too.
KeyCalls ==
    IF focusedChild # None /\ focusedChild \in focused
    THEN {Called(focusedChild, "control", "OnKeyDown")} ELSE {}

\* CompositeWidget::OnKeyDown, of the desktop and of the window.
OnKeyDown ==
    /\ active
    /\ Event("key down", KeyCalls)
    /\ UNCHANGED <<active, zeroed, children, frame, Dragging, focusedChild,
                   focused, mouse, pressed>>

\* CompositeWidget::OnKeyUp calls OnKeyDown of the child.
OnKeyUp ==
    /\ active
    /\ Event("key up", KeyCalls)
    /\ UNCHANGED <<active, zeroed, children, frame, Dragging, focusedChild,
                   focused, mouse, pressed>>

Next ==
    \/ \E win \in Windows : AddChild(win)
    \/ Activate
    \/ \E button \in Buttons : OnMouseDown(button)
    \/ \E button \in Buttons : OnMouseUp(button)
    \/ \E offset \in Offsets : OnMouseMove(offset)
    \/ OnKeyDown
    \/ OnKeyUp

Spec == Init /\ [][Next]_vars

------------------------------------------------------------------------------
(* Properties.                                                              *)

Calls == [to : Windows, part : {"window", "control"},
          call : {"OnMouseDown", "OnMouseUp", "OnMouseMove", "OnKeyDown"}]

\* The mouse never leaves the desktop, and no event changes a window's size.
TypeOK ==
    /\ active \in BOOLEAN /\ zeroed \in BOOLEAN
    /\ children \in Seq(Windows) /\ Len(children) <= MaxChildren
    /\ \A win \in Windows :
          /\ frame[win].x \in Int /\ frame[win].y \in Int
          /\ frame[win].w = Frame[win].w /\ frame[win].h = Frame[win].h
    /\ Dragging \in [Windows -> BOOLEAN]
    /\ focusedChild \in Windows \cup {None} /\ focused \subseteq Windows
    /\ mouse \in (0 .. Width - 1) \X (0 .. Height - 1)
    /\ told.event \in {"none", "press", "release", "move", "key down", "key up"}
    /\ told.calls \subseteq Calls
    /\ pressed \in Windows \cup {None}

\* A window moves only while it is dragged, and the point at which the mouse
\* holds it stays under the mouse: it is told of a move once, though the old
\* and the new position may both be in it, and not of the part of a move the
\* edge of the desktop cut off.
DragKeepsGrip ==
    [][ \A win \in Windows :
            frame'[win] # frame[win] =>
                /\ Dragging[win]
                /\ Inside(frame, win, mouse)' = Inside(frame, win, mouse) ]_vars

\* The front window cannot be lost while it is dragged: however fast the mouse
\* moves, and whatever lies behind, the mouse stays in it, so it is told of
\* every move and of the event that ends the drag.
FrontDragHolds ==
    children # <<>> /\ Dragging[children[1]] =>
        ContainsCoordinate(frame[children[1]], mouse)

\* Keys go to the control that was last told of a press and to no other, across
\* windows, though every window remembers a focused child of its own.  By which
\* method the control is told is left open: CompositeWidget::OnKeyUp calls the
\* child's OnKeyDown.
KeysToLastPressed ==
    told.event \in {"key down", "key up"} =>
        {<<c.to, c.part>> : c \in told.calls} =
            IF pressed = None THEN {} ELSE {<<pressed, "control">>}

\* "They also handle various events such as focus, onMouseDown, onMouseUp"
\* (documentation.pdf, p. 8): a widget is told OnMouseDown of a press and
\* OnMouseUp of a release.
ToldAsItIs ==
    /\ told.event = "press" => \A c \in told.calls : c.call = "OnMouseDown"
    /\ told.event = "release" => \A c \in told.calls : c.call = "OnMouseUp"

\* FillRectangle puts a pixel of f at p.  It counts in uint32_t, so that
\* nothing is drawn of a frame that begins left of or above the screen.
Drawn(f, p) ==
    /\ 0 <= f.x /\ f.x <= p[1] /\ p[1] < f.x + f.w
    /\ 0 <= f.y /\ f.y <= p[2] /\ p[2] < f.y + f.h

\* The window whose pixel is seen at p: CompositeWidget::Draw draws the first
\* child last.
Seen(p) ==
    LET drawn == {i \in DOMAIN children : Drawn(frame[children[i]], p)} IN
    IF drawn = {} THEN {}
    ELSE {children[CHOOSE i \in drawn : \A j \in drawn : i <= j]}

\* "On layered widgets, events on a specific widget is determined based on
\* their z-index" (documentation.pdf, p. 8): a press or release reaches the
\* window that is seen under the mouse, none behind it and none when there is
\* none.  That fails on the leftmost column of a window, which is drawn and is
\* not the window's for events, and of a window that has been dragged beyond
\* the left or the upper edge, of which nothing is drawn.
FrontIsTold ==
    told.event \in {"press", "release"} =>
        LET hit == {c.to : c \in told.calls} IN
        \/ hit = Seen(mouse)
        \/ \E win \in Seen(mouse) : mouse[1] = frame[win].x
        \/ \E win \in hit : frame[win].x < 0 \/ frame[win].y < 0
================================================================================
