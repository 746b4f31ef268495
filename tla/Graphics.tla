-------------------------------- MODULE Graphics --------------------------------
(***************************************************************************)
(* kernelMain with GRAPHICSMODE (kernel.cpp): it sets the mode of the      *)
(* graphics card (Vga), puts the windows on the desktop (Gui), activates   *)
(* the interrupts, and draws the desktop without end, while the events of  *)
(* keyboard and mouse interrupt it.  An event may come between any two     *)
(* pixels, so a pixel is a step; it writes to the frame buffer (external), *)
(* which nothing reads again.                                              *)
(***************************************************************************)
EXTENDS Gui, Vga

GraphicsInit == Init /\ VgaInit

\* The mode is set before the first window is there, with one that the card has;
\* pixels are put once the interrupts are on.
SetOrPut ==
    /\ place = "done" => active
    /\ VgaNext
    /\ UNCHANGED vars

\* The windows and the events leave the card alone.
WindowsAndEvents ==
    /\ place = "done"
    /\ Next
    /\ UNCHANGED card

GraphicsNext == SetOrPut \/ WindowsAndEvents

GraphicsSpec == GraphicsInit /\ [][GraphicsNext]_<<vars, card>>

------------------------------------------------------------------------------
(* Properties.                                                              *)

GraphicsTypeOK == TypeOK /\ VgaTypeOK

\* Mutant: the pixels are counted from the row below.
AddressesBelow(segment, f) == {PixelAddress(segment, p) + 320 : p \in Filled(f)}

\* The bytes FillRectangle writes of a frame.
Addresses(segment, f) == {PixelAddress(segment, p) : p \in Filled(f)}

\* Within int32_t, as the members of a Widget are.
Fits(f) == /\ f.x \in -Half .. Half - 1 /\ f.w \in 0 .. Half - 1
           /\ f.y \in -Half .. Half - 1 /\ f.h \in 0 .. Half - 1

\* The bytes of the screen that a frame covers: none of one that begins to the
\* left of the screen or above it.
Shown(f) ==
    IF f.x < 0 \/ f.y < 0 THEN {}
    ELSE {Screen + 320 * y + x : x \in (f.x .. f.x + f.w - 1) \cap Columns,
                                 y \in (f.y .. f.y + f.h - 1) \cap Rows}

\* With whatever the card held before SetMode, and wherever the windows are
\* dragged, a window is drawn in the 64000 bytes of the screen and nowhere
\* else, each of its pixels in its own byte.
DrawnOnScreen ==
    place = "done" =>
        \A win \in Windows : Fits(frame[win]) =>
            Addresses(FrameBufferSegment(chip["graphics"].data[6]), frame[win]) = Shown(frame[win])
=================================================================================
