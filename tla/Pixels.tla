-------------------------------- MODULE Pixels --------------------------------
(***************************************************************************)
(* Which pixels VideoGraphicsArray::FillRectangle puts (vga.cpp), where    *)
(* they lie in memory.  Operators without state, in the integers of the    *)
(* code: a uint32_t is below 2 * Half, and an int32_t the same with the    *)
(* upper half below 0.                                                     *)
(***************************************************************************)
EXTENDS Integers

CONSTANT Half   \* 2^31

\* The screen fits into an int32_t.
ASSUME PixelAssumption == Half \in Nat /\ 320 <= Half

Columns == 0 .. 319
Rows == 0 .. 199

Unsigned(n) == n % (2 * Half)
Signed(n) == IF n < Half THEN n ELSE n - 2 * Half

\* What one of FillRectangle's two loops, over uint32_t, comes to.
Loop(from, size) == Unsigned(from) .. Unsigned(from + size) - 1

\* PutPixel, of int32_t, goes on to store the pixel.
Put(x, y) == ~(x < 0 \/ x >= 320 \/ y < 0 \/ y >= 200)

\* The pixels FillRectangle puts, of the int that Widget::Draw passes for each
\* of its uint32_t.
Filled(f) == {p \in Loop(f.x, f.w) \X Loop(f.y, f.h) : Put(Signed(p[1]), Signed(p[2]))}

\* Where the first segment lies, which is the screen's: 0xA0000.
Screen == 655360

PixelAddress(segment, p) == segment + 320 * p[2] + p[1]

\* GetFrameBufferSegment, of the graphics controller's register 6.
FrameBufferSegment(value) ==
    CASE (value \div 4) % 4 = 1 -> Screen
      [] (value \div 4) % 4 = 2 -> 720896       \* 0xB0000
      [] (value \div 4) % 4 = 3 -> 753664       \* 0xB8000
      [] OTHER -> 0
===============================================================================
