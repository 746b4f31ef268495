--------------------------------- MODULE MCGui ---------------------------------
\* Constants for TLC: two windows that overlap, on a desktop a few pixels wide,
\* and moves that cross a window at once, reach the edges or are too small.
EXTENDS Gui

CONSTANTS w1, w2

MCWindows == {w1, w2}
MCFrame == [win \in MCWindows |->
               IF win = w1 THEN [x |-> 0, y |-> 0, w |-> 3, h |-> 2]
               ELSE [x |-> 2, y |-> 0, w |-> 2, h |-> 1]]
MCControl == [win \in MCWindows |-> [x |-> 0, y |-> 0, w |-> 2, h |-> 1]]
MCOffsets == {<<-128, 0>>, <<7, 0>>, <<12, 4>>, <<3, -4>>}
================================================================================
