------------------------------- MODULE MCGraphics -------------------------------
\* The windows of MCGui, the table of the code, and a card that was left in any
\* of eight states: its registers clear or set (which protects the CRT
\* controller's), either turn at the attribute controller's port, and register
\* 6 or 17 selected.
EXTENDS MCGui, Graphics

MCTable ==
    LET bytes == << 99,
        3, 1, 15, 0, 14,
        95, 79, 80, 130, 84, 128, 191, 31, 0, 65, 0, 0, 0, 0, 0, 0,
        156, 14, 143, 40, 64, 150, 185, 163, 255,
        0, 0, 0, 0, 0, 64, 5, 15, 255,
        0, 1, 2, 3, 4, 5, 6, 7, 8, 9, 10, 11, 12, 13, 14, 15, 65, 0, 15, 0, 0 >>
    IN  [n \in 0 .. 60 |-> bytes[n + 1]]

MCFormer ==
    {[c \in Controllers |-> [index |-> selected,
                             data |-> [n \in 0 .. Count(c) - 1 |-> byte],
                             expects |-> IF c = "attribute" THEN turn ELSE "index"]] :
        selected \in {6, 17}, byte \in {0, 255}, turn \in {"index", "data"}}

MCModes == {<<320, 200, 8>>, <<640, 480, 8>>}
=================================================================================
