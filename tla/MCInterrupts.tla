----------------------------- MODULE MCInterrupts -----------------------------
\* Lines for TLC: the three the kernel wires, and lines it ignores, one on
\* each controller.
EXTENDS Interrupts

AllDevices == {0, 1, 12, 3, 14}
MouseAndDisk == {0, 12, 14}
================================================================================
