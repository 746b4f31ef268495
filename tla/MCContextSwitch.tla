---------------------------- MODULE MCContextSwitch ----------------------------
\* Constants for TLC: stacks with room for a frame on top of two words that the
\* interrupted code pushed.
EXTENDS ContextSwitch, TLC

CONSTANTS t1, t2, timer, keyboard, d1, d2

MCTasks == {t1, t2}
MCLines == {timer, keyboard}
MCData == {d1, d2}
================================================================================
