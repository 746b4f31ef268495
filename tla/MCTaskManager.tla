----------------------------- MODULE MCTaskManager -----------------------------
\* Constants for TLC: as many tasks as the table holds, so that it can be full
\* and can hold one task twice, and two positions, so that a stale pointer
\* differs from a fresh one.
EXTENDS TaskManager, TLC

CONSTANTS t1, t2, t3, p1, p2

MCTasks == {t1, t2, t3}
MCPositions == {p1, p2}
================================================================================
