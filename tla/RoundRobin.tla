------------------------------ MODULE RoundRobin ------------------------------
(***************************************************************************)
(* The scheduling TaskManager promises: tasks wait in a queue of at most   *)
(* Capacity tasks, in the order they were admitted; at each tick the one   *)
(* at the head gets the processor and the one that had it goes to the end. *)
(* The boot code is no task: once a task runs it is never resumed.         *)
(***************************************************************************)
EXTENDS Naturals, Sequences

CONSTANTS Tasks, Boot, Capacity

VARIABLES
    running,    \* who has the processor
    queue       \* who gets it next, in this order

vars == <<running, queue>>

Init == running = Boot /\ queue = <<>>

Admit(task) ==
    /\ running = Boot
    /\ Len(queue) < Capacity
    /\ queue' = Append(queue, task)
    /\ UNCHANGED running

Tick ==
    LET waiting == IF running = Boot THEN queue ELSE Append(queue, running) IN
    /\ waiting # <<>>
    /\ running' = Head(waiting)
    /\ queue' = Tail(waiting)

Next == Tick \/ \E task \in Tasks : Admit(task)

Spec == Init /\ [][Next]_vars
===============================================================================
