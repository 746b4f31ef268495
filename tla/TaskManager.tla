------------------------------ MODULE TaskManager ------------------------------
(***************************************************************************)
(* multitasking.cpp: TaskManager, its table of tasks and the pointers to   *)
(* saved processor states (CPUState) that Schedule takes and returns.      *)
(* What lies behind a pointer does not concern Schedule: here a pointer is *)
(* the stack it points into and a position on it.  ContextSwitch models    *)
(* the words of the frames.                                                *)
(*                                                                         *)
(* The other side is the interrupt stub and the processor (external): a    *)
(* timer interrupt pushes the state of whoever runs on the stack it runs   *)
(* on, calls Schedule with a pointer to it and goes on with the state      *)
(* Schedule returns.                                                       *)
(***************************************************************************)
EXTENDS Integers, Sequences

CONSTANTS
    Tasks,      \* the Task objects
    Kernel,     \* the stack kernelMain runs on
    MaxTasks,   \* length of TaskManager::tasks, 256
    Positions,  \* where on a stack the saved state may lie
    Built       \* where Task::Task puts it

ASSUME TaskAssumption ==
    /\ Kernel \notin Tasks
    /\ MaxTasks \in Nat \ {0}
    /\ Built \in Positions

VARIABLES
    tasks,      \* TaskManager::tasks, the part that was written
    numTasks,
    currentTask,
    cpustate,   \* Task::cpustate of every task
    sp,         \* the pointer the processor went on with last: it runs on
                \* the stack sp points into
    enabled,    \* kernelMain has called InterruptManager::Activate
    left        \* history: where the state of each stack was saved last

vars == <<tasks, numTasks, currentTask, cpustate, sp, enabled, left>>

Stacks == Tasks \cup {Kernel}
Pointers == [stack : Stacks, pos : Positions]

Pointer(stack, pos) == [stack |-> stack, pos |-> pos]

\* TaskManager::TaskManager, and Task::Task for every task.
Init ==
    /\ tasks = [i \in {} |-> Kernel]
    /\ numTasks = 0
    /\ currentTask = -1
    /\ cpustate = [t \in Tasks |-> Pointer(t, Built)]
    /\ sp = Pointer(Kernel, Built)
    /\ enabled = FALSE
    /\ left = [s \in Stacks |-> Built]

\* Mutant: the table may be overrun by one entry.
AddTaskOver(task) ==
    /\ ~enabled
    /\ numTasks <= MaxTasks
    /\ tasks' = [i \in 0 .. numTasks |-> IF i = numTasks THEN task ELSE tasks[i]]
    /\ numTasks' = numTasks + 1
    /\ UNCHANGED <<currentTask, cpustate, sp, enabled, left>>

\* TaskManager::AddTask, which kernelMain calls (in the lines it has commented
\* out) before interrupts are on.  It does not look whether the task is in
\* the table already; when the table is full it returns false and changes
\* nothing.
AddTask(task) ==
    /\ ~enabled
    /\ numTasks < MaxTasks
    /\ tasks' = [i \in 0 .. numTasks |-> IF i = numTasks THEN task ELSE tasks[i]]
    /\ numTasks' = numTasks + 1
    /\ UNCHANGED <<currentTask, cpustate, sp, enabled, left>>

Activate ==
    /\ ~enabled
    /\ enabled' = TRUE
    /\ UNCHANGED <<tasks, numTasks, currentTask, cpustate, sp, left>>

\* Mutant: the wrap comes one entry too early.
NextTaskShort(current, num) ==
    IF current + 2 >= num THEN 0 ELSE current + 1

\* Mutant: the table is walked from its end.
NextTaskBackwards(current, num) ==
    IF current <= 0 THEN num - 1 ELSE current - 1

\* The index after ++currentTask and the wrap below it.
NextTask(current, num) ==
    IF current + 1 >= num THEN (current + 1) % num ELSE current + 1

\* Mutant: the interrupted state is saved after the index moved.
SavedLate(pointer) ==
    IF currentTask >= 0
    THEN [cpustate EXCEPT ![tasks[NextTask(currentTask, numTasks)]] = pointer]
    ELSE cpustate

\* Mutant: the interrupted state is not saved.
SavedNever(pointer) == cpustate

\* Schedule's table of saved states once the interrupted task is put away.
Saved(pointer) ==
    IF currentTask >= 0
    THEN [cpustate EXCEPT ![tasks[currentTask]] = pointer]
    ELSE cpustate

\* TaskManager::Schedule; sp' is what it returns.
Schedule(pointer) ==
    IF numTasks <= 0
    THEN sp' = pointer /\ UNCHANGED <<currentTask, cpustate>>
    ELSE /\ cpustate' = Saved(pointer)
         /\ currentTask' = NextTask(currentTask, numTasks)
         /\ sp' = Saved(pointer)[tasks[NextTask(currentTask, numTasks)]]

\* A timer interrupt, the state of whoever runs saved at pos on its stack.
Timer(pos) ==
    /\ enabled
    /\ left' = [left EXCEPT ![sp.stack] = pos]
    /\ Schedule(Pointer(sp.stack, pos))
    /\ UNCHANGED <<tasks, numTasks, enabled>>

Next ==
    \/ \E task \in Tasks : AddTask(task)
    \/ Activate
    \/ \E pos \in Positions : Timer(pos)

\* The timer chip never stops ticking.
Spec == Init /\ [][Next]_vars /\ WF_vars(\E pos \in Positions : Timer(pos))

------------------------------------------------------------------------------
(* Properties.                                                              *)

TypeOK ==
    /\ numTasks \in 0 .. MaxTasks
    /\ tasks \in [0 .. numTasks - 1 -> Tasks]
    /\ currentTask \in -1 .. numTasks - 1
    /\ cpustate \in [Tasks -> Pointers]
    /\ sp \in Pointers
    /\ enabled \in BOOLEAN
    /\ left \in [Stacks -> Positions]

\* The processor runs on the stack of the task currentTask says is running,
\* so the state the next tick saves goes to the task it belongs to, and no
\* task's saved state points into the stack of another.
OwnStack ==
    /\ sp.stack = IF currentTask = -1 THEN Kernel ELSE tasks[currentTask]
    /\ \A t \in Tasks : cpustate[t].stack = t

\* Whoever runs was resumed where it had been interrupted last (or where it
\* was built), and every other task will be: no switch, between two entries
\* of one task included, leaves or follows a stale pointer.
NothingLost ==
    /\ sp.pos = left[sp.stack]
    /\ \A t \in Tasks : t # sp.stack => cpustate[t] = Pointer(t, left[t])

Listed(t) == \E i \in DOMAIN tasks : tasks[i] = t

\* Every task in the table gets the processor again and again.
NoTaskStarves ==
    \A t \in Tasks : [](enabled /\ Listed(t) => <>(sp.stack = t))

\* After how many ticks the task in row i of the table runs.
TicksUntil(i) == IF i > currentTask THEN i - currentTask ELSE numTasks - currentTask + i

\* No row is passed over or overtaken: each tick brings it one nearer to its
\* turn, and when that is there the processor gets the task of that row.  So a
\* task waits for as many ticks as the table has rows at most, as long as the
\* timer ticks.
InTurn ==
    [][(\E pos \in Positions : Timer(pos)) =>
           \A i \in DOMAIN tasks :
               /\ TicksUntil(i) \in 1 .. numTasks
               /\ IF TicksUntil(i) = 1 THEN sp'.stack = tasks[i] /\ TicksUntil(i)' = numTasks
                  ELSE TicksUntil(i)' = TicksUntil(i) - 1]_vars

\* Whose turns come next, if currentTask runs now.
Upcoming ==
    [i \in 1 .. numTasks - (IF currentTask = -1 THEN 0 ELSE 1) |->
        tasks[(currentTask + i) % numTasks]]

Queue == INSTANCE RoundRobin WITH
    Boot <- Kernel, Capacity <- MaxTasks, running <- sp.stack, queue <- Upcoming

\* The table and its index are a first-come first-served queue.
QueueSpec == Queue!Spec
================================================================================
