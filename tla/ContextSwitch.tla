---------------------------- MODULE ContextSwitch ----------------------------
(***************************************************************************)
(* The words of an interrupt frame: what the processor pushes, what        *)
(* int_bottom of interruptstubs.s pushes and pops, and the CPUState that   *)
(* Task::Task lays out for a task that never ran.  TaskManager decides     *)
(* which frame is popped; this module says what popping it does.           *)
(*                                                                         *)
(* Interrupts are off from the gate to iret, so a step is a stretch of the *)
(* stub: the pushes, the call of handleInterrupt, the switch of the stack, *)
(* the pops, iret.  The arguments of the call and what C puts below them   *)
(* are dead words when the stack is switched; they are left out.           *)
(***************************************************************************)
EXTENDS Integers, Sequences

CONSTANTS
    Tasks, Kernel, MaxTasks,
    Depth,      \* words on a stack, at most (4096 bytes in a Task)
    Lines, TimerLine,   \* the wired request lines, and the timer's
    Data,       \* values that programs compute with
    CodeSegmentSelector, InterruptsOn, InterruptsOff,  \* words of cs, eflags
    Zero, Uninitialized                     \* further words

VARIABLES
    tasks, numTasks, currentTask, cpustate, enabled, left,  \* as in TaskManager
    returned,   \* the pointer Schedule returned last, TaskManager's sp
    at,         \* where the processor is: in the code of whoever runs, in the
                \* stub, or "lost" in exceptions that nobody handles
    line,       \* the interrupt being handled
    cpu,        \* the registers
    esp,        \* the stack and how many of its words are in use
    memory,     \* the words of every stack, the deepest first
    interrupted \* history: the state in which each stack was interrupted last

scheduler == <<tasks, numTasks, currentTask, cpustate, enabled, left, returned>>
vars == <<scheduler, at, line, cpu, esp, memory, interrupted>>

Stacks == Tasks \cup {Kernel}

\* Registers in the order in which int_bottom pushes them.
Pushed == <<"ebp", "edi", "esi", "edx", "ecx", "ebx", "eax">>
\* Mutant: two registers are popped in the order in which they were pushed.
PoppedSwapped == <<"eax", "ebx", "edx", "ecx", "esi", "edi", "ebp">>

\* Registers in the order in which int_bottom pops them.
Popped == <<"eax", "ebx", "ecx", "edx", "esi", "edi", "ebp">>

General == {"eax", "ebx", "ecx", "edx", "esi", "edi", "ebp"}

\* What a program left in register r, or pushed if r is "stack".
Word(r, value) == [in |-> r, value |-> value]

\* The CPUState of Task::Task at the top of its stack, the last member first:
\* ss and esp are not written, and there is no member error.
NewFrame(task) ==
    <<Uninitialized, Uninitialized, InterruptsOn, CodeSegmentSelector, task>>
        \o [i \in 1 .. 7 |-> Zero]

Frame == Len(NewFrame(Kernel))

\* Words of the frame an interrupt leaves: iret's three, the stub's, seven.
StubFrame == 3 + 1 + 7

ASSUME FrameAssumption ==
    /\ Depth \in Nat /\ Depth >= Frame
    /\ Kernel \notin Tasks /\ MaxTasks \in Nat \ {0} /\ TimerLine \in Lines
    /\ InterruptsOn # InterruptsOff /\ InterruptsOn # CodeSegmentSelector

TM == INSTANCE TaskManager WITH
    Positions <- 0 .. Depth, Built <- Frame, sp <- returned

\* The words in use on the current stack.
InUse == SubSeq(memory[esp.stack], 1, esp.pos)

\* Words go on the stack, the last one on top.
Push(words) ==
    /\ memory' = [memory EXCEPT ![esp.stack] = InUse \o words]
    /\ esp' = [esp EXCEPT !.pos = @ + Len(words)]

\* The i-th word from the top.
Peek(i) == memory[esp.stack][esp.pos - i + 1]

Drop(n) == esp' = [esp EXCEPT !.pos = @ - n]

------------------------------------------------------------------------------
\* loader.s and kernelMain up to interrupts: Task::Task for every task, an
\* empty TaskManager.
Init ==
    /\ TM!Init
    /\ at = "run"
    /\ line = TimerLine
    /\ cpu = [r \in General \cup {"eip", "cs", "eflags"} |->
                 IF r = "cs" THEN CodeSegmentSelector
                 ELSE IF r = "eflags" THEN InterruptsOff ELSE Word(r, Zero)]
    /\ esp = [stack |-> Kernel, pos |-> 0]
    /\ memory = [s \in Stacks |-> IF s \in Tasks THEN NewFrame(s) ELSE <<>>]
    /\ interrupted = [s \in Stacks |-> [cpu |-> cpu, words |-> <<>>, yet |-> FALSE]]

AddTask(task) ==
    /\ at = "run"
    /\ TM!AddTask(task)
    /\ UNCHANGED <<at, line, cpu, esp, memory, interrupted>>

\* InterruptManager::Activate: sti.
Activate ==
    /\ at = "run"
    /\ TM!Activate
    /\ cpu' = [cpu EXCEPT !["eflags"] = InterruptsOn]
    /\ UNCHANGED <<at, line, esp, memory, interrupted>>

\* Whoever runs computes, calls and returns: all registers of its own change, and
\* it may push a word, as Depth allows, or pop one.
Compute(value) ==
    /\ at = "run"
    /\ cpu' = [r \in DOMAIN cpu |->
                  IF r \in General \cup {"eip"} THEN Word(r, value) ELSE cpu[r]]
    /\ \/ UNCHANGED <<esp, memory>>
       \/ esp.pos + 1 + StubFrame <= Depth /\ Push(<<Word("stack", value)>>)
       \/ esp.pos > 0 /\ Drop(1) /\ UNCHANGED memory
    /\ UNCHANGED <<scheduler, at, line, interrupted>>

\* The processor goes through the gate of l, which clears IF.
Interrupt(l) ==
    /\ at = "run"
    /\ cpu["eflags"] = InterruptsOn
    /\ line' = l
    /\ Push(<<cpu["eflags"], cpu["cs"], cpu["eip"]>>)
    /\ cpu' = [cpu EXCEPT !["eflags"] = InterruptsOff]
    /\ interrupted' = [interrupted EXCEPT ![esp.stack] =
                          [cpu |-> cpu, words |-> InUse, yet |-> TRUE]]
    /\ at' = "stub"
    /\ UNCHANGED scheduler

\* HandleInterruptRequest: pushl $0; int_bottom: the seven registers.
Save ==
    /\ at = "stub"
    /\ Push(<<Zero>> \o [i \in 1 .. 7 |-> cpu[Pushed[i]]])
    /\ at' = "call"
    /\ UNCHANGED <<scheduler, line, cpu, interrupted>>

\* call handleInterrupt with the number and esp: the timer's is what Schedule
\* returns, the others' the frame itself (KeyboardDriver and MouseDriver
\* return the esp they got).  C leaves the pointer in eax and may use ecx and
\* edx.
Handle ==
    /\ at = "call"
    /\ IF line = TimerLine
       THEN /\ TM!Schedule(esp)
            /\ left' = [left EXCEPT ![esp.stack] = esp.pos]
            /\ UNCHANGED <<tasks, numTasks, enabled>>
       ELSE UNCHANGED scheduler
    /\ cpu' = [cpu EXCEPT !["eax"] = IF line = TimerLine THEN returned' ELSE esp,
                          !["ecx"] = Uninitialized, !["edx"] = Uninitialized]
    /\ at' = "switch"
    /\ UNCHANGED <<line, esp, memory, interrupted>>

\* movl %eax, %esp.
SwitchStack ==
    /\ at = "switch"
    /\ esp' = cpu["eax"]
    /\ at' = "restore"
    /\ UNCHANGED <<scheduler, line, cpu, memory, interrupted>>

\* The seven pops, and add $4, %esp over the word the stub pushed.
Restore ==
    /\ at = "restore"
    /\ cpu' = [r \in DOMAIN cpu |->
                  IF r \in General THEN Peek(CHOOSE i \in 1 .. 7 : Popped[i] = r)
                  ELSE cpu[r]]
    /\ Drop(7 + 1)
    /\ at' = "iret"
    /\ UNCHANGED <<scheduler, line, memory, interrupted>>

\* Mutant: a far return, which leaves the flags on the stack.
ReturnFar ==
    /\ at = "iret"
    /\ Peek(2) = CodeSegmentSelector
    /\ cpu' = [cpu EXCEPT !["eip"] = Peek(1), !["cs"] = Peek(2), !["eflags"] = InterruptsOn]
    /\ Drop(2)
    /\ at' = "run"
    /\ UNCHANGED <<scheduler, line, memory, interrupted>>

\* iret, when the word it pops for cs selects the code segment.
Return ==
    /\ at = "iret"
    /\ Peek(2) = CodeSegmentSelector
    /\ cpu' = [cpu EXCEPT !["eip"] = Peek(1), !["cs"] = Peek(2), !["eflags"] = Peek(3)]
    /\ Drop(3)
    /\ at' = "run"
    /\ UNCHANGED <<scheduler, line, memory, interrupted>>

\* iret, when it does not: a general protection fault, whose gate ignores it
\* and leads to the next fault.
Fault ==
    /\ at = "iret"
    /\ Peek(2) # CodeSegmentSelector
    /\ at' = "lost"
    /\ UNCHANGED <<scheduler, line, cpu, esp, memory, interrupted>>

Next ==
    \/ \E task \in Tasks : AddTask(task)
    \/ Activate
    \/ \E value \in Data : Compute(value)
    \/ \E l \in Lines : Interrupt(l)
    \/ Save
    \/ Handle
    \/ SwitchStack
    \/ Restore
    \/ Return
    \/ Fault

Spec == Init /\ [][Next]_vars

------------------------------------------------------------------------------
(* Properties.                                                              *)

Pointers == [stack : Stacks, pos : 0 .. Depth]
Data0 == Data \cup {Zero}
Words == [in : General \cup {"eip", "stack"}, value : Data0]
             \cup Pointers \cup Tasks
             \cup {CodeSegmentSelector, InterruptsOn, InterruptsOff, Zero, Uninitialized}

TypeOK ==
    /\ TM!TypeOK
    /\ at \in {"run", "stub", "call", "switch", "restore", "iret", "lost"}
    /\ line \in Lines
    /\ DOMAIN cpu = General \cup {"eip", "cs", "eflags"}
    /\ \A r \in DOMAIN cpu : cpu[r] \in Words
    /\ esp \in Pointers
    /\ \A s \in Stacks :
          /\ Len(memory[s]) <= Depth
          /\ \A i \in DOMAIN memory[s] : memory[s][i] \in Words

\* Code that was interrupted goes on as if nothing had happened: every
\* register, the flags and all words on its stack are as they were when the
\* processor entered the gate.  The code that is resumed is kernelMain's, after a
\* tick only while the table is empty: the first tick that finds a task faults on
\* the frame of one that never ran (FirstDispatchAtEntry).
ResumeExact ==
    [][ at = "iret" /\ at' = "run" /\ interrupted[esp.stack].yet
            => /\ cpu' = interrupted[esp.stack].cpu
               /\ InUse' = interrupted[esp.stack].words ]_vars

\* "Switch the stack" (interruptstubs.s, line 54) to the frame Task::Task built
\* with "cpustate->eip = (uint32_t)entrypoint" (multitasking.cpp, line 27):
\* the first time a task is switched to, it runs from its entry point.
FirstDispatchAtEntry ==
    [][ at = "iret" /\ at' # "iret" /\ ~interrupted[esp.stack].yet
            => at' = "run" /\ cpu'["eip"] = esp.stack ]_vars
==============================================================================
