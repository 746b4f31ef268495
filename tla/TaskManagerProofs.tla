--------------------------- MODULE TaskManagerProofs ---------------------------
(***************************************************************************)
(* Proofs about TaskManager for every set of tasks and table length.       *)
(***************************************************************************)
EXTENDS TaskManager, SequenceTheorems, TLAPS

\* No task runs before interrupts are on.
NotYet == ~enabled => currentTask = -1

IInv == TypeOK /\ OwnStack /\ NothingLost /\ NotYet

\* The wrapped index is a row of the table.
LEMMA NextInTable ==
    ASSUME NEW num \in Nat \ {0}, NEW current \in -1 .. num - 1
    PROVE  NextTask(current, num) \in 0 .. num - 1
BY DEF NextTask

\* The wrapped index is the next row, or the first after the last.
LEMMA NextIsSuccessor ==
    ASSUME NEW num \in Nat \ {0}, NEW current \in -1 .. num - 1
    PROVE  NextTask(current, num) = IF current = num - 1 THEN 0 ELSE current + 1
<1>1. num % num = 0
  OBVIOUS
<1> QED BY <1>1 DEF NextTask

\* The invariant holds of an empty table.
LEMMA InitIInv == Init => IInv
<1> SUFFICES ASSUME Init PROVE IInv
  OBVIOUS
<1>1. TypeOK
  <2>1. tasks \in [0 .. numTasks - 1 -> Tasks] /\ numTasks \in 0 .. MaxTasks
        /\ currentTask \in -1 .. numTasks - 1 /\ enabled \in BOOLEAN
    <3>1. numTasks = 0 /\ currentTask = -1 /\ tasks = [i \in {} |-> Kernel]
      BY DEF Init
    <3>2. 0 .. numTasks - 1 = {}
      BY <3>1
    <3>3. tasks \in [0 .. numTasks - 1 -> Tasks]
      BY <3>1, <3>2
    <3>4. currentTask \in -1 .. numTasks - 1
      BY <3>1
    <3>5. numTasks \in 0 .. MaxTasks
      BY <3>1, TaskAssumption
    <3>6. enabled \in BOOLEAN
      BY DEF Init
    <3> QED BY <3>3, <3>4, <3>5, <3>6
  <2>2. \A s \in Stacks : Pointer(s, Built) \in Pointers
    BY TaskAssumption DEF Pointer, Pointers
  <2>3. cpustate \in [Tasks -> Pointers] /\ sp \in Pointers
    BY <2>2 DEF Init, Stacks
  <2>4. left \in [Stacks -> Positions]
    BY TaskAssumption DEF Init
  <2> QED BY <2>1, <2>3, <2>4 DEF TypeOK
<1>2. OwnStack /\ NothingLost /\ NotYet
  BY TaskAssumption DEF Init, OwnStack, NothingLost, NotYet, Pointer, Stacks
<1> QED BY <1>1, <1>2 DEF IInv

\* The pointer Schedule puts away belongs to the running task; the one it
\* returns belongs to the task it makes the running one.
LEMMA TimerIInv ==
    ASSUME IInv, NEW pos \in Positions, Timer(pos) PROVE IInv'
<1> DEFINE old == sp.stack
           p == Pointer(old, pos)
<1>1. /\ TypeOK /\ OwnStack /\ NothingLost
      /\ left' = [left EXCEPT ![old] = pos] /\ Schedule(p)
      /\ tasks' = tasks /\ numTasks' = numTasks /\ enabled' = enabled
  BY DEF IInv, Timer
<1>2. old \in Stacks /\ p \in Pointers /\ p.stack = old /\ p.pos = pos
  BY <1>1 DEF TypeOK, Pointers, Pointer
<1>3. /\ left' \in [Stacks -> Positions] /\ left'[old] = pos
      /\ \A s \in Stacks : s # old => left'[s] = left[s]
  BY <1>1, <1>2 DEF TypeOK
<1>6. NotYet'
  BY DEF NotYet, Timer
<1>4. CASE numTasks <= 0
  <2>1. sp' = p /\ currentTask' = currentTask /\ cpustate' = cpustate
    BY <1>1, <1>4 DEF Schedule
  <2>2. TypeOK'
    BY <1>1, <1>2, <1>3, <2>1 DEF TypeOK
  <2>3. OwnStack'
    BY <1>1, <1>2, <2>1 DEF OwnStack
  <2>4. NothingLost'
    BY <1>1, <1>2, <1>3, <2>1 DEF NothingLost, Stacks
  <2> QED BY <2>2, <2>3, <2>4, <1>6 DEF IInv
<1>5. CASE ~(numTasks <= 0)
  <2> DEFINE next == NextTask(currentTask, numTasks)
             new == tasks[next]
  <2>1. numTasks \in Nat \ {0} /\ currentTask \in -1 .. numTasks - 1
    BY <1>1, <1>5, TaskAssumption DEF TypeOK
  <2>2. next \in 0 .. numTasks - 1
    BY <2>1, NextInTable
  <2>3. cpustate' = Saved(p) /\ currentTask' = next /\ sp' = Saved(p)[new]
    BY <1>1, <1>5 DEF Schedule
  <2>4. new \in Tasks /\ new # Kernel
    BY <1>1, <2>2, TaskAssumption DEF TypeOK
  <2>5. currentTask >= 0 => old = tasks[currentTask] /\ old \in Tasks
    BY <1>1, <2>1 DEF OwnStack, TypeOK
  <2>6. currentTask < 0 => old = Kernel
    BY <1>1, <2>1 DEF OwnStack
  <2> HIDE DEF old, p, next, new
  <2>7. /\ cpustate' \in [Tasks -> Pointers]
        /\ \A t \in Tasks : t # old => cpustate'[t] = cpustate[t]
        /\ old \in Tasks => cpustate'[old] = p
        /\ sp' = cpustate'[new]
    BY <1>1, <1>2, <2>1, <2>3, <2>5, <2>6, TaskAssumption DEF Saved, TypeOK
  <2>8. \A t \in Tasks : cpustate'[t] = Pointer(t, left'[t])
    <3> SUFFICES ASSUME NEW t \in Tasks PROVE cpustate'[t] = Pointer(t, left'[t])
      OBVIOUS
    <3>1. CASE t = old
      BY <3>1, <2>7, <1>3 DEF p
    <3>2. CASE t # old
      BY <3>2, <2>7, <1>1, <1>3 DEF NothingLost, Stacks, old
    <3> QED BY <3>1, <3>2
  <2>9. sp' \in Pointers /\ sp'.stack = new /\ sp'.pos = left'[new]
    BY <2>4, <2>7, <2>8 DEF Pointer
  <2>10. TypeOK'
    BY <1>1, <1>3, <2>2, <2>3, <2>7, <2>9 DEF TypeOK
  <2>11. OwnStack'
    <3>1. ASSUME NEW t \in Tasks PROVE cpustate'[t].stack = t
      <4>1. cpustate'[t] = Pointer(t, left'[t])
        BY <2>8
      <4> QED BY <4>1 DEF Pointer
    <3>2. sp'.stack = tasks'[currentTask'] /\ currentTask' # -1
      BY <1>1, <2>2, <2>3, <2>9 DEF new
    <3> QED BY <3>1, <3>2 DEF OwnStack
  <2>12. NothingLost'
    BY <2>8, <2>9 DEF NothingLost
  <2> QED BY <2>10, <2>11, <2>12, <1>6 DEF IInv
<1> QED BY <1>4, <1>5

\* AddTask and a tick keep it.
LEMMA NextIInv == IInv /\ [Next]_vars => IInv'
<1> SUFFICES ASSUME IInv, [Next]_vars PROVE IInv'
  OBVIOUS
<1> USE TaskAssumption
<1>1. ASSUME NEW task \in Tasks, AddTask(task) PROVE IInv'
  <2>1. /\ numTasks \in Nat /\ numTasks < MaxTasks /\ numTasks' = numTasks + 1
        /\ tasks' = [i \in 0 .. numTasks |-> IF i = numTasks THEN task ELSE tasks[i]]
        /\ currentTask' = currentTask /\ cpustate' = cpustate /\ sp' = sp
        /\ enabled' = enabled /\ left' = left
        /\ currentTask \in -1 .. numTasks - 1
    BY <1>1 DEF AddTask, IInv, TypeOK
  <2>2. tasks' \in [0 .. numTasks' - 1 -> Tasks]
    <3>1. 0 .. numTasks' - 1 = 0 .. numTasks
      BY <2>1
    <3>2. \A i \in 0 .. numTasks : i = numTasks \/ i \in 0 .. numTasks - 1
      BY <2>1
    <3> QED BY <2>1, <3>1, <3>2 DEF IInv, TypeOK
  <2>3. TypeOK'
    BY <2>1, <2>2 DEF IInv, TypeOK
  <2>4. currentTask # -1 => tasks'[currentTask'] = tasks[currentTask]
    BY <2>1
  <2>5. OwnStack' /\ NothingLost' /\ NotYet'
    BY <2>1, <2>4 DEF IInv, OwnStack, NothingLost, NotYet
  <2> QED BY <2>3, <2>5 DEF IInv
<1>2. CASE Activate
  BY <1>2 DEF Activate, IInv, TypeOK, OwnStack, NothingLost, NotYet
<1>3. ASSUME NEW pos \in Positions, Timer(pos) PROVE IInv'
  BY <1>3, TimerIInv
<1>4. CASE UNCHANGED vars
  BY <1>4 DEF vars, IInv, TypeOK, OwnStack, NothingLost, NotYet
<1> QED BY <1>1, <1>2, <1>3, <1>4 DEF Next

\* The inductive invariant holds of every reachable state.
THEOREM Invariance == Spec => []IInv
<1> QED BY InitIInv, NextIInv, PTL DEF Spec

\* The table, its index and the saved pointers keep to their ranges.
THEOREM TypeCorrect == Spec => []TypeOK
<1>1. IInv => TypeOK
  BY DEF IInv
<1> QED BY <1>1, Invariance, PTL

\* Schedule never saves one task's state as another's.
THEOREM OwnStackAlways == Spec => []OwnStack
<1>1. IInv => OwnStack
  BY DEF IInv
<1> QED BY <1>1, Invariance, PTL

\* Every task goes on where it was interrupted last.
THEOREM NothingLostEver == Spec => []NothingLost
<1>1. IInv => NothingLost
  BY DEF IInv
<1> QED BY <1>1, Invariance, PTL

\* A tick makes the next row the current one, and its task the running one.
LEMMA TickTurns ==
    ASSUME IInv, NEW pos \in Positions, Timer(pos), numTasks # 0
    PROVE  /\ numTasks \in Nat \ {0} /\ currentTask \in -1 .. numTasks - 1
           /\ currentTask' = IF currentTask = numTasks - 1 THEN 0 ELSE currentTask + 1
           /\ sp'.stack = tasks[currentTask'] /\ tasks' = tasks /\ numTasks' = numTasks
<1>1. /\ tasks' = tasks /\ numTasks' = numTasks /\ Schedule(Pointer(sp.stack, pos))
      /\ numTasks \in Nat \ {0} /\ currentTask \in -1 .. numTasks - 1
  BY TaskAssumption DEF Timer, IInv, TypeOK
<1>2. currentTask' = NextTask(currentTask, numTasks)
  BY <1>1 DEF Schedule
<1>3. currentTask' = IF currentTask = numTasks - 1 THEN 0 ELSE currentTask + 1
  BY <1>1, <1>2, NextIsSuccessor
<1>4. currentTask' # -1
  BY <1>1, <1>3
<1>5. sp'.stack = tasks'[currentTask']
  BY <1>4, TimerIInv DEF IInv, OwnStack
<1> QED BY <1>1, <1>3, <1>5

\* Each tick brings every row of the table one nearer to its turn: no task
\* waits for more ticks than the table has rows.
THEOREM InTurnAlways == Spec => InTurn
<1> DEFINE Nearer(i) ==
               /\ TicksUntil(i) \in 1 .. numTasks
               /\ IF TicksUntil(i) = 1 THEN sp'.stack = tasks[i] /\ TicksUntil(i)' = numTasks
                  ELSE TicksUntil(i)' = TicksUntil(i) - 1
           Turn == (\E pos \in Positions : Timer(pos)) => \A i \in DOMAIN tasks : Nearer(i)
<1>1. ASSUME IInv, NEW pos \in Positions, Timer(pos), NEW i \in DOMAIN tasks PROVE Nearer(i)
  <2>1. DOMAIN tasks = 0 .. numTasks - 1 /\ numTasks \in Nat
    BY <1>1, TaskAssumption DEF IInv, TypeOK
  <2>2. /\ numTasks \in Nat \ {0} /\ currentTask \in -1 .. numTasks - 1
        /\ currentTask' = IF currentTask = numTasks - 1 THEN 0 ELSE currentTask + 1
        /\ sp'.stack = tasks[currentTask'] /\ numTasks' = numTasks
    BY <1>1, <2>1, TickTurns
  <2>3. i \in 0 .. numTasks - 1
    BY <2>1
  <2>4. TicksUntil(i) \in 1 .. numTasks
    BY <2>2, <2>3 DEF TicksUntil
  <2>5. TicksUntil(i)' = IF i > currentTask' THEN i - currentTask' ELSE numTasks - currentTask' + i
    BY <2>2 DEF TicksUntil
  <2>6. CASE TicksUntil(i) = 1
    <3>1. i = currentTask'
      BY <2>2, <2>3, <2>6 DEF TicksUntil
    <3>2. TicksUntil(i)' = numTasks
      BY <2>2, <2>3, <2>5, <3>1
    <3> QED BY <2>2, <2>4, <2>6, <3>1, <3>2
  <2>7. CASE TicksUntil(i) # 1
    <3>1. TicksUntil(i)' = TicksUntil(i) - 1
      BY <2>2, <2>3, <2>5, <2>7 DEF TicksUntil
    <3> QED BY <2>4, <2>7, <3>1
  <2> QED BY <2>6, <2>7
<1>2. IInv => [Turn]_vars
  BY <1>1
<1>3. InTurn <=> [][Turn]_vars
  BY DEF InTurn
<1> HIDE DEF Turn
<1> QED BY <1>2, <1>3, Invariance, PTL

------------------------------------------------------------------------------
(* The table and its index implement the queue.                             *)

\* The index runs round the table.
LEMMA Around ==
    ASSUME NEW n \in Nat \ {0}, NEW i \in 0 .. n PROVE (n + i) % n = i % n
<1>1. CASE i = n
  <2>1. (n + n) % n = 0 /\ n % n = 0
    OBVIOUS
  <2> QED BY <1>1, <2>1
<1>2. CASE i # n
  <2>1. i \in 0 .. n - 1
    BY <1>2
  <2>2. (n + i) % n = i /\ i % n = i
    BY <2>1
  <2> QED BY <2>2
<1> QED BY <1>1, <1>2

\* Once the running task has gone to the end, the queue is the table read
\* round from the row after the current one.
Waiting == [i \in 1 .. numTasks |-> tasks[(currentTask + i) % numTasks]]

\* An empty table is an empty queue.
LEMMA TableIsQueue ==
    ASSUME IInv, numTasks # 0
    PROVE  /\ Waiting \in Seq(Tasks)
           /\ (IF sp.stack = Kernel THEN Upcoming ELSE Append(Upcoming, sp.stack)) = Waiting
<1>1. /\ numTasks \in Nat \ {0} /\ currentTask \in -1 .. numTasks - 1
      /\ tasks \in [0 .. numTasks - 1 -> Tasks]
  BY TaskAssumption DEF IInv, TypeOK
<1>2. \A i \in 1 .. numTasks : (currentTask + i) % numTasks \in 0 .. numTasks - 1
  BY <1>1
<1>3. Waiting \in Seq(Tasks)
  BY <1>1, <1>2 DEF Waiting
<1>4. CASE currentTask = -1
  <2>1. sp.stack = Kernel
    BY <1>4 DEF IInv, OwnStack
  <2>2. numTasks - 0 = numTasks
    BY <1>1
  <2>3. Upcoming = Waiting
    BY <1>4, <2>2 DEF Upcoming, Waiting
  <2> QED BY <1>3, <2>1, <2>3
<1>5. CASE currentTask # -1
  <2>1. currentTask \in 0 .. numTasks - 1
    BY <1>1, <1>5
  <2>2. sp.stack = tasks[currentTask] /\ sp.stack # Kernel /\ sp.stack \in Tasks
    BY <1>1, <1>5, <2>1, TaskAssumption DEF IInv, OwnStack
  <2>3. Upcoming = [i \in 1 .. numTasks - 1 |-> tasks[(currentTask + i) % numTasks]]
    BY <1>5 DEF Upcoming
  <2>4. Upcoming \in Seq(Tasks) /\ Len(Upcoming) = numTasks - 1
    BY <1>1, <1>2, <2>3
  <2>5. (currentTask + numTasks) % numTasks = currentTask
    BY <1>1, <2>1
  <2>6. /\ Append(Upcoming, sp.stack) \in Seq(Tasks)
        /\ Len(Append(Upcoming, sp.stack)) = numTasks
        /\ \A i \in 1 .. numTasks - 1 : Append(Upcoming, sp.stack)[i] = Upcoming[i]
        /\ Append(Upcoming, sp.stack)[numTasks] = sp.stack
    <3>1. Len(Upcoming) + 1 = numTasks
      BY <1>1, <2>4
    <3> HIDE DEF Upcoming
    <3> QED BY <2>2, <2>4, <3>1, AppendProperties
  <2>7. Len(Waiting) = numTasks
    BY <1>1, <1>3 DEF Waiting
  <2>9. ASSUME NEW i \in 1 .. numTasks PROVE Append(Upcoming, sp.stack)[i] = Waiting[i]
    <3>1. CASE i = numTasks
      BY <3>1, <2>2, <2>5, <2>6 DEF Waiting
    <3>2. CASE i # numTasks
      <4>1. i \in 1 .. numTasks - 1
        BY <1>1, <3>2
      <4> QED BY <4>1, <2>3, <2>6 DEF Waiting
    <3> QED BY <3>1, <3>2
  <2>8. Append(Upcoming, sp.stack) = Waiting
    BY <1>3, <2>6, <2>7, <2>9, SeqEqual
  <2> QED BY <1>3, <2>2, <2>8
<1> QED BY <1>4, <1>5

\* A tick of the scheduler is one of the queue.
LEMMA TimerIsTick ==
    ASSUME IInv, NEW pos \in Positions, Timer(pos)
    PROVE  Queue!Tick \/ UNCHANGED Queue!vars
<1>1. /\ tasks' = tasks /\ numTasks' = numTasks /\ Schedule(Pointer(sp.stack, pos))
      /\ numTasks \in Nat /\ currentTask \in -1 .. numTasks - 1
      /\ tasks \in [0 .. numTasks - 1 -> Tasks]
  BY TaskAssumption DEF Timer, IInv, TypeOK
<1>2. CASE numTasks = 0
  <2>1. sp'.stack = sp.stack /\ currentTask' = currentTask
    BY <1>1, <1>2 DEF Schedule, Pointer
  <2> QED BY <1>1, <2>1 DEF Queue!vars, Upcoming
<1>3. CASE numTasks # 0
  <2> DEFINE next == NextTask(currentTask, numTasks)
  <2>1. next = IF currentTask = numTasks - 1 THEN 0 ELSE currentTask + 1
    BY <1>1, <1>3, NextIsSuccessor
  <2>2. currentTask' = next
    BY <1>1, <1>3 DEF Schedule
  <2>3. sp'.stack = tasks[next]
    <3>1. OwnStack' /\ tasks' = tasks
      BY TimerIInv, <1>1 DEF IInv
    <3>2. next # -1
      BY <1>1, <2>1
    <3> QED BY <3>1, <3>2, <2>2 DEF OwnStack
  <2> HIDE DEF next
  <2>4. Waiting[1] = tasks[next]
    <3>1. Waiting[1] = tasks[(currentTask + 1) % numTasks] /\ numTasks \in Nat \ {0}
      BY <1>1, <1>3 DEF Waiting
    <3>2. CASE currentTask = numTasks - 1
      <4>1. currentTask + 1 = numTasks /\ numTasks % numTasks = 0
        BY <1>1, <3>1, <3>2
      <4> QED BY <3>1, <3>2, <4>1, <2>1
    <3>3. CASE currentTask # numTasks - 1
      <4>1. (currentTask + 1) % numTasks = currentTask + 1
        BY <1>1, <3>1, <3>3
      <4> QED BY <3>1, <3>3, <4>1, <2>1
    <3> QED BY <3>2, <3>3
  <2>5. Upcoming' = [i \in 1 .. numTasks - 1 |-> tasks[(next + i) % numTasks]]
    BY <1>1, <1>3, <2>1, <2>2 DEF Upcoming
  <2>6. \A i \in 1 .. numTasks - 1 : Waiting[i + 1] = tasks[(next + i) % numTasks]
    <3> SUFFICES ASSUME NEW i \in 1 .. numTasks - 1
                 PROVE  Waiting[i + 1] = tasks[(next + i) % numTasks]
      OBVIOUS
    <3>1. Waiting[i + 1] = tasks[(currentTask + (i + 1)) % numTasks]
      BY <1>1, <1>3 DEF Waiting
    <3>2. CASE currentTask = numTasks - 1
      <4>1. currentTask + (i + 1) = numTasks + i /\ next + i = i
        BY <1>1, <2>1, <3>2
      <4>2. (numTasks + i) % numTasks = i % numTasks
        <5>1. numTasks \in Nat \ {0} /\ i \in 0 .. numTasks
          BY <1>1, <1>3
        <5> QED BY <5>1, Around
      <4> QED BY <3>1, <4>1, <4>2
    <3>3. CASE currentTask # numTasks - 1
      <4>1. currentTask + (i + 1) = next + i
        BY <1>1, <2>1, <3>3
      <4> QED BY <3>1, <4>1
    <3> QED BY <3>2, <3>3
  <2>7. Waiting \in Seq(Tasks) /\ Len(Waiting) = numTasks
    BY <1>1, <1>3, TableIsQueue DEF Waiting
  <2>8. Head(Waiting) = sp'.stack /\ Waiting # <<>>
    BY <1>1, <1>3, <2>3, <2>4, <2>7
  <2>9. Tail(Waiting) = Upcoming'
    <3>1. /\ Tail(Waiting) \in Seq(Tasks) /\ Len(Tail(Waiting)) = numTasks - 1
          /\ \A i \in 1 .. numTasks - 1 : Tail(Waiting)[i] = Waiting[i + 1]
      BY <2>7, <2>8, HeadTailProperties
    <3>2. Upcoming' \in Seq(Tasks) /\ Len(Upcoming') = numTasks - 1
      <4>1. \A i \in 1 .. numTasks - 1 : (next + i) % numTasks \in 0 .. numTasks - 1
        BY <1>1, <1>3, <2>1
      <4> QED BY <4>1, <1>1, <1>3, <2>5
    <3>3. \A i \in 1 .. numTasks - 1 : Upcoming'[i] = tasks[(next + i) % numTasks]
      BY <2>5
    <3>4. \A i \in 1 .. numTasks - 1 : Tail(Waiting)[i] = Upcoming'[i]
      BY <3>1, <3>3, <2>6
    <3> HIDE DEF Upcoming, Waiting
    <3> QED BY <3>1, <3>2, <3>4, SeqEqual
  <2> QED BY <1>3, <2>8, <2>9, TableIsQueue DEF Queue!Tick
<1> QED BY <1>2, <1>3

\* A row added to the table is a task admitted to the queue.
LEMMA AddTaskIsAdmit ==
    ASSUME IInv, NEW task \in Tasks, AddTask(task), currentTask = -1
    PROVE  Queue!Admit(task)
<1>1. /\ numTasks \in Nat /\ numTasks < MaxTasks /\ numTasks' = numTasks + 1
      /\ tasks' = [i \in 0 .. numTasks |-> IF i = numTasks THEN task ELSE tasks[i]]
      /\ currentTask' = -1 /\ sp' = sp /\ tasks \in [0 .. numTasks - 1 -> Tasks]
      /\ sp.stack = Kernel
  BY DEF AddTask, IInv, TypeOK, OwnStack
<1>2. \A i \in 1 .. numTasks : (-1 + i) % numTasks = i - 1
  BY <1>1
<1>3. \A i \in 1 .. numTasks + 1 : (-1 + i) % (numTasks + 1) = i - 1
  BY <1>1
<1>4. Upcoming = [i \in 1 .. numTasks |-> tasks[i - 1]]
  BY <1>1, <1>2 DEF Upcoming
<1>5. Upcoming' = [i \in 1 .. numTasks + 1 |-> tasks'[i - 1]]
  BY <1>1, <1>3 DEF Upcoming
<1>6. Upcoming \in Seq(Tasks) /\ Len(Upcoming) = numTasks
  BY <1>1, <1>4
<1>7. Upcoming' = Append(Upcoming, task)
  BY <1>1, <1>4, <1>5, <1>6
<1> QED BY <1>1, <1>6, <1>7 DEF Queue!Admit

\* Table, index and saved pointers are a first-come first-served queue: tasks
\* run in the order they were added, in turn, and the boot code no more.
THEOREM ImplementsRoundRobin == Spec => QueueSpec
<1>1. Init => Queue!Init
  <2> SUFFICES ASSUME Init PROVE Queue!Init
    OBVIOUS
  <2>1. Upcoming = <<>>
    BY DEF Init, Upcoming
  <2> QED BY <2>1 DEF Init, Queue!Init, Pointer
<1>2. IInv /\ [Next]_vars => [Queue!Next]_(Queue!vars)
  <2> SUFFICES ASSUME IInv, [Next]_vars PROVE [Queue!Next]_(Queue!vars)
    OBVIOUS
  <2>1. ASSUME NEW task \in Tasks, AddTask(task) PROVE Queue!Next
    <3>1. currentTask = -1
      BY <2>1 DEF IInv, NotYet, AddTask
    <3>2. Queue!Admit(task)
      BY <2>1, <3>1, AddTaskIsAdmit
    <3> QED BY <3>2 DEF Queue!Next
  <2>2. CASE Activate \/ UNCHANGED vars
    BY <2>2 DEF Activate, vars, Queue!vars, Upcoming
  <2>3. ASSUME NEW pos \in Positions, Timer(pos)
        PROVE  Queue!Next \/ UNCHANGED Queue!vars
    BY <2>3, TimerIsTick DEF Queue!Next
  <2> QED BY <2>1, <2>2, <2>3 DEF Next
<1> QED BY <1>1, <1>2, Invariance, PTL DEF Spec, QueueSpec, Queue!Spec
================================================================================
