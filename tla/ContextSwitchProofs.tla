--------------------------- MODULE ContextSwitchProofs ---------------------------
(***************************************************************************)
(* Proofs about ContextSwitch for every set of tasks, table length, depth  *)
(* of the stacks and set of request lines.  What TaskManagerProofs proves  *)
(* of the scheduler is taken from there.                                   *)
(***************************************************************************)
EXTENDS ContextSwitch, SequenceTheorems, TLAPS

Scheduler == INSTANCE TaskManagerProofs WITH
    Positions <- 0 .. Depth, Built <- Frame, sp <- returned

Registers == General \cup {"eip", "cs", "eflags"}

Was(s) == interrupted[s].cpu
Held(s) == Len(interrupted[s].words)

\* Stack s holds the words that were in use when its code was interrupted, and
\* on top of them what the processor pushed.
Gated(s) ==
    /\ Held(s) + 3 <= Len(memory[s])
    /\ \A i \in 1 .. Held(s) : memory[s][i] = interrupted[s].words[i]
    /\ memory[s][Held(s) + 1] = Was(s)["eflags"]
    /\ memory[s][Held(s) + 2] = Was(s)["cs"]
    /\ memory[s][Held(s) + 3] = Was(s)["eip"]

\* And on top of that what the stub pushed.
Framed(s) ==
    /\ Gated(s)
    /\ Held(s) + StubFrame <= Len(memory[s])
    /\ \A i \in 1 .. 7 : memory[s][Held(s) + 4 + i] = Was(s)[Pushed[i]]

\* pos of stack s is the top of such a frame, or of the one a task was built
\* with.
Resumable(s, pos) ==
    IF interrupted[s].yet
    THEN Framed(s) /\ pos = Held(s) + StubFrame
    ELSE memory[s] = NewFrame(s) /\ pos = Frame

\* The registers of the program are as they were when s was interrupted.
AsBefore(s) == \A r \in General : cpu[r] = Was(s)[r]

Shape ==
    /\ at \in {"run", "stub", "call", "switch", "restore", "iret", "lost"}
    /\ line \in Lines
    /\ cpu \in [Registers -> Words]
    /\ cpu["cs"] = CodeSegmentSelector
    /\ cpu["eflags"] \in {InterruptsOn, InterruptsOff}
    /\ esp \in Pointers
    /\ memory \in [Stacks -> Seq(Words)]
    /\ \A s \in Stacks : Len(memory[s]) <= Depth

\* What was interrupted had interrupts on, and left room for a frame.
Interruptions ==
    /\ DOMAIN interrupted = Stacks
    /\ \A s \in Stacks : interrupted[s].yet \in BOOLEAN
    /\ \A s \in Stacks : interrupted[s].yet =>
          /\ Was(s) \in [Registers -> Words]
          /\ Was(s)["cs"] = CodeSegmentSelector
          /\ Was(s)["eflags"] = InterruptsOn
          /\ interrupted[s].words \in Seq(Words)
          /\ Held(s) + StubFrame <= Depth

\* Where the stub is.
Phase ==
    /\ esp.pos <= Len(memory[esp.stack])
    /\ at # "run" => enabled
    /\ at \notin {"switch", "lost"} => esp.stack = returned.stack
    /\ at = "run" =>
          esp.pos + StubFrame <= Depth /\ (cpu["eflags"] = InterruptsOn => enabled)
    /\ at = "stub" =>
          /\ interrupted[esp.stack].yet /\ Gated(esp.stack) /\ AsBefore(esp.stack)
          /\ esp.pos = Held(esp.stack) + 3
    /\ at = "call" => interrupted[esp.stack].yet /\ Resumable(esp.stack, esp.pos)
    /\ at = "switch" =>
          /\ cpu["eax"] \in Pointers /\ cpu["eax"].stack = returned.stack
          /\ Resumable(cpu["eax"].stack, cpu["eax"].pos)
    /\ at = "restore" => Resumable(esp.stack, esp.pos)
    /\ at = "iret" =>
          IF interrupted[esp.stack].yet
          THEN /\ Gated(esp.stack) /\ AsBefore(esp.stack)
               /\ esp.pos = Held(esp.stack) + 3
          ELSE Peek(2) = InterruptsOn

\* Every stack but that of whoever runs waits where the scheduler will find it.
Suspended ==
    \A s \in Stacks : s # returned.stack => Resumable(s, left[s])

IInv == Scheduler!IInv /\ Shape /\ Interruptions /\ Phase /\ Suspended

------------------------------------------------------------------------------
(* The scheduler.                                                           *)

\* A frame that Task::Task builds has twelve words.
LEMMA FrameIs == Frame = 12 /\ StubFrame = 11
  BY DEF Frame, NewFrame, StubFrame

\* What TaskManager assumes of its constants holds of the ones it is given.
LEMMA SchedulerAssumption == Scheduler!TaskAssumption
  BY FrameIs, FrameAssumption DEF Scheduler!TaskAssumption

\* The scheduler's invariant holds at first.
LEMMA SchedulerInit == TM!Init => Scheduler!IInv
<1>1. TM!Init => Scheduler!Init
  BY DEF TM!Init, Scheduler!Init, TM!Pointer, Scheduler!Pointer, TM!Stacks, Scheduler!Stacks
<1> QED BY <1>1, SchedulerAssumption, Scheduler!InitIInv

\* And after every step of it.
LEMMA SchedulerNext == Scheduler!IInv /\ [TM!Next]_(TM!vars) => Scheduler!IInv'
<1>1. [TM!Next]_(TM!vars) => [Scheduler!Next]_(Scheduler!vars)
  BY DEF TM!Next, Scheduler!Next, TM!vars, Scheduler!vars, TM!AddTask, Scheduler!AddTask,
         TM!Activate, Scheduler!Activate, TM!Timer, Scheduler!Timer,
         TM!Schedule, Scheduler!Schedule, TM!Saved, Scheduler!Saved,
         TM!NextTask, Scheduler!NextTask, TM!Pointer, Scheduler!Pointer
<1> QED BY <1>1, SchedulerAssumption, Scheduler!NextIInv

\* Only Handle, AddTask and Activate change the scheduler's state.
LEMMA SchedulerStays ==
    ASSUME Scheduler!IInv, UNCHANGED scheduler PROVE Scheduler!IInv'
  BY SchedulerNext DEF scheduler, TM!vars

\* What the scheduler's invariant says of the pointers.
LEMMA SchedulerSays ==
    ASSUME Scheduler!IInv
    PROVE  /\ returned \in Pointers /\ enabled \in BOOLEAN
           /\ left \in [Stacks -> 0 .. Depth]
           /\ returned.pos = left[returned.stack]
           /\ TM!TypeOK
  BY DEF Scheduler!IInv, Scheduler!TypeOK, Scheduler!NothingLost, Scheduler!Pointers,
         Scheduler!Stacks, Pointers, Stacks, TM!TypeOK, TM!Pointers, TM!Stacks

------------------------------------------------------------------------------
(* Words on the stack.                                                      *)

\* Push leaves the words in use and puts the new ones on top of them.
LEMMA Pushes ==
    ASSUME Shape, esp.pos <= Len(memory[esp.stack]), NEW words \in Seq(Words),
           Push(words), esp.pos + Len(words) <= Depth
    PROVE  /\ memory' \in [Stacks -> Seq(Words)]
           /\ esp' \in Pointers /\ esp'.stack = esp.stack
           /\ esp'.pos = esp.pos + Len(words)
           /\ \A s \in Stacks : s # esp.stack => memory'[s] = memory[s]
           /\ Len(memory'[esp.stack]) = esp.pos + Len(words)
           /\ \A i \in 1 .. esp.pos : memory'[esp.stack][i] = memory[esp.stack][i]
           /\ \A i \in 1 .. Len(words) : memory'[esp.stack][esp.pos + i] = words[i]
<1>1. /\ esp \in Pointers /\ esp.stack \in Stacks /\ esp.pos \in Nat
      /\ memory \in [Stacks -> Seq(Words)] /\ memory[esp.stack] \in Seq(Words)
  BY DEF Shape, Pointers
<1>2. /\ InUse \in Seq(Words) /\ Len(InUse) = esp.pos
      /\ \A i \in 1 .. esp.pos : InUse[i] = memory[esp.stack][i]
  BY <1>1 DEF InUse
<1> DEFINE all == InUse \o words
<1>3. /\ all \in Seq(Words) /\ Len(all) = esp.pos + Len(words)
      /\ \A i \in 1 .. esp.pos : all[i] = InUse[i]
      /\ \A i \in 1 .. Len(words) : all[esp.pos + i] = words[i]
  <2>1. words \in Seq(Words) /\ Len(words) \in Nat /\ InUse \in Seq(Words)
    BY <1>2
  <2>2. /\ all \in Seq(Words) /\ Len(all) = Len(InUse) + Len(words)
        /\ \A i \in 1 .. Len(InUse) + Len(words) :
              all[i] = IF i <= Len(InUse) THEN InUse[i] ELSE words[i - Len(InUse)]
    BY <2>1, ConcatProperties
  <2> HIDE DEF all
  <2>3. ASSUME NEW i \in 1 .. esp.pos PROVE all[i] = InUse[i]
    <3>1. i \in 1 .. Len(InUse) + Len(words) /\ i <= Len(InUse)
      BY <1>1, <1>2, <2>1
    <3> QED BY <2>2, <3>1
  <2>4. ASSUME NEW i \in 1 .. Len(words) PROVE all[esp.pos + i] = words[i]
    <3>1. /\ esp.pos + i \in 1 .. Len(InUse) + Len(words) /\ ~(esp.pos + i <= Len(InUse))
          /\ (esp.pos + i) - Len(InUse) = i
      BY <1>1, <1>2, <2>1
    <3> QED BY <2>2, <3>1
  <2> QED BY <1>2, <2>2, <2>3, <2>4
<1>4. memory' = [memory EXCEPT ![esp.stack] = all] /\ esp' = [esp EXCEPT !.pos = @ + Len(words)]
  BY DEF Push
<1>5. esp' \in Pointers /\ esp'.stack = esp.stack /\ esp'.pos = esp.pos + Len(words)
  <2>1. esp' = [stack |-> esp.stack, pos |-> esp.pos + Len(words)]
    BY <1>1, <1>4 DEF Pointers
  <2>2. esp.pos + Len(words) \in 0 .. Depth
    <3>1. Len(words) \in Nat
      OBVIOUS
    <3> QED BY <1>1, <3>1, FrameAssumption
  <2> QED BY <1>1, <2>1, <2>2 DEF Pointers
<1> HIDE DEF all
<1> QED BY <1>1, <1>2, <1>3, <1>4, <1>5

\* The seven pops take from the top what the seven pushes put there.
LEMMA PopsWhatWasPushed ==
    ASSUME NEW r \in General
    PROVE  LET i == CHOOSE j \in 1 .. 7 : Popped[j] = r
           IN  i \in 1 .. 7 /\ Pushed[8 - i] = r
<1>1. \E j \in 1 .. 7 : Popped[j] = r
  <2>1. /\ Popped[1] = "eax" /\ Popped[2] = "ebx" /\ Popped[3] = "ecx" /\ Popped[4] = "edx"
        /\ Popped[5] = "esi" /\ Popped[6] = "edi" /\ Popped[7] = "ebp"
    BY DEF Popped
  <2> QED BY <2>1 DEF General
<1>2. \A i \in 1 .. 7 : Pushed[8 - i] = Popped[i]
  BY DEF Pushed, Popped
<1> QED BY <1>1, <1>2

\* A stack that is not touched stays as it is.
LEMMA Untouched ==
    ASSUME NEW s, NEW pos, memory'[s] = memory[s], interrupted'[s] = interrupted[s]
    PROVE  Resumable(s, pos)' <=> Resumable(s, pos)
  BY DEF Resumable, Framed, Gated, Held, Was

\* It has as many words as it says.
LEMMA FrameFits ==
    ASSUME Shape, Interruptions, NEW s \in Stacks, NEW pos, Resumable(s, pos)
    PROVE  pos \in 0 .. Depth /\ pos <= Len(memory[s])
<1>1. CASE interrupted[s].yet
  <2>1. pos = Held(s) + StubFrame /\ pos <= Len(memory[s])
    BY <1>1 DEF Resumable, Framed
  <2>2. Held(s) + StubFrame <= Depth /\ Held(s) \in Nat
    BY <1>1 DEF Interruptions, Held
  <2> QED BY <2>1, <2>2, FrameAssumption, FrameIs
<1>2. CASE ~interrupted[s].yet
  <2>1. memory[s] = NewFrame(s) /\ pos = Frame
    BY <1>2 DEF Resumable
  <2>2. Len(NewFrame(s)) = 12
    BY DEF NewFrame
  <2> QED BY <2>1, <2>2, FrameAssumption, FrameIs
<1> QED BY <1>1, <1>2

------------------------------------------------------------------------------
(* The invariant.                                                           *)

\* The words that occur.
LEMMA Vocabulary ==
    /\ CodeSegmentSelector \in Words /\ InterruptsOn \in Words /\ InterruptsOff \in Words
    /\ Zero \in Words /\ Uninitialized \in Words
    /\ Tasks \subseteq Words /\ Pointers \subseteq Words
    /\ \A r \in General \cup {"eip", "stack"}, value \in Data \cup {Zero} :
          Word(r, value) \in Words
  BY DEF Words, Word, Data0

\* The frame Task::Task builds.
LEMMA Built ==
    ASSUME NEW task \in Tasks
    PROVE  /\ NewFrame(task) \in Seq(Words) /\ Len(NewFrame(task)) = 12
           /\ NewFrame(task)[3] = InterruptsOn
<1> DEFINE entry == <<Uninitialized, Uninitialized, InterruptsOn, CodeSegmentSelector, task>>
           cleared == [i \in 1 .. 7 |-> Zero]
<1>1. /\ entry \in Seq(Words) /\ Len(entry) = 5 /\ entry[3] = InterruptsOn
  BY Vocabulary
<1>2. cleared \in Seq(Words) /\ Len(cleared) = 7
  BY Vocabulary
<1>3. NewFrame(task) = entry \o cleared
  BY DEF NewFrame
<1> HIDE DEF entry, cleared
<1>4. /\ entry \o cleared \in Seq(Words) /\ Len(entry \o cleared) = 5 + 7
      /\ \A i \in 1 .. 5 + 7 :
            (entry \o cleared)[i] = IF i <= 5 THEN entry[i] ELSE cleared[i - 5]
  <2>1. entry \in Seq(Words) /\ cleared \in Seq(Words)
    BY <1>1, <1>2
  <2>2. Len(entry) = 5 /\ Len(cleared) = 7
    BY <1>1, <1>2
  <2>3. /\ entry \o cleared \in Seq(Words)
        /\ Len(entry \o cleared) = Len(entry) + Len(cleared)
        /\ \A i \in 1 .. Len(entry) + Len(cleared) :
              (entry \o cleared)[i] = IF i <= Len(entry) THEN entry[i] ELSE cleared[i - Len(entry)]
    BY <2>1, ConcatProperties
  <2> QED BY <2>2, <2>3, Zenon
<1>5. 3 \in 1 .. 5 + 7 /\ 3 <= 5
  OBVIOUS
<1>6. (entry \o cleared)[3] = entry[3]
  BY <1>4, <1>5
<1>7. 5 + 7 = 12
  OBVIOUS
<1> QED BY <1>1, <1>3, <1>4, <1>6, <1>7

\* It holds when kernelMain begins.
LEMMA InitIInv == Init => IInv
<1> SUFFICES ASSUME Init PROVE IInv
  OBVIOUS
<1>1. Scheduler!IInv /\ returned.stack = Kernel /\ left = [s \in Stacks |-> Frame]
  BY SchedulerInit DEF Init, TM!Init, TM!Pointer, TM!Stacks, Stacks
<1>2. /\ at = "run" /\ line = TimerLine /\ esp = [stack |-> Kernel, pos |-> 0]
      /\ memory = [s \in Stacks |-> IF s \in Tasks THEN NewFrame(s) ELSE <<>>]
      /\ interrupted = [s \in Stacks |-> [cpu |-> cpu, words |-> <<>>, yet |-> FALSE]]
      /\ cpu = [r \in Registers |->
                   IF r = "cs" THEN CodeSegmentSelector
                   ELSE IF r = "eflags" THEN InterruptsOff ELSE Word(r, Zero)]
  BY DEF Init, Registers
<1>3. Kernel \in Stacks /\ Kernel \notin Tasks /\ Depth \in Nat /\ 12 <= Depth
  BY FrameAssumption, FrameIs DEF Stacks
<1>4. cpu \in [Registers -> Words] /\ cpu["cs"] = CodeSegmentSelector
      /\ cpu["eflags"] = InterruptsOff
  <2>1. \A r \in Registers : r \in General \cup {"eip"} \/ r = "cs" \/ r = "eflags"
    BY DEF Registers
  <2>2. \A r \in Registers : (IF r = "cs" THEN CodeSegmentSelector
                   ELSE IF r = "eflags" THEN InterruptsOff ELSE Word(r, Zero)) \in Words
    BY <2>1, Vocabulary
  <2>3. "cs" \in Registers /\ "eflags" \in Registers
    BY DEF Registers
  <2> QED BY <1>2, <2>2, <2>3
<1>5. /\ memory \in [Stacks -> Seq(Words)] /\ memory[Kernel] = <<>>
      /\ \A s \in Tasks : memory[s] = NewFrame(s)
      /\ \A s \in Stacks : Len(memory[s]) <= Depth
  <2>1. \A s \in Tasks : s \in Stacks /\ memory[s] = NewFrame(s)
    BY <1>2 DEF Stacks
  <2>2. memory[Kernel] = <<>> /\ <<>> \in Seq(Words) /\ Len(<<>>) = 0
    BY <1>2, <1>3
  <2>3. \A s \in Stacks : s \in Tasks \/ s = Kernel
    BY DEF Stacks
  <2>4. \A s \in Stacks : memory[s] \in Seq(Words) /\ Len(memory[s]) <= Depth
    <3> SUFFICES ASSUME NEW s \in Stacks
                 PROVE  memory[s] \in Seq(Words) /\ Len(memory[s]) <= Depth
      OBVIOUS
    <3>1. CASE s \in Tasks
      <4>1. NewFrame(s) \in Seq(Words) /\ Len(NewFrame(s)) = 12
        BY <3>1, Built
      <4> QED BY <1>3, <2>1, <3>1, <4>1
    <3>2. CASE s = Kernel
      <4>1. Len(memory[s]) = 0 /\ memory[s] \in Seq(Words)
        BY <2>2, <3>2
      <4> QED BY <1>3, <4>1
    <3> QED BY <2>3, <3>1, <3>2
  <2> QED BY <1>2, <2>1, <2>2, <2>4
<1>6. \A s \in Stacks : ~interrupted[s].yet /\ interrupted[s].yet \in BOOLEAN
  BY <1>2
<1>7. Shape
  <2>1. esp \in Pointers
    BY <1>2, <1>3 DEF Pointers
  <2> QED BY <1>2, <1>4, <1>5, <2>1, FrameAssumption DEF Shape
<1>8. Interruptions
  BY <1>2, <1>6 DEF Interruptions
<1>9. Phase
  <2>1. esp.stack = Kernel /\ esp.pos = 0 /\ Len(memory[Kernel]) = 0
    BY <1>2, <1>5
  <2>2. 0 + StubFrame <= Depth
    BY <1>3, FrameIs
  <2> QED BY <1>1, <1>2, <1>4, <2>1, <2>2, FrameAssumption DEF Phase
<1>10. Suspended
  BY <1>1, <1>5, <1>6 DEF Suspended, Resumable, Stacks
<1> QED BY <1>1, <1>7, <1>8, <1>9, <1>10 DEF IInv

\* What waits goes on waiting, if the scheduler and the stacks that wait are
\* left alone.
LEMMA SuspendedStays ==
    ASSUME Suspended, returned' = returned, left' = left,
           \A s \in Stacks : s # returned.stack =>
               memory'[s] = memory[s] /\ interrupted'[s] = interrupted[s]
    PROVE  Suspended'
<1> SUFFICES ASSUME NEW s \in Stacks, s # returned.stack
             PROVE  Resumable(s, left[s])'
  BY DEF Suspended
<1>1. Resumable(s, left[s])
  BY DEF Suspended
<1> QED BY <1>1, Untouched

\* Tasks are added, and interrupts go on, while kernelMain runs.
LEMMA BootIInv ==
    ASSUME IInv, Activate \/ \E task \in Tasks : AddTask(task) PROVE IInv'
<1>0. /\ at = "run" /\ UNCHANGED <<at, line, esp, memory, interrupted>>
      /\ TM!Activate \/ \E task \in Tasks : TM!AddTask(task)
      /\ \/ cpu' = cpu
         \/ cpu' = [cpu EXCEPT !["eflags"] = InterruptsOn] /\ TM!Activate
  BY DEF Activate, AddTask
<1>1. Scheduler!IInv'
  BY <1>0, SchedulerNext DEF IInv, TM!Next
<1>2. returned' = returned /\ left' = left /\ (TM!Activate => enabled') /\ ~enabled
      /\ (~TM!Activate => enabled' = enabled)
  BY <1>0 DEF TM!AddTask, TM!Activate
<1>3. /\ cpu' \in [Registers -> Words] /\ cpu'["cs"] = CodeSegmentSelector
      /\ cpu'["eflags"] \in {InterruptsOn, InterruptsOff}
      /\ cpu'["eflags"] = InterruptsOn => enabled'
  BY <1>0, <1>2, Vocabulary DEF IInv, Shape, Phase, Registers
<1>4. Shape' /\ Interruptions'
  BY <1>0, <1>3 DEF IInv, Shape, Interruptions, Was, Held
<1>5. Phase'
  BY <1>0, <1>2, <1>3 DEF IInv, Phase
<1>6. Suspended'
  BY <1>0, <1>2, SuspendedStays DEF IInv
<1> QED BY <1>1, <1>4, <1>5, <1>6 DEF IInv

\* Programs use their own registers and their own stack.
LEMMA ComputeIInv == ASSUME IInv, NEW value \in Data, Compute(value) PROVE IInv'
<1>1. /\ at = "run" /\ at' = "run" /\ line' = line /\ interrupted' = interrupted
      /\ UNCHANGED scheduler
      /\ cpu' = [r \in DOMAIN cpu |->
                    IF r \in General \cup {"eip"} THEN Word(r, value) ELSE cpu[r]]
  BY DEF Compute
<1>2. Scheduler!IInv' /\ returned' = returned /\ left' = left /\ enabled' = enabled
  BY <1>1, SchedulerStays DEF IInv, scheduler
<1>3. /\ cpu' \in [Registers -> Words] /\ cpu'["cs"] = cpu["cs"]
      /\ cpu'["eflags"] = cpu["eflags"]
  <2>1. cpu \in [Registers -> Words] /\ \A r \in General \cup {"eip"} : Word(r, value) \in Words
    BY Vocabulary DEF IInv, Shape
  <2>2. /\ "cs" \in Registers /\ "eflags" \in Registers
        /\ "cs" \notin General \cup {"eip"} /\ "eflags" \notin General \cup {"eip"}
    BY DEF Registers, General
  <2> QED BY <1>1, <2>1, <2>2
<1>4. esp.stack = returned.stack /\ esp.stack \in Stacks /\ esp.pos \in Nat
      /\ esp.pos <= Len(memory[esp.stack]) /\ esp.pos + StubFrame <= Depth
      /\ esp \in Pointers /\ memory \in [Stacks -> Seq(Words)]
      /\ \A s \in Stacks : Len(memory[s]) <= Depth
  BY <1>1 DEF IInv, Shape, Phase, Pointers
<1>5. /\ esp' \in Pointers /\ esp'.stack = esp.stack
      /\ memory' \in [Stacks -> Seq(Words)]
      /\ \A s \in Stacks : s # esp.stack => memory'[s] = memory[s]
      /\ esp'.pos <= Len(memory'[esp.stack]) /\ esp'.pos + StubFrame <= Depth
      /\ \A s \in Stacks : Len(memory'[s]) <= Depth
  <2>1. CASE UNCHANGED <<esp, memory>>
    BY <1>4, <2>1
  <2>2. CASE esp.pos + 1 + StubFrame <= Depth /\ Push(<<Word("stack", value)>>)
    <3> DEFINE words == <<Word("stack", value)>>
    <3>1. words \in Seq(Words) /\ Len(words) = 1
      BY Vocabulary
    <3>2. Push(words) /\ esp.pos + 1 + 11 <= Depth /\ StubFrame = 11 /\ Depth \in Nat
      BY <2>2, FrameIs, FrameAssumption
    <3> HIDE DEF words
    <3>3. esp.pos + Len(words) <= Depth
      BY <1>4, <3>1, <3>2
    <3>4. /\ memory' \in [Stacks -> Seq(Words)]
          /\ esp' \in Pointers /\ esp'.stack = esp.stack /\ esp'.pos = esp.pos + 1
          /\ \A s \in Stacks : s # esp.stack => memory'[s] = memory[s]
          /\ Len(memory'[esp.stack]) = esp.pos + 1
      BY <1>4, <3>1, <3>2, <3>3, Pushes DEF IInv
    <3>5. \A s \in Stacks : Len(memory'[s]) <= Depth
      BY <1>4, <3>1, <3>3, <3>4
    <3>6. esp'.pos <= Len(memory'[esp.stack]) /\ esp'.pos + StubFrame <= Depth
      BY <1>4, <3>2, <3>4
    <3> QED BY <3>4, <3>5, <3>6
  <2>3. CASE esp.pos > 0 /\ Drop(1) /\ UNCHANGED memory
    <3>1. esp' = [stack |-> esp.stack, pos |-> esp.pos - 1]
      BY <1>4, <2>3 DEF Drop, Pointers
    <3>2. esp.pos - 1 \in 0 .. Depth
      BY <1>4, <2>3, FrameAssumption DEF Pointers
    <3>3. esp' \in Pointers /\ esp'.pos = esp.pos - 1 /\ esp'.stack = esp.stack
      BY <1>4, <3>1, <3>2 DEF Pointers
    <3>4. esp'.pos <= Len(memory'[esp.stack]) /\ esp'.pos + StubFrame <= Depth
      <4>1. memory'[esp.stack] = memory[esp.stack] /\ Len(memory[esp.stack]) \in Nat
            /\ StubFrame = 11 /\ Depth \in Nat
        BY <1>4, <2>3, FrameIs, FrameAssumption
      <4> QED BY <1>4, <3>3, <4>1
    <3> QED BY <1>4, <2>3, <3>3, <3>4
  <2> QED BY <2>1, <2>2, <2>3 DEF Compute
<1>6. Shape' /\ Interruptions'
  BY <1>1, <1>3, <1>5 DEF IInv, Shape, Interruptions, Was, Held
<1>7. Phase'
  BY <1>1, <1>2, <1>3, <1>4, <1>5 DEF IInv, Phase
<1>8. Suspended'
  BY <1>1, <1>2, <1>4, <1>5, SuspendedStays DEF IInv
<1> QED BY <1>2, <1>6, <1>7, <1>8 DEF IInv

\* The gate: the processor pushes what Return will pop.
LEMMA InterruptIInv == ASSUME IInv, NEW l \in Lines, Interrupt(l) PROVE IInv'
<1> DEFINE words == <<cpu["eflags"], cpu["cs"], cpu["eip"]>>
<1>0. PICK s, n : s = esp.stack /\ n = esp.pos
  OBVIOUS
<1>1. /\ at = "run" /\ at' = "stub" /\ line' = l /\ cpu["eflags"] = InterruptsOn
      /\ Push(words) /\ UNCHANGED scheduler
      /\ cpu' = [cpu EXCEPT !["eflags"] = InterruptsOff]
      /\ interrupted' = [interrupted EXCEPT ![s] = [cpu |-> cpu, words |-> InUse, yet |-> TRUE]]
  BY <1>0 DEF Interrupt
<1>2. Scheduler!IInv' /\ returned' = returned /\ left' = left /\ enabled' = enabled
  BY <1>1, SchedulerStays DEF IInv, scheduler
<1>3. /\ s = returned.stack /\ s \in Stacks /\ n \in Nat /\ enabled
      /\ n <= Len(memory[s]) /\ n + 11 <= Depth /\ Depth \in Nat
      /\ cpu \in [Registers -> Words] /\ cpu["cs"] = CodeSegmentSelector
      /\ memory \in [Stacks -> Seq(Words)] /\ memory[s] \in Seq(Words)
      /\ DOMAIN interrupted = Stacks
  BY <1>0, <1>1, FrameIs, FrameAssumption DEF IInv, Shape, Interruptions, Phase, Pointers
<1>4. /\ "cs" \in Registers /\ "eflags" \in Registers /\ "eip" \in Registers
      /\ \A r \in General : r \in Registers /\ r # "eflags"
  BY DEF Registers, General
<1>5. words \in Seq(Words) /\ Len(words) = 3 /\ words[1] = cpu["eflags"]
      /\ words[2] = cpu["cs"] /\ words[3] = cpu["eip"]
  <2>1. cpu["eflags"] \in Words /\ cpu["cs"] \in Words /\ cpu["eip"] \in Words
    BY <1>3, <1>4
  <2> QED BY <2>1
<1>6. InUse \in Seq(Words) /\ Len(InUse) = n
      /\ \A i \in 1 .. n : InUse[i] = memory[s][i]
  BY <1>0, <1>3 DEF InUse
<1> HIDE DEF words
<1>7. /\ memory' \in [Stacks -> Seq(Words)]
      /\ esp' \in Pointers /\ esp'.stack = s /\ esp'.pos = n + 3
      /\ \A t \in Stacks : t # s => memory'[t] = memory[t]
      /\ Len(memory'[s]) = n + 3
      /\ \A i \in 1 .. n : memory'[s][i] = memory[s][i]
      /\ \A i \in 1 .. 3 : memory'[s][n + i] = words[i]
  <2>1. n + Len(words) <= Depth
    BY <1>3, <1>5
  <2>2. Shape /\ esp.pos <= Len(memory[esp.stack]) /\ words \in Seq(Words) /\ Push(words)
        /\ esp.pos + Len(words) <= Depth
    BY <1>0, <1>1, <1>3, <1>5, <2>1 DEF IInv
  <2>3. /\ memory' \in [Stacks -> Seq(Words)]
        /\ esp' \in Pointers /\ esp'.stack = esp.stack /\ esp'.pos = esp.pos + Len(words)
        /\ \A t \in Stacks : t # esp.stack => memory'[t] = memory[t]
        /\ Len(memory'[esp.stack]) = esp.pos + Len(words)
        /\ \A i \in 1 .. esp.pos : memory'[esp.stack][i] = memory[esp.stack][i]
        /\ \A i \in 1 .. Len(words) : memory'[esp.stack][esp.pos + i] = words[i]
    BY <2>2, Pushes
  <2> QED BY <1>0, <1>5, <2>3, Zenon
<1>8. /\ cpu' \in [Registers -> Words] /\ cpu'["cs"] = CodeSegmentSelector
      /\ cpu'["eflags"] = InterruptsOff /\ \A r \in General : cpu'[r] = cpu[r]
  BY <1>1, <1>3, <1>4, Vocabulary
<1>9. /\ interrupted'[s].yet = TRUE /\ Was(s)' = cpu /\ interrupted'[s].words = InUse
      /\ Held(s)' = n
      /\ DOMAIN interrupted' = Stacks
      /\ \A t \in Stacks : t # s => interrupted'[t] = interrupted[t]
  <2>1. interrupted'[s] = [cpu |-> cpu, words |-> InUse, yet |-> TRUE]
        /\ DOMAIN interrupted' = Stacks
        /\ \A t \in Stacks : t # s => interrupted'[t] = interrupted[t]
    BY <1>1, <1>3
  <2>2. interrupted'[s].yet = TRUE /\ interrupted'[s].words = InUse
        /\ interrupted'[s].cpu = cpu
    BY <2>1
  <2> QED BY <1>6, <2>1, <2>2 DEF Was, Held
<1>10. Gated(s)'
  <2>1. /\ memory'[s][n + 1] = cpu["eflags"] /\ memory'[s][n + 2] = cpu["cs"]
        /\ memory'[s][n + 3] = cpu["eip"]
    BY <1>5, <1>7
  <2>2. \A i \in 1 .. n : memory'[s][i] = interrupted'[s].words[i]
    BY <1>6, <1>7, <1>9
  <2>3. n + 3 <= Len(memory'[s])
    BY <1>3, <1>7
  <2> QED BY <1>9, <2>1, <2>2, <2>3 DEF Gated
<1>11. AsBefore(s)'
  BY <1>8, <1>9 DEF AsBefore
<1>12. Shape'
  <2>1. \A t \in Stacks : Len(memory'[t]) <= Depth
    <3> SUFFICES ASSUME NEW t \in Stacks PROVE Len(memory'[t]) <= Depth
      OBVIOUS
    <3>1. CASE t = s
      BY <1>3, <1>7, <3>1
    <3>2. CASE t # s
      BY <1>7, <3>2 DEF IInv, Shape
    <3> QED BY <3>1, <3>2
  <2> QED BY <1>1, <1>7, <1>8, <2>1 DEF Shape
<1>13. Interruptions'
  <2> SUFFICES ASSUME NEW t \in Stacks
               PROVE  /\ interrupted'[t].yet \in BOOLEAN
                      /\ interrupted'[t].yet =>
                            /\ Was(t)' \in [Registers -> Words]
                            /\ Was(t)'["cs"] = CodeSegmentSelector
                            /\ Was(t)'["eflags"] = InterruptsOn
                            /\ interrupted'[t].words \in Seq(Words)
                            /\ Held(t)' + StubFrame <= Depth
    BY <1>9 DEF Interruptions
  <2>1. CASE t = s
    BY <1>1, <1>3, <1>6, <1>9, <2>1, FrameIs
  <2>2. CASE t # s
    BY <1>9, <2>2 DEF IInv, Interruptions, Was, Held
  <2> QED BY <2>1, <2>2
<1>14. Phase'
  <2>1. esp'.pos <= Len(memory'[s])
    BY <1>3, <1>7
  <2> QED BY <1>1, <1>2, <1>3, <1>7, <1>9, <1>10, <1>11, <2>1 DEF Phase
<1>15. Suspended'
  BY <1>2, <1>3, <1>7, <1>9, SuspendedStays DEF IInv
<1> QED BY <1>2, <1>12, <1>13, <1>14, <1>15 DEF IInv

\* The stub pushes the registers on top of what the processor pushed.
LEMMA SaveIInv == ASSUME IInv, Save PROVE IInv'
<1> DEFINE general == [i \in 1 .. 7 |-> cpu[Pushed[i]]]
           words == <<Zero>> \o general
<1>0. PICK s, n : s = esp.stack /\ n = esp.pos
  OBVIOUS
<1>1. /\ at = "stub" /\ at' = "call" /\ Push(words)
      /\ UNCHANGED <<line, cpu, interrupted>> /\ UNCHANGED scheduler
  BY DEF Save
<1>2. Scheduler!IInv' /\ returned' = returned /\ left' = left /\ enabled' = enabled
  BY <1>1, SchedulerStays DEF IInv, scheduler
<1>3. /\ s = returned.stack /\ s \in Stacks /\ n \in Nat /\ enabled
      /\ n <= Len(memory[s]) /\ Depth \in Nat
      /\ cpu \in [Registers -> Words] /\ Held(s) \in Nat /\ Held(s) + 11 <= Depth
      /\ memory \in [Stacks -> Seq(Words)] /\ memory[s] \in Seq(Words)
      /\ interrupted[s].yet /\ Gated(s) /\ AsBefore(s) /\ n = Held(s) + 3
  BY <1>0, <1>1, FrameIs, FrameAssumption
     DEF IInv, Shape, Interruptions, Phase, Pointers, Held
<1>4. \A i \in 1 .. 7 : Pushed[i] \in General /\ Pushed[i] \in Registers
  BY DEF Pushed, General, Registers
<1>5. general \in Seq(Words) /\ Len(general) = 7
  <2>1. \A i \in 1 .. 7 : cpu[Pushed[i]] \in Words
    BY <1>3, <1>4
  <2> QED BY <2>1
<1>6. words \in Seq(Words) /\ Len(words) = 8 /\ \A i \in 1 .. 7 : words[i + 1] = cpu[Pushed[i]]
  <2>1. <<Zero>> \in Seq(Words) /\ Len(<<Zero>>) = 1
    BY Vocabulary
  <2>2. \A i \in 1 .. 7 : general[i] = cpu[Pushed[i]]
    OBVIOUS
  <2> HIDE DEF general
  <2>3. /\ words \in Seq(Words) /\ Len(words) = Len(<<Zero>>) + Len(general)
        /\ \A i \in 1 .. Len(<<Zero>>) + Len(general) : words[i] =
              IF i <= Len(<<Zero>>) THEN <<Zero>>[i] ELSE general[i - Len(<<Zero>>)]
    BY <1>5, <2>1, ConcatProperties
  <2>4. ASSUME NEW i \in 1 .. 7 PROVE words[i + 1] = cpu[Pushed[i]]
    <3>1. /\ i + 1 \in 1 .. Len(<<Zero>>) + Len(general) /\ ~(i + 1 <= Len(<<Zero>>))
          /\ (i + 1) - Len(<<Zero>>) = i
      BY <1>5, <2>1
    <3> QED BY <2>2, <2>3, <3>1
  <2> QED BY <1>5, <2>1, <2>3, <2>4
<1> HIDE DEF general, words
<1>7. /\ memory' \in [Stacks -> Seq(Words)]
      /\ esp' \in Pointers /\ esp'.stack = s /\ esp'.pos = n + 8
      /\ \A t \in Stacks : t # s => memory'[t] = memory[t]
      /\ Len(memory'[s]) = n + 8
      /\ \A i \in 1 .. n : memory'[s][i] = memory[s][i]
      /\ \A i \in 1 .. 8 : memory'[s][n + i] = words[i]
  <2>1. n + Len(words) <= Depth
    BY <1>3, <1>6
  <2>2. Shape /\ esp.pos <= Len(memory[esp.stack]) /\ words \in Seq(Words) /\ Push(words)
        /\ esp.pos + Len(words) <= Depth
    BY <1>0, <1>1, <1>3, <1>6, <2>1 DEF IInv
  <2>3. /\ memory' \in [Stacks -> Seq(Words)]
        /\ esp' \in Pointers /\ esp'.stack = esp.stack /\ esp'.pos = esp.pos + Len(words)
        /\ \A t \in Stacks : t # esp.stack => memory'[t] = memory[t]
        /\ Len(memory'[esp.stack]) = esp.pos + Len(words)
        /\ \A i \in 1 .. esp.pos : memory'[esp.stack][i] = memory[esp.stack][i]
        /\ \A i \in 1 .. Len(words) : memory'[esp.stack][esp.pos + i] = words[i]
    BY <2>2, Pushes
  <2> QED BY <1>0, <1>6, <2>3, Zenon
<1>8. Was(s)' = Was(s) /\ Held(s)' = Held(s) /\ interrupted'[s].yet
  BY <1>1, <1>3 DEF Was, Held
<1>9. Framed(s)'
  <2> DEFINE h == Held(s)
  <2>1. \A i \in 1 .. h + 3 : memory'[s][i] = memory[s][i]
    BY <1>3, <1>7
  <2>2. Gated(s)'
    <3>1. h \in Nat /\ h + 3 <= Len(memory'[s])
      BY <1>3, <1>7
    <3> HIDE DEF h
    <3>2. /\ h + 1 \in 1 .. h + 3 /\ h + 2 \in 1 .. h + 3 /\ h + 3 \in 1 .. h + 3
          /\ \A i \in 1 .. h : i \in 1 .. h + 3
      BY <3>1
    <3>3. /\ memory'[s][h + 1] = memory[s][h + 1] /\ memory'[s][h + 2] = memory[s][h + 2]
          /\ memory'[s][h + 3] = memory[s][h + 3]
          /\ \A i \in 1 .. h : memory'[s][i] = memory[s][i]
      BY <2>1, <3>2
    <3>4. /\ \A i \in 1 .. h : memory[s][i] = interrupted[s].words[i]
          /\ memory[s][h + 1] = Was(s)["eflags"] /\ memory[s][h + 2] = Was(s)["cs"]
          /\ memory[s][h + 3] = Was(s)["eip"]
      BY <1>3 DEF Gated, h
    <3>5. interrupted'[s] = interrupted[s] /\ Held(s)' = h
      BY <1>1, <1>8 DEF h
    <3> QED BY <1>8, <3>1, <3>3, <3>4, <3>5, Zenon DEF Gated
  <2>3. ASSUME NEW i \in 1 .. 7 PROVE memory'[s][h + 4 + i] = Was(s)[Pushed[i]]
    <3>1. h + 4 + i = n + (i + 1) /\ i + 1 \in 1 .. 8
      BY <1>3
    <3>2. memory'[s][n + (i + 1)] = words[i + 1]
      BY <1>7, <3>1
    <3> QED BY <1>3, <1>4, <1>6, <3>1, <3>2 DEF AsBefore
  <2>4. h + StubFrame <= Len(memory'[s])
    BY <1>3, <1>7, FrameIs
  <2> QED BY <1>8, <2>2, <2>3, <2>4 DEF Framed
<1>10. Resumable(s, n + 8)'
  <2>1. n + 8 = Held(s) + StubFrame
    BY <1>3, FrameIs
  <2> QED BY <1>8, <1>9, <2>1 DEF Resumable
<1>11. Shape'
  <2> SUFFICES ASSUME NEW t \in Stacks PROVE Len(memory'[t]) <= Depth
    BY <1>1, <1>7 DEF IInv, Shape
  <2>1. CASE t = s
    BY <1>3, <1>7, <2>1
  <2>2. CASE t # s
    BY <1>7, <2>2 DEF IInv, Shape
  <2> QED BY <2>1, <2>2
<1>12. Interruptions'
  BY <1>1 DEF IInv, Interruptions, Was, Held
<1>13. Phase'
  <2>1. esp'.pos <= Len(memory'[s])
    BY <1>3, <1>7
  <2> QED BY <1>1, <1>2, <1>3, <1>7, <1>8, <1>10, <2>1 DEF Phase
<1>14. Suspended'
  BY <1>1, <1>2, <1>3, <1>7, SuspendedStays DEF IInv
<1> QED BY <1>2, <1>11, <1>12, <1>13, <1>14 DEF IInv

\* Handling the timer is a step of the scheduler's Timer: the pointer it gets
\* lies on the stack of whoever the scheduler let run.
LEMMA HandleIsTimer ==
    ASSUME IInv, Handle, line = TimerLine
    PROVE  /\ TM!Timer(esp.pos) /\ left' = [left EXCEPT ![esp.stack] = esp.pos]
           /\ Scheduler!IInv' /\ enabled' = enabled
<1>1. /\ at = "call" /\ TM!Schedule(esp) /\ left' = [left EXCEPT ![esp.stack] = esp.pos]
      /\ UNCHANGED <<tasks, numTasks, enabled>>
  BY DEF Handle
<1>2. enabled /\ esp.stack = returned.stack /\ esp \in Pointers
  BY <1>1 DEF IInv, Phase, Shape
<1>3. esp = TM!Pointer(returned.stack, esp.pos) /\ esp.pos \in 0 .. Depth
  BY <1>2 DEF TM!Pointer, Pointers
<1>4. TM!Timer(esp.pos)
  <2>1. TM!Schedule(TM!Pointer(returned.stack, esp.pos))
    BY <1>1, <1>3
  <2> QED BY <1>1, <1>2, <2>1 DEF TM!Timer
<1>5. TM!Next
  BY <1>3, <1>4 DEF TM!Next
<1> QED BY <1>1, <1>4, <1>5, SchedulerNext DEF IInv

\* The pointer Schedule returns is where a frame lies, whoever it belongs to.
LEMMA HandleIInv == ASSUME IInv, Handle PROVE IInv'
<1>0. PICK s, n, pointer :
          /\ s = esp.stack /\ n = esp.pos
          /\ pointer = IF line = TimerLine THEN returned' ELSE esp
  OBVIOUS
<1>1. /\ at = "call" /\ at' = "switch" /\ UNCHANGED <<line, esp, memory, interrupted>>
      /\ cpu' = [cpu EXCEPT !["eax"] = IF line = TimerLine THEN returned' ELSE esp,
                            !["ecx"] = Uninitialized, !["edx"] = Uninitialized]
  BY DEF Handle
<1>2. /\ s = returned.stack /\ s \in Stacks /\ enabled /\ esp \in Pointers
      /\ n <= Len(memory[s]) /\ Resumable(s, n) /\ cpu \in [Registers -> Words]
  BY <1>0, <1>1 DEF IInv, Shape, Phase, Pointers
<1>3. Scheduler!IInv' /\ enabled' = enabled
  BY <1>1, HandleIsTimer, SchedulerStays DEF IInv, Handle, scheduler
<1>4. /\ returned' \in Pointers /\ left' \in [Stacks -> 0 .. Depth]
      /\ returned'.pos = left'[returned'.stack] /\ returned'.stack \in Stacks
  <2>1. /\ returned' \in Pointers /\ left' \in [Stacks -> 0 .. Depth]
        /\ returned'.pos = left'[returned'.stack]
    BY <1>3 DEF Scheduler!IInv, Scheduler!TypeOK, Scheduler!NothingLost, Pointers,
                Scheduler!Pointers, Scheduler!Stacks, Stacks
  <2> QED BY <2>1 DEF Pointers
<1>5. /\ pointer \in Pointers /\ pointer.stack = returned'.stack
      /\ Resumable(pointer.stack, pointer.pos)
      /\ \A t \in Stacks : t # returned'.stack => Resumable(t, left'[t])
  <2>1. CASE line = TimerLine
    <3>1. left' = [left EXCEPT ![s] = n] /\ left \in [Stacks -> 0 .. Depth]
      BY <1>0, <2>1, HandleIsTimer, SchedulerSays DEF IInv
    <3>2. ASSUME NEW t \in Stacks PROVE Resumable(t, left'[t])
      <4>1. CASE t = s
        BY <1>2, <3>1, <4>1
      <4>2. CASE t # s
        BY <1>2, <3>1, <4>2 DEF IInv, Suspended
      <4> QED BY <4>1, <4>2
    <3> QED BY <1>4, <1>0, <2>1, <3>2
  <2>2. CASE line # TimerLine
    <3>1. returned' = returned /\ left' = left
      BY <2>2 DEF Handle, scheduler
    <3> QED BY <1>0, <1>2, <2>2, <3>1 DEF IInv, Suspended
  <2> QED BY <2>1, <2>2
<1>6. /\ cpu' \in [Registers -> Words] /\ cpu'["cs"] = cpu["cs"]
      /\ cpu'["eflags"] = cpu["eflags"] /\ cpu'["eax"] = pointer
  <2>1. pointer \in Words /\ Uninitialized \in Words
    BY <1>5, Vocabulary
  <2>2. cpu' = [cpu EXCEPT !["eax"] = pointer, !["ecx"] = Uninitialized, !["edx"] = Uninitialized]
    BY <1>0, <1>1
  <2>3. {"cs", "eflags", "eax", "ecx", "edx"} \subseteq Registers
    BY DEF Registers, General
  <2> QED BY <1>2, <2>1, <2>2, <2>3
<1>7. Shape'
  BY <1>1, <1>6 DEF IInv, Shape
<1>8. Interruptions'
  BY <1>1 DEF IInv, Interruptions, Was, Held
<1>9. Resumable(pointer.stack, pointer.pos)'
  BY <1>1, <1>5, Untouched
<1>10. Phase'
  BY <1>0, <1>1, <1>2, <1>3, <1>5, <1>6, <1>9 DEF Phase
<1>11. Suspended'
  BY <1>1, <1>5, Untouched DEF Suspended
<1> QED BY <1>3, <1>7, <1>8, <1>10, <1>11 DEF IInv

\* The stack is switched to the frame whose pointer is in eax.
LEMMA SwitchStackIInv == ASSUME IInv, SwitchStack PROVE IInv'
<1>1. /\ at = "switch" /\ at' = "restore" /\ esp' = cpu["eax"]
      /\ UNCHANGED scheduler /\ UNCHANGED <<line, cpu, memory, interrupted>>
  BY DEF SwitchStack
<1>2. Scheduler!IInv' /\ returned' = returned /\ left' = left /\ enabled' = enabled
  BY <1>1, SchedulerStays DEF IInv, scheduler
<1>3. PICK s, pos : s = cpu["eax"].stack /\ pos = cpu["eax"].pos
  OBVIOUS
<1>4. /\ cpu["eax"] \in Pointers /\ s = returned.stack /\ Resumable(s, pos)
      /\ s \in Stacks /\ enabled
  BY <1>1, <1>3 DEF IInv, Phase, Pointers
<1>5. pos <= Len(memory[s])
  BY <1>4, FrameFits DEF IInv
<1>6. Shape' /\ Interruptions'
  BY <1>1, <1>4 DEF IInv, Shape, Interruptions, Was, Held
<1>7. Phase'
  <2>1. Resumable(s, pos)'
    BY <1>1, <1>4, Untouched
  <2> QED BY <1>1, <1>2, <1>3, <1>4, <1>5, <2>1 DEF Phase
<1>8. Suspended'
  BY <1>1, <1>2, SuspendedStays DEF IInv
<1> QED BY <1>2, <1>6, <1>7, <1>8 DEF IInv

\* The pops put back the registers of whoever the frame belongs to.
LEMMA RestoreIInv == ASSUME IInv, Restore PROVE IInv'
<1>0. PICK s, n : s = esp.stack /\ n = esp.pos
  OBVIOUS
<1>1. /\ at = "restore" /\ at' = "iret" /\ Drop(7 + 1)
      /\ UNCHANGED scheduler /\ UNCHANGED <<line, memory, interrupted>>
      /\ cpu' = [r \in DOMAIN cpu |->
                    IF r \in General THEN Peek(CHOOSE i \in 1 .. 7 : Popped[i] = r)
                    ELSE cpu[r]]
  BY DEF Restore
<1>2. Scheduler!IInv' /\ returned' = returned /\ left' = left /\ enabled' = enabled
  BY <1>1, SchedulerStays DEF IInv, scheduler
<1>3. /\ s = returned.stack /\ s \in Stacks /\ enabled /\ esp \in Pointers
      /\ cpu \in [Registers -> Words] /\ memory \in [Stacks -> Seq(Words)]
      /\ memory[s] \in Seq(Words) /\ Resumable(s, n) /\ n \in Nat /\ Depth \in Nat
      /\ n <= Len(memory[s]) /\ n <= Depth
  BY <1>0, <1>1, FrameAssumption DEF IInv, Shape, Phase, Pointers
<1>4. n >= 11
  <2>1. CASE interrupted[s].yet
    <3>1. n = Held(s) + 11 /\ Held(s) \in Nat
      BY <1>3, <2>1, FrameIs DEF Resumable, IInv, Interruptions, Held
    <3> QED BY <3>1
  <2>2. CASE ~interrupted[s].yet
    BY <1>3, <2>2, FrameIs DEF Resumable
  <2> QED BY <2>1, <2>2
<1>5. \A r \in General : r \in Registers /\ r # "cs" /\ r # "eflags" /\ r # "eip"
  BY DEF General, Registers
<1>6. ASSUME NEW r \in General
      PROVE  \E i \in 1 .. 7 :
                cpu'[r] = memory[s][(n - i) + 1] /\ Pushed[8 - i] = r
                /\ cpu'[r] \in Words
  <2>1. PICK i : i = CHOOSE j \in 1 .. 7 : Popped[j] = r
    OBVIOUS
  <2>2. i \in 1 .. 7 /\ Pushed[8 - i] = r
    BY <2>1, PopsWhatWasPushed
  <2>3. cpu'[r] = Peek(i)
    BY <1>1, <1>3, <1>5, <2>1
  <2>4. cpu'[r] = memory[s][(n - i) + 1]
    BY <1>0, <2>3 DEF Peek
  <2>5. (n - i) + 1 \in 1 .. Len(memory[s])
    BY <1>3, <1>4, <2>2
  <2>6. memory[s][(n - i) + 1] \in Words
    BY <1>3, <2>5
  <2> QED BY <2>2, <2>4, <2>6
<1>7. /\ cpu' \in [Registers -> Words] /\ cpu'["cs"] = cpu["cs"]
      /\ cpu'["eflags"] = cpu["eflags"]
  <2>1. \A r \in Registers \ General : cpu'[r] = cpu[r] /\ cpu[r] \in Words
    BY <1>1, <1>3
  <2>2. \A r \in Registers : cpu'[r] \in Words
    BY <1>6, <2>1
  <2>3. cpu' = [r \in Registers |-> cpu'[r]]
    BY <1>1, <1>3
  <2>4. "cs" \in Registers \ General /\ "eflags" \in Registers \ General
    BY DEF Registers, General
  <2> QED BY <2>1, <2>2, <2>3, <2>4
<1>8. esp' \in Pointers /\ esp'.stack = s /\ esp'.pos = n - 8
  <2>1. esp' = [stack |-> s, pos |-> n - 8]
    <3>1. esp' = [esp EXCEPT !.pos = @ - (7 + 1)] /\ esp = [stack |-> s, pos |-> n]
      BY <1>0, <1>1, <1>3 DEF Drop, Pointers
    <3>2. n - (7 + 1) = n - 8
      BY <1>3
    <3> QED BY <3>1, <3>2
  <2>2. n - 8 \in 0 .. Depth
    BY <1>3, <1>4
  <2> QED BY <1>3, <2>1, <2>2 DEF Pointers
<1>9. ASSUME interrupted[s].yet PROVE Phase'
  <2>1. /\ Framed(s) /\ n = Held(s) + 11 /\ Held(s) \in Nat
    BY <1>3, <1>9, FrameIs DEF Resumable, IInv, Interruptions, Held
  <2>2. ASSUME NEW r \in General PROVE cpu'[r] = Was(s)[r]
    <3>1. PICK i \in 1 .. 7 :
              cpu'[r] = memory[s][(n - i) + 1] /\ Pushed[8 - i] = r
      BY <1>6
    <3>2. (n - i) + 1 = Held(s) + 4 + (8 - i) /\ 8 - i \in 1 .. 7
      BY <2>1
    <3> QED BY <2>1, <3>1, <3>2 DEF Framed
  <2>3. AsBefore(s)' /\ Gated(s)'
    BY <1>1, <2>1, <2>2 DEF AsBefore, Framed, Gated, Was, Held
  <2>4. n - 8 = Held(s) + 3
    BY <2>1
  <2>5. Phase'
    <3>1. n - 8 <= Len(memory[s])
      BY <1>3
    <3>2. Held(s)' = Held(s)
      BY <1>1 DEF Held
    <3> QED BY <1>1, <1>2, <1>3, <1>8, <1>9, <2>3, <2>4, <3>1, <3>2 DEF Phase
  <2> QED BY <2>5
<1>10. ASSUME ~interrupted[s].yet PROVE Phase'
  <2>1. memory[s] = NewFrame(s) /\ n = 12
    BY <1>3, <1>10, FrameIs DEF Resumable
  <2>2. memory[s][3] = InterruptsOn
    <3>1. NewFrame(s)[3] = InterruptsOn
      BY DEF NewFrame
    <3> QED BY <2>1, <3>1
  <2>3. Peek(2)' = InterruptsOn
    BY <1>1, <1>8, <2>1, <2>2 DEF Peek
  <2>4. Phase'
    <3>1. n - 8 <= Len(memory[s])
      BY <1>3
    <3> QED BY <1>1, <1>2, <1>3, <1>8, <1>10, <2>3, <3>1 DEF Phase
  <2> QED BY <2>4
<1>11. Shape' /\ Interruptions'
  BY <1>1, <1>7, <1>8 DEF IInv, Shape, Interruptions, Was, Held
<1>12. Suspended'
  BY <1>1, <1>2, SuspendedStays DEF IInv
<1> QED BY <1>2, <1>9, <1>10, <1>11, <1>12 DEF IInv

\* iret puts back the rest, and takes the frame off the stack.
LEMMA ReturnsExactly ==
    ASSUME IInv, Return
    PROVE  /\ interrupted[esp.stack].yet
           /\ cpu' = interrupted[esp.stack].cpu
           /\ InUse' = interrupted[esp.stack].words
           /\ esp' = [stack |-> esp.stack, pos |-> Held(esp.stack)]
<1>0. PICK s, n : s = esp.stack /\ n = esp.pos
  OBVIOUS
<1>1. /\ at = "iret" /\ Peek(2) = CodeSegmentSelector /\ Drop(3) /\ memory' = memory
      /\ cpu' = [cpu EXCEPT !["eip"] = Peek(1), !["cs"] = Peek(2), !["eflags"] = Peek(3)]
  BY DEF Return
<1>2. interrupted[s].yet
  BY <1>0, <1>1, FrameAssumption DEF IInv, Phase
<1>3. /\ Gated(s) /\ AsBefore(s) /\ n = Held(s) + 3 /\ Held(s) \in Nat
      /\ esp \in Pointers /\ s \in Stacks /\ memory[s] \in Seq(Words)
      /\ interrupted[s].words \in Seq(Words) /\ cpu \in [Registers -> Words]
      /\ Was(s) \in [Registers -> Words]
  BY <1>0, <1>1, <1>2 DEF IInv, Phase, Shape, Interruptions, Pointers, Held
<1>4. Peek(1) = Was(s)["eip"] /\ Peek(2) = Was(s)["cs"] /\ Peek(3) = Was(s)["eflags"]
  <2>1. (n - 1) + 1 = Held(s) + 3 /\ (n - 2) + 1 = Held(s) + 2 /\ (n - 3) + 1 = Held(s) + 1
    BY <1>3
  <2> QED BY <1>0, <1>3, <2>1 DEF Peek, Gated
<1>5. cpu' = Was(s)
  <2>1. cpu' \in [Registers -> Words]
    <3>1. {"eip", "cs", "eflags"} \subseteq Registers
      BY DEF Registers
    <3> QED BY <1>1, <1>3, <1>4, <3>1
  <2>2. \A r \in Registers : cpu'[r] = Was(s)[r]
    <3>1. /\ cpu'["eip"] = Was(s)["eip"] /\ cpu'["cs"] = Was(s)["cs"]
          /\ cpu'["eflags"] = Was(s)["eflags"]
      BY <1>1, <1>3, <1>4 DEF Registers
    <3>2. \A r \in General : cpu'[r] = cpu[r]
      BY <1>1, <1>3 DEF Registers, General
    <3> QED BY <1>3, <3>1, <3>2 DEF Registers, AsBefore
  <2> QED BY <1>3, <2>1, <2>2
<1>6. esp' = [stack |-> s, pos |-> Held(s)]
  BY <1>0, <1>1, <1>3 DEF Drop, Pointers
<1>7. InUse' = interrupted[s].words
  <2>1. InUse' = SubSeq(memory[s], 1, Held(s))
    BY <1>1, <1>6 DEF InUse
  <2>2. Held(s) <= Len(memory[s])
        /\ \A i \in 1 .. Held(s) : memory[s][i] = interrupted[s].words[i]
    BY <1>3 DEF Gated
  <2> DEFINE words == interrupted[s].words
  <2>3. Len(words) = Held(s) /\ words \in Seq(Words)
    BY <1>3 DEF Held
  <2>4. /\ SubSeq(memory[s], 1, Held(s)) \in Seq(Words)
        /\ Len(SubSeq(memory[s], 1, Held(s))) = Held(s)
        /\ \A i \in 1 .. Held(s) : SubSeq(memory[s], 1, Held(s))[i] = memory[s][i]
    BY <1>3, <2>2
  <2> HIDE DEF words
  <2>5. SubSeq(memory[s], 1, Held(s)) = words
    BY <2>2, <2>3, <2>4, SeqEqual DEF words
  <2> QED BY <2>1, <2>5 DEF words
<1> QED BY <1>0, <1>2, <1>5, <1>6, <1>7 DEF Was

\* Whoever is resumed runs with room for the next frame.
LEMMA ReturnIInv == ASSUME IInv, Return PROVE IInv'
<1>0. PICK s : s = esp.stack
  OBVIOUS
<1>1. /\ at = "iret" /\ at' = "run" /\ UNCHANGED scheduler
      /\ UNCHANGED <<line, memory, interrupted>>
  BY DEF Return
<1>2. Scheduler!IInv' /\ returned' = returned /\ left' = left /\ enabled' = enabled
  BY <1>1, SchedulerStays DEF IInv, scheduler
<1>3. /\ interrupted[s].yet /\ cpu' = Was(s) /\ esp' = [stack |-> s, pos |-> Held(s)]
  BY <1>0, ReturnsExactly DEF Was
<1>4. /\ s = returned.stack /\ s \in Stacks /\ enabled /\ Held(s) \in Nat
      /\ Held(s) + StubFrame <= Depth /\ Held(s) + 3 <= Len(memory[s])
      /\ memory[s] \in Seq(Words)
      /\ Was(s) \in [Registers -> Words] /\ Was(s)["cs"] = CodeSegmentSelector
      /\ Was(s)["eflags"] = InterruptsOn
  BY <1>0, <1>1, <1>3 DEF IInv, Phase, Shape, Interruptions, Pointers, Held, Gated
<1>5. Held(s) \in 0 .. Depth /\ Held(s) <= Len(memory[s])
  BY <1>4, FrameIs, FrameAssumption
<1>6. Shape' /\ Interruptions'
  <2>1. esp' \in Pointers
    BY <1>3, <1>4, <1>5 DEF Pointers
  <2> QED BY <1>1, <1>3, <1>4, <2>1 DEF IInv, Shape, Interruptions, Was, Held
<1>7. Phase'
  BY <1>1, <1>2, <1>3, <1>4, <1>5 DEF Phase
<1>8. Suspended'
  BY <1>1, <1>2, SuspendedStays DEF IInv
<1> QED BY <1>2, <1>6, <1>7, <1>8 DEF IInv

\* A processor that is lost changes nothing more.
LEMMA FaultIInv == ASSUME IInv, Fault PROVE IInv'
<1>1. /\ at = "iret" /\ at' = "lost" /\ UNCHANGED scheduler
      /\ UNCHANGED <<line, cpu, esp, memory, interrupted>>
  BY DEF Fault
<1>2. Scheduler!IInv' /\ returned' = returned /\ left' = left /\ enabled' = enabled
  BY <1>1, SchedulerStays DEF IInv, scheduler
<1>3. Shape' /\ Interruptions' /\ Phase'
  BY <1>1, <1>2 DEF IInv, Shape, Interruptions, Was, Held, Phase
<1>4. Suspended'
  BY <1>1, <1>2, SuspendedStays DEF IInv
<1> QED BY <1>2, <1>3, <1>4 DEF IInv

\* Every step keeps the invariant.
LEMMA NextIInv == IInv /\ [Next]_vars => IInv'
<1> SUFFICES ASSUME IInv, [Next]_vars PROVE IInv'
  OBVIOUS
<1>1. ASSUME NEW task \in Tasks, AddTask(task) PROVE IInv'
  BY <1>1, BootIInv
<1>2. CASE Activate
  BY <1>2, BootIInv
<1>3. ASSUME NEW value \in Data, Compute(value) PROVE IInv'
  BY <1>3, ComputeIInv
<1>4. ASSUME NEW l \in Lines, Interrupt(l) PROVE IInv'
  BY <1>4, InterruptIInv
<1>5. ASSUME UNCHANGED vars PROVE IInv'
  <2>1. Scheduler!IInv'
    BY <1>5, SchedulerStays DEF IInv, vars
  <2>2. returned' = returned /\ left' = left /\ enabled' = enabled
    BY <1>5 DEF vars, scheduler
  <2>3. UNCHANGED <<at, line, cpu, esp, memory, interrupted>>
    BY <1>5 DEF vars
  <2>4. Shape' /\ Interruptions'
    BY <2>3 DEF IInv, Shape, Interruptions, Was, Held
  <2>5. Suspended'
    BY <2>2, <2>3, SuspendedStays DEF IInv
  <2>6. Phase'
    <3>1. ASSUME NEW s PROVE Gated(s)' = Gated(s) /\ AsBefore(s)' = AsBefore(s)
      BY <2>3, Zenon DEF Gated, AsBefore, Was, Held
    <3>2. ASSUME NEW s, NEW pos PROVE Resumable(s, pos)' = Resumable(s, pos)
      BY <2>3, Zenon DEF Resumable, Framed, Gated, Was, Held
    <3>3. Peek(2)' = Peek(2) /\ \A s : Held(s)' = Held(s)
      BY <2>3, Zenon DEF Peek, Held
    <3> QED BY <2>2, <2>3, <3>1, <3>2, <3>3, Zenon DEF IInv, Phase
  <2> QED BY <2>1, <2>4, <2>5, <2>6 DEF IInv
<1>6. CASE Save
  BY <1>6, SaveIInv
<1>7. CASE Handle
  BY <1>7, HandleIInv
<1>8. CASE SwitchStack
  BY <1>8, SwitchStackIInv
<1>9. CASE Restore
  BY <1>9, RestoreIInv
<1>10. CASE Return
  BY <1>10, ReturnIInv
<1>11. CASE Fault
  BY <1>11, FaultIInv
<1> QED BY <1>1, <1>2, <1>3, <1>4, <1>5, <1>6, <1>7, <1>8, <1>9, <1>10, <1>11 DEF Next

\* The invariant holds in every state.
LEMMA Invariance == Spec => []IInv
  BY InitIInv, NextIInv, PTL DEF Spec

------------------------------------------------------------------------------
(* The theorems.                                                            *)

\* Registers and stacks hold words of the program, no stack is deeper than it
\* may be, and the pointers are pointers.
THEOREM TypeCorrect == Spec => []TypeOK
<1>1. IInv => TypeOK
  <2> SUFFICES ASSUME IInv PROVE TypeOK
    OBVIOUS
  <2>1. TM!TypeOK
    BY SchedulerSays DEF IInv
  <2>2. DOMAIN cpu = General \cup {"eip", "cs", "eflags"} /\ \A r \in DOMAIN cpu : cpu[r] \in Words
    BY DEF IInv, Shape, Registers
  <2>3. ASSUME NEW s \in Stacks
        PROVE  Len(memory[s]) <= Depth /\ \A i \in DOMAIN memory[s] : memory[s][i] \in Words
    BY DEF IInv, Shape
  <2> QED BY <2>1, <2>2, <2>3 DEF IInv, Shape, TypeOK
<1> QED BY <1>1, Invariance, PTL

\* int_bottom pops in the reverse order of its pushes and over the word of the
\* stub, and Schedule returns the pointer the frame was saved at: whoever was
\* interrupted goes on with all its registers and its whole stack.
THEOREM ResumeExactAlways == Spec => ResumeExact
<1>1. IInv /\ [Next]_vars =>
          [ at = "iret" /\ at' = "run" /\ interrupted[esp.stack].yet
                => /\ cpu' = interrupted[esp.stack].cpu
                   /\ InUse' = interrupted[esp.stack].words ]_vars
  <2> SUFFICES ASSUME IInv, [Next]_vars, at = "iret", at' = "run"
               PROVE  /\ cpu' = interrupted[esp.stack].cpu
                      /\ InUse' = interrupted[esp.stack].words
    OBVIOUS
  <2>1. Return
    BY DEF Next, vars, AddTask, Activate, Compute, Interrupt, Save, Handle,
           SwitchStack, Restore, Fault
  <2> QED BY <2>1, ReturnsExactly
<1> QED BY <1>1, Invariance, PTL DEF Spec, ResumeExact
==============================================================================
