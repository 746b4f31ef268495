# BatOS in TLA+

This directory models the kernel of BatOS, a small operating system for the
i386: its heap, its round-robin scheduler, the words an interrupt leaves on a
stack, the way a hardware interrupt reaches its driver and is acknowledged, the
scan of the PCI bus, the keyboard and the mouse driver with the controller they
share, the console that prints, the widgets that get the events, and the
graphics card they are drawn on. TLC checks the models on small instances; TLAPS
proves every property of them that is not one of liveness, for every value of
their constants, and what the boot code computes for every argument.

Paths below are relative to the repository (`src/multitasking.cpp`,
`include/multitasking.h`). `documentation.pdf` is the repository's own.

Contents: 1 the system, 2 modules, 3 runs, 4 fairness, 5 proofs, 6 where the
code and its documents part, 7 what is not modelled, 8 plan.

## 1. The system

There is one processor and no protection: `kernelMain` (`src/kernel.cpp`)
constructs everything on its stack, switches interrupts on and then loops for
ever. All that is concurrent comes from interrupts: the timer, which switches
tasks, the keyboard and the mouse. A handler runs with interrupts off.

| component | state | operations | correct when |
|---|---|---|---|
| Heap: `MemoryManager`, `operator new`, `delete` | the chunk list, `first`, `activeMemoryManager` | constructor, destructor, `malloc`, `free` | the chunks tile the heap, no two held blocks overlap, nothing leaks, `malloc` fails only when no chunk fits and always returns |
| Multitasking: `Task`, `TaskManager` | `tasks`, `numTasks`, `currentTask`, each task's `cpustate` | `AddTask`, `Schedule` | a saved state stays with its task and is the latest; each task runs again; the order is that of the table |
| Stubs and frames: `interruptstubs.s`, `CPUState` | registers, stacks | pushes, call, stack switch, pops, `iret` | interrupted code cannot tell that it was interrupted |
| `InterruptManager` and the two 8259 controllers | gates, `handlers[]`, the byte `interruptnumber`, IRR and ISR | constructor, registration, `Activate`, `Deactivate`, dispatch, acknowledgement | each interrupt is handled under its own number by a registered driver, and acknowledged as itself, once |
| Keyboard and mouse drivers, `DriverManager` | `Shift`, `offset`, `buffer`, `buttons`; the 8042 behind ports 60h and 64h | `Activate`, `HandleInterrupt` | bytes are not mixed up between the devices, packets are framed, a button's event is about that button |
| GUI: `Widget`, `CompositeWidget`, `Window`, `Desktop` | frames, `Dragging`, `focusedChild`, `MouseX`, `MouseY` | mouse and key events, `AddChild`, `GetFocus`, `Draw` | a dragged window stays at the mouse, keys go to what was clicked, what takes an event is what is seen |
| Console: `printf`, `MouseToConsole` | static cursor, screen memory | printing, pointer moves | the cursor stays on the screen |
| PCI controller | loop counters, the descriptor of the current function | `SelectDrivers` and what it calls | every function is found and shown as it is, a port is one of the device's |
| GDT, heap size | descriptor table | encoding, decoding | a descriptor decodes to what it was built from; the heap lies in memory |
| VGA | the card's registers, the frame buffer | `SetMode`, `PutPixel`, `FillRectangle` | after `SetMode` each register holds its byte of the table, whatever the card held; a rectangle is drawn in the screen's memory and nowhere else |
| Ports | none | `in`, `out` | (the devices behind them are modelled) |

How they interact:

- The gate of vector 20h + line leads to a stub, the stub to
  `handleInterrupt`, that to `DoHandleInterrupt`, which calls the registered
  handler, then for the timer `TaskManager::Schedule`, then writes the
  acknowledgement. The pointer `Schedule` returns becomes the stack pointer.
- The drivers register themselves with the interrupt manager in their
  constructors and call an event handler: the desktop, or the console's.
- The desktop hands events down a tree of widgets by position or focus, and
  widgets report focus up the tree.
- `operator new` and `delete` reach the heap through
  `MemoryManager::activeMemoryManager`; nothing in the kernel locks it.

What is hard to test here: the order of requests during boot; a number that
goes through one shared byte; an acknowledgement that names no line; stacks
that are switched half-way through a stub; a doubly linked list under every
order of calls; drags that leave the window; two drivers that poll one data
port while their devices send; a cursor in static variables under a caller and
its interrupts; a graphics card that ignores writes in the wrong order.
`PROJECT.json` lists these as hazards, each at its line, with the properties that cover them.

## 2. Modules

| module | models | role |
|---|---|---|
| `Allocator` | what callers of `malloc` are promised | abstract specification |
| `MemoryManager` | `memorymanagement.cpp` | implements `Allocator` |
| `RoundRobin` | the queue the scheduler promises | abstract specification |
| `TaskManager` | `multitasking.cpp` | implements `RoundRobin` |
| `ContextSwitch` | `interruptstubs.s`, `Task::Task`, `CPUState` | an instance of `TaskManager` and the words its pointers stand for, up to the first dispatch of a task |
| `Interrupts` | `interrupts.cpp`, the stubs' order of steps, the boot order of `kernelMain`, the 8259s | |
| `Pci` | `pci.cpp`, `addDriver` | part of `Drivers` |
| `Ps2` | `keyboard.cpp`, `mouse.cpp`, the 8042 and both devices | part of `Drivers` |
| `Drivers` | `driver.cpp` and what `kernelMain` does with it | composes `Pci` and `Ps2` |
| `Console` | `printf` and the console's event handlers in `kernel.cpp` | |
| `Gui` | `widget.cpp`, `window.cpp`, `desktop.cpp` | part of `Graphics` |
| `Pixels` | which pixels `FillRectangle` puts, and where | operators, part of `Vga` |
| `Vga` | `vga.cpp` and the card | part of `Graphics` |
| `Graphics` | what `kernelMain` does with `GRAPHICSMODE` | composes `Gui` and `Vga` |
| `Boot` | `gdt.cpp`, the size of the heap in `kernelMain` | operators, with theorems |
| `MemoryManagerProofs`, `TaskManagerProofs`, `ContextSwitchProofs`, `InterruptsProofs`, `DriversProofs`, `ConsoleProofs` | | theorems |
| `GuiProofs` | | theorems about `Gui`, `Vga` and `Graphics` |
| `MC*` | | constants for TLC |

**MemoryManager.** `mem` maps the address of each header to the header; a
header that a merge swallows leaves the domain of `mem`, so a stale pointer has
no value to follow. One iteration of `malloc`'s loop is one step (`Advance`,
`Take`, `Fail`), `free` with both merges is one step (`Free`), which is enough
because nothing re-enters it today. `size_t` wraps at `Word`, as `Wrap` says of
the sum in the test for a split (line 45); it never does, since the line is only
reached after `Fits`. `held` is history: what callers have and
how much they asked for. Callers free only what they hold.

**TaskManager.** A pointer to a saved state is a stack and a position on it;
`Timer(pos)` is one tick, `sp` the pointer the processor goes on with.
`left` is history: where each stack's state was saved last. `AddTask` is only
possible before interrupts are on, as in the lines of `kernelMain` that call it
(they are commented out). A full table makes `AddTask` return false and change
nothing, which is a stuttering step here.

**ContextSwitch.** Adds to `TaskManager` the registers and every word of every
stack. `Interrupt`, `Save`, `Handle`, `SwitchStack`, `Restore` and `Return` are
the stretches of a stub in order; `Compute` is any instruction of whoever runs.
`Fault` is the processor's refusal of a code segment that is none. After it
the exception's gate leads to a bare `iret` and the processor is lost, which is
why the two runs do not check for deadlock. The scheduler's part of every step
is a step of `TaskManager`. But since every first dispatch ends in that fault
(section 6), no tick ever follows a switch as the code stands: what `TaskManager`
says of tasks that run, and its assumption that `Schedule` then gets a pointer
into the running task's own stack, is about the code once the frame is repaired,
and `ContextSwitch` does not put it to the test.

**Interrupts.** `requested` and `inService` are the IRR and ISR of both
controllers, in one set of lines; the operators of the first section are the
controllers' priority rules. `calls` is the stack of interrupts being handled,
each at its place in the stub or in `DoHandleInterrupt`; `kernel` is the next
statement of `kernelMain` that matters. A request may come at every moment after
the controllers are initialised; it is latched while IF is clear.

**Pci.** `scan` is where the nested loops of `SelectDrivers` stand; `Arrive`,
`Describe`, `ProbeBar`, `List` and `LeaveSlot` are their bodies. A register is a
pair of 16-bit halves and `Read` cuts and shifts as the code does. What sits in a
slot is chosen when the scan gets there. A field of a result that the code
returns without setting it has any value of a small set: `OnStack` is what lay
there.

**Ps2.** `out` is the queue of bytes at the data port 60h, each with its origin
(which no driver can see; only the mouse's bytes are told apart, by bit 5 of the
status). `mode` is the controller's command byte. `Activate` of each driver is a
list of accesses (`Accesses`), and between any two of them a device may send:
`Type` a key, `SendPacket` the next byte of a packet, `Acknowledge` its 0xFA.
A handler is one step, since interrupts are off in it. `misread`, `stolen` and
`reported` are history: that a driver took another byte for the controller's
answer; that a driver took a byte of the other's device, or an acknowledgement,
for one of its own; and which buttons the mouse's handler was told are down.
Of the hardware the model assumes: the controller answers its own commands at
once; bytes come to the port in the order they were sent; bit 5 is 0 once the
byte is read; a command to a device starts its clock; a latched request may
outlive the byte that made it, or not; a key's release is its code plus 128, and
no two keys have the same code; bit 3 of the command byte, which has no meaning,
is 0.

**Drivers.** `kernel` is the next statement of `kernelMain`: the two calls of
`addDriver`, the scan, `ActivateAll`, and `sti`. `todo` is what the running
`Activate` functions still have to do, in the order of the manager's table.

**Console.** `kernelMain` prints a message after `sti`. `pc` is its place in
`printf`, one action for each load or store of the static `x` and `y` and of a
screen cell: the flags of the makefile turn no optimisation on, so every use is
an access. `OnKeyDown` and `OnMouseMove` are the handlers, one step each. Of a
cell the model keeps whether its colours are swapped, since `printf` and the
pointer keep everything else of it. `marred` is history: the cells `printf` was
about to store (`Target`) when a handler changed what it had loaded for them, be
it the cell's colours or the cursor. What is wrong in such a cell may stay so; the
colours of others go on to be right; the model follows them up to `MaxMarred`
cells, and beyond it counts all cells as marred. `start` is the cursor the message
began at.

**Vga.** `place` is where `SetMode` is; one iteration of a loop of
`WriteRegisters` is one step, `registers` its pointer into the table. The card is
external: four controllers, each with an index register and data behind it, of
which the CRT controller protects its first eight registers by bit 7 of register
0x11, and the attribute controller takes index and data at one port by turns.
`kernelMain` alone uses its ports, so nothing comes between the accesses of one
step. What the value of a register makes the card do is left out, but for the
protection and for the segment in register 6 of the graphics controller, which
every pixel reads (`GetFrameBufferSegment`). Which pixels a rectangle has, and at
which addresses, are operators of `Pixels`, in the widths of the code: `Half` is
2^31.

**Graphics.** `kernelMain` with `GRAPHICSMODE` defined: `SetMode`, then the
windows are added and the interrupts activated, then the desktop is drawn again
and again while events move its windows. A pixel is a step, since an interrupt
may come between any two; it changes the card's selected register and no state
of the widgets, and the events leave the card alone.

**Boot.** No state: the constructor of a segment descriptor with `Base` and
`Limit`, which take it apart again, and the 32-bit subtraction that sizes the
heap. A byte of `target[]` is a field `t0` to `t7`; shifts and masks are
quotients and remainders.

**Gui.** An event is one step, because a handler is not interrupted. The tree
is the desktop, its windows in the order of `AddChild`, and one control in each.
`told` is history: which widgets the last event called, and by which method;
`pressed` is the window whose control was called `OnMouseDown` last. `Drawn`
and `Seen` say where `Draw` puts pixels. The constructor of a composite widget
leaves `numChildren` and `focusedChild` as the memory was: the initial states
have it zero or not, and only a zeroed desktop goes on.

## 3. Runs

Seven runs pass and five end in a counterexample (section 6).

| run | instance | states | shows |
|---|---|---|---|
| `heap` | heaps of 1, 2 and 13 bytes, headers of 2, sizes 0-3 and 31, word 32 | 348 thousand | every order of construction, `malloc`, `new`, `free`, `delete` and destruction |
| `tasks` | 3 tasks, a table of 4, 2 positions | 4.8 thousand | tables that are empty, partly filled and full, one task in several rows |
| `interrupts` | lines 0, 1, 12 (wired), 3, 14 (ignored), `Deactivate` allowed | 13 thousand | right number, registered driver, own acknowledgement; while only wired lines are raised, none stays in service and every request is handled |
| `context` | 2 tasks, kernel, 2 lines, 2 data values, stacks of 13 words | 7.3 thousand | exact resumption |
| `gui` | the code's table, a card left in 8 states, 10-bit integers; 2 windows, 4 by 2 pixels, 2 buttons, 4 moves | 476 thousand | `SetMode`, then dragging, focus, the mouse on the desktop, who is told of a press, and where the windows are drawn |
| `drivers` | 2 buses of 2 slots, 4 cards of 2 functions, 2 packets, both shift keys, 4 key events, 3 packets, 2 bytes under way | 306 thousand | what reaches each driver, from the first `addDriver` to the handlers |
| `console` | a screen of 4 by 2, `int8_t` from -4 to 3, a message of 3 characters, 3 texts, 3 moves, 1 marred cell | 174 thousand | `printf` under its interrupts, the pointer |

What the properties say, beyond the type invariants:

- `HeapTiled`: the chunks, followed by `next`, tile the memory, and `prev`
  agrees. `Coalesced`: two neighbours are never both free. `HeldIntact`: the
  allocated chunks are exactly the blocks held, each large enough.
  `NothingLeaks` (proved only): with all blocks back the heap is one free chunk.
  `FailsOnlyWhenFull`, `MallocReturns`: about each call. `MallocNearsItsEnd` (proved
  only): each iteration of its loop goes on by a header or more. `CallersSpec`: the
  list implements `Allocator`.
- `OwnStack`: the stack that runs is the current task's. `NothingLost`: whoever
  runs, and whoever waits, is resumed where it was left. `NoTaskStarves`: each
  listed task runs again and again. `InTurn` (proved only): each tick brings each row of the
  table one nearer to its turn, which comes within as many ticks as there are
  rows. `QueueSpec`: the table implements `RoundRobin`.
- `RightNumber`, `DriverReady`, `EndsOnlyItsOwn`, `NoneLeftInService`,
  `Served`: see their comments in `Interrupts`.
- `ResumeExact`: registers, flags and stack words after `iret` are those before
  the gate, for code that was interrupted. As the code stands that is
  `kernelMain`'s: at any interrupt before the first tick that finds a task, and at
  every one while the table is empty.
- `DragKeepsGrip`: a window moves only while dragged, and so that the point
  held stays under the mouse, at the edges of the desktop too.
  `FrontDragHolds`: the mouse cannot leave the front window while it drags it.
  `KeysToLastPressed`: a key, pressed or released, reaches the control that was
  told of a press last, and no other; by which of the two methods is not its
  subject (section 6). `FrontIsTold`: a press reaches the window that is seen under
  the mouse, but for the column and the windows section 6 names.
- `PortBaseReal`: a port is in a register of its device that says it is one, not
  what lay on the stack, which is what `GetBaseAddressResister` returns as the
  address of a memory register.
- `BothInterrupt`: after activation the mouse runs and interrupts, whatever the
  drivers took for the controller's answers; and so does the keyboard unless a
  driver misread the mode. `PortDrains`: then no byte stays at the port.
  `InStep`: the mouse driver's count of bytes is the mouse's, whatever came
  while it was activated; unless a driver took another's byte.
  `NoStuckShift`: Shift does not outlast both keys. `ByteAnnounced`: the byte that
  waits at the port has its request latched, so that no interrupt is lost; a byte of
  the mouse always, one of the keyboard unless a driver misread the mode.
  `EveryInterruptTakes` (proved only): as long as bytes wait a handler takes one,
  unless a driver misread the mode.
- `InReach`: no store of `printf`, whoever interrupts it, leaves the screen and
  the row after it. `OnePointer`: one cell has its colours swapped, the
  pointer's; only the very cell `printf` holds may come out otherwise, when the
  pointer goes to or from it or a key moves the cursor. `PrintsAsWhole`: when no key
  comes, `printf`'s steps are the handlers' `printf` in one. `PrintfReturns`: the loops
  that count with the shared cursor end. `PrintfNearsItsEnd` (proved only): each
  access brings `printf` nearer to its end, in an order that cannot fall for ever, from
  whatever the keys made of the cursor. `PointerFollows`: the pointer does not
  go back when the mouse goes on, but for the `int8_t` that wraps.
- `EachRegisterSet`: when `SetMode` returns each register holds its byte of the
  table, although some ignore writes while they are protected and the attribute
  controller's turn is not known. `DrawnOnScreen`: wherever a window is dragged,
  it is drawn in the 64000 bytes of the screen, where it is on the screen, and
  nowhere else; of one that begins left of it or above it, nothing.

Five are marked as proved only. No run checks them, though TLC found each to hold
on the instance of its module's run before it was proved: four are the safety
part of a liveness property that a run checks, and `NothingLeaks` is a consequence
of `HeapTiled` and `Coalesced`.

Why the bounds are enough:

- `heap`: 13 bytes are room for four chunks, so a chunk with neighbours on
  both sides, and a third beyond, occurs with each combination of free and
  taken. Requests of 0 to 3 bytes cut a chunk, cut it exactly and fail to cut
  it; 31, the largest 5-bit size, fits nowhere, so that line 45, whose sum it
  would wrap, is not reached with it. A heap of 1 byte has no room for
  a header, and one of 2 has nothing behind it. The header is 2 bytes instead
  of 16: the code uses its size only in sums and comparisons.
- `tasks`: the table has more rows than tasks, so that it can be full and hold
  a task twice; two positions tell a fresh pointer from a stale one.
- `interrupts`: a wired line on the slave and two on the master, one of them
  the most urgent, and one ignored line on each controller, which left in
  service holds back the less urgent lines of its side and not the others.
- `context`: 13 words hold the 12 of a built frame, or an interrupt's 11 on
  top of two words of the interrupted code, which may be one of two values. It
  is one level deep because interrupts stay off up to `iret`.
- `gui`: the windows overlap in part, one of them as high as the desktop; moves
  cross a window at once, hit the edges, are too small to move after the
  division by 4, and go off in both directions. Windows may leave the desktop
  by being dragged, a window may be added twice, and either may be in front.
  For the card, the former states have the registers clear or all set, which
  protects those of the CRT controller, and either turn at the attribute
  controller's port. The windows come to begin beyond the left and the upper edge
  of the screen, and at them; integers of 10 bits hold the screen and the sums as
  32 bits do, and a position left of the screen is still large as an unsigned one.
  That a window reaches over the right or the lower edge of the 320 by 200 pixels is
  left to the proof.
- `drivers`: the cards are one with an I/O port, one with memory only, a
  bridge, and the first of several functions; each may be in each slot, beside
  each other in the function it does not claim, or absent. Two bytes under way
  let an acknowledgement or a scan code be before, behind or in place of an
  answer; two packets tell a shift of one byte from a shift of two; a packet's
  first byte can be a shift key's code. Four key events are both keys pressed
  and released. Both firmware modes were chosen so that each driver has a bit to
  set and one to clear.
- `console`: the cursor starts in each cell, so the message and the keys between
  its accesses end lines and clear the screen at each place. Width and `Half`
  stand to each other as 80 and 128 do, height and `Half` as 25 and 128: half of
  the largest move wraps to the right, and does not downwards. With one marred cell
  the colours of all the others are followed on; a second marred cell ends that,
  for which the theorem stands.

`CHECK_DEADLOCK` is off for `ContextSwitch` (the processor may be lost), for
`Graphics` (a desktop whose memory was not zero is not followed) and for `Drivers`
(with its bounds used up and its interrupts off, nothing more comes). The others are
checked for deadlock.

Every property of a passing run has a mutant in `PROJECT.json`: a change of one
definition such as a slip in the code would make (a missing merge, a swapped
pop, an acknowledgement to the wrong controller) under which TLC finds it
violated.

## 4. Fairness

- `MemoryManager`: `WF(Advance \/ Take \/ Fail)`: a loop without a blocking
  call goes on. Calls themselves are not fair: nobody need ever allocate.
- `TaskManager`: weak fairness of the tick. The timer chip is periodic and
  `kernelMain` never switches interrupts off again.
- `Interrupts`: weak fairness of the kernel's own statements and of the stubs'
  steps, which are instructions in sequence. Strong fairness of taking an
  interrupt of a line a device uses: the processor looks at its interrupt pin
  between any two instructions while IF is set, but IF is clear during handlers,
  so the chance is recurring and not lasting. Nothing makes a device raise a
  request. `Served` further assumes that the kernel's own code runs again
  and again with interrupts on and no more urgent request pending: with a
  timer that asks faster than its handler runs the mouse would starve under the
  controllers' fixed priorities, in this kernel as in any.
- `Drivers`: weak fairness of `kernelMain`'s statements and of the handlers: a
  latched request is taken, since in its loop the kernel has interrupts on for
  good and a handler is one step. The devices need send nothing.
- `Console`: weak fairness of `kernelMain`'s steps of `printf`: it goes on
  between interrupts. `PrintfReturns` further assumes that keys do not come for
  ever: each may reset the counters of the clearing loops.
- `ContextSwitch` and `Graphics` claim safety only.

## 5. Proofs

Every property that a passing run checks and that is not a liveness property is
a theorem. The proof modules prove them from the assumptions named in the
modules, each of which the code's values fulfil:

- `MemoryAssumption`: a start and a header size above 0, a header smaller than
  the word, heaps that end within it.
- `TaskAssumption`: the kernel is no task, the table has a row, tasks are built
  at a valid position.
- `FrameAssumption`: the same, a stack has room for a built frame, the timer has
  a line, and the flags with interrupts on are neither those with interrupts off
  nor the code segment's selector.
- `InterruptAssumption`: a device's line is one of the 16 and not the cascade's.
- `PciAssumption`: there is a bus, a slot and a function; registers are two
  16-bit halves.
- `Ps2Assumption`: packets are three bytes; a key's release is its code plus 128;
  bit 3 of the firmware's command byte is 0; a byte fits on the way.
- `ConsoleAssumption`: the screen has a cell, and `int8_t` reaches over a line
  and over two screens' height, as 127 does over 80 and over 25.
- `PixelAssumption`, `VgaAssumption`: the screen fits into an `int32_t`;
  the table is 61 bytes, and the controllers hold bytes.
- `GuiAssumption`: frames are rectangles, the desktop has a pixel, a move is an
  `int8_t` in each direction.

| theorem | states |
|---|---|
| `MemoryManagerProofs!TypeCorrect` | `Spec => []TypeOK` |
| `TiledAlways`, `CoalescedAlways`, `HeldIntactAlways` | `HeapTiled`, `Coalesced`, `HeldIntact` |
| `NothingLeaksEver` | `NothingLeaks` |
| `FailureJustified`, `MallocNearsItsEndAlways` | `FailsOnlyWhenFull`, `MallocNearsItsEnd` |
| `ImplementsAllocator` | `Spec => CallersSpec` |
| `TaskManagerProofs!TypeCorrect` | `Spec => []TypeOK` |
| `OwnStackAlways`, `NothingLostEver` | `OwnStack`, `NothingLost` |
| `InTurnAlways` | `InTurn` |
| `ImplementsRoundRobin` | `Spec => QueueSpec` |
| `ContextSwitchProofs!TypeCorrect` | `Spec => []TypeOK` |
| `ResumeExactAlways` | `ResumeExact` |
| `InterruptsProofs!TypeCorrect` | `Spec => []TypeOK` |
| `RightNumberAlways`, `DriverReadyAlways` | `RightNumber`, `DriverReady` |
| `EndsOnlyItsOwnAlways` | `EndsOnlyItsOwn` |
| `NoneLeftInServiceAlways` | `NoneLeftInService` |
| `DriversProofs!TypeCorrect` | `Spec => []TypeOK` |
| `PortBaseRealAlways` | `PortBaseReal` |
| `BothInterruptAlways` | `BothInterrupt` |
| `InStepAlways` | `InStep` |
| `NoStuckShiftAlways` | `NoStuckShift` |
| `ByteAnnouncedAlways`, `EveryInterruptTakesAlways` | `ByteAnnounced`, `EveryInterruptTakes` |
| `ConsoleProofs!TypeCorrect` | `Spec => []TypeOK` |
| `InReachAlways`, `OnePointerAlways` | `InReach`, `OnePointer` |
| `PrintsAsWholeAlways`, `PointerFollowsAlways` | `PrintsAsWhole`, `PointerFollows` |
| `PrintfNearsItsEndAlways` | `PrintfNearsItsEnd` |
| `GuiProofs!TypeCorrect` | `Spec => []TypeOK` |
| `FrontDragHoldsAlways`, `DragKeepsGripAlways` | `FrontDragHolds`, `DragKeepsGrip` |
| `KeysToLastPressedAlways`, `FrontIsToldAlways` | `KeysToLastPressed`, `FrontIsTold` |
| `GraphicsImplements` | `GraphicsSpec => Spec /\ VgaSpec` |
| `VgaTypeCorrect`, `GraphicsTypeCorrect` | `VgaTypeOK`, `GraphicsTypeOK` |
| `EachRegisterSetAlways` | `EachRegisterSet` |
| `DrawnOnScreenAlways` | `DrawnOnScreen`, for a table that puts the frame buffer at 0xA0000 |
| `OneByteEach` | each pixel has a byte of its own |
| `FilledIsPut` | the loops over `uint32_t`, cut by `PutPixel` of `int32_t`, put what is on the screen of a rectangle, or nothing of one that begins left of it or above |
| `DrawnIsPut` | `Drawn`, on which `FrontIsTold` rests, is what `FillRectangle` puts |
| `BytesFit`, `BaseKept`, `LimitKept` | a descriptor decodes to its base and to its limit, cut to whole pages beyond 64 KB |
| `HeapInMemory`, `HeapBeyondMemory` | when the size of the heap is right, and when it wraps |

*Heap.* The inductive invariant is `TypeOK`, `HeapTiled`, `Coalesced`,
`HeldIntact`, and two parts that are not properties of their own: `Stages`
(what is empty before the constructor, and that the end of the heap does not
exceed the word, from which `NoWrap` has that the sum of line 45, reached only
with a request that fits, does not wrap) and
`Passed` (the chunks `malloc`'s loop has passed do not fit, from which
`FailsOnlyWhenFull` follows when the loop reaches the end). Each of the three
changes to the list, a split, a merge and a change of the mark, has a lemma
that says what it keeps; `free` is their composition, and the lemma about it
follows the two merges through the chunk that survives the first. That the heap
is one chunk at the end is proved without induction over the list: with nothing
held all chunks are free, and two neighbours are never both free, so the first
has no successor. That blocks do not overlap is proved from the tiling.

*Scheduler.* The inductive invariant is `TypeOK`, `OwnStack`, `NothingLost`
and `NotYet` (no task is current before interrupts are on). The refinement maps
the queue to the rows after `currentTask`, in a circle; the lemmas about
`Upcoming` say what adding a row and advancing the index do to that sequence,
with the library's theorems on sequences. `InTurn` needs only that the index stays
in the table (`TickTurns`).

*Stubs and frames.* The scheduler's part of a step is a step of `TaskManager`, so
the invariant of `TaskManagerProofs` is carried over to `ContextSwitch` by an
instance of that module (`SchedulerAssumption`, `SchedulerInit`,
`SchedulerNext`) and never proved again. It says which pointer `Schedule` will
return; the rest of `IInv` says what lies there. `Suspended`: every stack but
that of whoever runs holds a whole frame on top of the words that were in use,
or the frame it was built with. `Phase`: how much of the frame of the stack in
use is there at each place of the stub. `Interruptions`: what was interrupted
had interrupts on, from which follows that there is one frame on a stack and not
two. `ResumeExact` is then what `iret` finds. The invariant covers every stack,
but a task faults when it is first dispatched (section 6), so the frames that are
in fact returned to are `kernelMain`'s.

*Interrupts.* None of the properties is inductive: each depends on there being
one call at a time, and `EndsOnlyItsOwn` on the order in which the controllers
deliver. `IInv` adds to `TypeOK` how far `kernelMain` has come (`Booted`), that
IF is clear while an interrupt is handled and comes back with its `iret`
(`OneCall`), that the number stored, pushed and dispatched is the line's
(`Numbered`), and that until it is acknowledged an interrupt is the most urgent
in service on its controller, with the cascade the most urgent on the master
for one of the slave (`Leading`). The controllers establish `Leading` when they
deliver (`DeliveredLeads`), nothing is delivered before the acknowledgement, and
`EndOfLeader` turns it into what 0x20 ends. Lines whose gates ignore them may
stay in service all the while: they are less urgent than whatever is delivered
beside them. `NoneLeftInService` needs more, and only under its premise: by
`Settled`, what is in service is what the one call still has to acknowledge.

*Drivers.* The scan and the two drivers have an invariant each, `ScanInv` and
`Ps2Inv`, since `SelectDrivers` leaves the devices alone. `ScanInv` needs that a
port base is set only while the registers of a function are read.
`Ps2Inv` follows the 13 accesses of both `Activate` functions: `Progress` says
that what is left of them is the end of `Order`, and `ModeKept(left)` and
`ModeRight(left)` say which bits of the command byte, and of the byte that will
be written to it, are right when `left` accesses are left, the first whatever was
read, the mouse's bits among them, and the second as long as nothing was misread;
an answer that waits at the port is then the only one, and is the command byte. `Quiet(left)` says that the
mouse sends no packet before it was told to report, and acknowledges first: the
last `Read` of `Activate` never takes a byte of a packet. The arithmetic of bits
is proved once, for a byte put together from its bits (`MadeOf`, `AllMade`,
`WithBit`, `WithoutBit`). `NoStuckShift` rests on `Keyed`: behind each code of a
shift key that is under way comes its release, unless a shift key is still held;
and a byte that a stale request could read once more came from a key still held.

`InStep` has an invariant of its own beside that one. `Framing` says that there
is a sequence of packets of which the driver's buffer, the bytes at the port and
the bytes the mouse has still to send are consecutive parts: `Framed(g)`, with `g`
from the packet on that the driver is reading. A new packet makes `g` longer
(`FramingReported`), the third byte of one drops it from the front
(`FramingHandled`). Bytes are placed by counting the mouse's bytes before them, and
the lemmas about `Before` say what happens to the counts when a byte joins those
that wait, or the first is taken.

`ByteAnnounced` has one too, `Announced`, which holds once the first access of
`Activate` has drained the port: whatever is at the head of the port has its request
latched, if the mode lets it make one. A byte makes its request when it comes to the
head, be it that the port was empty or that the byte before it was taken; the one
step that changes what makes requests, the write of the command byte, latches what
waits. `EveryInterruptTakes` follows: a byte of the keyboard at the head has line 1
latched, which the controllers deliver first, so that the mouse's handler, which
looks at bit 5, meets none but its own.

*Console.* `IInv` is `TypeOK`, `OnePointer`, and three parts about `printf`'s
place. `Within`: the cursor is past a line or past the screen only at the places
between an increment and its test; with it every index is in reach although each
handler may move the cursor between any two accesses, because a handler's
`printf` always leaves it on the screen. `Loaded`: the colours `printf` holds are
still those of `Target`, the cell it will store, or that cell is marred. `OnTheWay`: while no key was printed, the characters that are
left take the cursor from where it will be (`Ahead`) to where the whole message
takes it, so that `Printed` is unfolded by one character at a time and no
induction over the message is needed. `PointerFollows` is an action property and
follows from the range of the pointer: half of an `int8_t` added to it.
`PrintfNearsItsEnd` has a measure of six numbers in the order of words: the
characters that are left and the statements of the current one, then for each of
the nested loops of the clearing its rounds that are left and the statements of
the round. A key that moves the cursor may make it larger; every access of
`printf` makes it smaller from wherever it is.

*GUI.* `IInv` is `TypeOK`, the three invariants, `FocusAgrees` (the desktop's
`focusedChild` is the window whose control was pressed last, and that window has
a focused control), and that nothing is dragged or told before interrupts are on.
`MoveSteps` says what a move does: the mouse stays on the desktop, and each
window stays or is moved once, and then by as much as the mouse, which is held
back at the edges before the windows are told. `FrontDragHolds` follows since the
front window is hit wherever it contains the mouse (`FrontIsHit`), so that it is
told of the move; `DragKeepsGrip` is `MoveSteps` read as a step. `FrontIsTold`
rests on `HitIsSeen`: the child that `ContainsCoordinate` finds first is the one
that `Draw` shows, with the two exceptions of section 6.

*VGA.* `VInv` says, beside the types, where the pointer into the table is
(`InTable`), that `WriteRegisters` changed its two bytes of the table between the
first loop and the second (`TableKept`), that the registers written so far hold
their bytes (`Held`), and that nothing is protected while the CRT controller's
registers are written (`Open`): neither by the state the card was in, nor by the
loop itself when it comes to register 0x11. `WrittenStores` says that an iteration
stores its byte where it should, whatever index was selected and whoever's turn it
was. `DrawnOnScreen` rests on `LoopSpan`: on each axis, and for every rectangle
within `int32_t`, what a loop over `uint32_t` comes to and `PutPixel` of `int32_t`
lets pass is the part of the rectangle on the screen, or nothing. `FilledIsPut` and
`AddressesShown` put the axes together. That a window stays within `int32_t` is its
premise: a drag adds what the mouse moves to an `int32_t`, and no test bounds it.

*Graphics.* Each step of `kernelMain` or of an event is a step of one part and
leaves the other alone, so the composition implements both
(`GraphicsImplements`), and what was proved of `Gui` and of `Vga` holds of it.

*Boot.* Arithmetic on quotients and remainders; `StoredFits` says that a stored
limit has 20 bits, which is why the marks in the upper half of byte 6 stay clear
of it. `HeapInMemory` gives `kernelMain` the part of `MemoryAssumption` that is
about its heap: that it ends within the word.

Only model-checked: liveness (`MallocReturns`, `NoTaskStarves`, `Served`,
`PortDrains`, `PrintfReturns`), since the prover has no rule for fairness that
its backends can apply. Of four of them the part that is safety is proved: `malloc`
comes nearer to the end of the heap with every chunk it passes, a task
comes nearer to its turn with every tick, a byte at the port has its interrupt and
every interrupt takes one, `printf` comes nearer to its end with every access. What the recursive operators compute for every
input (`Printed` of a whole message, `FlattenSeq` of more than two lists) is
not proved either: the library's induction theorems take an operator as a
parameter. The theorems above need one step of `Printed` and a pair of lists.

## 6. Where the code and its documents part

Five runs end in a counterexample to something the repository says.

- `ignored_irq` (`ServedBesideOthers`): all 16 lines are unmasked, but all gates except three
  lead to a bare `iret` that acknowledges nothing. One interrupt of a disk
  shuts out the mouse for good.
- `first_dispatch` (`FirstDispatchAtEntry`): the stub pops one word more than
  `Task::Task` lays out, because the member `error` of `CPUState` is commented
  out. A new task faults at its first dispatch. The tasks of `kernelMain` are
  commented out as well. `ResumeExact` and `TaskManager` hold all the same:
  they are about frames that an interrupt left, and about pointers.
- `gui_press` (`ToldAsItIs`): a composite's `OnMouseDown` calls `OnMouseUp` of
  its child and the other way round, so that a window is dragged by releasing
  the button on it and dropped by pressing.
- `pci_listed` (`ListedAsPresent`): `Read` cuts a register to 16 bits before it
  shifts, so fields in an upper half read as 0: every function is printed with
  device number 0, and no device is seen to have several functions.
- `mouse_buttons` (`ButtonsAsTheyAre`): a logical `&&` where a bit is meant. The
  first packet is told as a press of all three buttons, and no release or press
  is ever told after it.

What the passing properties leave open, because the code does it and no
document of the repository says otherwise:

- `FrontIsTold`: the leftmost column of a window is drawn but takes no events
  (`this->x < x` against `this->y <= y` in `ContainsCoordinate`); they go to the
  window behind. A window dragged over the left or upper edge is not drawn at
  all, since `FillRectangle` counts in `uint32_t`, but still takes events.
- `BothInterrupt`, `ByteAnnounced`, `PortDrains`: the keyboard's acknowledgement of
  0xF4 can come before the controller's answer to the mouse driver, which then takes
  0xFA for the command byte: the keyboard's interrupt is off, its bytes stay at the
  port and the mouse cannot send. What the first two say of the mouse holds then
  too.
- `KeysToLastPressed`: `CompositeWidget::OnKeyUp` calls its child's `OnKeyDown`
  (`src/gui/widget.cpp`, line 170), so that a control is told of a release as of a
  press. The model does so; the property speaks of who is told, not by which
  method, and would hold of the corrected code.
- `InStep`: the mouse's own acknowledgement, when it comes after `Activate` has
  read the port, is taken for the first byte of a packet; a stale request of
  line 1 may hand a byte of the mouse to the keyboard driver. Every packet after
  is read shifted, for nothing sets the count right.
- `OnePointer`: a pointer that goes to or from a cell between `printf`'s load and
  store of it leaves that cell swapped, or the pointer invisible, from then on; and
  a key between them has the colours of one cell stored to another. The property
  says that it is that cell and no other.
- `HeapBeyondMemory`: with less than 10250 KB above the first megabyte the size
  of the heap wraps, and `malloc` hands out addresses without memory.
- `PointerFollows`: from a column beyond 64 a fast move to the right takes the
  `int8_t` below zero and the pointer to the left edge.

## 7. What is not modelled

- The multiboot structure, of which `kernelMain` reads one word, and the
  static constructors `loader.s` calls. The two selectors of the GDT, which are
  the offsets of two members, and `lgdt`.
- `PeripheralComponentInterconnectController::Write`, `Driver::Reset` and
  `Driver::Deactivate`: nothing calls them. `GetDriver` has its drivers commented
  out and returns none, as in the model.
- The keyboard's and the mouse's errors (resend, self test) and prefixed scan
  codes: the code does not look at them.
- What the values of the VGA's registers mean, scan-code tables, port instructions
  and screen contents: data without control. `GetColorIndex` is among them; a
  reader of it sees that the line commented "// red" (`vga.cpp`, line 134) asks for
  purple, so that the red of `kernelMain`'s first window is drawn black.
- The first branch of `InterruptManager::Activate` (`interrupts.cpp`, lines
  107-109), for a manager that is active already: there is one manager, and
  nothing activates it while it is active.
- `InterruptHandler::~InterruptHandler`: the drivers live in the frame of
  `kernelMain`, which never returns.
- Exceptions of the processor other than the one of a first dispatch. Their
  gates are `IgnoreInterruptRequest` too.
- Overflow of a stack. How deep the C code goes is not in the source; `Depth`
  bounds the stacks of `ContextSwitch`.
- Spurious interrupts of the 8259 (lines 7 and 15): the model's requests are
  held until they are taken.
- Preemption of `malloc` and `AddTask` by the timer or a handler: none of the
  code's handlers allocates, and `kernelMain` adds no task, so the interleaving
  waits for the composition below.
- A composite widget whose `numChildren` is not zero when its constructor ends:
  what follows is an index outside an array.

## 8. Plan

1. `Kernel`: `Interrupts` composed with `TaskManager`, a switch between an
   interrupt's dispatch and its acknowledgement included, once tasks are added.
2. Proofs: a register's offset and the address of a configuration word in `Pci`.
