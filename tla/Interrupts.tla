------------------------------ MODULE Interrupts ------------------------------
(***************************************************************************)
(* How a hardware interrupt reaches its driver and is acknowledged: the    *)
(* InterruptManager of interrupts.cpp, the stubs of interruptstubs.s, the  *)
(* interrupt flag and gates of the processor, and the two 8259 interrupt   *)
(* controllers (external), down to the steps between which another         *)
(* interrupt could arrive.  A vector is named by its request line:         *)
(* hardwareInterruptOffset + line.                                         *)
(***************************************************************************)
EXTENDS Integers, Sequences, FiniteSets

CONSTANTS
    Devices,        \* request lines that may be raised
    MayDeactivate   \* whether InterruptManager::Deactivate is called

Lines == 0 .. 15
TimerLine == 0
KeyboardLine == 1
MouseLine == 12
Cascade == 2        \* where the slave controller asks the master

ASSUME InterruptAssumption ==
    /\ Devices \subseteq Lines \ {Cascade}
    /\ MayDeactivate \in BOOLEAN

VARIABLES
    requested,  \* lines latched by the controllers, not yet delivered (IRR)
    inService,  \* lines delivered and not yet acknowledged (ISR)
    iflag,      \* the processor's interrupt flag
    idt,        \* interruptDescriptorTable: what each line's gate points to
    handlers,   \* InterruptManager::handlers, the entries that are not 0
    active,     \* ActiveInterruptManager is the manager, and not 0
    interruptnumber,    \* the byte in which a stub leaves its number
    calls,      \* the interrupts being handled, the innermost first
    kernel      \* the next statement of kernelMain that matters here

vars == <<requested, inService, iflag, idt, handlers, active, interruptnumber,
          calls, kernel>>

------------------------------------------------------------------------------
(* The 8259 controllers (external).                                         *)

Master == 0 .. 7
Slave == 8 .. 15

First(S) == CHOOSE l \in S : \A k \in S : l <= k

\* The slave asks the master when it holds a request more urgent than all it
\* has in service.
SlaveAsks ==
    /\ requested \cap Slave # {}
    /\ \A k \in inService \cap Slave : First(requested \cap Slave) < k

Asking == (requested \cap Master) \cup (IF SlaveAsks THEN {Cascade} ELSE {})

\* The controllers interrupt the processor.
Intr ==
    /\ Asking # {}
    /\ \A k \in inService \cap Master : First(Asking) < k

\* The line they deliver then.
Delivered ==
    IF First(Asking) = Cascade THEN First(requested \cap Slave) ELSE First(Asking)

\* Writing 0x20 to a controller ends its most urgent interrupt in service.
EndOf(controller) ==
    IF inService \cap controller = {} THEN inService
    ELSE inService \ {First(inService \cap controller)}

\* A device asks for service.
Raise(line) ==
    /\ kernel # "construct"
    /\ requested' = requested \cup {line}
    /\ UNCHANGED <<inService, iflag, idt, handlers, active, interruptnumber,
                   calls, kernel>>

------------------------------------------------------------------------------
(* The processor, the stubs and the manager.                                *)

Top == Head(calls)

\* The innermost call goes on at place.
GoTo(place) == calls' = <<[Top EXCEPT !.at = place]>> \o Tail(calls)

\* Mutant: the descriptor type is that of a trap gate, which leaves IF set.
AcceptTrap(line) ==
    /\ iflag
    /\ Intr
    /\ line = Delivered
    /\ requested' = requested \ {line}
    /\ inService' = inService \cup {line} \cup (IF line \in Slave THEN {Cascade} ELSE {})
    /\ calls' = <<[line |-> line, flag |-> iflag, number |-> -1,
                   at |-> IF idt[line] = "stub" THEN "stub" ELSE "iret"]>> \o calls
    /\ UNCHANGED <<iflag, idt, handlers, active, interruptnumber, kernel>>

\* Between two instructions the processor takes an interrupt: it saves its
\* flags and goes through the gate, an interrupt gate, which clears IF.  The
\* ignoring gate leads to a bare iret.
Accept(line) ==
    /\ iflag
    /\ Intr
    /\ line = Delivered
    /\ requested' = requested \ {line}
    /\ inService' = inService \cup {line} \cup (IF line \in Slave THEN {Cascade} ELSE {})
    /\ calls' = <<[line |-> line, flag |-> iflag, number |-> -1,
                   at |-> IF idt[line] = "stub" THEN "stub" ELSE "iret"]>> \o calls
    /\ iflag' = FALSE
    /\ UNCHANGED <<idt, handlers, active, interruptnumber, kernel>>

\* Mutant: a stub of the slave adds the slave's base once more.
StoreNumberRebased ==
    /\ calls # <<>> /\ Top.at = "stub"
    /\ interruptnumber' = IF Top.line \in Slave THEN Top.line + 8 ELSE Top.line
    /\ GoTo("call")
    /\ UNCHANGED <<requested, inService, iflag, idt, handlers, active, kernel>>

\* HandleInterruptRequest: movb $num + IRQ_BASE, (interruptnumber).
StoreNumber ==
    /\ calls # <<>> /\ Top.at = "stub"
    /\ interruptnumber' = Top.line
    /\ GoTo("call")
    /\ UNCHANGED <<requested, inService, iflag, idt, handlers, active, kernel>>

\* int_bottom pushes interruptnumber and calls handleInterrupt, which returns
\* at once when there is no active manager.
HandleInterrupt ==
    /\ calls # <<>> /\ Top.at = "call"
    /\ calls' = <<[Top EXCEPT !.number = interruptnumber,
                              !.at = IF active THEN "dispatch" ELSE "iret"]>>
                \o Tail(calls)
    /\ UNCHANGED <<requested, inService, iflag, idt, handlers, active,
                   interruptnumber, kernel>>

\* DoHandleInterrupt up to the acknowledgement: the registered handler runs
\* (or "UNHANDLED INTERRUPT" is printed), and for the timer Schedule, which
\* is TaskManager's.
Dispatch ==
    /\ calls # <<>> /\ Top.at = "dispatch"
    /\ GoTo("eoi")
    /\ UNCHANGED <<requested, inService, iflag, idt, handlers, active,
                   interruptnumber, kernel>>

\* Mutant: the slave is told of every interrupt.
EndMasterThenSlave ==
    /\ calls # <<>> /\ Top.at = "eoi"
    /\ inService' = EndOf(Master)
    /\ GoTo("eoi slave")
    /\ UNCHANGED <<requested, iflag, idt, handlers, active, interruptnumber, kernel>>

\* Mutant: the slave is told of none.
EndMasterOnly ==
    /\ calls # <<>> /\ Top.at = "eoi"
    /\ inService' = EndOf(Master)
    /\ GoTo("iret")
    /\ UNCHANGED <<requested, iflag, idt, handlers, active, interruptnumber, kernel>>

\* picMasterCommand.Write(0x20).
EndMaster ==
    /\ calls # <<>> /\ Top.at = "eoi"
    /\ inService' = EndOf(Master)
    /\ GoTo(IF 8 <= Top.number THEN "eoi slave" ELSE "iret")
    /\ UNCHANGED <<requested, iflag, idt, handlers, active, interruptnumber, kernel>>

\* Mutant: the command goes to another port than the slave's.
EndSlaveMisdirected ==
    /\ calls # <<>> /\ Top.at = "eoi slave"
    /\ GoTo("iret")
    /\ UNCHANGED <<requested, inService, iflag, idt, handlers, active,
                   interruptnumber, kernel>>

\* picSlaveCommand.Write(0x20).
EndSlave ==
    /\ calls # <<>> /\ Top.at = "eoi slave"
    /\ inService' = EndOf(Slave)
    /\ GoTo("iret")
    /\ UNCHANGED <<requested, iflag, idt, handlers, active, interruptnumber, kernel>>

\* iret restores the flags with IF.
Return ==
    /\ calls # <<>> /\ Top.at = "iret"
    /\ iflag' = Top.flag
    /\ calls' = Tail(calls)
    /\ UNCHANGED <<requested, inService, idt, handlers, active, interruptnumber,
                   kernel>>

------------------------------------------------------------------------------
(* kernelMain.                                                              *)

Init ==
    /\ requested = {} /\ inService = {}
    /\ iflag = FALSE
    /\ idt = [l \in Lines |-> "absent"]
    /\ handlers = {}
    /\ active = FALSE
    /\ interruptnumber = 0
    /\ calls = <<>>
    /\ kernel = "construct"

\* The wired lines.
Wired == {TimerLine, KeyboardLine, MouseLine}

\* InterruptManager::InterruptManager: every gate ignores, three lead to a
\* stub; the controllers are initialised and all lines unmasked.
Construct ==
    /\ kernel = "construct"
    /\ idt' = [l \in Lines |-> IF l \in Wired THEN "stub" ELSE "ignore"]
    /\ handlers' = {}
    /\ requested' = {} /\ inService' = {}
    /\ kernel' = "keyboard"
    /\ UNCHANGED <<iflag, active, interruptnumber, calls>>

\* InterruptHandler::InterruptHandler, from the constructors of the keyboard
\* and the mouse driver.
Register(line, here, then) ==
    /\ kernel = here /\ calls = <<>>
    /\ handlers' = handlers \cup {line}
    /\ kernel' = then
    /\ UNCHANGED <<requested, inService, iflag, idt, active, interruptnumber, calls>>

\* InterruptManager::Activate: the manager is active, and then sti.
Activate ==
    /\ kernel = "activate" /\ calls = <<>>
    /\ active' = TRUE
    /\ kernel' = "sti"
    /\ UNCHANGED <<requested, inService, iflag, idt, handlers, interruptnumber, calls>>

Sti ==
    /\ kernel = "sti" /\ calls = <<>>
    /\ iflag' = TRUE
    /\ kernel' = "loop"
    /\ UNCHANGED <<requested, inService, idt, handlers, active, interruptnumber, calls>>

\* InterruptManager::Deactivate: no manager is active, and then cli.
Deactivate ==
    /\ MayDeactivate
    /\ kernel = "loop" /\ calls = <<>>
    /\ active' = FALSE
    /\ kernel' = "cli"
    /\ UNCHANGED <<requested, inService, iflag, idt, handlers, interruptnumber, calls>>

Cli ==
    /\ kernel = "cli" /\ calls = <<>>
    /\ iflag' = FALSE
    /\ kernel' = "activate"
    /\ UNCHANGED <<requested, inService, idt, handlers, active, interruptnumber, calls>>

\* Mutant: the mouse driver is constructed after Activate.
KernelStepMouseLate ==
    \/ Construct
    \/ Register(KeyboardLine, "keyboard", "activate")
    \/ Activate
    \/ Sti
    \/ Register(MouseLine, "loop", "mouse")
    \/ Cli

KernelStep ==
    \/ Construct
    \/ Register(KeyboardLine, "keyboard", "mouse")
    \/ Register(MouseLine, "mouse", "activate")
    \/ Activate
    \/ Sti
    \/ Cli

CallStep ==
    \/ StoreNumber
    \/ HandleInterrupt
    \/ Dispatch
    \/ EndMaster
    \/ EndSlave
    \/ Return

Next ==
    \/ KernelStep
    \/ Deactivate
    \/ CallStep
    \/ \E line \in Lines : Accept(line)
    \/ \E line \in Devices : Raise(line)

\* The processor goes on with the code it runs, and it looks at its interrupt
\* pin between any two instructions: a line the controllers offer it again
\* and again while IF is set is taken.
Spec ==
    /\ Init /\ [][Next]_vars
    /\ WF_vars(KernelStep)
    /\ WF_vars(CallStep)
    /\ \A line \in Devices : SF_vars(Accept(line))

------------------------------------------------------------------------------
(* Properties.                                                              *)

Call == [line : Lines, flag : BOOLEAN, number : Lines \cup {-1},
         at : {"stub", "call", "dispatch", "eoi", "eoi slave", "iret"}]

TypeOK ==
    /\ requested \subseteq Lines
    /\ inService \subseteq Lines
    /\ iflag \in BOOLEAN
    /\ idt \in [Lines -> {"absent", "ignore", "stub"}]
    /\ handlers \subseteq Lines
    /\ active \in BOOLEAN
    /\ interruptnumber \in Lines
    /\ calls \in Seq(Call)
    /\ kernel \in {"construct", "keyboard", "mouse", "activate", "sti", "loop", "cli"}

\* The manager handles the interrupt the processor took, though its number
\* goes through one byte that every stub overwrites.
RightNumber ==
    \A i \in DOMAIN calls :
        calls[i].at \in {"dispatch", "eoi", "eoi slave"} =>
            calls[i].number = calls[i].line

\* An interrupt of a wired line finds its driver registered: no driver's
\* interrupt is printed as unhandled, in whatever order requests come while
\* kernelMain boots.
DriverReady ==
    \A i \in DOMAIN calls :
        /\ idt[calls[i].line] # "absent"
        /\ calls[i].at = "dispatch" =>
              calls[i].number \in handlers \cup {TimerLine}

\* The 0x20 written at the end of DoHandleInterrupt names no line, and ends
\* the most urgent interrupt in service: that is never another than the one
\* being handled, on either controller, though lines whose gate ignores them,
\* or that came while no manager was active, stay in service beside it.
EndsOnlyItsOwn ==
    [][ \A l \in inService \ inService' :
            /\ calls # <<>>
            /\ Top.line \in Slave \/ l # Cascade
            /\ l \in {Top.line, Cascade} ]_vars

\* Only wired lines are raised, and the manager stays active.
Expected == requested \subseteq Wired /\ kernel # "cli"

\* While the kernel's own code runs no interrupt is left in service, so none
\* holds back the less urgent lines: as long as only wired lines are raised
\* and the manager stays active.
NoneLeftInService == []Expected => [](calls = <<>> => inService = {})

\* Lines in the order the controllers prefer them.
MoreUrgent(k, line) ==
    \/ k \in Master /\ line \in Master /\ k < line
    \/ k \in Slave /\ line \in Slave /\ k < line
    \/ k \in Master /\ line \in Slave /\ k < Cascade
    \/ k \in Slave /\ line \in Master /\ Cascade < line

\* The kernel's own code runs with interrupts on and no more urgent request
\* pending: what a timer that is slow, and fingers that are slower, allow.
Calm(line) ==
    calls = <<>> /\ iflag /\ \A k \in requested : ~MoreUrgent(k, line)

HandlerRuns(line) == calls # <<>> /\ Top.at = "dispatch" /\ Top.number = line

\* A request of a wired line reaches its handler, unless more urgent requests
\* leave the kernel no calm moment from some time on: as long as only wired
\* lines are raised and the manager stays active.
Served ==
    \A line \in Wired :
        []Expected /\ []<>Calm(line) => [](line \in requested => <>HandlerRuns(line))

\* "Interrupt management using Programmable Interrupt Controller (PIC) to
\* handle inputs coming from external devices (keyboard, mouse)" (README.md,
\* line 8): the same, whichever other lines are raised.
ServedBesideOthers ==
    \A line \in Wired :
        []<>Calm(line) => [](line \in requested => <>HandlerRuns(line))
================================================================================
