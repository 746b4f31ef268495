------------------------------- MODULE Drivers -------------------------------
(***************************************************************************)
(* What kernelMain does with its drivers: the keyboard and the mouse       *)
(* driver are added to the driver manager, the scan of the PCI bus may add *)
(* more, ActivateAll activates them one after the other, and then          *)
(* interrupts are turned on.  Composes Pci and Ps2.                        *)
(***************************************************************************)
EXTENDS Pci, Ps2, SequencesExt

VARIABLE kernel     \* the next statement of kernelMain that matters here

vars == <<kernel, drivers, scan, ps2>>

Init ==
    /\ kernel = "keyboard"
    /\ drivers = <<>>
    /\ ScanInit
    /\ Ps2Init

\* drvManager.addDriver(&keyboard) and drvManager.addDriver(&mouse).
Add(driver, then) ==
    /\ kernel = driver
    /\ AddDriver(<<driver>>)
    /\ kernel' = then
    /\ UNCHANGED <<scan, ps2>>

Scan ==
    /\ kernel = "scan"
    /\ SelectDrivers
    /\ kernel' = IF stage' = "done" THEN "activate" ELSE "scan"
    /\ UNCHANGED ps2

\* DriverManager::ActivateAll: Activate of each driver in the order they were
\* added.
ActivateAll ==
    /\ kernel = "activate"
    /\ todo' = FlattenSeq([i \in DOMAIN drivers |-> Accesses(drivers[i])])
    /\ kernel' = "activating"
    /\ UNCHANGED <<drivers, scan, out, last, mode, owed, reporting, unsent, held,
                   irq, sti, status, Shift, mouseState, misread, stolen, typed, sent>>

ActivateStep ==
    /\ kernel = "activating"
    /\ Activate
    /\ UNCHANGED <<kernel, drivers, scan>>

\* InterruptManager::Activate.
Sti ==
    /\ kernel = "activating" /\ todo = <<>>
    /\ sti' = TRUE
    /\ kernel' = "loop"
    /\ UNCHANGED <<drivers, scan, out, last, mode, owed, reporting, unsent, held, irq,
                   todo, status, Shift, mouseState, misread, stolen, typed, sent>>

KernelStep ==
    \/ Add("keyboard", "mouse")
    \/ Add("mouse", "scan")
    \/ Scan
    \/ ActivateAll
    \/ ActivateStep
    \/ Sti

Handle == Handlers /\ UNCHANGED <<kernel, drivers, scan>>

\* What is sent before ActivateAll is the byte Ps2Init leaves at the port.
DeviceStep ==
    /\ kernel \in {"activating", "loop"}
    /\ Devices
    /\ UNCHANGED <<kernel, drivers, scan>>

Next == KernelStep \/ Handle \/ DeviceStep

\* The kernel goes on with its code, and takes the interrupts it is offered.
\* The devices may do nothing.
Spec ==
    /\ Init /\ [][Next]_vars
    /\ WF_vars(KernelStep)
    /\ WF_vars(Handle)

------------------------------------------------------------------------------
(* Properties.                                                              *)

TypeOK ==
    /\ kernel \in {"keyboard", "mouse", "scan", "activate", "activating", "loop"}
    /\ ScanTypeOK
    /\ Ps2TypeOK

\* Both devices run and interrupt when all drivers are activated, though each
\* driver writes the mode of both.  The mouse does whatever its driver, which
\* writes last, took for the controller's answer, for which no driver waits; the
\* keyboard, unless one of them took another byte for it.
BothInterrupt ==
    sti => /\ Bit(mode, MouseInterrupt) /\ ~Bit(mode, MouseStopped)
           /\ ~misread => Bit(mode, KeyboardInterrupt) /\ ~Bit(mode, KeyboardStopped)

\* The data port does not jam: a byte that waits there is taken by one handler
\* or the other, and it all ends when the devices send no more, unless a
\* driver took another byte for the controller's answer.
PortDrains == sti /\ ~misread ~> out = <<>>
=============================================================================
