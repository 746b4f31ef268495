--------------------------------- MODULE Ps2 ---------------------------------
(***************************************************************************)
(* The keyboard and the mouse driver (keyboard.cpp, mouse.cpp), and the    *)
(* controller and the two devices they share (external): one data port,    *)
(* through which the answers of the controller, the acknowledgements of    *)
(* the devices, scan codes and packets all come.  Activate is split into   *)
(* its port accesses, between which the devices may send; a handler runs   *)
(* with interrupts off and is one step.                                    *)
(***************************************************************************)
EXTENDS Integers, Sequences, FiniteSets

CONSTANTS
    Packets,    \* the packets the mouse may send, of three bytes
    Keys,       \* the keys: records of the codes sent on press and release
    Modes,      \* the command bytes the firmware may leave behind
    Room,       \* bytes that fit between a device and the data port
    MaxKeys, MaxPackets     \* bounds on presses and releases, and on packets

Byte == 0 .. 255
ACK == 250              \* 0xFA
Shifts == {[make |-> 42, break |-> 170], [make |-> 54, break |-> 182]}

\* A key's release is its code with the upper bit set; bit 3 of a controller's
\* command byte has no meaning and is 0.
ASSUME Ps2Assumption ==
    /\ Packets \subseteq Byte \X Byte \X Byte
    /\ Keys \subseteq {[make |-> code, break |-> code + 128] : code \in 0 .. 127}
    /\ Modes \subseteq {byte \in Byte : (byte \div 8) % 2 = 0}
    /\ Room \in Nat \ {0} /\ MaxKeys \in Nat /\ MaxPackets \in Nat

VARIABLES
    out,        \* bytes that wait at the data port, with their origin
    last,       \* the byte read last: what an empty data port reads as
    mode,       \* the controller's command byte
    owed,       \* devices whose acknowledgement is still to be sent
    reporting,  \* the mouse was told to send packets
    unsent,     \* the rest of the packet the mouse is sending
    held,       \* keys that are down, as far as the keyboard has said
    irq,        \* interrupt requests 1 and 12, latched
    sti,        \* interrupts are on
    todo,       \* accesses that the running Activate functions still make
    status,     \* their local variable
    Shift,      \* of KeyboardDriver::HandleInterrupt
    offset, buffer, buttons,    \* of MouseDriver
    reported,   \* history: buttons the mouse's handler was told are down
    misread,    \* history: a byte not the controller's was taken for its mode
    stolen,     \* history: a driver took a byte of the other's, or an
                \* acknowledgement, for one of its own
    typed, sent \* counters for the bounds

mouseState == <<offset, buffer, buttons, reported>>
ps2 == <<out, last, mode, owed, reporting, unsent, held, irq, sti, todo, status,
         Shift, mouseState, misread, stolen, typed, sent>>

------------------------------------------------------------------------------
(* The controller (external).                                               *)

Bit(byte, i) == (byte \div 2^i) % 2 = 1
With(byte, i) == IF Bit(byte, i) THEN byte ELSE byte + 2^i
Without(byte, i) == IF Bit(byte, i) THEN byte - 2^i ELSE byte

\* Bits of the command byte: interrupts of the keyboard and the mouse, and
\* their clocks, which are stopped by a 1.
KeyboardInterrupt == 0
MouseInterrupt == 1
KeyboardStopped == 4
MouseStopped == 5

FromMouse(entry) == entry.from \in {"mouse", "mouse_ack"}

\* The request that the byte at the data port makes in mode m.
Request(bytes, m) ==
    IF bytes = <<>> THEN {}
    ELSE IF FromMouse(Head(bytes)) THEN (IF Bit(m, MouseInterrupt) THEN {12} ELSE {})
    ELSE (IF Bit(m, KeyboardInterrupt) THEN {1} ELSE {})

\* A byte joins those that wait; it makes a request when it comes to the port.
Send(byte, from) ==
    /\ out' = Append(out, [byte |-> byte, from |-> from])
    /\ irq' = IF out = <<>> THEN irq \cup Request(out', mode) ELSE irq

SetMode(m) ==
    /\ mode' = m
    /\ irq' = irq \cup Request(out, m)

Port == IF out = <<>> THEN [byte |-> last, from |-> "nobody"] ELSE Head(out)

\* Reading the data port.  A request for the byte that was read stays latched
\* or, on another controller, goes with it.
Take(requests) ==
    /\ last' = Port.byte
    /\ out' = IF out = <<>> THEN out ELSE Tail(out)
    /\ irq' = requests \cup Request(out', mode)

(* The devices (external) send while there is room and their clock runs.    *)

Acknowledge(device) ==
    /\ device \in owed /\ Len(out) < Room
    /\ owed' = owed \ {device}
    /\ Send(ACK, IF device = "mouse" THEN "mouse_ack" ELSE "keyboard_ack")
    /\ UNCHANGED <<last, mode, reporting, unsent, held, sti, todo, status, Shift,
                   mouseState, misread, stolen, typed, sent>>

\* A key goes down or up.
Type(key) ==
    /\ typed < MaxKeys /\ Len(out) < Room
    /\ "keyboard" \notin owed /\ ~Bit(mode, KeyboardStopped)
    /\ IF key \in held
       THEN held' = held \ {key} /\ Send(key.break, "keyboard")
       ELSE held' = held \cup {key} /\ Send(key.make, "keyboard")
    /\ typed' = typed + 1
    /\ UNCHANGED <<last, mode, owed, reporting, unsent, sti, todo, status, Shift,
                   mouseState, misread, stolen, sent>>

\* The mouse moves or a button changes.
Report(packet) ==
    /\ sent < MaxPackets /\ reporting /\ "mouse" \notin owed /\ unsent = <<>>
    /\ unsent' = packet
    /\ sent' = sent + 1
    /\ UNCHANGED <<out, last, mode, owed, reporting, held, irq, sti, todo, status,
                   Shift, mouseState, misread, stolen, typed>>

SendPacket ==
    /\ unsent # <<>> /\ Len(out) < Room /\ ~Bit(mode, MouseStopped)
    /\ Send(Head(unsent), "mouse")
    /\ unsent' = Tail(unsent)
    /\ UNCHANGED <<last, mode, owed, reporting, held, sti, todo, status, Shift,
                   mouseState, misread, stolen, typed, sent>>

------------------------------------------------------------------------------
(* Activate of the drivers, access by access; interrupts are off.           *)

\* The accesses of KeyboardDriver::Activate, MouseDriver::Activate and
\* Driver::Activate.
Accesses(driver) ==
    IF driver = "keyboard"
    THEN <<"drain", "start_keyboard", "ask", "keyboard_status", "write_status",
           "activate_keyboard">>
    ELSE IF driver = "mouse"
    THEN <<"reset", "start_mouse", "ask", "mouse_status", "write_status",
           "activate_mouse", "take">>
    ELSE <<>>

Do(access) ==
    /\ todo # <<>> /\ Head(todo) = access
    /\ todo' = Tail(todo)

\* while (commandport.Read() & 0x1) dataport.Read().
Drain ==
    /\ todo # <<>> /\ Head(todo) = "drain"
    /\ IF out # <<>>
       THEN /\ \E requests \in {irq, irq \ Request(out, mode)} : Take(requests)
            /\ UNCHANGED todo
       ELSE todo' = Tail(todo) /\ UNCHANGED <<out, last, irq>>
    /\ UNCHANGED <<mode, owed, reporting, unsent, held, sti, status, Shift,
                   mouseState, misread, stolen, typed, sent>>

\* offset = 0, buttons = 0.
ResetMouse ==
    /\ Do("reset")
    /\ offset' = 0 /\ buttons' = 0
    /\ UNCHANGED <<out, last, mode, owed, reporting, unsent, held, irq, sti, status,
                   Shift, buffer, reported, misread, stolen, typed, sent>>

\* Commands 0xAE and 0xA8 start a device's clock.
Start(access, stopped) ==
    /\ Do(access)
    /\ SetMode(Without(mode, stopped))
    /\ UNCHANGED <<out, last, owed, reporting, unsent, held, sti, status, Shift,
                   mouseState, misread, stolen, typed, sent>>

\* Command 0x20: the controller answers with its command byte.
Ask ==
    /\ Do("ask")
    /\ Send(mode, "controller")
    /\ UNCHANGED <<last, mode, owed, reporting, unsent, held, sti, status, Shift,
                   mouseState, misread, stolen, typed, sent>>

\* Mutant: the mouse's bit replaces the other bits.
ChangedAlone(access, byte) ==
    IF access = "keyboard_status" THEN Without(With(byte, KeyboardInterrupt), KeyboardStopped)
    ELSE With(0, MouseInterrupt)

\* (byte | 1) & ~0x10 in the keyboard's driver, byte | 2 in the mouse's.
Changed(access, byte) ==
    IF access = "keyboard_status" THEN Without(With(byte, KeyboardInterrupt), KeyboardStopped)
    ELSE With(byte, MouseInterrupt)

\* The byte that is at the data port is taken for the answer.
ReadStatus(access) ==
    /\ Do(access)
    /\ status' = Changed(access, Port.byte)
    /\ misread' = (misread \/ Port.from # "controller")
    /\ \E requests \in {irq, irq \ Request(out, mode)} : Take(requests)
    /\ UNCHANGED <<mode, owed, reporting, unsent, held, sti, Shift, mouseState,
                   stolen, typed, sent>>

\* Command 0x60 and the byte it sets the mode to.
WriteStatus ==
    /\ Do("write_status")
    /\ SetMode(status)
    /\ status' = 0
    /\ UNCHANGED <<out, last, owed, reporting, unsent, held, sti, Shift, mouseState,
                   misread, stolen, typed, sent>>

\* 0xF4 to a device, which is sent with its clock running, and answered.
ActivateDevice(access, device, stopped) ==
    /\ Do(access)
    /\ SetMode(Without(mode, stopped))
    /\ owed' = owed \cup {device}
    /\ reporting' = (reporting \/ device = "mouse")
    /\ UNCHANGED <<out, last, unsent, held, sti, status, Shift, mouseState, misread,
                   stolen, typed, sent>>

\* The mouse's acknowledgement is read, or what else is there.
TakeAnswer ==
    /\ Do("take")
    /\ \E requests \in {irq, irq \ Request(out, mode)} : Take(requests)
    /\ UNCHANGED <<mode, owed, reporting, unsent, held, sti, status, Shift,
                   mouseState, misread, stolen, typed, sent>>

Activate ==
    \/ Drain
    \/ ResetMouse
    \/ Start("start_keyboard", KeyboardStopped)
    \/ Start("start_mouse", MouseStopped)
    \/ Ask
    \/ ReadStatus("keyboard_status")
    \/ ReadStatus("mouse_status")
    \/ WriteStatus
    \/ ActivateDevice("activate_keyboard", "keyboard", KeyboardStopped)
    \/ ActivateDevice("activate_mouse", "mouse", MouseStopped)
    \/ TakeAnswer

------------------------------------------------------------------------------
(* The handlers; the interrupt controllers prefer line 1.                   *)

\* Mutant: only the release of the left key ends Shift.
ShiftedLeft(shift, code) ==
    IF code \in {key.make : key \in Shifts} THEN TRUE
    ELSE IF code = 170 THEN FALSE
    ELSE shift

\* The flag after a code.  Other codes are typed or ignored.
Shifted(shift, code) ==
    IF code \in {key.make : key \in Shifts} THEN TRUE
    ELSE IF code \in {key.break : key \in Shifts} THEN FALSE
    ELSE shift

\* KeyboardDriver::HandleInterrupt reads the data port without looking at the
\* controller's status.
HandleKeyboard ==
    /\ sti /\ 1 \in irq
    /\ Shift' = Shifted(Shift, Port.byte)
    /\ stolen' = (stolen \/ FromMouse(Port))
    /\ Take(irq \ {1})
    /\ UNCHANGED <<mode, owed, reporting, unsent, held, sti, todo, status, mouseState,
                   misread, typed, sent>>

\* The buttons of which the driver tells its handler.  A logical and (&&) does
\* not look at a button's bit: either every button is told of, or none.
Told(byte) ==
    {i \in 0 .. 2 : (byte # 0) # (buttons # 0)}

\* The end of a packet of which byte is the first.
Tell(byte) ==
    /\ reported' = (reported \ {i \in Told(byte) : Bit(buttons, i)})
                     \cup {i \in Told(byte) : ~Bit(buttons, i)}
    /\ buttons' = byte

\* Mutant: the modulus is left out.
NextOffsetUnwrapped == offset + 1

NextOffset == (offset + 1) % 3

\* Mutant: the status is not looked at.
HandleMouseBlindly ==
    /\ sti /\ 12 \in irq /\ 1 \notin irq
    /\ buffer' = [buffer EXCEPT ![offset] = Port.byte]
    /\ offset' = NextOffset
    /\ IF offset' = 0 THEN Tell(buffer'[0]) ELSE UNCHANGED <<buttons, reported>>
    /\ stolen' = (stolen \/ Port.from = "mouse_ack")
    /\ Take(irq \ {12})
    /\ UNCHANGED <<mode, owed, reporting, unsent, held, sti, todo, status, Shift,
                   misread, typed, sent>>

\* MouseDriver::HandleInterrupt.  Bit 5 of the status says that the byte at
\* the data port is the mouse's.
HandleMouse ==
    /\ sti /\ 12 \in irq /\ 1 \notin irq
    /\ IF FromMouse(Port)
       THEN /\ buffer' = [buffer EXCEPT ![offset] = Port.byte]
            /\ offset' = NextOffset
            /\ IF offset' = 0 THEN Tell(buffer'[0]) ELSE UNCHANGED <<buttons, reported>>
            /\ stolen' = (stolen \/ Port.from = "mouse_ack")
            /\ Take(irq \ {12})
       ELSE /\ irq' = irq \ {12}
            /\ UNCHANGED <<out, last, mouseState, stolen>>
    /\ UNCHANGED <<mode, owed, reporting, unsent, held, sti, todo, status, Shift,
                   misread, typed, sent>>

\* The firmware leaves at the data port nothing, or the code of a key that is
\* held.
Ps2Init ==
    /\ held \in {{}} \cup {{key} : key \in Keys}
    /\ out \in {<<>>} \cup {<<[byte |-> key.make, from |-> "keyboard"]>> : key \in held}
    /\ last = 0
    /\ mode \in Modes
    /\ owed = {} /\ reporting = FALSE /\ unsent = <<>>
    /\ irq = {} /\ sti = FALSE
    /\ todo = <<>> /\ status = 0
    /\ Shift = FALSE
    /\ offset = 0 /\ buffer = [i \in 0 .. 2 |-> 0] /\ buttons = 0 /\ reported = {}
    /\ misread = FALSE /\ stolen = FALSE
    /\ typed = 0 /\ sent = 0

Devices ==
    \/ \E device \in owed : Acknowledge(device)
    \/ \E key \in Keys : Type(key)
    \/ \E packet \in Packets : Report(packet)
    \/ SendPacket

Handlers == HandleKeyboard \/ HandleMouse

------------------------------------------------------------------------------
(* Properties.                                                              *)

Origin == {"keyboard", "keyboard_ack", "mouse", "mouse_ack", "controller"}

Ps2TypeOK ==
    /\ out \in Seq([byte : Byte, from : Origin])
    /\ last \in Byte /\ mode \in Byte /\ status \in Byte
    /\ owed \subseteq {"keyboard", "mouse"} /\ reporting \in BOOLEAN
    /\ Len(unsent) <= 3
    /\ held \subseteq Keys
    /\ irq \subseteq {1, 12} /\ sti \in BOOLEAN
    /\ Shift \in BOOLEAN
    /\ offset \in 0 .. 2 /\ buffer \in [0 .. 2 -> Byte] /\ buttons \in Byte
    /\ reported \subseteq 0 .. 2
    /\ misread \in BOOLEAN /\ stolen \in BOOLEAN

\* Bytes of packets on their way to the mouse driver.
UnderWay == Cardinality({i \in DOMAIN out : out[i].from = "mouse"})

\* The mouse driver finds the packets by counting bytes.  It stays in step
\* with the mouse, whatever is sent while the drivers are activated and
\* whichever requests are stale, unless a driver once took a byte that was not
\* meant for it: the mouse's late acknowledgement, or a byte of the mouse that
\* a stale request of line 1 gave to the keyboard driver.
InStep ==
    ~stolen =>
        /\ offset = (0 - Len(unsent) - UnderWay) % 3
        /\ offset = 0 => <<buffer[0], buffer[1], buffer[2]>> \in Packets \cup {<<0, 0, 0>>}

\* Shift does not stay on when no shift key is held and the release of neither
\* is on its way: a key that was pressed while the drivers were activated, one
\* flag for two keys, and a stale request that gives the driver the byte read
\* last once more do not make it stick.
NoStuckShift ==
    Shift /\ ~stolen =>
        \/ held \cap Shifts # {}
        \/ \E i \in DOMAIN out : out[i].byte \in {key.break : key \in Shifts}

\* "Interrupt management using Programmable Interrupt Controller (PIC) to
\* handle inputs coming from external devices (keyboard, mouse)" (README.md,
\* line 8): when a packet has been handled the driver's handler has been told
\* of the buttons that are down, and of no others.
ButtonsAsTheyAre ==
    offset = 0 /\ ~stolen => reported = {i \in 0 .. 2 : Bit(buttons, i)}

\* No interrupt is lost: when the handlers may run, the byte that waits at the
\* data port has its request latched, though bytes came while its device could
\* not interrupt, were taken by polling and left stale requests behind, and a
\* handler takes one byte at a time.  A byte of the mouse makes a request in any
\* case, one of the keyboard unless a driver misread the mode.
ByteAnnounced ==
    sti /\ out # <<>> =>
        /\ Request(out, mode) \subseteq irq
        /\ FromMouse(Head(out)) \/ ~misread => Request(out, mode) # {}

\* None is wasted either: as long as bytes wait each handler that runs takes
\* the first of them, whichever line it was called for.
EveryInterruptTakes ==
    [][Handlers /\ ~misread /\ out # <<>> => out' = Tail(out)]_ps2
=============================================================================
