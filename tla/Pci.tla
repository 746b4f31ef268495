--------------------------------- MODULE Pci ---------------------------------
(***************************************************************************)
(* The scan of the PCI bus: SelectDrivers of                               *)
(* PeripheralComponentInterconnectController (pci.cpp), and the            *)
(* DriverManager it adds drivers to.  It runs once, with interrupts off.   *)
(* What sits in a slot is chosen when the scan comes to the slot, and      *)
(* forgotten when it goes on.                                              *)
(***************************************************************************)
EXTENDS Integers, Sequences

CONSTANTS
    Buses, Slots, Functions,    \* 8, 32 and 8 in the code
    Cards       \* the configuration spaces of functions that may be found

\* The registers of a configuration space that decide something; a register
\* is the pair of its low and its high 16 bits.
Registers == {0, 12} \cup {16 + 4 * bar : bar \in 0 .. 5}

Word == {n \in Nat : n < 2^16}

ASSUME PciAssumption ==
    /\ Buses \in Nat \ {0} /\ Slots \in Nat \ {0} /\ Functions \in Nat \ {0}
    /\ Cards \subseteq [Registers -> Word \X Word]

\* A field that nothing has set, and an address that lay on the stack.
Unset == -1
OnStack == -2

\* What is read of a function that is not there.
Absent == [r \in Registers |-> <<65535, 65535>>]

VARIABLES
    stage,      \* "slot", "function", "bars" or "done": where the loops stand
    bus, device, function, barNum,      \* their counters
    cards,      \* the functions of the slot that is being scanned
    dev,        \* the descriptor of the current function
    listed,     \* the functions of this slot that were printed
    drivers     \* DriverManager::drivers, the first numDrivers of them

scan == <<stage, bus, device, function, barNum, cards, dev, listed>>

------------------------------------------------------------------------------
\* Mutant: the register is shifted before it is cut to 16 bits.
ReadWide(fn, offset) ==
    LET register == cards[fn][offset - (offset % 4)]
    IN  CASE offset % 4 = 0 -> register[1]
          [] offset % 4 = 1 -> register[1] \div 256 + (register[2] % 256) * 256
          [] offset % 4 = 2 -> register[2]
          [] OTHER -> register[2] \div 256

\* Read cuts the register to 16 bits and then shifts: of an offset in the
\* upper half nothing is left.
Read(fn, offset) ==
    cards[fn][offset - (offset % 4)][1] \div 2^(8 * (offset % 4))

DeviceHasFunctions == (Read(0, 14) \div 128) % 2 = 1

NumFunctions == IF DeviceHasFunctions THEN Functions ELSE 1

\* The fields that are used again; the class is only printed.  portBase is not
\* set here.
GetDeviceDescriptor(fn) ==
    [vendor |-> Read(fn, 0), device |-> Read(fn, 2), portBase |-> Unset]

\* The results of GetBaseAddressResister: past the last register, and for the
\* address of memory, the result is returned as it lay on the stack.
GetBaseAddressResister(fn, bar) ==
    LET maxBARs == 6 - 4 * (Read(fn, 14) % 128)
        value == Read(fn, 16 + 4 * bar)
    IN  IF bar >= maxBARs THEN [io : BOOLEAN, address : {0, OnStack}]
        ELSE IF value % 2 = 1 THEN {[io |-> TRUE, address |-> value - (value % 4)]}
        ELSE [io : {FALSE}, address : {0, OnStack}]

\* GetDriver knows two cards, and has a driver for neither.
GetDriver(descriptor) == <<>>

\* DriverManager::addDriver, of no driver or one.
AddDriver(found) == drivers' = drivers \o found

------------------------------------------------------------------------------
NoDevice == [vendor |-> 0, device |-> 0, portBase |-> Unset]

EmptySlot == [fn \in 0 .. Functions - 1 |-> Absent]

ScanInit ==
    /\ stage = "slot"
    /\ bus = 0 /\ device = 0 /\ function = 0 /\ barNum = 0
    /\ cards = EmptySlot
    /\ dev = NoDevice
    /\ listed = {}

\* The scan comes to a slot, whatever is in it.
Arrive ==
    /\ stage = "slot"
    /\ cards' \in [0 .. Functions - 1 -> Cards \cup {Absent}]
    /\ stage' = "function" /\ function' = 0
    /\ UNCHANGED <<bus, device, barNum, dev, listed, drivers>>

\* The descriptor of the next function; vendors 0 and 0xFFFF are skipped.
Describe ==
    /\ stage = "function" /\ function < NumFunctions
    /\ LET descriptor == GetDeviceDescriptor(function) IN
       IF descriptor.vendor \in {0, 65535}
       THEN /\ function' = function + 1
            /\ UNCHANGED <<stage, barNum, dev>>
       ELSE /\ dev' = descriptor
            /\ stage' = "bars" /\ barNum' = 0
            /\ UNCHANGED function
    /\ UNCHANGED <<bus, device, cards, listed, drivers>>

\* One base address register: an I/O port is kept, and a driver for the
\* function is asked for, once for every register.
ProbeBar ==
    /\ stage = "bars" /\ barNum < 6
    /\ \E bar \in GetBaseAddressResister(function, barNum) :
          dev' = IF bar.io /\ bar.address # 0
                 THEN [dev EXCEPT !.portBase = bar.address] ELSE dev
    /\ AddDriver(GetDriver(dev'))
    /\ barNum' = barNum + 1
    /\ UNCHANGED <<stage, bus, device, function, cards, listed>>

\* The function is printed.
List ==
    /\ stage = "bars" /\ barNum = 6
    /\ listed' = listed \cup
          {[function |-> function, vendor |-> dev.vendor, device |-> dev.device]}
    /\ function' = function + 1
    /\ stage' = "function" /\ barNum' = 0 /\ dev' = NoDevice
    /\ UNCHANGED <<bus, device, cards, drivers>>

\* On to the next slot of the bus, or to the next bus.
LeaveSlot ==
    /\ stage = "function" /\ function = NumFunctions
    /\ device' = (device + 1) % Slots
    /\ bus' = IF device' = 0 THEN bus + 1 ELSE bus
    /\ stage' = IF bus' = Buses THEN "done" ELSE "slot"
    /\ function' = 0 /\ cards' = EmptySlot /\ listed' = {}
    /\ UNCHANGED <<barNum, dev, drivers>>

SelectDrivers == Arrive \/ Describe \/ ProbeBar \/ List \/ LeaveSlot

------------------------------------------------------------------------------
(* Properties.                                                              *)

ScanTypeOK ==
    /\ stage \in {"slot", "function", "bars", "done"}
    /\ bus \in 0 .. Buses /\ device \in 0 .. Slots - 1
    /\ function \in 0 .. Functions /\ barNum \in 0 .. 6
    /\ cards \in [0 .. Functions - 1 -> Cards \cup {Absent}]
    /\ {dev.vendor, dev.device} \subseteq Word
    /\ drivers \in Seq({"keyboard", "mouse", "card"})

\* The port base of a device is never what lay on the stack, though of every
\* register that is not an I/O port GetBaseAddressResister returns the address
\* unset: it is in a register of the device that says it is an I/O port.  (Read
\* makes every header type 0, so six registers are asked for of a bridge too,
\* which has two, and what it keeps in place of the other four may be taken.)
PortBaseReal ==
    dev.portBase # Unset =>
        \E bar \in 0 .. 5 :
            LET low == cards[function][16 + 4 * bar][1]
            IN  low % 2 = 1 /\ dev.portBase = low - (low % 4)

\* "In our code, we brute force through all Buses, Devices and functions and
\* at the time of writing this, only prints the details"
\* (documentation.pdf, p. 7): when the scan leaves a slot it has printed every
\* function in it, with the vendor's and the device's number.
ListedAsPresent ==
    stage = "function" /\ function = NumFunctions =>
        listed = {[function |-> fn, vendor |-> cards[fn][0][1],
                   device |-> cards[fn][0][2]] :
                  fn \in {f \in 0 .. Functions - 1 : cards[f] # Absent}}
=============================================================================
