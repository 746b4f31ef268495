---------------------------- MODULE DriversProofs ----------------------------
(***************************************************************************)
(* Proofs about Drivers: the scan of the PCI bus, for every number of      *)
(* buses, slots and functions and whatever cards are in them; and the      *)
(* drivers of the keyboard and the mouse, for every firmware's mode, every *)
(* set of keys and packets, and however much is under way.                 *)
(***************************************************************************)
EXTENDS Drivers, FiniteSetTheorems, SequenceTheorems, TLAPS

------------------------------------------------------------------------------
(* The scan.                                                                *)

Functionals == 0 .. Functions - 1
Descriptors == [vendor : Word, device : Word, portBase : Int]

\* A port base is set while the registers of a function are looked at, and
\* nothing is looked at when the last bus was left.
Scanned ==
    /\ dev \in Descriptors
    /\ stage # "bars" => dev.portBase = Unset
    /\ stage = "bars" => function < Functions
    /\ stage # "done" => bus < Buses

ScanInv == ScanTypeOK /\ Scanned /\ PortBaseReal

\* The words are numbers of 16 bits.
LEMMA Words == \A n : n \in Word <=> n \in Nat /\ n <= 65535
<1>1. 2^16 = 65536
  OBVIOUS
<1> QED BY <1>1 DEF Word

\* A register of a function is two of them.
LEMMA RegisterWords ==
    ASSUME NEW space \in Cards \cup {Absent}, NEW r \in Registers
    PROVE  /\ space[r][1] \in Word /\ space[r][2] \in Word
           /\ space[r][1] \in Nat /\ space[r][1] <= 65535
<1>1. space[r] \in Word \X Word
  <2>1. Cards \subseteq [Registers -> Word \X Word]
    BY PciAssumption
  <2>2. 65535 \in Word
    BY Words
  <2> QED BY <2>1, <2>2 DEF Absent
<1>2. space[r][1] \in Word /\ space[r][2] \in Word
  BY <1>1
<1> QED BY <1>2, Words

\* What is read is a word: the lower half of a register at its own offset, and
\* nothing at all of its upper half.
LEMMA ReadWords ==
    ASSUME NEW fn \in Functionals,
           cards \in [Functionals -> Cards \cup {Absent}]
    PROVE  /\ Read(fn, 0) \in Word /\ Read(fn, 2) \in Word
           /\ Read(fn, 14) = 0
           /\ \A bar \in 0 .. 5 : Read(fn, 16 + 4 * bar) = cards[fn][16 + 4 * bar][1]
<1>1. cards[fn] \in Cards \cup {Absent}
  OBVIOUS
<1>2. 0 \in Registers /\ 12 \in Registers /\ \A bar \in 0 .. 5 : 16 + 4 * bar \in Registers
  BY DEF Registers
<1>3. /\ cards[fn][0][1] \in Nat /\ cards[fn][0][1] <= 65535 /\ cards[fn][0][1] \in Word
      /\ cards[fn][12][1] \in Nat /\ cards[fn][12][1] <= 65535
  BY <1>1, <1>2, RegisterWords
<1>4. \A n \in Nat : n \div 1 = n
  OBVIOUS
<1>5. \A n \in Nat : n <= 65535 => n \div 65536 = 0
  OBVIOUS
<1>6. 2^0 = 1 /\ 2^16 = 65536
  OBVIOUS
<1>7. Read(fn, 0) \in Word
  <2>1. 0 - (0 % 4) = 0 /\ 8 * (0 % 4) = 0
    OBVIOUS
  <2>2. Read(fn, 0) = cards[fn][0][1] \div 1
    BY <1>6, <2>1 DEF Read
  <2> QED BY <1>3, <1>4, <2>2
<1>8. Read(fn, 2) \in Word
  <2>1. 2 - (2 % 4) = 0 /\ 8 * (2 % 4) = 16
    OBVIOUS
  <2>2. Read(fn, 2) = cards[fn][0][1] \div 65536
    BY <1>6, <2>1 DEF Read
  <2>3. Read(fn, 2) = 0
    BY <1>3, <1>5, <2>2
  <2> QED BY <2>3, Words
<1>9. Read(fn, 14) = 0
  <2>1. 14 - (14 % 4) = 12 /\ 8 * (14 % 4) = 16
    OBVIOUS
  <2>2. Read(fn, 14) = cards[fn][12][1] \div 65536
    BY <1>6, <2>1 DEF Read
  <2> QED BY <1>3, <1>5, <2>2
<1>10. ASSUME NEW bar \in 0 .. 5
       PROVE  Read(fn, 16 + 4 * bar) = cards[fn][16 + 4 * bar][1]
  <2> DEFINE r == 16 + 4 * bar
  <2>1. r \in Nat /\ r % 4 = 0 /\ cards[fn][r][1] \in Nat
    BY <1>1, <1>2, RegisterWords
  <2> HIDE DEF r
  <2>2. r - (r % 4) = r /\ 8 * (r % 4) = 0
    BY <2>1
  <2>3. Read(fn, r) = cards[fn][r][1] \div 2^0
    BY <2>2, Zenon DEF Read
  <2> QED BY <1>4, <1>6, <2>1, <2>3 DEF r
<1> QED BY <1>7, <1>8, <1>9, <1>10

\* The functions of a slot are all of them, or one.
LEMMA SlotFunctions ==
    /\ Functions \in Nat /\ Functions >= 1
    /\ NumFunctions \in Nat /\ NumFunctions >= 1 /\ NumFunctions <= Functions
<1>1. Functions \in Nat /\ Functions >= 1
  BY PciAssumption
<1> QED BY <1>1 DEF NumFunctions

\* A base address that says it is an I/O port is one of the registers.
LEMMA PortIsRegister ==
    ASSUME NEW fn \in Functionals, NEW bar \in 0 .. 5,
           cards \in [Functionals -> Cards \cup {Absent}],
           NEW found \in GetBaseAddressResister(fn, bar)
    PROVE  /\ found.address \in Int
           /\ found.io => /\ cards[fn][16 + 4 * bar][1] % 2 = 1
                          /\ found.address = cards[fn][16 + 4 * bar][1]
                                                - (cards[fn][16 + 4 * bar][1] % 4)
<1> DEFINE low == cards[fn][16 + 4 * bar][1]
<1>1. Read(fn, 14) = 0 /\ Read(fn, 16 + 4 * bar) = low
  BY ReadWords
<1>2. low \in Nat
  <2>1. cards[fn] \in Cards \cup {Absent} /\ 16 + 4 * bar \in Registers
    BY DEF Registers
  <2> QED BY <2>1, RegisterWords
<1> HIDE DEF low
<1>3. ~(bar >= 6 - 4 * (Read(fn, 14) % 128))
  BY <1>1
<1>4. GetBaseAddressResister(fn, bar) =
        IF low % 2 = 1 THEN {[io |-> TRUE, address |-> low - (low % 4)]}
        ELSE [io : {FALSE}, address : {0, OnStack}]
  BY <1>1, <1>3 DEF GetBaseAddressResister
<1>5. CASE low % 2 = 1
  <2>1. found = [io |-> TRUE, address |-> low - (low % 4)]
    BY <1>4, <1>5
  <2> QED BY <1>2, <1>5, <2>1 DEF low
<1>6. CASE low % 2 # 1
  <2>1. found \in [io : {FALSE}, address : {0, OnStack}]
    BY <1>4, <1>6
  <2>2. found.io = FALSE /\ found.address \in {0, OnStack}
    BY <2>1
  <2> QED BY <2>2 DEF OnStack
<1> QED BY <1>5, <1>6

\* The scan begins with nothing found.
LEMMA ScanBegins == ASSUME ScanInit, drivers = <<>> PROVE ScanInv
<1>1. /\ Buses \in Nat /\ Buses >= 1 /\ Slots \in Nat /\ Slots >= 1
      /\ Functions \in Nat /\ Functions >= 1
  BY PciAssumption
<1>2. dev = NoDevice /\ NoDevice \in Descriptors /\ dev.portBase = Unset
  <2>1. 0 \in Word
    BY Words
  <2> QED BY <2>1 DEF ScanInit, NoDevice, Descriptors, Unset
<1>3. cards \in [0 .. Functions - 1 -> Cards \cup {Absent}]
  BY DEF ScanInit, EmptySlot
<1>4. dev.vendor \in Word /\ dev.device \in Word
  BY <1>2 DEF Descriptors
<1> QED BY <1>1, <1>2, <1>3, <1>4 DEF ScanInit, ScanInv, ScanTypeOK, Scanned, PortBaseReal

\* It keeps to its types and its ports, and finds no driver.
LEMMA ScanGoesOn ==
    ASSUME ScanInv, SelectDrivers, drivers \in Seq({"keyboard", "mouse", "card"})
    PROVE  ScanInv' /\ drivers' = drivers
<1>1. /\ Buses \in Nat /\ Buses >= 1 /\ Slots \in Nat /\ Slots >= 1
      /\ Functions \in Nat /\ Functions >= 1
      /\ NumFunctions \in Nat /\ NumFunctions >= 1 /\ NumFunctions <= Functions
  BY PciAssumption, SlotFunctions
<1>2. /\ stage \in {"slot", "function", "bars", "done"}
      /\ bus \in Nat /\ bus <= Buses /\ device \in 0 .. Slots - 1
      /\ function \in Nat /\ function <= Functions /\ barNum \in 0 .. 6
      /\ cards \in [Functionals -> Cards \cup {Absent}]
      /\ dev \in Descriptors
      /\ stage # "bars" => dev.portBase = Unset
      /\ stage = "bars" => function < Functions
      /\ stage # "done" => bus < Buses
      /\ PortBaseReal
  BY <1>1 DEF ScanInv, ScanTypeOK, Scanned, Functionals
<1>3. SUFFICES /\ stage' \in {"slot", "function", "bars", "done"}
               /\ bus' \in Nat /\ bus' <= Buses /\ device' \in 0 .. Slots - 1
               /\ function' \in Nat /\ function' <= Functions /\ barNum' \in 0 .. 6
               /\ cards' \in [Functionals -> Cards \cup {Absent}]
               /\ dev' \in Descriptors
               /\ stage' # "bars" => dev'.portBase = Unset
               /\ stage' = "bars" => function' < Functions
               /\ stage' # "done" => bus' < Buses
               /\ PortBaseReal'
               /\ drivers' = drivers
  <2>1. ASSUME NEW descriptor \in Descriptors
        PROVE  descriptor.vendor \in Word /\ descriptor.device \in Word
    BY DEF Descriptors
  <2> QED BY <1>1, <2>1 DEF ScanInv, ScanTypeOK, Scanned, Functionals
<1>4. CASE Arrive
  <2>1. /\ stage = "slot" /\ stage' = "function" /\ function' = 0
        /\ cards' \in [0 .. Functions - 1 -> Cards \cup {Absent}]
        /\ UNCHANGED <<bus, device, barNum, dev, listed, drivers>>
    BY <1>4 DEF Arrive
  <2>2. dev'.portBase = Unset
    BY <1>2, <2>1
  <2>3. PortBaseReal'
    BY <2>2 DEF PortBaseReal
  <2> QED BY <1>1, <1>2, <2>1, <2>2, <2>3 DEF Functionals
<1>5. CASE Describe
  <2> DEFINE descriptor == GetDeviceDescriptor(function)
  <2>1. /\ stage = "function" /\ function < NumFunctions
        /\ \/ function' = function + 1 /\ UNCHANGED <<stage, barNum, dev>>
           \/ dev' = descriptor /\ stage' = "bars" /\ barNum' = 0 /\ function' = function
        /\ UNCHANGED <<bus, device, cards, listed, drivers>>
    BY <1>5 DEF Describe
  <2>2. function \in Functionals
    BY <1>1, <1>2, <2>1 DEF Functionals
  <2>3. descriptor \in Descriptors /\ descriptor.portBase = Unset
    <3>1. Read(function, 0) \in Word /\ Read(function, 2) \in Word
      BY <1>2, <2>2, ReadWords
    <3> QED BY <3>1 DEF GetDeviceDescriptor, Descriptors, Unset
  <2> HIDE DEF descriptor
  <2>4. dev'.portBase = Unset
    BY <1>2, <2>1, <2>3
  <2> QED BY <1>1, <1>2, <2>1, <2>3, <2>4 DEF PortBaseReal
<1>6. CASE ProbeBar
  <2>1. /\ stage = "bars" /\ barNum < 6 /\ barNum' = barNum + 1
        /\ UNCHANGED <<stage, bus, device, function, cards, listed>>
        /\ drivers' = drivers \o <<>>
    BY <1>6 DEF ProbeBar, AddDriver, GetDriver
  <2>2. PICK bar \in GetBaseAddressResister(function, barNum) :
            dev' = IF bar.io /\ bar.address # 0
                   THEN [dev EXCEPT !.portBase = bar.address] ELSE dev
    BY <1>6 DEF ProbeBar
  <2>3. function \in Functionals /\ barNum \in 0 .. 5
    BY <1>1, <1>2, <2>1 DEF Functionals
  <2> DEFINE low == cards[function][16 + 4 * barNum][1]
  <2>4. bar.address \in Int /\ (bar.io => low % 2 = 1 /\ bar.address = low - (low % 4))
    <3>1. cards \in [Functionals -> Cards \cup {Absent}]
      BY <1>2
    <3> QED BY <2>2, <2>3, <3>1, PortIsRegister
  <2> HIDE DEF low
  <2>5. dev' \in Descriptors
    BY <1>2, <2>2, <2>4 DEF Descriptors
  <2>6. dev'.portBase = dev.portBase \/ (low % 2 = 1 /\ dev'.portBase = low - (low % 4))
    BY <1>2, <2>2, <2>4 DEF Descriptors
  <2>7. PortBaseReal'
    <3>1. CASE dev'.portBase = dev.portBase
      BY <1>2, <2>1, <3>1 DEF PortBaseReal
    <3>2. CASE low % 2 = 1 /\ dev'.portBase = low - (low % 4)
      BY <2>1, <2>3, <3>2 DEF PortBaseReal, low
    <3> QED BY <2>6, <3>1, <3>2
  <2>8. drivers \o <<>> = drivers
    OBVIOUS
  <2> QED BY <1>1, <1>2, <2>1, <2>3, <2>5, <2>7, <2>8
<1>7. CASE List
  <2>1. NoDevice \in Descriptors /\ NoDevice.portBase = Unset
    <3>1. 0 \in Word
      BY Words
    <3> QED BY <3>1 DEF NoDevice, Descriptors, Unset
  <2> QED BY <1>1, <1>2, <1>7, <2>1 DEF List, PortBaseReal
<1>8. CASE LeaveSlot
  <2>1. (device + 1) % Slots \in 0 .. Slots - 1
    BY <1>1, <1>2
  <2>2. EmptySlot \in [Functionals -> Cards \cup {Absent}]
    BY DEF EmptySlot, Functionals
  <2> QED BY <1>1, <1>2, <1>8, <2>1, <2>2 DEF LeaveSlot, PortBaseReal
<1> QED BY <1>4, <1>5, <1>6, <1>7, <1>8 DEF SelectDrivers

------------------------------------------------------------------------------
(* Bytes and their bits.                                                    *)

\* The bytes are numbers of 8 bits.
LEMMA Bytes == \A n : n \in Byte <=> n \in Nat /\ n <= 255
  BY DEF Byte

\* The bits of the command byte that the drivers change.
Controls == {0, 1, 4, 5}

\* A byte made of those bits, and of the two and the two others.
Made(b0, b1, low, b4, b5, high) == b0 + 2 * b1 + 4 * low + 16 * b4 + 32 * b5 + 64 * high

\* Its bits are what it was made of.
LEMMA MadeOf ==
    ASSUME NEW b0 \in {0, 1}, NEW b1 \in {0, 1}, NEW b4 \in {0, 1}, NEW b5 \in {0, 1},
           NEW low \in Nat, low <= 3, NEW high \in Nat, high <= 3
    PROVE  LET byte == Made(b0, b1, low, b4, b5, high) IN
           /\ byte \in Byte
           /\ Bit(byte, 0) <=> b0 = 1
           /\ Bit(byte, 1) <=> b1 = 1
           /\ Bit(byte, 4) <=> b4 = 1
           /\ Bit(byte, 5) <=> b5 = 1
<1> DEFINE byte == Made(b0, b1, low, b4, b5, high)
<1>1. b0 \in Nat /\ b1 \in Nat /\ b4 \in Nat /\ b5 \in Nat
      /\ b0 <= 1 /\ b1 <= 1 /\ b4 <= 1 /\ b5 <= 1
  OBVIOUS
<1>2. 2^0 = 1 /\ 2^1 = 2 /\ 2^4 = 16 /\ 2^5 = 32
  OBVIOUS
<1>3. byte \in Nat /\ byte <= 255
  BY <1>1 DEF Made
<1>4. /\ byte \div 1 = b0 + 2 * (b1 + 2 * low + 8 * b4 + 16 * b5 + 32 * high)
      /\ byte \div 2 = b1 + 2 * (low + 4 * b4 + 8 * b5 + 16 * high)
      /\ byte \div 16 = b4 + 2 * (b5 + 2 * high)
      /\ byte \div 32 = b5 + 2 * high
  BY <1>1 DEF Made
<1>5. ASSUME NEW b \in Nat, b <= 1, NEW n \in Nat
      PROVE  (b + 2 * n) % 2 = b
  BY <1>5
<1>6. /\ (byte \div 1) % 2 = b0 /\ (byte \div 2) % 2 = b1
      /\ (byte \div 16) % 2 = b4 /\ (byte \div 32) % 2 = b5
  BY <1>1, <1>4, <1>5
<1> HIDE DEF byte
<1> QED BY <1>2, <1>3, <1>6, Bytes DEF Bit, byte

\* Every byte is made so.
LEMMA AllMade ==
    ASSUME NEW byte \in Byte
    PROVE  \E b0, b1, b4, b5 \in {0, 1}, low, high \in Nat :
              low <= 3 /\ high <= 3 /\ byte = Made(b0, b1, low, b4, b5, high)
<1>1. byte \in Nat /\ byte <= 255
  BY Bytes
<1> DEFINE b0 == byte % 2
           b1 == (byte \div 2) % 2
           low == (byte \div 4) % 4
           b4 == (byte \div 16) % 2
           b5 == (byte \div 32) % 2
           high == byte \div 64
<1>2. /\ b0 \in {0, 1} /\ b1 \in {0, 1} /\ b4 \in {0, 1} /\ b5 \in {0, 1}
      /\ low \in Nat /\ low <= 3 /\ high \in Nat /\ high <= 3
  BY <1>1
<1>3. /\ byte = b0 + 2 * (byte \div 2)
      /\ byte \div 2 = b1 + 2 * (byte \div 4)
      /\ byte \div 4 = low + 4 * (byte \div 16)
      /\ byte \div 16 = b4 + 2 * (byte \div 32)
      /\ byte \div 32 = b5 + 2 * high
  BY <1>1
<1>4. byte = Made(b0, b1, low, b4, b5, high)
  BY <1>1, <1>2, <1>3 DEF Made
<1> HIDE DEF b0, b1, low, b4, b5, high
<1> QED BY <1>2, <1>4

\* A bit that is set is set, and the others are as they were.
LEMMA WithBit ==
    ASSUME NEW byte \in Byte, NEW i \in Controls
    PROVE  /\ With(byte, i) \in Byte
           /\ Bit(With(byte, i), i)
           /\ \A j \in Controls : j # i => (Bit(With(byte, i), j) <=> Bit(byte, j))
<1> USE DEF Controls
<1>1. PICK b0, b1, b4, b5 \in {0, 1}, low, high \in Nat :
           low <= 3 /\ high <= 3 /\ byte = Made(b0, b1, low, b4, b5, high)
  BY AllMade
<1>2. /\ Bit(byte, 0) <=> b0 = 1
      /\ Bit(byte, 1) <=> b1 = 1
      /\ Bit(byte, 4) <=> b4 = 1
      /\ Bit(byte, 5) <=> b5 = 1
  BY <1>1, MadeOf
<1>3. CASE Bit(byte, i)
  BY <1>3 DEF With
<1>4. CASE ~Bit(byte, i)
  <2>1. With(byte, i) = byte + 2^i
    BY <1>4 DEF With
  <2>2. CASE i = 0
    <3>1. With(byte, i) = Made(1, b1, low, b4, b5, high)
      BY <1>1, <1>2, <1>4, <2>1, <2>2 DEF Made
    <3> QED BY <1>1, <1>2, <2>2, <3>1, MadeOf
  <2>3. CASE i = 1
    <3>1. With(byte, i) = Made(b0, 1, low, b4, b5, high)
      BY <1>1, <1>2, <1>4, <2>1, <2>3 DEF Made
    <3> QED BY <1>1, <1>2, <2>3, <3>1, MadeOf
  <2>4. CASE i = 4
    <3>1. With(byte, i) = Made(b0, b1, low, 1, b5, high)
      BY <1>1, <1>2, <1>4, <2>1, <2>4 DEF Made
    <3> QED BY <1>1, <1>2, <2>4, <3>1, MadeOf
  <2>5. CASE i = 5
    <3>1. With(byte, i) = Made(b0, b1, low, b4, 1, high)
      BY <1>1, <1>2, <1>4, <2>1, <2>5 DEF Made
    <3> QED BY <1>1, <1>2, <2>5, <3>1, MadeOf
  <2> QED BY <2>2, <2>3, <2>4, <2>5
<1> QED BY <1>3, <1>4

\* A bit that is cleared is clear, and the others are as they were.
LEMMA WithoutBit ==
    ASSUME NEW byte \in Byte, NEW i \in Controls
    PROVE  /\ Without(byte, i) \in Byte
           /\ ~Bit(Without(byte, i), i)
           /\ \A j \in Controls : j # i => (Bit(Without(byte, i), j) <=> Bit(byte, j))
<1> USE DEF Controls
<1>1. PICK b0, b1, b4, b5 \in {0, 1}, low, high \in Nat :
           low <= 3 /\ high <= 3 /\ byte = Made(b0, b1, low, b4, b5, high)
  BY AllMade
<1>2. /\ Bit(byte, 0) <=> b0 = 1
      /\ Bit(byte, 1) <=> b1 = 1
      /\ Bit(byte, 4) <=> b4 = 1
      /\ Bit(byte, 5) <=> b5 = 1
  BY <1>1, MadeOf
<1>3. CASE ~Bit(byte, i)
  BY <1>3 DEF Without
<1>4. CASE Bit(byte, i)
  <2>1. Without(byte, i) = byte - 2^i
    BY <1>4 DEF Without
  <2>2. CASE i = 0
    <3>1. Without(byte, i) = Made(0, b1, low, b4, b5, high)
      BY <1>1, <1>2, <1>4, <2>1, <2>2 DEF Made
    <3> QED BY <1>1, <1>2, <2>2, <3>1, MadeOf
  <2>3. CASE i = 1
    <3>1. Without(byte, i) = Made(b0, 0, low, b4, b5, high)
      BY <1>1, <1>2, <1>4, <2>1, <2>3 DEF Made
    <3> QED BY <1>1, <1>2, <2>3, <3>1, MadeOf
  <2>4. CASE i = 4
    <3>1. Without(byte, i) = Made(b0, b1, low, 0, b5, high)
      BY <1>1, <1>2, <1>4, <2>1, <2>4 DEF Made
    <3> QED BY <1>1, <1>2, <2>4, <3>1, MadeOf
  <2>5. CASE i = 5
    <3>1. Without(byte, i) = Made(b0, b1, low, b4, 0, high)
      BY <1>1, <1>2, <1>4, <2>1, <2>5 DEF Made
    <3> QED BY <1>1, <1>2, <2>5, <3>1, MadeOf
  <2> QED BY <2>2, <2>3, <2>4, <2>5
<1> QED BY <1>3, <1>4

------------------------------------------------------------------------------
(* The invariant.                                                           *)

Entry == [byte : Byte, from : Origin]
Makes == {42, 54}
Breaks == {170, 182}

\* What the drivers' Activate does, in order.
Order == <<"drain", "start_keyboard", "ask", "keyboard_status", "write_status",
           "activate_keyboard", "reset", "start_mouse", "ask", "mouse_status",
           "write_status", "activate_mouse", "take">>
Accessing == {Order[i] : i \in 1 .. 13}

Booting == kernel \in {"keyboard", "mouse", "scan", "activate"}

\* How far kernelMain is: each driver is added once, what is left of Activate is
\* the end of Order, and interrupts are on when all is done.
Progress ==
    /\ kernel \in {"keyboard", "mouse", "scan", "activate", "activating", "loop"}
    /\ kernel = "keyboard" => drivers = <<>>
    /\ kernel = "mouse" => drivers = <<"keyboard">>
    /\ kernel \notin {"keyboard", "mouse"} => drivers = <<"keyboard", "mouse">>
    /\ todo \in Seq(Accessing)
    /\ Len(todo) <= 13
    /\ \A i \in 1 .. Len(todo) : todo[i] = Order[13 - Len(todo) + i]
    /\ kernel # "activating" => todo = <<>>
    /\ sti <=> kernel = "loop"

Typed == Ps2TypeOK /\ unsent \in Seq(Byte)

NoAnswer(bytes) == \A i \in DOMAIN bytes : bytes[i].from # "controller"
OneAnswer(bytes) ==
    \A i, j \in DOMAIN bytes :
        bytes[i].from = "controller" /\ bytes[j].from = "controller" => i = j
Answered(bytes, m) == \A i \in DOMAIN bytes : bytes[i].from = "controller" => bytes[i].byte = m

\* What the bits of the mode, and of the byte that will be written to it, are on
\* the way, whether or not another byte was taken for an answer.
ModeKept(left) ==
    /\ Booting => mode \in Modes
    /\ kernel = "activating" =>
          /\ left >= 11 => (mode \div 8) % 2 = 0
          /\ left = 11 => ~Bit(mode, 4)
          /\ left = 9 => Bit(status, 0) /\ ~Bit(status, 4)
          /\ left \in {4, 5, 6, 7, 8} => Bit(mode, 0) /\ ~Bit(mode, 4)
          /\ left \in {4, 5} => ~Bit(mode, 5)
    /\ kernel \in {"activating", "loop"} =>
          /\ left = 3 => Bit(status, 1)
          /\ left <= 2 => Bit(mode, 1)
          /\ left <= 1 => ~Bit(mode, 5)

\* And as long as none was.
ModeRight(left) ==
    kernel \in {"activating", "loop"} /\ ~misread =>
          /\ left \notin {4, 10} => NoAnswer(out)
          /\ OneAnswer(out) /\ Answered(out, mode)
          /\ left = 3 => Bit(status, 0) /\ ~Bit(status, 4) /\ ~Bit(status, 5)
          /\ left <= 3 => Bit(mode, 0) /\ ~Bit(mode, 4) /\ ~Bit(mode, 5)

NoPacket(bytes) == \A i \in DOMAIN bytes : bytes[i].from # "mouse"

\* The mouse acknowledges that it was told to report before it does.
AcknowledgedFirst(bytes) ==
    \E i \in DOMAIN bytes :
        bytes[i].from = "mouse_ack" /\ \A j \in 1 .. i : bytes[j].from # "mouse"

\* Before the drivers are activated nothing asks for anything, and before the
\* mouse is told to report, nothing comes of it.
Quiet(left) ==
    /\ Booting => irq = {} /\ NoAnswer(out)
    /\ Booting \/ (kernel = "activating" /\ left >= 2) =>
          ~reporting /\ "mouse" \notin owed /\ unsent = <<>> /\ NoPacket(out)
    /\ kernel = "activating" /\ left = 1 =>
          \/ "mouse" \in owed /\ unsent = <<>> /\ NoPacket(out)
          \/ AcknowledgedFirst(out)

Unshifting(bytes) ==
    \A i \in DOMAIN bytes :
        bytes[i].from \in {"controller", "keyboard_ack", "mouse_ack"} => bytes[i].byte \notin Makes

Released(bytes, i) ==
    \E j \in DOMAIN bytes : j > i /\ bytes[j].from = "keyboard" /\ bytes[j].byte \in Breaks

Following(bytes, keys) ==
    \A i \in DOMAIN bytes :
        bytes[i].from = "keyboard" /\ bytes[i].byte \in Makes =>
            keys \cap Shifts # {} \/ Released(bytes, i)

\* Only a shift key that is pressed sends its code, and its release follows when
\* it is held no more; what a stale request could read once more is no older.
Keyed ==
    /\ Unshifting(out)
    /\ Following(out, held)
    /\ 1 \in irq /\ out = <<>> /\ last \in Makes => held \cap Shifts # {}
    /\ Shift => sti
    /\ Shift /\ ~stolen => held \cap Shifts # {} \/ Released(out, 0)


------------------------------------------------------------------------------
(* What the parts of a step do.                                             *)

\* A byte that is sent goes behind those that wait.
LEMMA Sent ==
    ASSUME out \in Seq(Entry), irq \subseteq {1, 12},
           NEW byte \in Byte, NEW from \in Origin, Send(byte, from)
    PROVE  /\ out' \in Seq(Entry) /\ Len(out') = Len(out) + 1 /\ out' # <<>>
           /\ Len(out) \in Nat /\ DOMAIN out = 1 .. Len(out) /\ DOMAIN out' = 1 .. Len(out) + 1
           /\ \A i \in 1 .. Len(out) : out'[i] = out[i]
           /\ out'[Len(out) + 1].byte = byte /\ out'[Len(out) + 1].from = from
           /\ irq' \subseteq {1, 12}
<1>1. [byte |-> byte, from |-> from] \in Entry
  BY DEF Entry
<1>2. out' = Append(out, [byte |-> byte, from |-> from])
  BY DEF Send
<1>3. irq' \subseteq {1, 12}
  BY DEF Send, Request
<1> QED BY <1>1, <1>2, <1>3

\* A byte that is taken is the first, or the last one once more.
LEMMA Taken ==
    ASSUME out \in Seq(Entry), last \in Byte, NEW requests, Take(requests)
    PROVE  /\ Port.byte \in Byte /\ last' = Port.byte
           /\ Len(out) \in Nat /\ DOMAIN out = 1 .. Len(out)
           /\ out' \in Seq(Entry) /\ DOMAIN out' = 1 .. Len(out')
           /\ out = <<>> => out' = <<>> /\ Port.byte = last /\ Port.from = "nobody"
           /\ out # <<>> => /\ Port = out[1] /\ out[1] \in Entry
                            /\ Len(out) >= 1 /\ Len(out') = Len(out) - 1
                            /\ \A i \in 1 .. Len(out') : out'[i] = out[i + 1]
           /\ irq' \subseteq requests \cup {1, 12}
           /\ out' = <<>> => irq' = requests
<1>1. /\ last' = Port.byte /\ out' = (IF out = <<>> THEN out ELSE Tail(out))
      /\ irq' = requests \cup Request(out', mode)
  BY DEF Take
<1>2. Request(out', mode) \subseteq {1, 12} /\ (out' = <<>> => Request(out', mode) = {})
  BY DEF Request
<1>3. CASE out = <<>>
  <2>1. Port = [byte |-> last, from |-> "nobody"]
    BY <1>3 DEF Port
  <2> QED BY <1>1, <1>2, <1>3, <2>1
<1>4. CASE out # <<>>
  <2>1. Port = out[1] /\ out[1] \in Entry /\ Len(out) >= 1
    BY <1>4 DEF Port
  <2>2. Port.byte \in Byte
    BY <2>1 DEF Entry
  <2>3. out' \in Seq(Entry) /\ Len(out') = Len(out) - 1
        /\ \A i \in 1 .. Len(out') : out'[i] = out[i + 1]
    BY <1>1, <1>4
  <2> QED BY <1>1, <1>2, <1>4, <2>1, <2>2, <2>3
<1> QED BY <1>3, <1>4

\* Setting the mode asks for no more than a waiting byte does.
LEMMA ModeSet ==
    ASSUME irq \subseteq {1, 12}, NEW m, SetMode(m)
    PROVE  mode' = m /\ irq' \subseteq {1, 12} /\ (out = <<>> => irq' = irq)
  BY DEF SetMode, Request

\* The codes of a key.
LEMMA KeyCodes ==
    ASSUME NEW key \in Keys
    PROVE  /\ key.make \in Byte /\ key.break \in Byte /\ key.break \notin Makes
           /\ key.make \in Makes => key \in Shifts
           /\ key \in Shifts => key.break \in Breaks
<1>1. PICK code \in 0 .. 127 : key = [make |-> code, break |-> code + 128]
  BY Ps2Assumption
<1>2. key.make = code /\ key.break = code + 128 /\ code \in Nat /\ code <= 127
  BY <1>1
<1>3. key.make \in Byte /\ key.break \in Byte
  BY <1>2, Bytes
<1>4. key.break \notin Makes
  BY <1>2 DEF Makes
<1>5. key.make \in Makes => key \in Shifts
  BY <1>1, <1>2 DEF Makes, Shifts
<1>6. key \in Shifts => key.break \in Breaks
  BY DEF Shifts, Breaks
<1> QED BY <1>3, <1>4, <1>5, <1>6

\* The next access of Activate: which it is, and that the rest is left.
LEMMA NextAccess ==
    ASSUME Progress, todo # <<>>
    PROVE  /\ Len(todo) \in Nat /\ Len(todo) >= 1 /\ Len(todo) <= 13
           /\ Head(todo) = Order[14 - Len(todo)]
           /\ kernel = "activating" /\ ~sti
           /\ Tail(todo) \in Seq(Accessing)
           /\ Len(Tail(todo)) = Len(todo) - 1
           /\ \A i \in 1 .. Len(Tail(todo)) : Tail(todo)[i] = Order[13 - Len(Tail(todo)) + i]
<1>1. /\ todo \in Seq(Accessing) /\ Len(todo) <= 13
      /\ \A i \in 1 .. Len(todo) : todo[i] = Order[13 - Len(todo) + i]
      /\ kernel = "activating" /\ ~sti
  BY DEF Progress
<1>2. Len(todo) \in Nat /\ Len(todo) >= 1 /\ Head(todo) = todo[1]
  BY <1>1
<1>3. Head(todo) = Order[14 - Len(todo)]
  BY <1>1, <1>2
<1>4. /\ Tail(todo) \in Seq(Accessing) /\ Len(Tail(todo)) = Len(todo) - 1
      /\ \A i \in 1 .. Len(Tail(todo)) : Tail(todo)[i] = todo[i + 1]
  BY <1>1, <1>2
<1>5. ASSUME NEW i \in 1 .. Len(Tail(todo))
      PROVE  Tail(todo)[i] = Order[13 - Len(Tail(todo)) + i]
  <2>1. i + 1 \in 1 .. Len(todo) /\ 13 - Len(todo) + (i + 1) = 13 - Len(Tail(todo)) + i
    BY <1>2, <1>4
  <2> QED BY <1>1, <1>4, <2>1
<1> QED BY <1>1, <1>2, <1>3, <1>4, <1>5

\* At which place of Order an access is.
LEMMA Placed ==
    ASSUME NEW n \in Nat, n >= 1, n <= 13
    PROVE  /\ Order[14 - n] = "drain" => n = 13
           /\ Order[14 - n] = "start_keyboard" => n = 12
           /\ Order[14 - n] = "ask" => n = 11 \/ n = 5
           /\ Order[14 - n] = "keyboard_status" => n = 10
           /\ Order[14 - n] = "write_status" => n = 9 \/ n = 3
           /\ Order[14 - n] = "activate_keyboard" => n = 8
           /\ Order[14 - n] = "reset" => n = 7
           /\ Order[14 - n] = "start_mouse" => n = 6
           /\ Order[14 - n] = "mouse_status" => n = 4
           /\ Order[14 - n] = "activate_mouse" => n = 2
           /\ Order[14 - n] = "take" => n = 1
  BY DEF Order

\* An access that is done leaves the others to be done.
LEMMA AccessDone ==
    ASSUME Progress, todo # <<>>, todo' = Tail(todo), UNCHANGED <<kernel, drivers, sti>>
    PROVE  Progress' /\ Len(todo') = Len(todo) - 1
  BY NextAccess DEF Progress

\* What holds of the bytes that wait holds of those behind the first.
LEMMA Behind ==
    ASSUME NEW s \in Seq(Entry), NEW t \in Seq(Entry), Len(t) = Len(s) - 1,
           \A i \in 1 .. Len(t) : t[i] = s[i + 1]
    PROVE  /\ NoAnswer(s) => NoAnswer(t)
           /\ OneAnswer(s) => OneAnswer(t)
           /\ OneAnswer(s) /\ s[1].from = "controller" /\ Len(s) >= 1 => NoAnswer(t)
           /\ \A m : Answered(s, m) => Answered(t, m)
           /\ NoPacket(s) => NoPacket(t)
           /\ AcknowledgedFirst(s) /\ s[1].from # "mouse_ack" => AcknowledgedFirst(t)
           /\ Unshifting(s) => Unshifting(t)
           /\ \A i \in Nat : Released(s, i + 1) => Released(t, i)
           /\ \A keys : Following(s, keys) => Following(t, keys)
<1>1. Len(s) \in Nat /\ Len(t) \in Nat /\ DOMAIN s = 1 .. Len(s) /\ DOMAIN t = 1 .. Len(t)
  OBVIOUS
<1>2. \A i \in DOMAIN t : i + 1 \in DOMAIN s /\ i \in Nat /\ t[i] = s[i + 1]
  BY <1>1
<1>3. ASSUME NEW i \in Nat, Released(s, i + 1) PROVE Released(t, i)
  <2>1. PICK j \in DOMAIN s : j > i + 1 /\ s[j].from = "keyboard" /\ s[j].byte \in Breaks
    BY <1>3 DEF Released
  <2>2. j - 1 \in DOMAIN t /\ j - 1 > i /\ t[j - 1] = s[j]
    BY <1>1, <2>1
  <2> QED BY <2>1, <2>2 DEF Released
<1>4. ASSUME NEW keys, Following(s, keys) PROVE Following(t, keys)
  <2> SUFFICES ASSUME NEW i \in DOMAIN t, t[i].from = "keyboard", t[i].byte \in Makes,
                      keys \cap Shifts = {}
               PROVE  Released(t, i)
    BY DEF Following
  <2>1. Released(s, i + 1)
    BY <1>2, <1>4 DEF Following
  <2> QED BY <1>2, <1>3, <2>1
<1>5. ASSUME AcknowledgedFirst(s), s[1].from # "mouse_ack" PROVE AcknowledgedFirst(t)
  <2>1. PICK i \in DOMAIN s : s[i].from = "mouse_ack" /\ \A j \in 1 .. i : s[j].from # "mouse"
    BY <1>5 DEF AcknowledgedFirst
  <2>2. i # 1 /\ i - 1 \in DOMAIN t /\ t[i - 1] = s[i]
    BY <1>1, <1>5, <2>1
  <2>3. ASSUME NEW j \in 1 .. i - 1 PROVE t[j].from # "mouse"
    <3>1. j + 1 \in 1 .. i /\ t[j] = s[j + 1]
      BY <1>1, <2>2
    <3> QED BY <2>1, <3>1
  <2> QED BY <2>1, <2>2, <2>3 DEF AcknowledgedFirst
<1>6. /\ NoAnswer(s) => NoAnswer(t)
      /\ NoPacket(s) => NoPacket(t)
      /\ \A m : Answered(s, m) => Answered(t, m)
  BY <1>2 DEF NoAnswer, Answered, NoPacket
<1>7. Unshifting(s) => Unshifting(t)
  BY <1>2 DEF Unshifting
<1>8. ASSUME OneAnswer(s) PROVE OneAnswer(t)
  <2> SUFFICES ASSUME NEW i \in DOMAIN t, NEW j \in DOMAIN t,
                      t[i].from = "controller", t[j].from = "controller"
               PROVE  i = j
    BY DEF OneAnswer
  <2>1. i + 1 = j + 1
    BY <1>2, <1>8 DEF OneAnswer
  <2> QED BY <1>2, <2>1
<1>9. ASSUME OneAnswer(s), s[1].from = "controller", Len(s) >= 1 PROVE NoAnswer(t)
  <2> SUFFICES ASSUME NEW i \in DOMAIN t, t[i].from = "controller" PROVE FALSE
    BY DEF NoAnswer
  <2>1. 1 \in DOMAIN s /\ i + 1 \in DOMAIN s /\ s[i + 1].from = "controller"
    BY <1>1, <1>2, <1>9
  <2>2. i + 1 = 1
    BY <1>9, <2>1 DEF OneAnswer
  <2> QED BY <1>1, <2>2
<1> QED BY <1>3, <1>4, <1>5, <1>6, <1>7, <1>8, <1>9

\* And of one more, if it holds of that one.
LEMMA Joined ==
    ASSUME NEW s \in Seq(Entry), NEW t \in Seq(Entry), Len(t) = Len(s) + 1,
           \A i \in 1 .. Len(s) : t[i] = s[i],
           NEW byte, NEW from, t[Len(s) + 1].byte = byte, t[Len(s) + 1].from = from
    PROVE  /\ NoAnswer(s) /\ from # "controller" => NoAnswer(t)
           /\ NoAnswer(s) \/ (OneAnswer(s) /\ from # "controller") => OneAnswer(t)
           /\ \A m : Answered(s, m) /\ (from # "controller" \/ byte = m) => Answered(t, m)
           /\ NoPacket(s) /\ from # "mouse" => NoPacket(t)
           /\ AcknowledgedFirst(s) => AcknowledgedFirst(t)
           /\ NoPacket(s) /\ from = "mouse_ack" => AcknowledgedFirst(t)
           /\ Unshifting(s) /\ (from \in {"keyboard", "mouse"} \/ byte \notin Makes)
                 => Unshifting(t)
           /\ \A i : Released(s, i) => Released(t, i)
           /\ from = "keyboard" /\ byte \in Breaks => \A i \in 0 .. Len(s) : Released(t, i)
           /\ \A keys : Following(s, keys)
                           /\ (from # "keyboard" \/ byte \notin Makes \/ keys \cap Shifts # {})
                        => Following(t, keys)
<1>1. /\ Len(s) \in Nat /\ Len(t) \in Nat /\ DOMAIN s = 1 .. Len(s)
      /\ DOMAIN t = DOMAIN s \cup {Len(s) + 1} /\ Len(s) + 1 \in Nat
      /\ \A i \in DOMAIN s : t[i] = s[i]
  OBVIOUS
<1>2. ASSUME NEW i, Released(s, i) PROVE Released(t, i)
  BY <1>1, <1>2 DEF Released
<1>3. ASSUME from = "keyboard", byte \in Breaks, NEW i \in 0 .. Len(s) PROVE Released(t, i)
  <2>1. Len(s) + 1 > i
    BY <1>1
  <2> QED BY <1>1, <1>3, <2>1 DEF Released
<1>4. ASSUME NEW keys, Following(s, keys),
             from # "keyboard" \/ byte \notin Makes \/ keys \cap Shifts # {}
      PROVE  Following(t, keys)
  <2> SUFFICES ASSUME NEW i \in DOMAIN t, t[i].from = "keyboard", t[i].byte \in Makes,
                      keys \cap Shifts = {}
               PROVE  Released(t, i)
    BY DEF Following
  <2>1. i \in DOMAIN s
    BY <1>1, <1>4
  <2>2. Released(s, i)
    BY <1>1, <1>4, <2>1 DEF Following
  <2> QED BY <1>2, <2>2
<1>5. /\ NoAnswer(s) /\ from # "controller" => NoAnswer(t)
      /\ NoPacket(s) /\ from # "mouse" => NoPacket(t)
  BY <1>1 DEF NoAnswer, NoPacket
<1>6. ASSUME NEW m, Answered(s, m), from # "controller" \/ byte = m PROVE Answered(t, m)
  BY <1>1, <1>6 DEF Answered
<1>7. ASSUME AcknowledgedFirst(s) PROVE AcknowledgedFirst(t)
  <2>1. PICK i \in DOMAIN s : s[i].from = "mouse_ack" /\ \A j \in 1 .. i : s[j].from # "mouse"
    BY <1>7 DEF AcknowledgedFirst
  <2>2. \A j \in 1 .. i : j \in DOMAIN s
    BY <1>1, <2>1
  <2> QED BY <1>1, <2>1, <2>2 DEF AcknowledgedFirst
<1>8. ASSUME NoPacket(s), from = "mouse_ack" PROVE AcknowledgedFirst(t)
  <2>1. \A j \in 1 .. Len(s) + 1 : t[j].from # "mouse"
    BY <1>1, <1>8 DEF NoPacket
  <2> QED BY <1>1, <1>8, <2>1 DEF AcknowledgedFirst
<1>9. ASSUME Unshifting(s), from \in {"keyboard", "mouse"} \/ byte \notin Makes
      PROVE  Unshifting(t)
  BY <1>1, <1>9 DEF Unshifting
<1>10. ASSUME NoAnswer(s) \/ (OneAnswer(s) /\ from # "controller") PROVE OneAnswer(t)
  BY <1>1, <1>10 DEF NoAnswer, OneAnswer
<1> QED BY <1>2, <1>3, <1>4, <1>5, <1>6, <1>7, <1>8, <1>9, <1>10

Ps2Inv ==
    /\ Progress /\ Typed /\ Keyed
    /\ ModeKept(Len(todo)) /\ ModeRight(Len(todo)) /\ Quiet(Len(todo))

\* The numbers that a byte may be.
LEMMA Values ==
    ASSUME Ps2Inv
    PROVE  /\ out \in Seq(Entry) /\ last \in Byte /\ mode \in Byte /\ status \in Byte
           /\ irq \subseteq {1, 12} /\ owed \subseteq {"keyboard", "mouse"}
           /\ held \subseteq Keys /\ unsent \in Seq(Byte) /\ Len(unsent) <= 3
           /\ offset \in 0 .. 2 /\ buffer \in [0 .. 2 -> Byte] /\ buttons \in Byte
           /\ ACK \in Byte /\ ACK \notin Makes
<1>1. ACK \in Byte /\ ACK \notin Makes
  BY Bytes DEF ACK, Makes
<1> QED BY <1>1 DEF Ps2Inv, Typed, Ps2TypeOK, Entry

------------------------------------------------------------------------------
(* The devices.                                                             *)

\* An acknowledgement is nobody's key, and the mouse's comes before its packets.
LEMMA AcknowledgeKeeps ==
    ASSUME Ps2Inv, kernel \in {"activating", "loop"}, UNCHANGED <<kernel, drivers>>,
           NEW who \in owed, Acknowledge(who)
    PROVE  Ps2Inv'
<1> DEFINE from == IF who = "mouse" THEN "mouse_ack" ELSE "keyboard_ack"
<1>1. /\ Send(ACK, from) /\ owed' = owed \ {who} /\ from \in Origin
      /\ UNCHANGED <<last, mode, reporting, unsent, held, sti, todo, status, Shift,
                     mouseState, misread, stolen, typed, sent>>
  BY DEF Acknowledge, Origin
<1> HIDE DEF from
<1>2. /\ out' \in Seq(Entry) /\ Len(out') = Len(out) + 1 /\ out' # <<>>
      /\ \A i \in 1 .. Len(out) : out'[i] = out[i]
      /\ out'[Len(out) + 1].byte = ACK /\ out'[Len(out) + 1].from = from
      /\ irq' \subseteq {1, 12}
  BY <1>1, Values, Sent
<1>3. from \in {"mouse_ack", "keyboard_ack"} /\ (who = "mouse" => from = "mouse_ack")
  BY DEF from
<1>4. /\ NoAnswer(out) => NoAnswer(out')
      /\ OneAnswer(out) => OneAnswer(out')
      /\ \A m : Answered(out, m) => Answered(out', m)
      /\ NoPacket(out) => NoPacket(out')
      /\ AcknowledgedFirst(out) => AcknowledgedFirst(out')
      /\ NoPacket(out) /\ from = "mouse_ack" => AcknowledgedFirst(out')
      /\ Unshifting(out) => Unshifting(out')
      /\ \A i : Released(out, i) => Released(out', i)
      /\ \A keys : Following(out, keys) => Following(out', keys)
  <2>1. out \in Seq(Entry) /\ from # "controller" /\ from # "mouse" /\ from # "keyboard"
        /\ ACK \notin Makes
    BY <1>3, Values
  <2> QED BY <1>2, <1>3, <2>1, Joined
<1>5. Progress'
  BY <1>1 DEF Ps2Inv, Progress
<1>6. Typed'
  BY <1>1, <1>2 DEF Ps2Inv, Typed, Ps2TypeOK, mouseState, Entry
<1>7. ModeKept(Len(todo))'
  BY <1>1 DEF Ps2Inv, ModeKept, Booting
<1>8. ModeRight(Len(todo))'
  BY <1>1, <1>4 DEF Ps2Inv, ModeRight
<1>9. Quiet(Len(todo))'
  BY <1>1, <1>3, <1>4 DEF Ps2Inv, Quiet, Booting
<1>10. Keyed'
  BY <1>1, <1>2, <1>4 DEF Ps2Inv, Keyed
<1> QED BY <1>5, <1>6, <1>7, <1>8, <1>9, <1>10 DEF Ps2Inv

\* A shift key's code comes when it is held, and its release after.
LEMMA TypeKeeps ==
    ASSUME Ps2Inv, kernel \in {"activating", "loop"}, UNCHANGED <<kernel, drivers>>,
           NEW key \in Keys, Type(key)
    PROVE  Ps2Inv'
<1>1. /\ \/ key \in held /\ held' = held \ {key} /\ Send(key.break, "keyboard")
         \/ key \notin held /\ held' = held \cup {key} /\ Send(key.make, "keyboard")
      /\ UNCHANGED <<last, mode, owed, reporting, unsent, sti, todo, status, Shift,
                     mouseState, misread, stolen, sent>>
  BY DEF Type
<1>2. PICK byte \in Byte :
         /\ Send(byte, "keyboard")
         /\ \/ key \in held /\ held' = held \ {key} /\ byte = key.break
            \/ key \notin held /\ held' = held \cup {key} /\ byte = key.make
  BY <1>1, KeyCodes
<1>3. /\ out' \in Seq(Entry) /\ Len(out') = Len(out) + 1 /\ out' # <<>> /\ Len(out) \in Nat
      /\ \A i \in 1 .. Len(out) : out'[i] = out[i] /\ DOMAIN out = 1 .. Len(out)
      /\ out'[Len(out) + 1].byte = byte /\ out'[Len(out) + 1].from = "keyboard"
      /\ irq' \subseteq {1, 12}
  <2>1. "keyboard" \in Origin
    BY DEF Origin
  <2> QED BY <1>2, <2>1, Values, Sent
<1>4. /\ NoAnswer(out) => NoAnswer(out')
      /\ OneAnswer(out) => OneAnswer(out')
      /\ \A m : Answered(out, m) => Answered(out', m)
      /\ NoPacket(out) => NoPacket(out')
      /\ AcknowledgedFirst(out) => AcknowledgedFirst(out')
      /\ Unshifting(out) => Unshifting(out')
      /\ \A i : Released(out, i) => Released(out', i)
      /\ byte \in Breaks => \A i \in 0 .. Len(out) : Released(out', i)
      /\ \A keys : Following(out, keys) /\ (byte \notin Makes \/ keys \cap Shifts # {})
                       => Following(out', keys)
  BY <1>3, Values, Joined
<1>5. Progress'
  BY <1>1 DEF Ps2Inv, Progress
<1>6. Typed'
  BY <1>1, <1>2, <1>3 DEF Ps2Inv, Typed, Ps2TypeOK, mouseState, Entry
<1>7. ModeKept(Len(todo))'
  BY <1>1 DEF Ps2Inv, ModeKept, Booting
<1>8. ModeRight(Len(todo))'
  BY <1>1, <1>4 DEF Ps2Inv, ModeRight
<1>9. Quiet(Len(todo))'
  BY <1>1, <1>4 DEF Ps2Inv, Quiet, Booting
<1>10. \/ held \cap Shifts # {} => held' \cap Shifts # {}
       \/ byte \in Breaks /\ byte \notin Makes
  BY <1>2, KeyCodes
<1>11. byte \notin Makes \/ held' \cap Shifts # {}
  BY <1>2, KeyCodes
<1>12. Following(out', held')
  <2>1. Following(out, held)
    BY DEF Ps2Inv, Keyed
  <2>2. CASE held \cap Shifts # {} => held' \cap Shifts # {}
    <3>1. Following(out, held')
      BY <2>1, <2>2 DEF Following
    <3> QED BY <1>4, <1>11, <3>1
  <2>3. CASE byte \in Breaks /\ byte \notin Makes
    <3> SUFFICES ASSUME NEW i \in DOMAIN out', out'[i].from = "keyboard", out'[i].byte \in Makes
                 PROVE  Released(out', i)
      BY DEF Following
    <3>1. i \in 1 .. Len(out) + 1
      BY <1>3
    <3>2. i # Len(out) + 1
      BY <1>3, <2>3
    <3>3. i \in 0 .. Len(out)
      BY <1>3, <3>1, <3>2
    <3> QED BY <1>4, <2>3, <3>3
  <2> QED BY <1>10, <2>2, <2>3
<1>13. Shift /\ ~stolen => held' \cap Shifts # {} \/ Released(out', 0)
  <2>1. Shift /\ ~stolen => held \cap Shifts # {} \/ Released(out, 0)
    BY DEF Ps2Inv, Keyed
  <2>2. byte \in Breaks => Released(out', 0)
    BY <1>3, <1>4
  <2> QED BY <1>4, <1>10, <2>1, <2>2
<1>14. Keyed'
  BY <1>1, <1>3, <1>4, <1>12, <1>13 DEF Ps2Inv, Keyed
<1> QED BY <1>5, <1>6, <1>7, <1>8, <1>9, <1>14 DEF Ps2Inv

\* A packet is three bytes, of a mouse that has acknowledged.
LEMMA ReportKeeps ==
    ASSUME Ps2Inv, kernel \in {"activating", "loop"}, UNCHANGED <<kernel, drivers>>,
           NEW packet \in Packets, Report(packet)
    PROVE  Ps2Inv'
<1>1. /\ reporting /\ "mouse" \notin owed /\ unsent' = packet
      /\ UNCHANGED <<out, last, mode, owed, reporting, held, irq, sti, todo, status,
                     Shift, mouseState, misread, stolen, typed>>
  BY DEF Report
<1>2. packet \in Seq(Byte) /\ Len(packet) = 3
  <2>1. packet \in Byte \X Byte \X Byte
    BY Ps2Assumption
  <2>2. packet = <<packet[1], packet[2], packet[3]>>
        /\ packet[1] \in Byte /\ packet[2] \in Byte /\ packet[3] \in Byte
    BY <2>1
  <2>3. ASSUME NEW a \in Byte, NEW b \in Byte, NEW c \in Byte
        PROVE  <<a, b, c>> \in Seq(Byte) /\ Len(<<a, b, c>>) = 3
    OBVIOUS
  <2>4. /\ <<packet[1], packet[2], packet[3]>> \in Seq(Byte)
        /\ Len(<<packet[1], packet[2], packet[3]>>) = 3
    BY <2>2, <2>3
  <2> QED BY <2>2, <2>4, Zenon
<1>3. Progress' /\ Typed' /\ ModeKept(Len(todo))' /\ ModeRight(Len(todo))' /\ Keyed'
  BY <1>1, <1>2 DEF Ps2Inv, Progress, Typed, Ps2TypeOK, mouseState, ModeKept, Booting,
                    ModeRight, Keyed
<1>4. Quiet(Len(todo))'
  BY <1>1 DEF Ps2Inv, Quiet, Booting
<1> QED BY <1>3, <1>4 DEF Ps2Inv

\* Its bytes come after the acknowledgement.
LEMMA SendPacketKeeps ==
    ASSUME Ps2Inv, kernel \in {"activating", "loop"}, UNCHANGED <<kernel, drivers>>,
           SendPacket
    PROVE  Ps2Inv'
<1>1. /\ unsent # <<>> /\ Send(Head(unsent), "mouse") /\ unsent' = Tail(unsent)
      /\ UNCHANGED <<last, mode, owed, reporting, held, sti, todo, status, Shift,
                     mouseState, misread, stolen, typed, sent>>
  BY DEF SendPacket
<1>2. Head(unsent) \in Byte /\ unsent' \in Seq(Byte) /\ Len(unsent') <= 3
  BY <1>1, Values
<1>3. /\ out' \in Seq(Entry) /\ Len(out') = Len(out) + 1 /\ out' # <<>>
      /\ \A i \in 1 .. Len(out) : out'[i] = out[i]
      /\ out'[Len(out) + 1].byte = Head(unsent) /\ out'[Len(out) + 1].from = "mouse"
      /\ irq' \subseteq {1, 12}
  <2>1. "mouse" \in Origin
    BY DEF Origin
  <2> QED BY <1>1, <1>2, <2>1, Values, Sent
<1>4. /\ NoAnswer(out) => NoAnswer(out')
      /\ OneAnswer(out) => OneAnswer(out')
      /\ \A m : Answered(out, m) => Answered(out', m)
      /\ AcknowledgedFirst(out) => AcknowledgedFirst(out')
      /\ Unshifting(out) => Unshifting(out')
      /\ \A i : Released(out, i) => Released(out', i)
      /\ \A keys : Following(out, keys) => Following(out', keys)
  BY <1>3, Values, Joined
<1>5. Progress' /\ ModeKept(Len(todo))' /\ ModeRight(Len(todo))'
  BY <1>1, <1>4 DEF Ps2Inv, Progress, ModeKept, Booting, ModeRight
<1>6. Typed'
  BY <1>1, <1>2, <1>3 DEF Ps2Inv, Typed, Ps2TypeOK, mouseState, Entry
<1>7. Quiet(Len(todo))'
  BY <1>1, <1>4 DEF Ps2Inv, Quiet, Booting
<1>8. Keyed'
  BY <1>1, <1>3, <1>4 DEF Ps2Inv, Keyed
<1> QED BY <1>5, <1>6, <1>7, <1>8 DEF Ps2Inv

------------------------------------------------------------------------------
(* The accesses of Activate.                                                *)

\* What is taken while the drivers are activated is no byte of a packet.
LEMMA NoPacketFirst ==
    ASSUME Ps2Inv, kernel = "activating", todo # <<>>, out # <<>>
    PROVE  out[1].from # "mouse"
<1>1. out \in Seq(Entry) /\ 1 \in DOMAIN out
  <2>1. out \in Seq(Entry)
    BY Values
  <2> QED BY <2>1
<1>2. Len(todo) \in Nat /\ Len(todo) >= 1
  BY NextAccess DEF Ps2Inv
<1>3. CASE NoPacket(out)
  BY <1>1, <1>3 DEF NoPacket
<1>4. CASE AcknowledgedFirst(out)
  <2>1. PICK i \in DOMAIN out :
            out[i].from = "mouse_ack" /\ \A j \in 1 .. i : out[j].from # "mouse"
    BY <1>4 DEF AcknowledgedFirst
  <2>2. 1 \in 1 .. i
    BY <1>1, <2>1
  <2> QED BY <2>1, <2>2
<1>5. NoPacket(out) \/ AcknowledgedFirst(out)
  <2>1. PICK n \in Nat : n = Len(todo)
    BY <1>2
  <2>2. Quiet(n) /\ (n >= 2 \/ n = 1)
    BY <1>2, <2>1 DEF Ps2Inv
  <2> QED BY <2>2 DEF Quiet
<1> QED BY <1>3, <1>4, <1>5

\* Taking it leaves the shift keys' codes in order.
LEMMA TakenKeyed ==
    ASSUME Ps2Inv, kernel = "activating", todo # <<>>,
           NEW requests \in SUBSET irq, Take(requests),
           UNCHANGED <<held, Shift, stolen, sti>>
    PROVE  Keyed'
<1>1. /\ last' = Port.byte
      /\ out' \in Seq(Entry)
      /\ out = <<>> => out' = <<>> /\ Port.byte = last
      /\ out # <<>> => /\ Port = out[1] /\ out[1] \in Entry
                       /\ Len(out) >= 1 /\ Len(out') = Len(out) - 1
                       /\ \A i \in 1 .. Len(out') : out'[i] = out[i + 1]
      /\ out' = <<>> => irq' = requests
      /\ Len(out) \in Nat /\ DOMAIN out = 1 .. Len(out)
  BY Values, Taken
<1>2. ~Shift
  BY NextAccess DEF Ps2Inv, Keyed
<1>3. Unshifting(out') /\ Following(out', held)
  <2>1. Unshifting(out) /\ Following(out, held)
    BY DEF Ps2Inv, Keyed
  <2>2. CASE out # <<>>
    BY <1>1, <2>1, <2>2, Values, Behind
  <2>3. CASE out = <<>>
    BY <1>1, <2>1, <2>3
  <2> QED BY <2>2, <2>3
<1>4. ASSUME 1 \in irq', out' = <<>>, last' \in Makes PROVE held \cap Shifts # {}
  <2>1. CASE out = <<>>
    BY <1>1, <1>4, <2>1 DEF Ps2Inv, Keyed
  <2>2. CASE out # <<>>
    <3>1. Len(out) = 1 /\ 1 \in DOMAIN out /\ out[1].byte \in Makes
      BY <1>1, <1>4, <2>2
    <3>2. out[1].from \in Origin /\ out[1].from # "mouse"
      BY <1>1, <2>2, NoPacketFirst DEF Entry
    <3>3. out[1].from = "keyboard"
      BY <3>1, <3>2 DEF Ps2Inv, Keyed, Unshifting, Origin
    <3>4. ~Released(out, 1)
      BY <1>1, <3>1 DEF Released
    <3> QED BY <3>1, <3>3, <3>4 DEF Ps2Inv, Keyed, Following
  <2> QED BY <2>1, <2>2
<1> QED BY <1>2, <1>3, <1>4 DEF Keyed

\* An access at its place, and what is to be shown of the place after it.
LEMMA Doing ==
    ASSUME Ps2Inv, NEW access, todo # <<>>, Head(todo) = access
    PROVE  \E n \in Nat :
              /\ n >= 1 /\ n <= 13 /\ n = Len(todo) /\ access = Order[14 - n]
              /\ kernel = "activating" /\ ~sti
              /\ ModeKept(n) /\ ModeRight(n) /\ Quiet(n)
              /\ todo' = Tail(todo) /\ UNCHANGED <<kernel, drivers, sti>>
                 /\ Typed' /\ Keyed' /\ ModeKept(n - 1)' /\ ModeRight(n - 1)' /\ Quiet(n - 1)'
                    => Ps2Inv'
<1>1. Progress /\ ModeKept(Len(todo)) /\ ModeRight(Len(todo)) /\ Quiet(Len(todo))
  BY DEF Ps2Inv
<1>2. /\ Len(todo) \in Nat /\ Len(todo) >= 1 /\ Len(todo) <= 13
      /\ access = Order[14 - Len(todo)] /\ kernel = "activating" /\ ~sti
  BY <1>1, NextAccess
<1>3. todo' = Tail(todo) /\ UNCHANGED <<kernel, drivers, sti>> =>
          Progress' /\ Len(todo') = Len(todo) - 1
  BY <1>1, AccessDone
<1>4. PICK n \in Nat : n = Len(todo)
  BY <1>2
<1>5. todo' = Tail(todo) /\ UNCHANGED <<kernel, drivers, sti>>
      /\ Typed' /\ Keyed' /\ ModeKept(n - 1)' /\ ModeRight(n - 1)' /\ Quiet(n - 1)'
         => Ps2Inv'
  BY <1>3, <1>4 DEF Ps2Inv
<1> QED BY <1>1, <1>2, <1>4, <1>5

\* The loop that empties the data port.
LEMMA DrainKeeps == ASSUME Ps2Inv, UNCHANGED <<kernel, drivers>>, Drain PROVE Ps2Inv'
<1>1. /\ todo # <<>> /\ Head(todo) = "drain"
      /\ UNCHANGED <<mode, owed, reporting, unsent, held, sti, status, Shift,
                     mouseState, misread, stolen, typed, sent>>
  BY DEF Drain
<1>2. PICK n \in Nat :
         /\ n = 13 /\ n = Len(todo)
         /\ kernel = "activating" /\ ModeKept(n) /\ ModeRight(n) /\ Quiet(n)
         /\ todo' = Tail(todo) /\ Typed' /\ Keyed'
            /\ ModeKept(n - 1)' /\ ModeRight(n - 1)' /\ Quiet(n - 1)' => Ps2Inv'
  BY <1>1, Doing, Placed
<1>3. CASE out # <<>>
  <2>1. PICK requests \in SUBSET irq : Take(requests)
    BY <1>3 DEF Drain
  <2>2. todo' = todo
    BY <1>3 DEF Drain
  <2>3. /\ last' = Port.byte /\ Port.byte \in Byte /\ out' \in Seq(Entry)
        /\ Len(out') = Len(out) - 1 /\ \A i \in 1 .. Len(out') : out'[i] = out[i + 1]
        /\ irq' \subseteq requests \cup {1, 12}
    BY <1>3, <2>1, Values, Taken
  <2>4. /\ NoAnswer(out) => NoAnswer(out')
        /\ OneAnswer(out) => OneAnswer(out')
        /\ \A m : Answered(out, m) => Answered(out', m)
        /\ NoPacket(out) => NoPacket(out')
        /\ AcknowledgedFirst(out) /\ out[1].from # "mouse_ack" => AcknowledgedFirst(out')
    BY <2>3, Values, Behind
  <2>5. Keyed'
    BY <1>1, <1>2, <2>1, TakenKeyed
  <2>6. Progress' /\ ModeKept(Len(todo))' /\ ModeRight(Len(todo))'
    BY <1>1, <2>2, <2>4 DEF Ps2Inv, Progress, ModeKept, Booting, ModeRight
  <2>7. Typed'
    BY <1>1, <2>3, Values DEF Ps2Inv, Typed, Ps2TypeOK, mouseState, Entry
  <2>8. NoPacket(out)
    BY <1>2 DEF Quiet
  <2>9. Quiet(n)'
    BY <1>1, <1>2, <2>2, <2>4, <2>8 DEF Quiet, Booting
  <2>10. Len(todo)' = n
    BY <1>2, <2>2
  <2> QED BY <2>5, <2>6, <2>7, <2>9, <2>10 DEF Ps2Inv
<1>4. CASE out = <<>>
  <2>1. todo' = Tail(todo) /\ UNCHANGED <<out, last, irq>>
    BY <1>4 DEF Drain
  <2>2. Typed' /\ Keyed'
    BY <1>1, <2>1 DEF Ps2Inv, Typed, Ps2TypeOK, mouseState, Keyed
  <2>3. ModeKept(12)'
    BY <1>1, <1>2, <2>1 DEF ModeKept, Booting
  <2>4. ModeRight(12)'
    BY <1>1, <1>2, <2>1 DEF ModeRight
  <2>5. Quiet(12)'
    BY <1>1, <1>2, <2>1 DEF Quiet, Booting
  <2> QED BY <1>2, <2>1, <2>2, <2>3, <2>4, <2>5
<1> QED BY <1>3, <1>4

\* The mouse driver forgets its packet and its buttons.
LEMMA ResetMouseKeeps ==
    ASSUME Ps2Inv, UNCHANGED <<kernel, drivers>>, ResetMouse PROVE Ps2Inv'
<1>1. /\ todo # <<>> /\ Head(todo) = "reset" /\ todo' = Tail(todo)
      /\ offset' = 0 /\ buttons' = 0
      /\ UNCHANGED <<out, last, mode, owed, reporting, unsent, held, irq, sti, status,
                     Shift, buffer, reported, misread, stolen, typed, sent>>
  BY DEF ResetMouse, Do
<1>2. /\ kernel = "activating" /\ ModeKept(7) /\ ModeRight(7) /\ Quiet(7)
      /\ Typed' /\ Keyed' /\ ModeKept(6)' /\ ModeRight(6)' /\ Quiet(6)' => Ps2Inv'
  BY <1>1, Doing, Placed
<1>3. 0 \in Byte
  BY Bytes
<1>4. Typed' /\ Keyed'
  BY <1>1, <1>3 DEF Ps2Inv, Typed, Ps2TypeOK, Keyed
<1>5. ModeKept(6)'
  BY <1>1, <1>2 DEF ModeKept, Booting
<1>6. ModeRight(6)'
  BY <1>1, <1>2 DEF ModeRight
<1>7. Quiet(6)'
  BY <1>1, <1>2 DEF Quiet, Booting
<1> QED BY <1>2, <1>4, <1>5, <1>6, <1>7

\* A mode that was set keeps what does not depend on it.
LEMMA ModeSetKeeps ==
    ASSUME Ps2Inv, NEW m \in Byte, SetMode(m),
           UNCHANGED <<out, last, unsent, held, sti, Shift, mouseState, stolen>>
    PROVE  /\ Keyed' /\ mode' = m /\ irq' \subseteq {1, 12}
           /\ owed' \subseteq {"keyboard", "mouse"} /\ reporting' \in BOOLEAN
              /\ status' \in Byte /\ misread' \in BOOLEAN => Typed'
<1>1. mode' = m /\ irq' \subseteq {1, 12} /\ (out = <<>> => irq' = irq)
  BY Values, ModeSet
<1>2. Keyed'
  BY <1>1 DEF Ps2Inv, Keyed
<1>3. owed' \subseteq {"keyboard", "mouse"} /\ reporting' \in BOOLEAN
      /\ status' \in Byte /\ misread' \in BOOLEAN => Typed'
  BY <1>1 DEF Ps2Inv, Typed, Ps2TypeOK, mouseState
<1> QED BY <1>1, <1>2, <1>3

\* The clocks are started.
LEMMA StartKeyboardKeeps ==
    ASSUME Ps2Inv, UNCHANGED <<kernel, drivers>>, Start("start_keyboard", KeyboardStopped)
    PROVE  Ps2Inv'
<1>1. /\ todo # <<>> /\ Head(todo) = "start_keyboard" /\ todo' = Tail(todo)
      /\ SetMode(Without(mode, 4))
      /\ UNCHANGED <<out, last, owed, reporting, unsent, held, sti, status, Shift,
                     mouseState, misread, stolen, typed, sent>>
  BY DEF Start, Do, KeyboardStopped
<1>2. /\ kernel = "activating" /\ ModeKept(12) /\ ModeRight(12) /\ Quiet(12)
      /\ Typed' /\ Keyed' /\ ModeKept(11)' /\ ModeRight(11)' /\ Quiet(11)' => Ps2Inv'
  BY <1>1, Doing, Placed
<1>3. /\ mode \in Byte /\ status \in Byte /\ Without(mode, 4) \in Byte
      /\ ~Bit(Without(mode, 4), 4)
  BY Values, WithoutBit DEF Controls
<1>4. (mode \div 8) % 2 = 0 => (Without(mode, 4) \div 8) % 2 = 0
  <2>1. mode \in Nat
    BY <1>3, Bytes
  <2>2. (mode \div 8) % 2 = 0 => ((mode - 16) \div 8) % 2 = 0
    BY <2>1
  <2>3. 2^4 = 16
    OBVIOUS
  <2> QED BY <2>2, <2>3 DEF Without
<1>5. Keyed' /\ Typed' /\ mode' = Without(mode, 4)
  BY <1>1, <1>3, ModeSetKeeps DEF Ps2Inv, Typed, Ps2TypeOK
<1>6. ModeKept(11)'
  BY <1>1, <1>2, <1>3, <1>4, <1>5 DEF ModeKept, Booting
<1>7. ModeRight(11)'
  BY <1>1, <1>2 DEF ModeRight, NoAnswer, Answered
<1>8. Quiet(11)'
  BY <1>1, <1>2 DEF Quiet, Booting
<1> QED BY <1>2, <1>5, <1>6, <1>7, <1>8

\* The mouse's, which leaves the keyboard's bits.
LEMMA StartMouseKeeps ==
    ASSUME Ps2Inv, UNCHANGED <<kernel, drivers>>, Start("start_mouse", MouseStopped)
    PROVE  Ps2Inv'
<1>1. /\ todo # <<>> /\ Head(todo) = "start_mouse" /\ todo' = Tail(todo)
      /\ SetMode(Without(mode, 5))
      /\ UNCHANGED <<out, last, owed, reporting, unsent, held, sti, status, Shift,
                     mouseState, misread, stolen, typed, sent>>
  BY DEF Start, Do, MouseStopped
<1>2. /\ kernel = "activating" /\ ModeKept(6) /\ ModeRight(6) /\ Quiet(6)
      /\ Typed' /\ Keyed' /\ ModeKept(5)' /\ ModeRight(5)' /\ Quiet(5)' => Ps2Inv'
  BY <1>1, Doing, Placed
<1>3. /\ mode \in Byte /\ status \in Byte /\ Without(mode, 5) \in Byte
      /\ ~Bit(Without(mode, 5), 5)
      /\ Bit(Without(mode, 5), 0) <=> Bit(mode, 0)
      /\ Bit(Without(mode, 5), 4) <=> Bit(mode, 4)
  <2>1. mode \in Byte /\ status \in Byte
    BY Values
  <2> QED BY <2>1, WithoutBit DEF Controls
<1>4. Keyed' /\ Typed' /\ mode' = Without(mode, 5)
  BY <1>1, <1>3, ModeSetKeeps DEF Ps2Inv, Typed, Ps2TypeOK
<1>5. ModeKept(5)'
  BY <1>1, <1>2, <1>3, <1>4 DEF ModeKept, Booting
<1>6. ModeRight(5)'
  BY <1>1, <1>2 DEF ModeRight, NoAnswer, Answered
<1>7. Quiet(5)'
  BY <1>1, <1>2 DEF Quiet, Booting
<1> QED BY <1>2, <1>4, <1>5, <1>6, <1>7

\* What the controller answers with is no shift key's code.
LEMMA ModeNoKey ==
    ASSUME NEW m \in Byte
    PROVE  /\ (m \div 8) % 2 = 0 /\ ~Bit(m, 4) => m \notin Makes
           /\ Bit(m, 0) => m \notin Makes
<1>1. 2^0 = 1 /\ 2^4 = 16
  OBVIOUS
<1>2. /\ (42 \div 8) % 2 = 1 /\ (54 \div 16) % 2 = 1
      /\ (42 \div 1) % 2 = 0 /\ (54 \div 1) % 2 = 0
  OBVIOUS
<1> QED BY <1>1, <1>2 DEF Makes, Bit

\* The controller's answer joins what waits.
LEMMA AskKeeps == ASSUME Ps2Inv, UNCHANGED <<kernel, drivers>>, Ask PROVE Ps2Inv'
<1>1. /\ todo # <<>> /\ Head(todo) = "ask" /\ todo' = Tail(todo)
      /\ Send(mode, "controller")
      /\ UNCHANGED <<last, mode, owed, reporting, unsent, held, sti, status, Shift,
                     mouseState, misread, stolen, typed, sent>>
  BY DEF Ask, Do
<1>2. PICK n \in Nat :
         /\ n = 11 \/ n = 5
         /\ kernel = "activating" /\ ModeKept(n) /\ ModeRight(n) /\ Quiet(n)
         /\ Typed' /\ Keyed' /\ ModeKept(n - 1)' /\ ModeRight(n - 1)' /\ Quiet(n - 1)' => Ps2Inv'
  BY <1>1, Doing, Placed
<1>3. mode \in Byte /\ mode \notin Makes
  <2>1. mode \in Byte
    BY Values
  <2>2. CASE n = 11
    BY <1>2, <2>1, <2>2, ModeNoKey DEF ModeKept
  <2>3. CASE n = 5
    BY <1>2, <2>1, <2>3, ModeNoKey DEF ModeKept
  <2> QED BY <1>2, <2>1, <2>2, <2>3
<1>4. /\ out' \in Seq(Entry) /\ Len(out') = Len(out) + 1 /\ out' # <<>>
      /\ \A i \in 1 .. Len(out) : out'[i] = out[i]
      /\ out'[Len(out) + 1].byte = mode /\ out'[Len(out) + 1].from = "controller"
      /\ irq' \subseteq {1, 12}
  <2>1. "controller" \in Origin
    BY DEF Origin
  <2> QED BY <1>1, <1>3, <2>1, Values, Sent
<1>5. /\ NoAnswer(out) => OneAnswer(out')
      /\ Answered(out, mode) => Answered(out', mode)
      /\ NoPacket(out) => NoPacket(out')
      /\ AcknowledgedFirst(out) => AcknowledgedFirst(out')
      /\ Unshifting(out) => Unshifting(out')
      /\ \A i : Released(out, i) => Released(out', i)
      /\ \A keys : Following(out, keys) => Following(out', keys)
  BY <1>3, <1>4, Values, Joined
<1>6. Typed'
  BY <1>1, <1>4 DEF Ps2Inv, Typed, Ps2TypeOK, mouseState, Entry
<1>7. Keyed'
  BY <1>1, <1>4, <1>5 DEF Ps2Inv, Keyed
<1>8. CASE n = 11
  <2>1. ModeKept(10)'
    BY <1>1, <1>2, <1>8 DEF ModeKept, Booting
  <2>2. ModeRight(10)'
    BY <1>1, <1>2, <1>5, <1>8 DEF ModeRight
  <2>3. Quiet(10)'
    BY <1>1, <1>2, <1>5, <1>8 DEF Quiet, Booting
  <2> QED BY <1>2, <1>6, <1>7, <1>8, <2>1, <2>2, <2>3
<1>9. CASE n = 5
  <2>1. ModeKept(4)'
    BY <1>1, <1>2, <1>9 DEF ModeKept, Booting
  <2>2. ModeRight(4)'
    BY <1>1, <1>2, <1>5, <1>9 DEF ModeRight
  <2>3. Quiet(4)'
    BY <1>1, <1>2, <1>5, <1>9 DEF Quiet, Booting
  <2> QED BY <1>2, <1>6, <1>7, <1>9, <2>1, <2>2, <2>3
<1> QED BY <1>2, <1>8, <1>9

\* The byte that is at the port is taken for it; when it is the answer, nothing
\* of the controller's is left behind.
LEMMA StatusRead ==
    ASSUME Ps2Inv, NEW access \in {"keyboard_status", "mouse_status"}, ReadStatus(access)
    PROVE  /\ todo # <<>> /\ Head(todo) = access /\ todo' = Tail(todo)
           /\ status' = Changed(access, Port.byte) /\ Port.byte \in Byte
           /\ ~misread' => /\ ~misread
                           /\ OneAnswer(out) => NoAnswer(out')
                           /\ Answered(out, mode) => Port.byte = mode
           /\ NoPacket(out) => NoPacket(out')
           /\ Typed' /\ Keyed'
           /\ UNCHANGED <<mode, owed, reporting, unsent, held, sti, Shift, mouseState,
                          stolen, typed, sent>>
<1>1. /\ todo # <<>> /\ Head(todo) = access /\ todo' = Tail(todo)
      /\ status' = Changed(access, Port.byte)
      /\ misread' = (misread \/ Port.from # "controller")
      /\ UNCHANGED <<mode, owed, reporting, unsent, held, sti, Shift, mouseState,
                     stolen, typed, sent>>
  BY DEF ReadStatus, Do
<1>2. PICK requests \in SUBSET irq : Take(requests)
  BY DEF ReadStatus
<1>3. /\ last' = Port.byte /\ Port.byte \in Byte /\ out' \in Seq(Entry)
      /\ out = <<>> => out' = <<>> /\ Port.from = "nobody"
      /\ out # <<>> => /\ Port = out[1] /\ Len(out) >= 1 /\ Len(out) \in Nat
                       /\ DOMAIN out = 1 .. Len(out) /\ Len(out') = Len(out) - 1
                       /\ \A i \in 1 .. Len(out') : out'[i] = out[i + 1]
      /\ irq' \subseteq requests \cup {1, 12}
  BY <1>2, Values, Taken
<1>4. kernel = "activating" /\ status' \in Byte /\ misread' \in BOOLEAN
  <2>1. kernel = "activating"
    BY <1>1, NextAccess DEF Ps2Inv
  <2>2. status' \in Byte
    BY <1>1, <1>3, WithBit, WithoutBit
       DEF Changed, Controls, KeyboardInterrupt, KeyboardStopped, MouseInterrupt
  <2>3. misread' \in BOOLEAN
    <3>1. misread \in BOOLEAN
      BY DEF Ps2Inv, Typed, Ps2TypeOK
    <3>2. CASE Port.from = "controller"
      BY <1>1, <3>1, <3>2
    <3>3. CASE Port.from # "controller"
      BY <1>1, <3>3
    <3> QED BY <3>2, <3>3
  <2> QED BY <2>1, <2>2, <2>3
<1>5. Keyed'
  BY <1>1, <1>2, <1>4, TakenKeyed
<1>6. Typed'
  BY <1>1, <1>3, <1>4, Values DEF Ps2Inv, Typed, Ps2TypeOK, mouseState, Entry
<1>7. ASSUME ~misread'
      PROVE  ~misread /\ (OneAnswer(out) => NoAnswer(out'))
             /\ (Answered(out, mode) => Port.byte = mode)
  <2>1. ~misread /\ Port.from = "controller"
    BY <1>1, <1>7
  <2>2. out # <<>> /\ out[1].from = "controller" /\ 1 \in DOMAIN out
    BY <1>3, <2>1
  <2>3. OneAnswer(out) => NoAnswer(out')
    BY <1>3, <2>2, Values, Behind
  <2>4. Answered(out, mode) => Port.byte = mode
    BY <1>3, <2>2 DEF Answered
  <2> QED BY <2>1, <2>3, <2>4
<1>8. NoPacket(out) => NoPacket(out')
  <2>1. CASE out = <<>>
    BY <1>3, <2>1
  <2>2. CASE out # <<>>
    BY <1>3, <2>2, Values, Behind
  <2> QED BY <2>1, <2>2
<1> QED BY <1>1, <1>3, <1>5, <1>6, <1>7, <1>8

\* Without an answer there is none to be mistaken for another.
LEMMA NoneAnswered ==
    ASSUME NEW s, NoAnswer(s) PROVE OneAnswer(s) /\ \A m : Answered(s, m)
  BY DEF NoAnswer, OneAnswer, Answered

\* The keyboard driver sets its bit and clears the other.
LEMMA KeyboardStatusKeeps ==
    ASSUME Ps2Inv, UNCHANGED <<kernel, drivers>>, ReadStatus("keyboard_status") PROVE Ps2Inv'
<1>1. /\ todo # <<>> /\ Head(todo) = "keyboard_status" /\ todo' = Tail(todo)
      /\ status' = Changed("keyboard_status", Port.byte) /\ Port.byte \in Byte
      /\ ~misread' => ~misread /\ (OneAnswer(out) => NoAnswer(out'))
      /\ NoPacket(out) => NoPacket(out')
      /\ Typed' /\ Keyed'
      /\ UNCHANGED <<mode, owed, reporting, unsent, held, sti, Shift, mouseState,
                     stolen, typed, sent>>
  BY StatusRead
<1>2. /\ kernel = "activating" /\ ModeKept(10) /\ ModeRight(10) /\ Quiet(10)
      /\ Typed' /\ Keyed' /\ ModeKept(9)' /\ ModeRight(9)' /\ Quiet(9)' => Ps2Inv'
  BY <1>1, Doing, Placed
<1>3. Bit(status', 0) /\ ~Bit(status', 4)
  <2>1. status' = Without(With(Port.byte, 0), 4)
    BY <1>1 DEF Changed, KeyboardInterrupt, KeyboardStopped
  <2>2. With(Port.byte, 0) \in Byte /\ Bit(With(Port.byte, 0), 0)
    BY <1>1, WithBit DEF Controls
  <2> QED BY <2>1, <2>2, WithoutBit DEF Controls
<1>4. ModeKept(9)'
  BY <1>1, <1>2, <1>3 DEF ModeKept, Booting
<1>5. ModeRight(9)'
  BY <1>1, <1>2, NoneAnswered DEF ModeRight
<1>6. Quiet(9)'
  BY <1>1, <1>2 DEF Quiet, Booting
<1> QED BY <1>1, <1>2, <1>4, <1>5, <1>6

\* The mouse driver sets its bit, and the others are the mode's if it was the
\* mode.
LEMMA MouseStatusKeeps ==
    ASSUME Ps2Inv, UNCHANGED <<kernel, drivers>>, ReadStatus("mouse_status") PROVE Ps2Inv'
<1>1. /\ todo # <<>> /\ Head(todo) = "mouse_status" /\ todo' = Tail(todo)
      /\ status' = Changed("mouse_status", Port.byte) /\ Port.byte \in Byte
      /\ ~misread' => /\ ~misread /\ (OneAnswer(out) => NoAnswer(out'))
                      /\ Answered(out, mode) => Port.byte = mode
      /\ NoPacket(out) => NoPacket(out')
      /\ Typed' /\ Keyed'
      /\ UNCHANGED <<mode, owed, reporting, unsent, held, sti, Shift, mouseState,
                     stolen, typed, sent>>
  BY StatusRead
<1>2. /\ kernel = "activating" /\ ModeKept(4) /\ ModeRight(4) /\ Quiet(4)
      /\ Typed' /\ Keyed' /\ ModeKept(3)' /\ ModeRight(3)' /\ Quiet(3)' => Ps2Inv'
  BY <1>1, Doing, Placed
<1>3. /\ Bit(status', 1)
      /\ ~misread' => Bit(status', 0) /\ ~Bit(status', 4) /\ ~Bit(status', 5)
  <2>1. status' = With(Port.byte, 1)
    BY <1>1 DEF Changed, MouseInterrupt
  <2>2. ~misread' => Port.byte = mode
    BY <1>1, <1>2 DEF ModeRight
  <2>3. Bit(mode, 0) /\ ~Bit(mode, 4) /\ ~Bit(mode, 5)
    BY <1>2 DEF ModeKept
  <2>4. /\ Bit(status', 1)
        /\ Bit(status', 0) <=> Bit(Port.byte, 0)
        /\ Bit(status', 4) <=> Bit(Port.byte, 4)
        /\ Bit(status', 5) <=> Bit(Port.byte, 5)
    BY <1>1, <2>1, WithBit DEF Controls
  <2> QED BY <2>2, <2>3, <2>4
<1>4. ModeKept(3)'
  BY <1>1, <1>2, <1>3 DEF ModeKept, Booting
<1>5. ModeRight(3)'
  <2>1. Bit(mode, 0) /\ ~Bit(mode, 4) /\ ~Bit(mode, 5)
    BY <1>2 DEF ModeKept
  <2> QED BY <1>1, <1>2, <1>3, <2>1, NoneAnswered DEF ModeRight
<1>6. Quiet(3)'
  BY <1>1, <1>2 DEF Quiet, Booting
<1> QED BY <1>1, <1>2, <1>4, <1>5, <1>6

\* The mode is set to what was made of the byte.
LEMMA WriteStatusKeeps ==
    ASSUME Ps2Inv, UNCHANGED <<kernel, drivers>>, WriteStatus PROVE Ps2Inv'
<1>1. /\ todo # <<>> /\ Head(todo) = "write_status" /\ todo' = Tail(todo)
      /\ SetMode(status) /\ status' = 0
      /\ UNCHANGED <<out, last, owed, reporting, unsent, held, sti, Shift, mouseState,
                     misread, stolen, typed, sent>>
  BY DEF WriteStatus, Do
<1>2. PICK n \in Nat :
         /\ n = 9 \/ n = 3
         /\ kernel = "activating" /\ ModeKept(n) /\ ModeRight(n) /\ Quiet(n)
         /\ Typed' /\ Keyed' /\ ModeKept(n - 1)' /\ ModeRight(n - 1)' /\ Quiet(n - 1)' => Ps2Inv'
  BY <1>1, Doing, Placed
<1>3. status \in Byte /\ 0 \in Byte
  <2>1. status \in Byte
    BY Values
  <2> QED BY <2>1, Bytes
<1>4. Keyed' /\ Typed' /\ mode' = status
  BY <1>1, <1>3, ModeSetKeeps DEF Ps2Inv, Typed, Ps2TypeOK
<1>5. CASE n = 9
  <2>1. ModeKept(8)'
    BY <1>1, <1>2, <1>4, <1>5 DEF ModeKept, Booting
  <2>2. ModeRight(8)'
    BY <1>1, <1>2, <1>5, NoneAnswered DEF ModeRight
  <2>3. Quiet(8)'
    BY <1>1, <1>2, <1>5 DEF Quiet, Booting
  <2> QED BY <1>2, <1>4, <1>5, <2>1, <2>2, <2>3
<1>6. CASE n = 3
  <2>1. ModeKept(2)'
    BY <1>1, <1>2, <1>4, <1>6 DEF ModeKept, Booting
  <2>2. ModeRight(2)'
    BY <1>1, <1>2, <1>4, <1>6, NoneAnswered DEF ModeRight
  <2>3. Quiet(2)'
    BY <1>1, <1>2, <1>6 DEF Quiet, Booting
  <2> QED BY <1>2, <1>4, <1>6, <2>1, <2>2, <2>3
<1> QED BY <1>2, <1>5, <1>6

\* A command to a device starts its clock, and it will acknowledge.
LEMMA ActivateKeyboardKeeps ==
    ASSUME Ps2Inv, UNCHANGED <<kernel, drivers>>,
           ActivateDevice("activate_keyboard", "keyboard", KeyboardStopped)
    PROVE  Ps2Inv'
<1>1. /\ todo # <<>> /\ Head(todo) = "activate_keyboard" /\ todo' = Tail(todo)
      /\ SetMode(Without(mode, 4)) /\ owed' = owed \cup {"keyboard"}
      /\ reporting' = (reporting \/ "keyboard" = "mouse")
      /\ UNCHANGED <<out, last, unsent, held, sti, status, Shift, mouseState, misread,
                     stolen, typed, sent>>
  BY DEF ActivateDevice, Do, KeyboardStopped
<1>2. /\ kernel = "activating" /\ ModeKept(8) /\ ModeRight(8) /\ Quiet(8)
      /\ Typed' /\ Keyed' /\ ModeKept(7)' /\ ModeRight(7)' /\ Quiet(7)' => Ps2Inv'
  BY <1>1, Doing, Placed
<1>3. /\ mode \in Byte /\ status \in Byte /\ Without(mode, 4) \in Byte
      /\ ~Bit(Without(mode, 4), 4)
      /\ Bit(Without(mode, 4), 0) <=> Bit(mode, 0)
  BY Values, WithoutBit DEF Controls
<1>4. ~reporting' /\ "mouse" \notin owed'
  <2>1. ~reporting /\ "mouse" \notin owed
    BY <1>2 DEF Quiet
  <2>2. "keyboard" # "mouse"
    OBVIOUS
  <2> QED BY <1>1, <2>1, <2>2, Zenon
<1>5. Keyed' /\ Typed' /\ mode' = Without(mode, 4)
  BY <1>1, <1>3, <1>4, ModeSetKeeps DEF Ps2Inv, Typed, Ps2TypeOK
<1>6. ModeKept(7)'
  BY <1>1, <1>2, <1>3, <1>5 DEF ModeKept, Booting
<1>7. ModeRight(7)'
  BY <1>1, <1>2, NoneAnswered DEF ModeRight
<1>8. Quiet(7)'
  BY <1>1, <1>2, <1>4 DEF Quiet, Booting
<1> QED BY <1>1, <1>2, <1>5, <1>6, <1>7, <1>8

\* The mouse will report when it has.
LEMMA ActivateMouseKeeps ==
    ASSUME Ps2Inv, UNCHANGED <<kernel, drivers>>,
           ActivateDevice("activate_mouse", "mouse", MouseStopped)
    PROVE  Ps2Inv'
<1>1. /\ todo # <<>> /\ Head(todo) = "activate_mouse" /\ todo' = Tail(todo)
      /\ SetMode(Without(mode, 5)) /\ owed' = owed \cup {"mouse"}
      /\ reporting' = (reporting \/ "mouse" = "mouse")
      /\ UNCHANGED <<out, last, unsent, held, sti, status, Shift, mouseState, misread,
                     stolen, typed, sent>>
  BY DEF ActivateDevice, Do, MouseStopped
<1>2. /\ kernel = "activating" /\ ModeKept(2) /\ ModeRight(2) /\ Quiet(2)
      /\ Typed' /\ Keyed' /\ ModeKept(1)' /\ ModeRight(1)' /\ Quiet(1)' => Ps2Inv'
  BY <1>1, Doing, Placed
<1>3. /\ mode \in Byte /\ status \in Byte /\ Without(mode, 5) \in Byte
      /\ ~Bit(Without(mode, 5), 5)
      /\ Bit(Without(mode, 5), 0) <=> Bit(mode, 0)
      /\ Bit(Without(mode, 5), 1) <=> Bit(mode, 1)
      /\ Bit(Without(mode, 5), 4) <=> Bit(mode, 4)
  <2>1. mode \in Byte /\ status \in Byte
    BY Values
  <2> QED BY <2>1, WithoutBit DEF Controls
<1>4. reporting' = TRUE
  BY <1>1
<1>5. Keyed' /\ Typed' /\ mode' = Without(mode, 5)
  BY <1>1, <1>3, <1>4, ModeSetKeeps DEF Ps2Inv, Typed, Ps2TypeOK
<1>6. ModeKept(1)'
  BY <1>1, <1>2, <1>3, <1>5 DEF ModeKept, Booting
<1>7. ModeRight(1)'
  BY <1>1, <1>2, <1>3, <1>5, NoneAnswered DEF ModeRight
<1>8. Quiet(1)'
  BY <1>1, <1>2 DEF Quiet, Booting
<1> QED BY <1>1, <1>2, <1>5, <1>6, <1>7, <1>8

\* The last access of all.
LEMMA TakeAnswerKeeps ==
    ASSUME Ps2Inv, UNCHANGED <<kernel, drivers>>, TakeAnswer PROVE Ps2Inv'
<1>1. /\ todo # <<>> /\ Head(todo) = "take" /\ todo' = Tail(todo)
      /\ UNCHANGED <<mode, owed, reporting, unsent, held, sti, status, Shift,
                     mouseState, misread, stolen, typed, sent>>
  BY DEF TakeAnswer, Do
<1>2. /\ kernel = "activating" /\ ModeKept(1) /\ ModeRight(1) /\ Quiet(1)
      /\ Typed' /\ Keyed' /\ ModeKept(0)' /\ ModeRight(0)' /\ Quiet(0)' => Ps2Inv'
  BY <1>1, Doing, Placed
<1>3. PICK requests \in SUBSET irq : Take(requests)
  BY DEF TakeAnswer
<1>4. /\ last' = Port.byte /\ Port.byte \in Byte /\ out' \in Seq(Entry)
      /\ out = <<>> => out' = <<>>
      /\ out # <<>> => /\ Len(out') = Len(out) - 1
                       /\ \A i \in 1 .. Len(out') : out'[i] = out[i + 1]
      /\ irq' \subseteq requests \cup {1, 12}
  BY <1>3, Values, Taken
<1>5. NoAnswer(out) => NoAnswer(out')
  <2>1. CASE out = <<>>
    BY <1>4, <2>1
  <2>2. CASE out # <<>>
    BY <1>4, <2>2, Values, Behind
  <2> QED BY <2>1, <2>2
<1>6. Keyed'
  BY <1>1, <1>2, <1>3, TakenKeyed
<1>7. Typed'
  BY <1>1, <1>4, Values DEF Ps2Inv, Typed, Ps2TypeOK, mouseState, Entry
<1>8. ModeKept(0)'
  BY <1>1, <1>2 DEF ModeKept, Booting
<1>9. ModeRight(0)'
  BY <1>1, <1>2, <1>5, NoneAnswered DEF ModeRight
<1>10. Quiet(0)'
  BY <1>1, <1>2 DEF Quiet, Booting
<1> QED BY <1>1, <1>2, <1>6, <1>7, <1>8, <1>9, <1>10

\* So every access does.
LEMMA ActivateKeeps == ASSUME Ps2Inv, UNCHANGED <<kernel, drivers>>, Activate PROVE Ps2Inv'
  BY DrainKeeps, ResetMouseKeeps, StartKeyboardKeeps, StartMouseKeeps, AskKeeps,
     KeyboardStatusKeeps, MouseStatusKeeps, WriteStatusKeeps, ActivateKeyboardKeeps,
     ActivateMouseKeeps, TakeAnswerKeeps
  DEF Activate

------------------------------------------------------------------------------
(* The handlers.                                                            *)

\* When interrupts are on all drivers are activated.
LEMMA Handling ==
    ASSUME Ps2Inv, sti
    PROVE  kernel = "loop" /\ todo = <<>> /\ Len(todo) = 0 /\ ModeKept(0) /\ ModeRight(0)
<1>1. kernel = "loop" /\ todo = <<>>
  BY DEF Ps2Inv, Progress
<1>2. Len(todo) = 0
  BY <1>1
<1> QED BY <1>1, <1>2 DEF Ps2Inv

\* What a handler takes leaves an order of codes as it was.
LEMMA TakenInOrder ==
    ASSUME Ps2Inv, NEW requests, Take(requests)
    PROVE  /\ NoAnswer(out) => NoAnswer(out')
           /\ Unshifting(out')
           /\ Following(out', held)
           /\ Released(out, 1) => Released(out', 0)
           /\ Released(out, 0) =>
                 Released(out', 0) \/ (Port.from = "keyboard" /\ Port.byte \in Breaks)
<1>1. /\ Len(out) \in Nat /\ DOMAIN out = 1 .. Len(out)
      /\ out' \in Seq(Entry)
      /\ out = <<>> => out' = <<>>
      /\ out # <<>> => /\ Port = out[1] /\ Len(out') = Len(out) - 1
                       /\ \A i \in 1 .. Len(out') : out'[i] = out[i + 1]
  BY Values, Taken
<1>2. Unshifting(out) /\ Following(out, held)
  BY DEF Ps2Inv, Keyed
<1>3. CASE out = <<>>
  <2>1. out' = out
    BY <1>1, <1>3
  <2>2. ~Released(out, 0) /\ ~Released(out, 1)
    BY <1>3 DEF Released
  <2> QED BY <1>2, <2>1, <2>2
<1>4. CASE out # <<>>
  <2>1. Released(out, 1) => Released(out', 0)
    <3>1. 0 \in Nat /\ 0 + 1 = 1
      OBVIOUS
    <3>2. \A i \in Nat : Released(out, i + 1) => Released(out', i)
      BY <1>1, <1>4, Values, Behind
    <3> QED BY <3>1, <3>2
  <2>2. ASSUME Released(out, 0), ~(Port.from = "keyboard" /\ Port.byte \in Breaks)
        PROVE  Released(out, 1)
    <3>1. PICK j \in DOMAIN out : j > 0 /\ out[j].from = "keyboard" /\ out[j].byte \in Breaks
      BY <2>2 DEF Released
    <3>2. j # 1 /\ j > 1
      BY <1>1, <1>4, <2>2, <3>1
    <3> QED BY <3>1, <3>2 DEF Released
  <2>3. /\ NoAnswer(out) => NoAnswer(out')
        /\ Unshifting(out')
        /\ Following(out', held)
    BY <1>1, <1>2, <1>4, Values, Behind
  <2> QED BY <2>1, <2>2, <2>3
<1> QED BY <1>3, <1>4

\* A code that turns Shift on is of a key that is held, or will be released.
LEMMA HandleKeyboardKeeps ==
    ASSUME Ps2Inv, UNCHANGED <<kernel, drivers>>, HandleKeyboard
    PROVE  Ps2Inv'
<1>1. /\ sti /\ Shift' = Shifted(Shift, Port.byte) /\ stolen' = (stolen \/ FromMouse(Port))
      /\ Take(irq \ {1})
      /\ UNCHANGED <<mode, owed, reporting, unsent, held, sti, todo, status, mouseState,
                     misread, typed, sent>>
  BY DEF HandleKeyboard
<1>2. kernel = "loop" /\ todo = <<>> /\ Len(todo) = 0 /\ ModeKept(0) /\ ModeRight(0)
  BY <1>1, Handling
<1>3. /\ Port.byte \in Byte /\ last' = Port.byte /\ out' \in Seq(Entry)
      /\ Len(out) \in Nat /\ DOMAIN out = 1 .. Len(out)
      /\ out = <<>> => out' = <<>> /\ Port.byte = last
      /\ out # <<>> => Port = out[1] /\ out[1] \in Entry /\ Len(out) >= 1
      /\ irq' \subseteq {1, 12}
      /\ out' = <<>> => irq' = irq \ {1}
  BY <1>1, Values, Taken
<1>4. /\ NoAnswer(out) => NoAnswer(out')
      /\ Unshifting(out')
      /\ Following(out', held)
      /\ Released(out, 1) => Released(out', 0)
      /\ Released(out, 0) => Released(out', 0) \/ Port.byte \in Breaks
  BY <1>1, TakenInOrder
<1>5. {key.make : key \in Shifts} = Makes /\ {key.break : key \in Shifts} = Breaks
  BY DEF Shifts, Makes, Breaks
<1>6. Shift' = (IF Port.byte \in Makes THEN TRUE
                ELSE IF Port.byte \in Breaks THEN FALSE ELSE Shift)
  BY <1>1, <1>5 DEF Shifted
<1>7. Shift' \in BOOLEAN /\ stolen' \in BOOLEAN
  <2>1. Shift \in BOOLEAN
    BY DEF Ps2Inv, Typed, Ps2TypeOK
  <2> QED BY <1>1, <1>6, <2>1, Zenon
<1>8. Progress'
  BY <1>1 DEF Ps2Inv, Progress
<1>9. Typed'
  BY <1>1, <1>3, <1>7, Values DEF Ps2Inv, Typed, Ps2TypeOK, mouseState, Entry
<1>10. ASSUME Port.byte \in Makes, ~stolen' PROVE held \cap Shifts # {} \/ Released(out', 0)
  <2>1. CASE out = <<>>
    BY <1>1, <1>3, <1>10, <2>1 DEF Ps2Inv, Keyed, HandleKeyboard
  <2>2. CASE out # <<>>
    <3>1. 1 \in DOMAIN out /\ out[1].byte \in Makes /\ out[1].from \in Origin
      BY <1>3, <1>10, <2>2 DEF Entry
    <3>2. out[1].from \notin {"mouse", "mouse_ack"}
      BY <1>1, <1>3, <1>10, <2>2 DEF FromMouse
    <3>3. out[1].from = "keyboard"
      BY <3>1, <3>2 DEF Ps2Inv, Keyed, Unshifting, Origin
    <3>4. held \cap Shifts # {} \/ Released(out, 1)
      BY <3>1, <3>3 DEF Ps2Inv, Keyed, Following
    <3> QED BY <1>4, <3>4
  <2> QED BY <2>1, <2>2
<1>11. ASSUME Port.byte \notin Makes, Shift', ~stolen'
       PROVE  held \cap Shifts # {} \/ Released(out', 0)
  <2>1. Port.byte \notin Breaks /\ Shift /\ ~stolen
    BY <1>1, <1>6, <1>11, Zenon
  <2>2. held \cap Shifts # {} \/ Released(out, 0)
    BY <2>1 DEF Ps2Inv, Keyed
  <2> QED BY <1>4, <2>1, <2>2
<1>12. Shift' => sti'
  BY <1>1
<1>13. Shift' /\ ~stolen' => held' \cap Shifts # {} \/ Released(out', 0)
  BY <1>1, <1>10, <1>11, Zenon
<1>14. Keyed'
  <2>1. 1 \notin irq' \/ out' # <<>>
    BY <1>3
  <2> QED BY <1>1, <1>4, <1>12, <1>13, <2>1 DEF Keyed
<1>15. ModeKept(0)' /\ Quiet(0)'
  BY <1>1, <1>2 DEF ModeKept, Quiet, Booting
<1>16. ModeRight(0)'
  BY <1>1, <1>2, <1>4, NoneAnswered DEF ModeRight
<1>17. Len(todo)' = 0
  BY <1>1, <1>2
<1> QED BY <1>8, <1>9, <1>14, <1>15, <1>16, <1>17 DEF Ps2Inv

\* The mouse driver takes bytes of the mouse alone, and nobody's keys.
LEMMA HandleMouseKeeps ==
    ASSUME Ps2Inv, UNCHANGED <<kernel, drivers>>, HandleMouse
    PROVE  Ps2Inv'
<1>1. /\ sti /\ 1 \notin irq
      /\ UNCHANGED <<mode, owed, reporting, unsent, held, sti, todo, status, Shift,
                     misread, typed, sent>>
  BY DEF HandleMouse
<1>2. kernel = "loop" /\ todo = <<>> /\ Len(todo) = 0 /\ ModeKept(0) /\ ModeRight(0)
  BY <1>1, Handling
<1>3. Progress'
  BY <1>1 DEF Ps2Inv, Progress
<1>4. ModeKept(0)' /\ Quiet(0)'
  BY <1>1, <1>2 DEF ModeKept, Quiet, Booting
<1>5. Len(todo)' = 0
  BY <1>1, <1>2
<1>6. CASE FromMouse(Port)
  <2>1. /\ buffer' = [buffer EXCEPT ![offset] = Port.byte]
        /\ offset' = NextOffset
        /\ IF offset' = 0 THEN Tell(buffer'[0]) ELSE UNCHANGED <<buttons, reported>>
        /\ stolen' = (stolen \/ Port.from = "mouse_ack")
        /\ Take(irq \ {12})
    BY <1>6 DEF HandleMouse
  <2>2. /\ Port.byte \in Byte /\ last' = Port.byte /\ out' \in Seq(Entry)
        /\ irq' \subseteq {1, 12} /\ (out' = <<>> => irq' = irq \ {12})
    BY <2>1, Values, Taken
  <2>3. Port.from # "keyboard"
    BY <1>6 DEF FromMouse
  <2>4. /\ NoAnswer(out) => NoAnswer(out')
        /\ Unshifting(out') /\ Following(out', held)
        /\ Released(out, 0) => Released(out', 0)
    BY <2>1, <2>3, TakenInOrder
  <2>5. offset' \in 0 .. 2 /\ buffer' \in [0 .. 2 -> Byte] /\ buffer'[0] \in Byte
    <3>1. buffer' \in [0 .. 2 -> Byte]
      BY <2>1, <2>2, Values
    <3>2. offset' \in 0 .. 2
      BY <2>1, Values DEF NextOffset
    <3> QED BY <3>1, <3>2
  <2>6. buttons' \in Byte /\ reported' \subseteq 0 .. 2
    <3>1. reported \subseteq 0 .. 2 /\ Told(buffer'[0]) \subseteq 0 .. 2
      BY DEF Ps2Inv, Typed, Ps2TypeOK, Told
    <3>2. CASE offset' = 0
      BY <2>1, <2>5, <3>1, <3>2 DEF Tell
    <3>3. CASE offset' # 0
      BY <2>1, <3>1, <3>3, Values
    <3> QED BY <3>2, <3>3
  <2>7. stolen' \in BOOLEAN /\ (stolen => stolen')
    <3>1. stolen \in BOOLEAN
      BY DEF Ps2Inv, Typed, Ps2TypeOK
    <3> QED BY <2>1, <3>1, Zenon
  <2>8. Typed'
    BY <1>1, <2>2, <2>5, <2>6, <2>7 DEF Ps2Inv, Typed, Ps2TypeOK, Entry
  <2>9. Keyed'
    <3>1. 1 \notin irq' \/ out' # <<>>
      BY <1>1, <2>2
    <3> QED BY <1>1, <2>4, <2>7, <3>1 DEF Ps2Inv, Keyed
  <2>10. ModeRight(0)'
    BY <1>1, <1>2, <2>4, NoneAnswered DEF ModeRight
  <2> QED BY <1>3, <1>4, <1>5, <2>8, <2>9, <2>10 DEF Ps2Inv
<1>7. CASE ~FromMouse(Port)
  <2>1. irq' = irq \ {12} /\ UNCHANGED <<out, last, mouseState, stolen>>
    BY <1>7 DEF HandleMouse
  <2>2. Typed' /\ Keyed' /\ ModeRight(0)'
    BY <1>1, <1>2, <2>1 DEF Ps2Inv, Typed, Ps2TypeOK, mouseState, Keyed, ModeRight
  <2> QED BY <1>3, <1>4, <1>5, <2>2 DEF Ps2Inv
<1> QED BY <1>6, <1>7

------------------------------------------------------------------------------
(* The kernel.                                                              *)

IInv == ScanInv /\ Ps2Inv

\* The firmware leaves nothing but the code of a key that is held.
LEMMA FirmwareLeaves == ASSUME Init PROVE Ps2Inv
<1>1. /\ kernel = "keyboard" /\ drivers = <<>>
      /\ mode \in Modes /\ last = 0 /\ owed = {} /\ reporting = FALSE /\ unsent = <<>>
      /\ irq = {} /\ sti = FALSE /\ todo = <<>> /\ status = 0 /\ Shift = FALSE
      /\ offset = 0 /\ buffer = [i \in 0 .. 2 |-> 0] /\ buttons = 0 /\ reported = {}
      /\ misread = FALSE /\ stolen = FALSE
  BY DEF Init, Ps2Init
<1>2. mode \in Byte /\ 0 \in Byte
  BY <1>1, Bytes, Ps2Assumption
<1>3. held \subseteq Keys
  BY DEF Init, Ps2Init
<1>4. \/ out = <<>>
      \/ \E key \in held : out = <<[byte |-> key.make, from |-> "keyboard"]>>
  BY DEF Init, Ps2Init
<1>5. out \in Seq(Entry) /\ NoAnswer(out) /\ NoPacket(out) /\ Unshifting(out)
      /\ Following(out, held)
  <2>1. CASE out = <<>>
    BY <2>1 DEF NoAnswer, NoPacket, Unshifting, Following
  <2>2. CASE out # <<>>
    <3>1. PICK key \in held : out = <<[byte |-> key.make, from |-> "keyboard"]>>
      BY <1>4, <2>2
    <3>2. key \in Keys /\ key.make \in Byte
      BY <1>3, <3>1, KeyCodes
    <3>3. [byte |-> key.make, from |-> "keyboard"] \in Entry
      BY <3>2 DEF Entry, Origin
    <3>4. /\ out \in Seq(Entry) /\ DOMAIN out = {1}
          /\ out[1].from = "keyboard" /\ out[1].byte = key.make
      BY <3>1, <3>3
    <3>5. NoAnswer(out) /\ NoPacket(out) /\ Unshifting(out)
      BY <3>4 DEF NoAnswer, NoPacket, Unshifting
    <3>6. Following(out, held)
      BY <3>1, <3>2, <3>4, KeyCodes DEF Following
    <3> QED BY <3>4, <3>5, <3>6
  <2> QED BY <2>1, <2>2
<1>6. Len(todo) = 0
  BY <1>1
<1>7. Progress
  <2>1. todo \in Seq(Accessing)
    BY <1>1
  <2> QED BY <1>1, <1>6, <2>1 DEF Progress
<1>8. Typed
  <2>1. unsent \in Seq(Byte) /\ Len(unsent) = 0
    BY <1>1
  <2>2. offset \in 0 .. 2 /\ buffer \in [0 .. 2 -> Byte]
    BY <1>1, <1>2
  <2>3. reporting \in BOOLEAN /\ sti \in BOOLEAN /\ Shift \in BOOLEAN
        /\ misread \in BOOLEAN /\ stolen \in BOOLEAN
    BY <1>1
  <2>4. last \in Byte /\ mode \in Byte /\ status \in Byte /\ buttons \in Byte
        /\ owed \subseteq {"keyboard", "mouse"} /\ irq \subseteq {1, 12}
        /\ reported \subseteq 0 .. 2
    BY <1>1, <1>2
  <2> QED BY <1>3, <1>5, <2>1, <2>2, <2>3, <2>4 DEF Typed, Ps2TypeOK, Entry
<1>9. Keyed
  BY <1>1, <1>5 DEF Keyed
<1>10. ModeKept(0) /\ ModeRight(0) /\ Quiet(0)
  BY <1>1, <1>5 DEF ModeKept, ModeRight, Quiet, Booting
<1> QED BY <1>6, <1>7, <1>8, <1>9, <1>10 DEF Ps2Inv

\* The invariant holds when kernelMain begins.
LEMMA InitIInv == Init => IInv
  BY FirmwareLeaves, ScanBegins DEF Init, IInv

\* Two sequences are flattened to the one followed by the other.
LEMMA FlattenedPair ==
    ASSUME NEW a, NEW b PROVE FlattenSeq(<<a, b>>) = a \o b
<1> DEFINE seqs == <<a, b>>
           Flattens(g) == g = [i \in 1 .. 2 |-> IF i = 1 THEN seqs[i] ELSE g[i - 1] \o seqs[i]]
           flat == [i \in 1 .. 2 |-> IF i = 1 THEN a ELSE a \o b]
<1>1. Len(seqs) = 2 /\ seqs[1] = a /\ seqs[2] = b
  OBVIOUS
<1>2. Flattens(flat)
  <2>1. \A i \in 1 .. 2 : flat[i] = IF i = 1 THEN seqs[i] ELSE flat[i - 1] \o seqs[i]
    <3>1. flat[1] = a /\ flat[2] = a \o b
      OBVIOUS
    <3>2. flat[2 - 1] = a
      OBVIOUS
    <3> HIDE DEF flat, seqs
    <3>3. \A i \in 1 .. 2 : i = 1 \/ i = 2
      OBVIOUS
    <3> QED BY <1>1, <3>1, <3>2, <3>3
  <2> QED BY <2>1
<1>3. Flattens(CHOOSE g : Flattens(g))
  <2> HIDE DEF Flattens, flat
  <2> QED BY <1>2
<1>4. ASSUME NEW g, Flattens(g) PROVE g[2] = a \o b
  <2> HIDE DEF seqs
  <2>1. \A i \in 1 .. 2 : g[i] = IF i = 1 THEN seqs[i] ELSE g[i - 1] \o seqs[i]
    BY <1>4
  <2>2. 1 \in 1 .. 2 /\ 2 \in 1 .. 2 /\ 2 # 1 /\ 2 - 1 = 1
    OBVIOUS
  <2>3. g[1] = a
    BY <1>1, <2>1, <2>2
  <2>4. g[2] = g[2 - 1] \o b
    BY <1>1, <2>1, <2>2, Zenon
  <2>5. g[2] = g[1] \o b
    BY <2>2, <2>4, Zenon
  <2> QED BY <2>3, <2>5, Zenon
<1>5. FlattenSeq(seqs) = (CHOOSE g : Flattens(g))[2]
  BY <1>1 DEF FlattenSeq
<1> QED BY <1>3, <1>4, <1>5, Zenon

\* Activate of both drivers, one after the other, is Order.
LEMMA BothInOrder ==
    ASSUME drivers = <<"keyboard", "mouse">>,
           NEW all, all = FlattenSeq([i \in DOMAIN drivers |-> Accesses(drivers[i])])
    PROVE  all \in Seq(Accessing) /\ Len(all) = 13 /\ \A i \in 1 .. 13 : all[i] = Order[i]
<1> DEFINE a == Accesses("keyboard")
           b == Accesses("mouse")
<1>1. [i \in DOMAIN drivers |-> Accesses(drivers[i])] = <<a, b>>
  <2>1. DOMAIN drivers = 1 .. 2 /\ drivers[1] = "keyboard" /\ drivers[2] = "mouse"
    OBVIOUS
  <2> HIDE DEF a, b
  <2>2. DOMAIN <<a, b>> = 1 .. 2 /\ <<a, b>>[1] = a /\ <<a, b>>[2] = b
    OBVIOUS
  <2> QED BY <2>1, <2>2 DEF a, b
<1>2. all = a \o b
  BY <1>1, FlattenedPair
<1>3. \A i \in 1 .. 13 : Order[i] \in Accessing
  BY DEF Accessing
<1>4. /\ a = <<Order[1], Order[2], Order[3], Order[4], Order[5], Order[6]>>
      /\ b = <<Order[7], Order[8], Order[9], Order[10], Order[11], Order[12], Order[13]>>
  BY DEF Accesses, Order
<1> HIDE DEF a, b
<1>5. a \in Seq(Accessing) /\ Len(a) = 6 /\ b \in Seq(Accessing) /\ Len(b) = 7
  BY <1>3, <1>4
<1>6. ASSUME NEW S, NEW s \in Seq(S), NEW t \in Seq(S)
      PROVE  /\ s \o t \in Seq(S) /\ Len(s \o t) = Len(s) + Len(t)
             /\ \A i \in 1 .. Len(s) + Len(t) :
                   (s \o t)[i] = IF i <= Len(s) THEN s[i] ELSE t[i - Len(s)]
  OBVIOUS
<1>7. /\ all \in Seq(Accessing) /\ Len(all) = 13
      /\ \A i \in Nat : i >= 1 /\ i <= 13 => all[i] = IF i <= 6 THEN a[i] ELSE b[i - 6]
  <2>1. /\ a \o b \in Seq(Accessing) /\ Len(a \o b) = Len(a) + Len(b)
        /\ \A i \in 1 .. Len(a) + Len(b) :
              (a \o b)[i] = IF i <= Len(a) THEN a[i] ELSE b[i - Len(a)]
    BY <1>5, <1>6
  <2>2. PICK m \in Nat : m = Len(a) /\ m = 6
    BY <1>5
  <2>3. PICK n \in Nat : n = m + Len(b) /\ n = 13
    BY <1>5, <2>2
  <2>4. \A i \in 1 .. n : all[i] = IF i <= m THEN a[i] ELSE b[i - m]
    BY <1>2, <2>1, <2>2, <2>3
  <2>5. ASSUME NEW i \in Nat, i >= 1, i <= 13
        PROVE  all[i] = IF i <= 6 THEN a[i] ELSE b[i - 6]
    <3>1. i \in 1 .. n
      BY <2>3, <2>5
    <3> QED BY <2>2, <2>4, <3>1
  <2>6. all \in Seq(Accessing) /\ Len(all) = 13
    BY <1>2, <2>1, <2>2, <2>3
  <2> QED BY <2>5, <2>6
<1>8. ASSUME NEW i \in Nat, i >= 1, i <= 13 PROVE all[i] = Order[i]
  <2>1. i <= 6 => all[i] = a[i]
    BY <1>7, <1>8
  <2>2. i > 6 => all[i] = b[i - 6]
    BY <1>7, <1>8
  <2>3. CASE i <= 6
    <3>1. i = 1 \/ i = 2 \/ i = 3 \/ i = 4 \/ i = 5 \/ i = 6
      BY <1>8, <2>3
    <3> QED BY <1>4, <2>1, <2>3, <3>1
  <2>4. CASE i > 6
    <3>1. i = 7 \/ i = 8 \/ i = 9 \/ i = 10 \/ i = 11 \/ i = 12 \/ i = 13
      BY <1>8, <2>4
    <3> QED BY <1>4, <2>2, <2>4, <3>1
  <2> QED BY <2>3, <2>4
<1> QED BY <1>7, <1>8

\* One element followed by another.
LEMMA PairOfTwo ==
    ASSUME NEW S, NEW a \in S, NEW b \in S PROVE <<a>> \o <<b>> = <<a, b>>
<1>1. /\ <<a>> \in Seq(S) /\ Len(<<a>>) = 1 /\ <<a>>[1] = a
      /\ <<b>> \in Seq(S) /\ Len(<<b>>) = 1 /\ <<b>>[1] = b
      /\ <<a, b>> \in Seq(S) /\ Len(<<a, b>>) = 2
      /\ <<a, b>>[1] = a /\ <<a, b>>[2] = b
  OBVIOUS
<1> DEFINE s == <<a>>  t == <<b>>  u == <<a, b>>
<1>2. s \in Seq(S) /\ t \in Seq(S) /\ u \in Seq(S)
  BY <1>1
<1> HIDE DEF s, t, u
<1>3. /\ s \o t \in Seq(S) /\ Len(s \o t) = Len(s) + Len(t)
      /\ \A i \in 1 .. Len(s) + Len(t) :
            (s \o t)[i] = IF i <= Len(s) THEN s[i] ELSE t[i - Len(s)]
  BY <1>2, ConcatProperties
<1>4. Len(s) = 1 /\ Len(t) = 1 /\ s[1] = a /\ t[1] = b
      /\ Len(u) = 2 /\ u[1] = a /\ u[2] = b
  BY <1>1 DEF s, t, u
<1>5. Len(s \o t) = Len(u) /\ \A i \in 1 .. Len(s \o t) : (s \o t)[i] = u[i]
  BY <1>3, <1>4
<1>6. s \o t = u
  BY <1>2, <1>3, <1>5, SeqEqual
<1> QED BY <1>6 DEF s, t, u

\* Each of the two drivers is added behind those before it.
LEMMA AddKeeps ==
    ASSUME IInv, Add("keyboard", "mouse") \/ Add("mouse", "scan") PROVE IInv'
<1>1. UNCHANGED <<scan, ps2>> /\ Booting /\ Booting'
      /\ \/ kernel = "keyboard" /\ kernel' = "mouse" /\ drivers' = drivers \o <<"keyboard">>
         \/ kernel = "mouse" /\ kernel' = "scan" /\ drivers' = drivers \o <<"mouse">>
  BY DEF Add, AddDriver, Booting
<1>2. \/ kernel' = "mouse" /\ drivers' = <<"keyboard">>
      \/ kernel' = "scan" /\ drivers' = <<"keyboard", "mouse">>
  <2>1. CASE kernel = "keyboard"
    <3>1. drivers = <<>>
      BY <2>1 DEF IInv, Ps2Inv, Progress
    <3>2. <<>> \o <<"keyboard">> = <<"keyboard">>
      OBVIOUS
    <3> QED BY <1>1, <2>1, <3>1, <3>2
  <2>2. CASE kernel = "mouse"
    <3>1. drivers = <<"keyboard">>
      BY <2>2 DEF IInv, Ps2Inv, Progress
    <3>2. <<"keyboard">> \o <<"mouse">> = <<"keyboard", "mouse">>
      <4>1. "keyboard" \in {"keyboard", "mouse"} /\ "mouse" \in {"keyboard", "mouse"}
        OBVIOUS
      <4> QED BY <4>1, PairOfTwo, Zenon
    <3> QED BY <1>1, <2>2, <3>1, <3>2
  <2> QED BY <1>1, <2>1, <2>2
<1>3. drivers' \in Seq({"keyboard", "mouse", "card"})
  <2>1. /\ <<"keyboard">> \in Seq({"keyboard", "mouse", "card"})
        /\ <<"keyboard", "mouse">> \in Seq({"keyboard", "mouse", "card"})
    OBVIOUS
  <2> QED BY <1>2, <2>1
<1>4. ScanInv'
  BY <1>1, <1>3 DEF IInv, ScanInv, ScanTypeOK, Scanned, PortBaseReal, scan
<1>5. Progress'
  <2>1. todo' = <<>> /\ ~sti'
    BY <1>1 DEF IInv, Ps2Inv, Progress, Booting, ps2
  <2>2. todo' \in Seq(Accessing) /\ Len(todo') = 0
    BY <2>1
  <2> QED BY <1>2, <2>1, <2>2 DEF Progress
<1>6. Typed' /\ Keyed' /\ ModeKept(Len(todo))' /\ Quiet(Len(todo))'
  BY <1>1 DEF IInv, Ps2Inv, ps2, Typed, Ps2TypeOK, mouseState, Keyed, ModeKept, Quiet, Booting
<1>7. ModeRight(Len(todo))'
  BY <1>1 DEF ModeRight, Booting
<1> QED BY <1>4, <1>5, <1>6, <1>7 DEF IInv, Ps2Inv

\* The scan touches neither controller nor devices.
LEMMA ScanKeeps == ASSUME IInv, Scan PROVE IInv'
<1>1. /\ kernel = "scan" /\ kernel' \in {"scan", "activate"} /\ SelectDrivers /\ UNCHANGED ps2
  BY DEF Scan
<1>2. drivers = <<"keyboard", "mouse">>
  BY <1>1 DEF IInv, Ps2Inv, Progress
<1>3. drivers \in Seq({"keyboard", "mouse", "card"})
  BY <1>2
<1>4. ScanInv' /\ drivers' = drivers
  BY <1>1, <1>3, ScanGoesOn DEF IInv
<1>5. Booting /\ Booting'
  BY <1>1 DEF Booting
<1>6. Progress'
  <2>1. todo' = <<>> /\ ~sti'
    BY <1>1 DEF IInv, Ps2Inv, Progress, ps2
  <2>2. todo' \in Seq(Accessing) /\ Len(todo') = 0
    BY <2>1
  <2> QED BY <1>1, <1>2, <1>4, <2>1, <2>2 DEF Progress
<1>7. Typed' /\ Keyed' /\ ModeKept(Len(todo))' /\ Quiet(Len(todo))'
  BY <1>1, <1>5 DEF IInv, Ps2Inv, ps2, Typed, Ps2TypeOK, mouseState, Keyed, ModeKept, Quiet, Booting
<1>8. ModeRight(Len(todo))'
  BY <1>1 DEF ModeRight
<1> QED BY <1>4, <1>6, <1>7, <1>8 DEF IInv, Ps2Inv

\* Activation begins with all accesses to be made.
LEMMA ActivateAllKeeps == ASSUME IInv, ActivateAll PROVE IInv'
<1>1. /\ kernel = "activate" /\ kernel' = "activating"
      /\ todo' = FlattenSeq([i \in DOMAIN drivers |-> Accesses(drivers[i])])
      /\ UNCHANGED <<drivers, scan, out, last, mode, owed, reporting, unsent, held,
                     irq, sti, status, Shift, mouseState, misread, stolen, typed, sent>>
  BY DEF ActivateAll
<1>2. drivers = <<"keyboard", "mouse">> /\ ~sti /\ Booting
  BY <1>1 DEF IInv, Ps2Inv, Progress, Booting
<1>3. todo' \in Seq(Accessing) /\ Len(todo') = 13 /\ \A i \in 1 .. 13 : todo'[i] = Order[i]
  BY <1>1, <1>2, BothInOrder
<1>4. Progress'
  <2>1. PICK n \in Nat : n = Len(todo') /\ n = 13
    BY <1>3
  <2>2. \A i \in 1 .. n : todo'[i] = Order[i]
    BY <1>3, <2>1
  <2>3. \A i \in 1 .. n : todo'[i] = Order[13 - n + i]
    <3>1. \A i \in Nat : 13 - n + i = i
      BY <2>1
    <3> QED BY <2>2, <3>1
  <2>4. Len(todo') <= 13 /\ \A i \in 1 .. Len(todo') : todo'[i] = Order[13 - Len(todo') + i]
    BY <2>1, <2>3
  <2> QED BY <1>1, <1>2, <1>3, <2>4 DEF Progress
<1>5. Typed' /\ Keyed'
  BY <1>1 DEF IInv, Ps2Inv, Typed, Ps2TypeOK, mouseState, Keyed
<1>6. ModeKept(13)'
  <2>1. (mode \div 8) % 2 = 0
    BY <1>2, Ps2Assumption DEF IInv, Ps2Inv, ModeKept
  <2> QED BY <1>1, <2>1 DEF ModeKept, Booting
<1>7. NoAnswer(out) /\ ~reporting /\ "mouse" \notin owed /\ unsent = <<>> /\ NoPacket(out)
  BY <1>2 DEF IInv, Ps2Inv, Quiet
<1>8. ModeRight(13)'
  BY <1>1, <1>7, NoneAnswered DEF ModeRight
<1>9. Quiet(13)'
  BY <1>1, <1>7 DEF Quiet, Booting
<1>10. ScanInv'
  BY <1>1 DEF IInv, ScanInv, ScanTypeOK, Scanned, PortBaseReal, scan
<1> QED BY <1>3, <1>4, <1>5, <1>6, <1>8, <1>9, <1>10 DEF IInv, Ps2Inv

\* When interrupts are turned on nothing is left to be done.
LEMMA StiKeeps == ASSUME IInv, Sti PROVE IInv'
<1>1. /\ kernel = "activating" /\ todo = <<>> /\ sti' = TRUE /\ kernel' = "loop"
      /\ UNCHANGED <<drivers, scan, out, last, mode, owed, reporting, unsent, held, irq,
                     todo, status, Shift, mouseState, misread, stolen, typed, sent>>
  BY DEF Sti
<1>2. Len(todo) = 0 /\ Len(todo)' = 0
  BY <1>1
<1>3. Progress'
  BY <1>1 DEF IInv, Ps2Inv, Progress
<1>4. Typed' /\ Keyed'
  BY <1>1 DEF IInv, Ps2Inv, Typed, Ps2TypeOK, mouseState, Keyed
<1>5. ModeKept(0) /\ ModeRight(0)
  BY <1>2 DEF IInv, Ps2Inv
<1>6. ModeKept(0)' /\ Quiet(0)'
  BY <1>1, <1>5 DEF ModeKept, Quiet, Booting
<1>7. ModeRight(0)'
  BY <1>1, <1>5 DEF ModeRight
<1>8. ScanInv'
  BY <1>1 DEF IInv, ScanInv, ScanTypeOK, Scanned, PortBaseReal, scan
<1> QED BY <1>2, <1>3, <1>4, <1>6, <1>7, <1>8 DEF IInv, Ps2Inv

\* The scan is left alone by all that does not scan.
LEMMA NoScan == ASSUME ScanInv, UNCHANGED <<drivers, scan>> PROVE ScanInv'
  BY DEF ScanInv, ScanTypeOK, Scanned, PortBaseReal, scan

\* Every step of the kernel, of a handler or of a device keeps it.
LEMMA NextIInv == IInv /\ [Next]_vars => IInv'
<1> SUFFICES ASSUME IInv, [Next]_vars PROVE IInv'
  OBVIOUS
<1>1. CASE Add("keyboard", "mouse") \/ Add("mouse", "scan")
  BY <1>1, AddKeeps
<1>2. CASE Scan
  BY <1>2, ScanKeeps
<1>3. CASE ActivateAll
  BY <1>3, ActivateAllKeeps
<1>4. CASE ActivateStep
  BY <1>4, ActivateKeeps, NoScan DEF ActivateStep, IInv
<1>5. CASE Sti
  BY <1>5, StiKeeps
<1>6. CASE Handle
  BY <1>6, HandleKeyboardKeeps, HandleMouseKeeps, NoScan DEF Handle, Handlers, IInv
<1>7. CASE DeviceStep
  <2>1. kernel \in {"activating", "loop"} /\ UNCHANGED <<kernel, drivers, scan>> /\ Ps2Inv
        /\ ScanInv'
    BY <1>7, NoScan DEF DeviceStep, IInv
  <2>2. CASE \E who \in owed : Acknowledge(who)
    BY <2>1, <2>2, AcknowledgeKeeps DEF IInv
  <2>3. CASE \E key \in Keys : Type(key)
    BY <2>1, <2>3, TypeKeeps DEF IInv
  <2>4. CASE \E packet \in Packets : Report(packet)
    BY <2>1, <2>4, ReportKeeps DEF IInv
  <2>5. CASE SendPacket
    BY <2>1, <2>5, SendPacketKeeps DEF IInv
  <2> QED BY <1>7, <2>2, <2>3, <2>4, <2>5 DEF DeviceStep, Devices
<1>8. CASE UNCHANGED vars
  BY <1>8, NoScan DEF vars, ps2, IInv, Ps2Inv, Progress, Typed, Ps2TypeOK, mouseState, Keyed,
     ModeKept, ModeRight, Quiet, Booting
<1> QED BY <1>1, <1>2, <1>3, <1>4, <1>5, <1>6, <1>7, <1>8 DEF Next, KernelStep

\* So it always holds.
LEMMA Invariance == Spec => []IInv
  BY InitIInv, NextIInv, PTL DEF Spec

------------------------------------------------------------------------------
(* What follows from it.                                                    *)

\* The scan, the drivers, the controller and the devices keep to their types.
THEOREM TypeCorrect == Spec => []TypeOK
<1>1. IInv => TypeOK
  BY DEF IInv, ScanInv, Ps2Inv, Progress, Typed, TypeOK
<1> QED BY <1>1, Invariance, PTL

\* The port base of a device is in a register of it that says it is an I/O
\* port, whatever cards are found.
THEOREM PortBaseRealAlways == Spec => []PortBaseReal
<1>1. IInv => PortBaseReal
  BY DEF IInv, ScanInv
<1> QED BY <1>1, Invariance, PTL

\* Whatever mode the firmware left and whatever was taken for the controller's
\* answer, the mouse runs and interrupts when the drivers are activated; and the
\* keyboard, unless a byte was taken for the answer that was not.
THEOREM BothInterruptAlways == Spec => []BothInterrupt
<1>1. IInv => BothInterrupt
  <2> SUFFICES ASSUME IInv, sti
               PROVE  /\ Bit(mode, 1) /\ ~Bit(mode, 5)
                      /\ ~misread => Bit(mode, 0) /\ ~Bit(mode, 4)
    BY DEF BothInterrupt, KeyboardInterrupt, MouseInterrupt, KeyboardStopped, MouseStopped
  <2>1. kernel = "loop" /\ ModeKept(0) /\ ModeRight(0)
    BY Handling DEF IInv
  <2> QED BY <2>1 DEF ModeKept, ModeRight
<1> QED BY <1>1, Invariance, PTL

\* Shift does not stay on, whichever keys were typed and however many, and
\* whatever was stale when the handler read the port.
THEOREM NoStuckShiftAlways == Spec => []NoStuckShift
<1>1. IInv => NoStuckShift
  <2> SUFFICES ASSUME IInv, Shift, ~stolen, held \cap Shifts = {}
               PROVE  \E i \in DOMAIN out : out[i].byte \in {key.break : key \in Shifts}
    BY DEF NoStuckShift
  <2>1. Released(out, 0)
    BY DEF IInv, Ps2Inv, Keyed
  <2>2. {key.break : key \in Shifts} = Breaks
    BY DEF Shifts, Breaks
  <2> QED BY <2>1, <2>2 DEF Released
<1> QED BY <1>1, Invariance, PTL

------------------------------------------------------------------------------
(* No interrupt is lost, and none is wasted.                                *)

\* From when the port was drained, the byte that waits there has made its
\* request, if the mode lets it make one.
Announced ==
    kernel = "loop" \/ (kernel = "activating" /\ Len(todo) # 13) =>
        Request(out, mode) \subseteq irq

\* A byte that is sent is the first one, or behind one that has made its request.
LEMMA SentAnnounced ==
    ASSUME out \in Seq(Entry), irq \subseteq {1, 12}, Request(out, mode) \subseteq irq,
           NEW byte \in Byte, NEW from \in Origin, Send(byte, from), mode' = mode
    PROVE  Request(out', mode') \subseteq irq'
<1>1. CASE out = <<>>
  BY <1>1 DEF Send
<1>2. CASE out # <<>>
  <2>1. out' # <<>> /\ Head(out') = out'[1] /\ Head(out) = out[1] /\ out'[1] = out[1]
    <3>1. /\ out' \in Seq(Entry) /\ out' # <<>> /\ Len(out) \in Nat
          /\ \A i \in 1 .. Len(out) : out'[i] = out[i]
      BY Sent
    <3>2. 1 \in 1 .. Len(out)
      BY <1>2
    <3> QED BY <1>2, <3>1, <3>2
  <2>2. irq' = irq
    BY <1>2 DEF Send
  <2> QED BY <1>2, <2>1, <2>2 DEF Request
<1> QED BY <1>1, <1>2

\* The byte behind one that is taken makes its request when it comes to the port.
LEMMA TakenAnnounced ==
    ASSUME NEW requests, Take(requests), mode' = mode
    PROVE  Request(out', mode') \subseteq irq'
  BY DEF Take

\* A new mode lets the byte that waits make its request.
LEMMA ModeAnnounced ==
    ASSUME NEW m, SetMode(m), out' = out PROVE Request(out', mode') \subseteq irq'
  BY DEF SetMode

\* No device makes its byte wait unannounced.
LEMMA DevicesAnnounced == ASSUME Ps2Inv, Announced, DeviceStep PROVE Announced'
<1>1. /\ kernel' = kernel /\ out \in Seq(Entry) /\ irq \subseteq {1, 12} /\ ACK \in Byte
      /\ unsent \in Seq(Byte)
  BY Values DEF DeviceStep
<1>2. todo' = todo /\ mode' = mode
  BY DEF DeviceStep, Devices, Acknowledge, Type, Report, SendPacket
<1>3. SUFFICES ASSUME Request(out, mode) \subseteq irq
               PROVE  Request(out', mode') \subseteq irq'
  BY <1>1, <1>2 DEF Announced
<1>4. ASSUME NEW who \in owed, Acknowledge(who) PROVE Request(out', mode') \subseteq irq'
  <2>1. PICK from \in Origin : Send(ACK, from)
    BY <1>4 DEF Acknowledge, Origin
  <2> QED BY <1>1, <1>2, <1>3, <2>1, SentAnnounced
<1>5. ASSUME NEW key \in Keys, Type(key) PROVE Request(out', mode') \subseteq irq'
  <2>1. PICK byte \in Byte : Send(byte, "keyboard")
    BY <1>5, KeyCodes DEF Type
  <2>2. "keyboard" \in Origin
    BY DEF Origin
  <2> QED BY <1>1, <1>2, <1>3, <2>1, <2>2, SentAnnounced
<1>6. ASSUME NEW packet \in Packets, Report(packet) PROVE Request(out', mode') \subseteq irq'
  BY <1>2, <1>3, <1>6 DEF Report
<1>7. CASE SendPacket
  <2>1. Send(Head(unsent), "mouse") /\ unsent # <<>>
    BY <1>7 DEF SendPacket
  <2>2. Head(unsent) \in Byte /\ "mouse" \in Origin
    BY <1>1, <2>1 DEF Origin
  <2> QED BY <1>1, <1>2, <1>3, <2>1, <2>2, SentAnnounced
<1> QED BY <1>4, <1>5, <1>6, <1>7 DEF DeviceStep, Devices

\* No access of Activate does: one that polls the port is followed by the
\* request of the byte behind.
LEMMA AccessAnnounced == ASSUME Ps2Inv, Announced, ActivateStep PROVE Announced'
<1>1. /\ kernel' = kernel /\ Activate /\ out \in Seq(Entry) /\ irq \subseteq {1, 12}
      /\ mode \in Byte
  BY Values DEF ActivateStep
<1>2. CASE Drain
  <2>1. mode' = mode
    BY <1>2 DEF Drain
  <2>2. CASE out # <<>>
    BY <1>2, <2>1, <2>2, TakenAnnounced DEF Drain, Announced
  <2>3. CASE out = <<>>
    BY <1>2, <2>3 DEF Drain, Announced, Request
  <2> QED BY <2>2, <2>3
<1>3. CASE ResetMouse \/ Ask
  <2>1. /\ todo # <<>> /\ Head(todo) \in {"reset", "ask"} /\ mode' = mode
    BY <1>3 DEF ResetMouse, Ask, Do
  <2>2. kernel = "activating" /\ Len(todo) # 13
    <3>1. /\ Len(todo) \in Nat /\ Len(todo) >= 1 /\ Len(todo) <= 13
          /\ Head(todo) = Order[14 - Len(todo)] /\ kernel = "activating"
      BY <2>1, NextAccess DEF Ps2Inv
    <3>2. Order[14 - 13] = "drain"
      BY DEF Order
    <3> QED BY <2>1, <3>1, <3>2
  <2>3. Request(out, mode) \subseteq irq
    BY <2>2 DEF Announced
  <2>4. CASE ResetMouse
    BY <2>1, <2>3, <2>4 DEF ResetMouse, Announced
  <2>5. CASE Ask
    <3>1. Send(mode, "controller") /\ "controller" \in Origin
      BY <2>5 DEF Ask, Origin
    <3> QED BY <1>1, <2>1, <2>3, <3>1, SentAnnounced DEF Announced
  <2> QED BY <1>3, <2>4, <2>5
<1>4. CASE \/ Start("start_keyboard", KeyboardStopped) \/ Start("start_mouse", MouseStopped)
           \/ WriteStatus
           \/ ActivateDevice("activate_keyboard", "keyboard", KeyboardStopped)
           \/ ActivateDevice("activate_mouse", "mouse", MouseStopped)
  <2>1. out' = out /\ \E m : SetMode(m)
    BY <1>4 DEF Start, WriteStatus, ActivateDevice
  <2> QED BY <2>1, ModeAnnounced DEF Announced
<1>5. CASE ReadStatus("keyboard_status") \/ ReadStatus("mouse_status") \/ TakeAnswer
  <2>1. mode' = mode /\ \E requests : Take(requests)
    BY <1>5 DEF ReadStatus, TakeAnswer
  <2> QED BY <2>1, TakenAnnounced DEF Announced
<1> QED BY <1>1, <1>2, <1>3, <1>4, <1>5 DEF Activate

\* No handler does: the mouse's leaves a byte that is not its own to a request
\* that is still latched.
LEMMA HandlersAnnounced == ASSUME Ps2Inv, Announced, Handle PROVE Announced'
<1>1. /\ kernel = "loop" /\ kernel' = kernel /\ mode' = mode
      /\ Request(out, mode) \subseteq irq
  BY Handling DEF Handle, Handlers, HandleKeyboard, HandleMouse, Announced
<1>2. CASE HandleKeyboard
  BY <1>1, <1>2, TakenAnnounced DEF HandleKeyboard, Announced
<1>3. CASE HandleMouse /\ FromMouse(Port)
  BY <1>1, <1>3, TakenAnnounced DEF HandleMouse, Announced
<1>4. CASE HandleMouse /\ ~FromMouse(Port)
  <2>1. out' = out /\ irq' = irq \ {12}
    BY <1>4 DEF HandleMouse
  <2>2. 12 \notin Request(out, mode)
    BY <1>4 DEF Request, Port
  <2> QED BY <1>1, <2>1, <2>2 DEF Announced
<1> QED BY <1>2, <1>3, <1>4 DEF Handle, Handlers

\* So once the port was drained every byte that waits at it has its request.
LEMMA NextAnnounced == IInv /\ Announced /\ [Next]_vars => Announced'
<1> SUFFICES ASSUME Ps2Inv, Announced, [Next]_vars PROVE Announced'
  BY DEF IInv
<1>1. CASE Add("keyboard", "mouse") \/ Add("mouse", "scan") \/ Scan
  BY <1>1 DEF Add, Scan, Announced
<1>2. CASE ActivateAll
  <2>1. drivers = <<"keyboard", "mouse">>
    BY <1>2 DEF ActivateAll, Ps2Inv, Progress
  <2>2. Len(todo') = 13 /\ kernel' = "activating"
    BY <1>2, <2>1, BothInOrder DEF ActivateAll
  <2> QED BY <2>2 DEF Announced
<1>3. CASE Sti
  <2>1. kernel = "activating" /\ Len(todo) = 0 /\ out' = out /\ mode' = mode /\ irq' = irq
    BY <1>3 DEF Sti
  <2> QED BY <2>1 DEF Announced
<1>4. CASE UNCHANGED vars
  BY <1>4 DEF vars, ps2, Announced
<1> QED BY <1>1, <1>2, <1>3, <1>4, AccessAnnounced, HandlersAnnounced, DevicesAnnounced
    DEF Next, KernelStep

\* Nothing waits for a request before the drivers are activated.
LEMMA AnnouncedAlways == Spec => [](IInv /\ Announced)
<1>1. Init => Announced
  BY DEF Init, Announced
<1> QED BY <1>1, InitIInv, NextIInv, NextAnnounced, PTL DEF Spec

\* The request of a byte at the port, when its device interrupts.
LEMMA Requested ==
    ASSUME IInv, Announced, sti, out # <<>>
    PROVE  /\ FromMouse(Head(out)) => Request(out, mode) = {12}
           /\ ~FromMouse(Head(out)) /\ ~misread => Request(out, mode) = {1}
           /\ Request(out, mode) \subseteq irq
<1>1. kernel = "loop" /\ ModeKept(0) /\ ModeRight(0)
  BY Handling DEF IInv
<1>2. Bit(mode, 1) /\ (~misread => Bit(mode, 0))
  BY <1>1 DEF ModeKept, ModeRight
<1>3. Request(out, mode) \subseteq irq
  BY <1>1 DEF Announced
<1> QED BY <1>2, <1>3 DEF Request, KeyboardInterrupt, MouseInterrupt

\* No interrupt is lost: the byte that waits at the port when the handlers may
\* run has its request latched, however many came before the drivers listened.
THEOREM ByteAnnouncedAlways == Spec => []ByteAnnounced
<1>1. IInv /\ Announced => ByteAnnounced
  <2> SUFFICES ASSUME IInv, Announced, sti, out # <<>>
               PROVE  /\ Request(out, mode) \subseteq irq
                      /\ FromMouse(Head(out)) \/ ~misread => Request(out, mode) # {}
    BY DEF ByteAnnounced
  <2> QED BY Requested
<1> QED BY <1>1, AnnouncedAlways, PTL

\* None is wasted: as long as bytes wait every handler that runs takes one, so
\* that the port is empty again after as many interrupts as bytes came to it.
THEOREM EveryInterruptTakesAlways == Spec => EveryInterruptTakes
<1> DEFINE Takes == Handlers /\ ~misread /\ out # <<>> => out' = Tail(out)
<1>1. IInv /\ Announced => [Takes]_ps2
  <2> SUFFICES ASSUME IInv, Announced, Handlers, ~misread, out # <<>>
               PROVE  out' = Tail(out)
    OBVIOUS
  <2>1. CASE HandleKeyboard
    BY <2>1 DEF HandleKeyboard, Take
  <2>2. CASE HandleMouse
    <3>1. sti /\ 1 \notin irq
      BY <2>2 DEF HandleMouse
    <3>2. FromMouse(Head(out))
      BY <3>1, Requested
    <3>3. FromMouse(Port)
      BY <3>2 DEF Port
    <3> QED BY <2>2, <3>3 DEF HandleMouse, Take
  <2> QED BY <2>1, <2>2 DEF Handlers
<1>2. EveryInterruptTakes <=> [][Takes]_ps2
  BY DEF EveryInterruptTakes
<1> HIDE DEF Takes
<1> QED BY <1>1, <1>2, AnnouncedAlways, PTL

------------------------------------------------------------------------------
(* The packets.                                                             *)

\* The bytes of packets among the first i that wait.
Before(s, i) == Cardinality({j \in 1 .. i : s[j].from = "mouse"})

\* Their number is no less for more bytes.
LEMMA Counted ==
    ASSUME NEW s, NEW i \in Nat
    PROVE  /\ IsFiniteSet({j \in 1 .. i : s[j].from = "mouse"})
           /\ Before(s, i) \in Nat
           /\ \A k \in 0 .. i : Before(s, k) \in Nat /\ Before(s, k) <= Before(s, i)
<1> DEFINE Those(k) == {j \in 1 .. k : s[j].from = "mouse"}
<1>1. ASSUME NEW k \in Nat PROVE IsFiniteSet(Those(k)) /\ Cardinality(Those(k)) \in Nat
  <2>1. IsFiniteSet(1 .. k)
    BY FS_Interval
  <2>2. Those(k) \in SUBSET (1 .. k)
    OBVIOUS
  <2>3. IsFiniteSet(Those(k))
    BY <2>1, <2>2, FS_Subset
  <2> QED BY <2>3, FS_CardinalityType
<1>2. ASSUME NEW k \in 0 .. i
      PROVE  Cardinality(Those(k)) \in Nat /\ Cardinality(Those(k)) <= Cardinality(Those(i))
  <2>1. k \in Nat /\ Those(k) \in SUBSET Those(i)
    OBVIOUS
  <2> QED BY <1>1, <2>1, FS_Subset
<1> QED BY <1>1, <1>2 DEF Before

\* One more of them is counted as what it is.
LEMMA CountedOn ==
    ASSUME NEW s, NEW i \in Nat
    PROVE  Before(s, i + 1) = Before(s, i) + (IF s[i + 1].from = "mouse" THEN 1 ELSE 0)
<1> DEFINE Those(k) == {j \in 1 .. k : s[j].from = "mouse"}
<1>1. /\ IsFiniteSet(Those(i)) /\ Before(s, i) \in Nat
      /\ Before(s, i) = Cardinality(Those(i)) /\ Before(s, i + 1) = Cardinality(Those(i + 1))
  BY Counted DEF Before
<1>2. i + 1 \notin Those(i)
  OBVIOUS
<1>3. CASE s[i + 1].from = "mouse"
  <2>1. Those(i + 1) = Those(i) \cup {i + 1}
    BY <1>3
  <2>2. Cardinality(Those(i + 1)) = Cardinality(Those(i)) + 1
    <3> HIDE DEF Those
    <3> QED BY <1>1, <1>2, <2>1, FS_AddElement
  <2> HIDE DEF Those
  <2> QED BY <1>1, <1>3, <2>2
<1>4. CASE s[i + 1].from # "mouse"
  <2>1. Those(i + 1) = Those(i)
    BY <1>4
  <2> HIDE DEF Those
  <2> QED BY <1>1, <1>4, <2>1
<1> QED BY <1>3, <1>4

\* Bytes that are the same are counted the same.
LEMMA CountedSame ==
    ASSUME NEW s, NEW t, NEW i \in Nat, \A j \in 1 .. i : t[j] = s[j]
    PROVE  Before(t, i) = Before(s, i)
<1>1. {j \in 1 .. i : t[j].from = "mouse"} = {j \in 1 .. i : s[j].from = "mouse"}
  OBVIOUS
<1> QED BY <1>1 DEF Before

\* Without the first byte, those behind it are counted from one less, or not.
LEMMA CountedBehind ==
    ASSUME NEW s, NEW t, NEW i \in Nat, \A j \in 1 .. i : t[j] = s[j + 1]
    PROVE  Before(s, i + 1) = Before(t, i) + (IF s[1].from = "mouse" THEN 1 ELSE 0)
<1> DEFINE S == {j \in 1 .. i : t[j].from = "mouse"}
           T == {j \in 2 .. i + 1 : s[j].from = "mouse"}
           All == {j \in 1 .. i + 1 : s[j].from = "mouse"}
           next == [j \in S |-> j + 1]
<1>1. /\ IsFiniteSet(S) /\ Before(t, i) \in Nat
      /\ Before(t, i) = Cardinality(S) /\ Before(s, i + 1) = Cardinality(All)
  BY Counted DEF Before
<1>2. next \in Bijection(S, T)
  <2>1. \A j \in S : next[j] \in T
    OBVIOUS
  <2>2. next \in [S -> T]
    BY <2>1
  <2>3. \A j, k \in S : next[j] = next[k] => j = k
    <3>1. \A j \in S : j \in Int /\ next[j] = j + 1
      OBVIOUS
    <3> HIDE DEF next, S
    <3> QED BY <3>1
  <2>4. \A k \in T : k - 1 \in S /\ next[k - 1] = k
    OBVIOUS
  <2> HIDE DEF next, S, T
  <2> QED BY <2>2, <2>3, <2>4 DEF Bijection, Injection, Surjection, IsInjective
<1>3. IsFiniteSet(T) /\ Cardinality(T) = Cardinality(S)
  <2> HIDE DEF next, S, T
  <2> QED BY <1>1, <1>2, FS_Bijection DEF ExistsBijection
<1>4. CASE s[1].from = "mouse"
  <2>1. All = T \cup {1} /\ 1 \notin T
    BY <1>4
  <2>2. Cardinality(All) = Cardinality(T) + 1
    <3> HIDE DEF All, T, S
    <3> QED BY <1>1, <1>3, <2>1, FS_AddElement
  <2> HIDE DEF All, T, S
  <2> QED BY <1>1, <1>3, <1>4, <2>2
<1>5. CASE s[1].from # "mouse"
  <2>1. All = T
    BY <1>5
  <2> HIDE DEF All, T, S
  <2> QED BY <1>1, <1>3, <1>5, <2>1
<1> QED BY <1>4, <1>5

\* The bytes between the mouse and the third of the packet the driver reads.
Total == offset + Before(out, Len(out)) + Len(unsent)

\* g is what the mouse sends, from the packet on that the driver reads: packets,
\* one behind the other, whose bytes are in the driver's buffer, wait at the
\* port, or are still to be sent.
Framed(g) ==
    /\ g \in [Nat -> Byte]
    /\ \A n \in Nat : n % 3 = 0 /\ n + 2 < Total => <<g[n], g[n + 1], g[n + 2]>> \in Packets
    /\ \A k \in 0 .. 2 : k < offset => buffer[k] = g[k]
    /\ \A i \in DOMAIN out :
          out[i].from = "mouse" => out[i].byte = g[offset + Before(out, i) - 1]
    /\ \A k \in 1 .. Len(unsent) : unsent[k] = g[offset + Before(out, Len(out)) + k - 1]

\* What the driver reads are packets, as long as it takes no other byte and no
\* other driver takes one of them.
Framing ==
    /\ ~sti => offset = 0
    /\ ~stolen =>
          /\ Total % 3 = 0
          /\ offset = 0 => <<buffer[0], buffer[1], buffer[2]>> \in Packets \cup {<<0, 0, 0>>}
          /\ \E g : Framed(g)

\* The values that the framing is about.
LEMMA FramingValues ==
    ASSUME Ps2Inv
    PROVE  /\ out \in Seq(Entry) /\ Len(out) \in Nat /\ DOMAIN out = 1 .. Len(out)
           /\ offset \in Nat /\ offset <= 2 /\ buffer \in [0 .. 2 -> Byte]
           /\ unsent \in Seq(Byte) /\ Len(unsent) \in Nat
           /\ Before(out, Len(out)) \in Nat
           /\ \A i \in DOMAIN out : /\ Before(out, i) \in Nat
                                    /\ Before(out, i) <= Before(out, Len(out))
                                    /\ out[i].from = "mouse" => Before(out, i) >= 1
<1>1. /\ out \in Seq(Entry) /\ offset \in 0 .. 2 /\ buffer \in [0 .. 2 -> Byte]
      /\ unsent \in Seq(Byte)
  BY Values
<1>2. Len(out) \in Nat /\ DOMAIN out = 1 .. Len(out) /\ Len(unsent) \in Nat
  BY <1>1
<1>3. Before(out, Len(out)) \in Nat
  BY <1>2, Counted
<1>4. ASSUME NEW i \in DOMAIN out
      PROVE  /\ Before(out, i) \in Nat
             /\ Before(out, i) <= Before(out, Len(out))
             /\ out[i].from = "mouse" => Before(out, i) >= 1
  <2>1. i \in 0 .. Len(out) /\ i - 1 \in Nat /\ (i - 1) + 1 = i
    BY <1>2
  <2>2. Before(out, i) \in Nat /\ Before(out, i) <= Before(out, Len(out))
    BY <1>2, <2>1, Counted
  <2>3. Before(out, i - 1) \in Nat
    BY <2>1, Counted
  <2>4. Before(out, i) = Before(out, i - 1) + (IF out[i].from = "mouse" THEN 1 ELSE 0)
    BY <2>1, CountedOn
  <2> QED BY <2>2, <2>3, <2>4
<1> QED BY <1>1, <1>2, <1>3, <1>4

\* A step that leaves the bytes where they are.
LEMMA FramingStays ==
    ASSUME Framing, UNCHANGED <<out, unsent, offset, buffer, stolen>>, sti => sti'
    PROVE  Framing'
<1>1. Total' = Total /\ \A g : Framed(g) => Framed(g)'
  BY DEF Total, Framed
<1> QED BY <1>1 DEF Framing

\* A byte that is nothing of a packet comes to those that wait.
LEMMA FramingJoined ==
    ASSUME Ps2Inv, Framing, UNCHANGED <<unsent, offset, buffer, stolen, sti>>,
           out' \in Seq(Entry), Len(out') = Len(out) + 1,
           \A i \in 1 .. Len(out) : out'[i] = out[i],
           out'[Len(out) + 1].from # "mouse"
    PROVE  Framing'
<1>1. /\ Len(out) \in Nat /\ DOMAIN out = 1 .. Len(out)
      /\ DOMAIN out' = 1 .. Len(out) + 1 /\ Before(out, Len(out)) \in Nat
  BY FramingValues
<1>2. \A i \in 0 .. Len(out) : Before(out', i) = Before(out, i)
  <2> SUFFICES ASSUME NEW i \in 0 .. Len(out) PROVE Before(out', i) = Before(out, i)
    OBVIOUS
  <2>1. i \in Nat /\ \A j \in 1 .. i : out'[j] = out[j]
    BY <1>1
  <2> QED BY <2>1, CountedSame
<1>3. Before(out', Len(out')) = Before(out, Len(out))
  <2>1. Before(out', Len(out) + 1) = Before(out', Len(out)) + 0
    BY <1>1, CountedOn
  <2>2. Before(out', Len(out)) = Before(out, Len(out))
    BY <1>1, <1>2
  <2> QED BY <1>1, <2>1, <2>2
<1>4. Total' = Total
  BY <1>3 DEF Total
<1>5. ASSUME NEW g, Framed(g) PROVE Framed(g)'
  <2>1. ASSUME NEW i \in DOMAIN out', out'[i].from = "mouse"
        PROVE  out'[i].byte = g[offset + Before(out', i) - 1]
    <3>1. i \in DOMAIN out /\ out'[i] = out[i] /\ Before(out', i) = Before(out, i)
      BY <1>1, <1>2, <2>1
    <3> QED BY <1>5, <2>1, <3>1 DEF Framed
  <2> QED BY <1>3, <1>4, <1>5, <2>1 DEF Framed
<1> QED BY <1>4, <1>5 DEF Framing

\* A byte that is nothing of a packet is taken.
LEMMA FramingTaken ==
    ASSUME Ps2Inv, Framing, UNCHANGED <<unsent, offset, buffer, sti>>, stolen => stolen',
           NEW requests, Take(requests),
           stolen' \/ out = <<>> \/ out[1].from # "mouse"
    PROVE  Framing'
<1>1. CASE stolen'
  BY <1>1 DEF Framing
<1>2. CASE out = <<>> /\ ~stolen'
  <2>1. out' = out
    BY <1>2 DEF Take
  <2>2. Total' = Total /\ \A g : Framed(g) => Framed(g)'
    BY <2>1 DEF Total, Framed
  <2> QED BY <1>2, <2>2 DEF Framing
<1>3. CASE ~stolen' /\ out # <<>> /\ out[1].from # "mouse"
  <2>1. /\ out' \in Seq(Entry) /\ DOMAIN out' = 1 .. Len(out')
        /\ Len(out) \in Nat /\ Len(out) >= 1 /\ Len(out') = Len(out) - 1
        /\ \A i \in 1 .. Len(out') : out'[i] = out[i + 1]
        /\ DOMAIN out = 1 .. Len(out)
    BY <1>3, Values, Taken
  <2>2. ASSUME NEW i \in 0 .. Len(out') PROVE Before(out', i) = Before(out, i + 1)
    <3>1. i \in Nat /\ \A j \in 1 .. i : out'[j] = out[j + 1]
      BY <2>1
    <3>2. Before(out, i + 1) = Before(out', i) + 0 /\ Before(out', i) \in Nat
      BY <1>3, <3>1, CountedBehind, Counted
    <3> QED BY <3>2
  <2>3. Before(out', Len(out')) = Before(out, Len(out))
    <3>1. Len(out') \in 0 .. Len(out') /\ Len(out') + 1 = Len(out)
      BY <2>1
    <3> QED BY <2>2, <3>1
  <2>4. Total' = Total
    BY <2>3 DEF Total
  <2>5. ASSUME NEW g, Framed(g) PROVE Framed(g)'
    <3>1. ASSUME NEW i \in DOMAIN out', out'[i].from = "mouse"
          PROVE  out'[i].byte = g[offset + Before(out', i) - 1]
      <4>1. /\ i \in 0 .. Len(out') /\ i + 1 \in DOMAIN out /\ out'[i] = out[i + 1]
            /\ Before(out', i) = Before(out, i + 1)
        BY <2>1, <2>2
      <4> QED BY <2>5, <3>1, <4>1 DEF Framed
    <3> QED BY <2>3, <2>4, <2>5, <3>1 DEF Framed
  <2> QED BY <1>3, <2>4, <2>5 DEF Framing
<1> QED BY <1>1, <1>2, <1>3

\* A byte of a packet comes to those that wait.
LEMMA FramingSent == ASSUME Ps2Inv, Framing, SendPacket PROVE Framing'
<1>1. /\ unsent # <<>> /\ Send(Head(unsent), "mouse") /\ unsent' = Tail(unsent)
      /\ UNCHANGED <<sti, offset, buffer, stolen>>
  BY DEF SendPacket, mouseState
<1>2. /\ Len(out) \in Nat /\ DOMAIN out = 1 .. Len(out) /\ Before(out, Len(out)) \in Nat
      /\ unsent \in Seq(Byte) /\ offset \in Nat
  BY FramingValues
<1>3. /\ Len(unsent) \in Nat /\ Len(unsent) >= 1 /\ Len(unsent') = Len(unsent) - 1
      /\ Head(unsent) = unsent[1] /\ unsent[1] \in Byte
      /\ \A k \in 1 .. Len(unsent') : unsent'[k] = unsent[k + 1]
  BY <1>1, <1>2
<1>4. /\ Len(out') = Len(out) + 1 /\ DOMAIN out' = 1 .. Len(out) + 1
      /\ \A i \in 1 .. Len(out) : out'[i] = out[i]
      /\ out'[Len(out) + 1].byte = unsent[1] /\ out'[Len(out) + 1].from = "mouse"
  <2>1. "mouse" \in Origin
    BY DEF Origin
  <2> QED BY <1>1, <1>3, <2>1, Values, Sent
<1>5. \A i \in 0 .. Len(out) : Before(out', i) = Before(out, i)
  <2> SUFFICES ASSUME NEW i \in 0 .. Len(out) PROVE Before(out', i) = Before(out, i)
    OBVIOUS
  <2>1. i \in Nat /\ \A j \in 1 .. i : out'[j] = out[j]
    BY <1>2, <1>4
  <2> QED BY <2>1, CountedSame
<1>6. Before(out', Len(out')) = Before(out, Len(out)) + 1
  <2>1. Before(out', Len(out) + 1) = Before(out', Len(out)) + 1
    BY <1>2, <1>4, CountedOn
  <2>2. Before(out', Len(out)) = Before(out, Len(out))
    BY <1>2, <1>5
  <2> QED BY <1>4, <2>1, <2>2
<1>7. Total' = Total
  BY <1>1, <1>2, <1>3, <1>6 DEF Total
<1>8. ASSUME NEW g, Framed(g) PROVE Framed(g)'
  <2>1. ASSUME NEW i \in DOMAIN out', out'[i].from = "mouse"
        PROVE  out'[i].byte = g[offset + Before(out', i) - 1]
    <3>1. CASE i \in DOMAIN out
      <4>1. out'[i] = out[i] /\ Before(out', i) = Before(out, i)
        BY <1>2, <1>4, <1>5, <3>1
      <4> QED BY <1>8, <2>1, <3>1, <4>1 DEF Framed
    <3>2. CASE i \notin DOMAIN out
      <4>1. i = Len(out) + 1 /\ i = Len(out')
        BY <1>2, <1>4, <2>1, <3>2
      <4>2. 1 \in 1 .. Len(unsent)
        BY <1>3
      <4>3. unsent[1] = g[offset + Before(out, Len(out)) + 1 - 1]
        BY <1>8, <4>2 DEF Framed
      <4>4. offset + Before(out', i) - 1 = offset + Before(out, Len(out)) + 1 - 1
        BY <1>2, <1>6, <4>1
      <4> QED BY <1>4, <4>1, <4>3, <4>4
    <3> QED BY <3>1, <3>2
  <2>2. ASSUME NEW k \in 1 .. Len(unsent')
        PROVE  unsent'[k] = g[offset + Before(out', Len(out')) + k - 1]
    <3>1. k + 1 \in 1 .. Len(unsent) /\ unsent'[k] = unsent[k + 1]
      BY <1>3
    <3>2. unsent[k + 1] = g[offset + Before(out, Len(out)) + (k + 1) - 1]
      BY <1>8, <3>1 DEF Framed
    <3>3. offset + Before(out', Len(out')) + k - 1 = offset + Before(out, Len(out)) + (k + 1) - 1
      BY <1>2, <1>3, <1>6
    <3> QED BY <3>1, <3>2, <3>3
  <2> QED BY <1>1, <1>7, <1>8, <2>1, <2>2 DEF Framed
<1> QED BY <1>1, <1>7, <1>8 DEF Framing

\* The mouse begins a packet, behind the last.
LEMMA FramingReported ==
    ASSUME Ps2Inv, Framing, NEW packet \in Packets, Report(packet) PROVE Framing'
<1>1. /\ unsent = <<>> /\ unsent' = packet
      /\ UNCHANGED <<out, sti, offset, buffer, stolen>>
  BY DEF Report, mouseState
<1>2. /\ Len(out) \in Nat /\ DOMAIN out = 1 .. Len(out)
      /\ Before(out, Len(out)) \in Nat /\ offset \in Nat /\ offset <= 2
      /\ \A i \in DOMAIN out : /\ Before(out, i) \in Nat
                               /\ Before(out, i) <= Before(out, Len(out))
                               /\ out[i].from = "mouse" => Before(out, i) >= 1
  BY FramingValues
<1>3. /\ packet = <<packet[1], packet[2], packet[3]>>
      /\ packet[1] \in Byte /\ packet[2] \in Byte /\ packet[3] \in Byte
  BY Ps2Assumption
<1>4. Len(packet) = 3
  <2>1. ASSUME NEW a, NEW b, NEW c PROVE Len(<<a, b, c>>) = 3
    OBVIOUS
  <2> QED BY <1>3, <2>1, Zenon
<1>5. Len(unsent) = 0 /\ Total \in Nat /\ Total = offset + Before(out, Len(out))
  BY <1>1, <1>2 DEF Total
<1>6. Total' = Total + 3
  BY <1>1, <1>2, <1>4, <1>5 DEF Total
<1>7. ASSUME ~stolen, NEW g, Framed(g) PROVE \E h : Framed(h)'
  <2> DEFINE longer == [n \in Nat |-> IF n = Total THEN packet[1]
                                      ELSE IF n = Total + 1 THEN packet[2]
                                      ELSE IF n = Total + 2 THEN packet[3] ELSE g[n]]
  <2>1. PICK h \in [Nat -> Byte] :
            /\ \A n \in Nat : n < Total => h[n] = g[n]
            /\ h[Total] = packet[1] /\ h[Total + 1] = packet[2] /\ h[Total + 2] = packet[3]
    <3>1. /\ longer \in [Nat -> Byte]
          /\ \A n \in Nat : n < Total => longer[n] = g[n]
          /\ longer[Total] = packet[1] /\ longer[Total + 1] = packet[2]
          /\ longer[Total + 2] = packet[3]
      BY <1>3, <1>5, <1>7 DEF Framed
    <3> HIDE DEF longer
    <3> QED BY <3>1
  <2>2. ASSUME NEW n \in Nat, n % 3 = 0, n + 2 < Total'
        PROVE  <<h[n], h[n + 1], h[n + 2]>> \in Packets
    <3>1. Total % 3 = 0
      BY <1>7 DEF Framing
    <3>2. n = Total \/ n + 2 < Total
      BY <1>5, <1>6, <2>2, <3>1
    <3>3. CASE n = Total
      <4>1. h[n] = packet[1] /\ h[n + 1] = packet[2] /\ h[n + 2] = packet[3]
        BY <2>1, <3>3
      <4> QED BY <1>3, <4>1, Zenon
    <3>4. CASE n + 2 < Total
      <4>1. h[n] = g[n] /\ h[n + 1] = g[n + 1] /\ h[n + 2] = g[n + 2]
        BY <1>5, <2>1, <3>4
      <4> QED BY <1>7, <2>2, <3>4, <4>1 DEF Framed
    <3> QED BY <3>2, <3>3, <3>4
  <2>3. ASSUME NEW k \in 0 .. 2, k < offset PROVE buffer[k] = h[k]
    <3>1. k \in Nat /\ k < Total
      BY <1>2, <1>5, <2>3
    <3> QED BY <1>7, <2>1, <2>3, <3>1 DEF Framed
  <2>4. ASSUME NEW i \in DOMAIN out, out[i].from = "mouse"
        PROVE  out[i].byte = h[offset + Before(out, i) - 1]
    <3>1. offset + Before(out, i) - 1 \in Nat /\ offset + Before(out, i) - 1 < Total
      BY <1>2, <1>5, <2>4
    <3> QED BY <1>7, <2>1, <2>4, <3>1 DEF Framed
  <2>5. ASSUME NEW k \in 1 .. Len(unsent')
        PROVE  unsent'[k] = h[offset + Before(out, Len(out)) + k - 1]
    <3>1. k = 1 \/ k = 2 \/ k = 3
      BY <1>1, <1>4
    <3>2. offset + Before(out, Len(out)) + k - 1 = Total + (k - 1)
      BY <1>2, <1>5
    <3>3. h[Total + (k - 1)] = packet[k]
      BY <1>5, <2>1, <3>1
    <3> QED BY <1>1, <3>2, <3>3
  <2>6. Framed(h)'
    BY <1>1, <2>1, <2>2, <2>3, <2>4, <2>5 DEF Framed
  <2> QED BY <2>6
<1>8. Total % 3 = 0 => Total' % 3 = 0
  BY <1>5, <1>6
<1> QED BY <1>1, <1>7, <1>8 DEF Framing

\* The mouse driver takes the next byte of the packet, or the last.
LEMMA FramingHandled ==
    ASSUME Ps2Inv, Framing, HandleMouse, Port.from = "mouse", ~stolen' PROVE Framing'
<1>1. /\ sti' /\ UNCHANGED unsent
      /\ buffer' = [buffer EXCEPT ![offset] = Port.byte]
      /\ offset' = (offset + 1) % 3
      /\ ~stolen
      /\ Take(irq \ {12})
  BY DEF HandleMouse, FromMouse, NextOffset
<1>2. /\ out # <<>> /\ out' \in Seq(Entry) /\ DOMAIN out' = 1 .. Len(out')
      /\ Len(out) \in Nat /\ Len(out) >= 1 /\ Len(out') = Len(out) - 1
      /\ \A i \in 1 .. Len(out') : out'[i] = out[i + 1]
      /\ DOMAIN out = 1 .. Len(out) /\ Port = out[1] /\ Port.byte \in Byte
  BY <1>1, Values, Taken
<1>3. /\ offset \in Nat /\ offset <= 2 /\ buffer \in [0 .. 2 -> Byte] /\ Len(unsent) \in Nat
      /\ Before(out, Len(out)) \in Nat
  BY FramingValues
<1>4. ASSUME NEW i \in 0 .. Len(out')
      PROVE  Before(out', i) \in Nat /\ Before(out, i + 1) = Before(out', i) + 1
  <2>1. i \in Nat /\ \A j \in 1 .. i : out'[j] = out[j + 1]
    BY <1>2
  <2> QED BY <1>2, <2>1, CountedBehind, Counted
<1>5. Before(out, Len(out)) = Before(out', Len(out')) + 1 /\ Before(out', Len(out')) \in Nat
  <2>1. Len(out') \in 0 .. Len(out') /\ Len(out') + 1 = Len(out)
    BY <1>2
  <2> QED BY <1>4, <2>1
<1>6. ASSUME NEW i \in DOMAIN out', out'[i].from = "mouse"
      PROVE  /\ i + 1 \in DOMAIN out /\ out[i + 1] = out'[i]
             /\ Before(out', i) \in Nat /\ Before(out', i) >= 1
             /\ Before(out, i + 1) = Before(out', i) + 1
  <2>1. i \in 0 .. Len(out') /\ i - 1 \in Nat /\ (i - 1) + 1 = i
    BY <1>2, <1>6
  <2>2. Before(out', i - 1) \in Nat
    BY <2>1, Counted
  <2>3. Before(out', i) = Before(out', i - 1) + 1
    BY <1>6, <2>1, CountedOn
  <2>4. Before(out', i) \in Nat /\ Before(out', i) >= 1
    BY <2>2, <2>3
  <2>5. i + 1 \in DOMAIN out /\ out[i + 1] = out'[i]
    BY <1>2, <1>6
  <2> QED BY <1>4, <2>1, <2>4, <2>5
<1>7. PICK g : Framed(g)
  BY <1>1 DEF Framing
<1>8. Port.byte = g[offset]
  <2>1. 0 \in 0 .. Len(out') /\ 0 + 1 = 1 /\ 1 \in DOMAIN out
    BY <1>2
  <2>2. Before(out', 0) = 0
    <3>1. {j \in 1 .. 0 : out'[j].from = "mouse"} = {}
      OBVIOUS
    <3> QED BY <3>1, FS_EmptySet DEF Before
  <2>3. Before(out, 1) = 1
    BY <1>4, <2>1, <2>2
  <2>4. out[1].byte = g[offset + Before(out, 1) - 1]
    BY <1>2, <1>7, <2>1 DEF Framed
  <2> QED BY <1>2, <1>3, <2>3, <2>4
<1>9. \A k \in 0 .. 2 : k <= offset => buffer'[k] = g[k]
  <2> SUFFICES ASSUME NEW k \in 0 .. 2, k <= offset PROVE buffer'[k] = g[k]
    OBVIOUS
  <2>1. CASE k = offset
    BY <1>1, <1>3, <1>8, <2>1
  <2>2. CASE k < offset
    BY <1>1, <1>3, <1>7, <2>2 DEF Framed
  <2> QED BY <1>3, <2>1, <2>2
<1>10. Total \in Nat /\ Total % 3 = 0
       /\ Total = offset + Before(out', Len(out')) + 1 + Len(unsent)
  <2>1. Total = offset + (Before(out', Len(out')) + 1) + Len(unsent)
    BY <1>5 DEF Total
  <2>2. offset \in Nat /\ Before(out', Len(out')) \in Nat /\ Len(unsent) \in Nat
    BY <1>3, <1>5
  <2> HIDE DEF Total
  <2>3. Total % 3 = 0
    BY <1>1 DEF Framing
  <2> QED BY <2>1, <2>2, <2>3
<1>11. CASE offset < 2
  <2>1. offset' = offset + 1 /\ Total' = Total
    <3>1. offset = 0 \/ offset = 1
      BY <1>3, <1>11
    <3>2. offset' = offset + 1
      BY <1>1, <3>1
    <3>3. Total' = (offset + 1) + Before(out', Len(out')) + Len(unsent)
      BY <1>1, <3>2 DEF Total
    <3> QED BY <1>3, <1>5, <1>10, <3>2, <3>3
  <2>2. ASSUME NEW i \in DOMAIN out', out'[i].from = "mouse"
        PROVE  out'[i].byte = g[offset' + Before(out', i) - 1]
    <3>1. out[i + 1].byte = g[offset + Before(out, i + 1) - 1]
      BY <1>6, <1>7, <2>2 DEF Framed
    <3>2. offset + Before(out, i + 1) - 1 = offset' + Before(out', i) - 1
      BY <1>3, <1>6, <2>1, <2>2
    <3> QED BY <1>6, <2>2, <3>1, <3>2
  <2>3. ASSUME NEW k \in 1 .. Len(unsent)
        PROVE  unsent[k] = g[offset' + Before(out', Len(out')) + k - 1]
    <3>1. unsent[k] = g[offset + Before(out, Len(out)) + k - 1]
      BY <1>7 DEF Framed
    <3>2. offset + Before(out, Len(out)) + k - 1 = offset' + Before(out', Len(out')) + k - 1
      BY <1>3, <1>5, <2>1
    <3> QED BY <3>1, <3>2
  <2>4. \A k \in 0 .. 2 : k < offset' => buffer'[k] = g[k]
    BY <1>3, <1>9, <2>1
  <2>5. Framed(g)'
    BY <1>1, <1>7, <2>1, <2>2, <2>3, <2>4 DEF Framed
  <2>6. offset' # 0
    BY <1>3, <2>1
  <2> QED BY <1>1, <1>10, <2>1, <2>5, <2>6 DEF Framing
<1>12. CASE offset = 2
  <2>1. offset' = 0 /\ Total' = Total - 3 /\ Total' % 3 = 0 /\ Total >= 3 /\ Total' \in Nat
    <3>1. offset' = 0
      BY <1>1, <1>12
    <3> DEFINE n == Before(out', Len(out')) + Len(unsent)
    <3>2. n \in Nat
      BY <1>3, <1>5
    <3>3. Total' = n
      <4>1. Total' = 0 + Before(out', Len(out')) + Len(unsent)
        BY <1>1, <3>1, Zenon DEF Total
      <4> QED BY <4>1, <1>3, <1>5
    <3>4. Total = n + 3
      BY <1>3, <1>5, <1>10, <1>12
    <3> HIDE DEF Total, n
    <3>5. (n + 3) % 3 = 0 => n % 3 = 0
      BY <3>2
    <3> QED BY <1>10, <3>1, <3>2, <3>3, <3>4, <3>5
  <2>2. PICK h \in [Nat -> Byte] : \A n \in Nat : h[n] = g[n + 3]
    <3>1. g \in [Nat -> Byte]
      BY <1>7 DEF Framed
    <3>2. [n \in Nat |-> g[n + 3]] \in [Nat -> Byte]
      BY <3>1
    <3> QED BY <3>2
  <2>3. ASSUME NEW n \in Nat, n % 3 = 0, n + 2 < Total'
        PROVE  <<h[n], h[n + 1], h[n + 2]>> \in Packets
    <3>1. n + 3 \in Nat /\ (n + 3) % 3 = 0 /\ (n + 3) + 2 < Total
      BY <1>10, <2>1, <2>3
    <3>2. <<g[n + 3], g[(n + 3) + 1], g[(n + 3) + 2]>> \in Packets
      BY <1>7, <3>1 DEF Framed
    <3>3. h[n] = g[n + 3] /\ h[n + 1] = g[(n + 3) + 1] /\ h[n + 2] = g[(n + 3) + 2]
      <4>1. (n + 1) + 3 = (n + 3) + 1 /\ (n + 2) + 3 = (n + 3) + 2
        OBVIOUS
      <4> QED BY <2>2, <4>1
    <3> QED BY <3>2, <3>3
  <2>4. ASSUME NEW i \in DOMAIN out', out'[i].from = "mouse"
        PROVE  out'[i].byte = h[offset' + Before(out', i) - 1]
    <3>1. out[i + 1].byte = g[offset + Before(out, i + 1) - 1]
      BY <1>6, <1>7, <2>4 DEF Framed
    <3>2. /\ offset' + Before(out', i) - 1 \in Nat
          /\ offset + Before(out, i + 1) - 1 = (offset' + Before(out', i) - 1) + 3
      BY <1>6, <1>12, <2>1, <2>4
    <3> QED BY <1>6, <2>2, <2>4, <3>1, <3>2
  <2>5. ASSUME NEW k \in 1 .. Len(unsent)
        PROVE  unsent[k] = h[offset' + Before(out', Len(out')) + k - 1]
    <3>1. unsent[k] = g[offset + Before(out, Len(out)) + k - 1]
      BY <1>7 DEF Framed
    <3>2. /\ offset' + Before(out', Len(out')) + k - 1 \in Nat
          /\ offset + Before(out, Len(out)) + k - 1
                = (offset' + Before(out', Len(out')) + k - 1) + 3
      <4> DEFINE n == Before(out', Len(out'))
      <4>1. k \in Nat /\ k >= 1 /\ n \in Nat
        BY <1>3, <1>5
      <4>2. offset = 2 /\ offset' = 0 /\ Before(out, Len(out)) = n + 1
        BY <1>5, <1>12, <2>1
      <4> HIDE DEF n
      <4>3. 0 + n + k - 1 \in Nat /\ 2 + (n + 1) + k - 1 = (0 + n + k - 1) + 3
        BY <4>1
      <4> QED BY <4>2, <4>3 DEF n
    <3> QED BY <2>2, <3>1, <3>2
  <2>6. \A k \in 0 .. 2 : k < offset' => buffer'[k] = h[k]
    BY <2>1
  <2>7. Framed(h)'
    BY <1>1, <2>2, <2>3, <2>4, <2>5, <2>6 DEF Framed
  <2>8. <<buffer'[0], buffer'[1], buffer'[2]>> \in Packets
    <3>1. buffer'[0] = g[0] /\ buffer'[1] = g[1] /\ buffer'[2] = g[2]
      BY <1>9, <1>12
    <3>2. <<g[0], g[0 + 1], g[0 + 2]>> \in Packets
      <4>1. 0 \in Nat /\ 0 % 3 = 0 /\ 0 + 2 < Total
        BY <1>10, <2>1
      <4> QED BY <1>7, <4>1 DEF Framed
    <3> QED BY <3>1, <3>2
  <2> QED BY <1>1, <2>1, <2>7, <2>8 DEF Framing
<1> QED BY <1>3, <1>11, <1>12

\* It begins with no packet.
LEMMA InitFraming == Init => Framing
<1> SUFFICES ASSUME Init PROVE Framing
  OBVIOUS
<1>1. /\ offset = 0 /\ buffer = [i \in 0 .. 2 |-> 0] /\ unsent = <<>> /\ ~sti
  BY DEF Init, Ps2Init
<1>2. Ps2Inv
  BY FirmwareLeaves
<1>3. NoPacket(out) /\ Booting
  <2>1. Booting
    BY DEF Init, Booting
  <2> QED BY <1>2, <2>1 DEF Ps2Inv, Quiet
<1>4. Len(out) \in Nat /\ DOMAIN out = 1 .. Len(out)
  BY <1>2, FramingValues
<1>5. Before(out, Len(out)) = 0
  <2>1. {j \in 1 .. Len(out) : out[j].from = "mouse"} = {}
    BY <1>3, <1>4 DEF NoPacket
  <2> QED BY <2>1, FS_EmptySet DEF Before
<1>6. Len(unsent) = 0 /\ Total = 0
  BY <1>1, <1>5 DEF Total
<1>7. \E g : Framed(g)
  <2>1. PICK g \in [Nat -> Byte] : TRUE
    <3>1. [n \in Nat |-> 0] \in [Nat -> Byte]
      BY Bytes
    <3> QED BY <3>1
  <2>2. \A k \in 1 .. Len(unsent) : FALSE
    BY <1>6
  <2>3. \A n \in Nat : ~(n + 2 < Total)
    BY <1>6
  <2>4. \A i \in DOMAIN out : out[i].from # "mouse"
    BY <1>3 DEF NoPacket
  <2>5. \A k \in 0 .. 2 : ~(k < offset)
    BY <1>1
  <2> QED BY <2>1, <2>2, <2>3, <2>4, <2>5 DEF Framed
<1>8. <<buffer[0], buffer[1], buffer[2]>> = <<0, 0, 0>>
  BY <1>1
<1> QED BY <1>1, <1>6, <1>7, <1>8 DEF Framing

\* While the drivers are activated the mouse sends nothing that is taken.
LEMMA AccessFraming ==
    ASSUME Ps2Inv, Framing, Activate, kernel = "activating" PROVE Framing'
<1>1. ~sti /\ offset = 0
  BY DEF Ps2Inv, Progress, Framing
<1>2. CASE Drain
  <2>1. UNCHANGED <<unsent, offset, buffer, stolen, sti>> /\ todo # <<>>
    BY <1>2 DEF Drain, mouseState
  <2>2. CASE out = <<>>
    <3>1. UNCHANGED out
      BY <1>2, <2>2 DEF Drain
    <3> QED BY <2>1, <3>1, FramingStays
  <2>3. CASE out # <<>>
    <3>1. \E requests : Take(requests)
      BY <1>2, <2>3 DEF Drain
    <3>2. out[1].from # "mouse"
      BY <2>1, <2>3, NoPacketFirst
    <3> QED BY <2>1, <3>1, <3>2, FramingTaken
  <2> QED BY <2>2, <2>3
<1>3. CASE ResetMouse
  <2>1. UNCHANGED <<out, unsent, offset, buffer, stolen, sti>>
    BY <1>1, <1>3 DEF ResetMouse
  <2> QED BY <2>1, FramingStays
<1>4. CASE Start("start_keyboard", KeyboardStopped) \/ Start("start_mouse", MouseStopped)
           \/ WriteStatus
           \/ ActivateDevice("activate_keyboard", "keyboard", KeyboardStopped)
           \/ ActivateDevice("activate_mouse", "mouse", MouseStopped)
  <2>1. UNCHANGED <<out, unsent, offset, buffer, stolen, sti>>
    BY <1>4 DEF Start, WriteStatus, ActivateDevice, mouseState
  <2> QED BY <2>1, FramingStays
<1>5. CASE Ask
  <2>1. UNCHANGED <<unsent, offset, buffer, stolen, sti>> /\ Send(mode, "controller")
    BY <1>5 DEF Ask, mouseState
  <2>2. "controller" \in Origin /\ "controller" # "mouse"
    BY DEF Origin
  <2>3. /\ out' \in Seq(Entry) /\ Len(out') = Len(out) + 1
        /\ \A i \in 1 .. Len(out) : out'[i] = out[i]
        /\ out'[Len(out) + 1].from # "mouse"
    BY <2>1, <2>2, Values, Sent
  <2> QED BY <2>1, <2>3, FramingJoined
<1>6. CASE ReadStatus("keyboard_status") \/ ReadStatus("mouse_status") \/ TakeAnswer
  <2>1. /\ UNCHANGED <<unsent, offset, buffer, stolen, sti>> /\ todo # <<>>
        /\ \E requests : Take(requests)
    BY <1>6 DEF ReadStatus, TakeAnswer, Do, mouseState
  <2>2. out # <<>> => out[1].from # "mouse"
    BY <2>1, NoPacketFirst
  <2> QED BY <2>1, <2>2, FramingTaken
<1> QED BY <1>2, <1>3, <1>4, <1>5, <1>6 DEF Activate

\* Every step keeps the framing.
LEMMA NextFraming == IInv /\ Framing /\ [Next]_vars => Framing'
<1> SUFFICES ASSUME IInv, Framing, [Next]_vars PROVE Framing'
  OBVIOUS
<1>1. Ps2Inv
  BY DEF IInv
<1>2. CASE \/ Add("keyboard", "mouse") \/ Add("mouse", "scan") \/ Scan \/ ActivateAll \/ Sti
           \/ UNCHANGED vars
  <2>1. UNCHANGED <<out, unsent, offset, buffer, stolen>> /\ (sti => sti')
    BY <1>2 DEF Add, Scan, ActivateAll, Sti, vars, ps2, mouseState
  <2> QED BY <2>1, FramingStays
<1>3. CASE ActivateStep
  BY <1>1, <1>3, AccessFraming DEF ActivateStep
<1>4. CASE HandleKeyboard
  <2>1. /\ UNCHANGED <<unsent, offset, buffer, sti>> /\ stolen' = (stolen \/ FromMouse(Port))
        /\ Take(irq \ {1})
    BY <1>4 DEF HandleKeyboard, mouseState
  <2>2. stolen => stolen'
    BY <2>1
  <2>3. CASE out = <<>>
    BY <1>1, <2>1, <2>2, <2>3, FramingTaken
  <2>4. CASE out # <<>>
    <3>1. Port = out[1]
      BY <1>1, <2>1, <2>4, Values, Taken
    <3>2. stolen' \/ out[1].from # "mouse"
      BY <2>1, <3>1 DEF FromMouse
    <3> QED BY <1>1, <2>1, <2>2, <3>2, FramingTaken
  <2> QED BY <2>3, <2>4
<1>5. CASE HandleMouse
  <2>1. sti' = sti /\ sti
    BY <1>5 DEF HandleMouse
  <2>2. CASE stolen'
    BY <2>1, <2>2 DEF Framing
  <2>3. CASE ~stolen' /\ FromMouse(Port)
    <3>1. Port.from = "mouse"
      BY <1>5, <2>3 DEF HandleMouse, FromMouse
    <3> QED BY <1>1, <1>5, <2>3, <3>1, FramingHandled
  <2>4. CASE ~FromMouse(Port)
    <3>1. UNCHANGED <<out, unsent, offset, buffer, stolen, sti>>
      BY <1>5, <2>4 DEF HandleMouse, mouseState
    <3> QED BY <3>1, FramingStays
  <2> QED BY <2>2, <2>3, <2>4
<1>6. CASE \E who \in owed : Acknowledge(who)
  <2>1. PICK who \in owed : Acknowledge(who)
    BY <1>6
  <2>2. PICK from \in {"mouse_ack", "keyboard_ack"} : Send(ACK, from)
    BY <2>1 DEF Acknowledge
  <2>3. UNCHANGED <<unsent, offset, buffer, stolen, sti>>
    BY <2>1 DEF Acknowledge, mouseState
  <2>4. from \in Origin /\ from # "mouse"
    BY DEF Origin
  <2>5. /\ out' \in Seq(Entry) /\ Len(out') = Len(out) + 1
        /\ \A i \in 1 .. Len(out) : out'[i] = out[i]
        /\ out'[Len(out) + 1].from # "mouse"
    BY <1>1, <2>2, <2>4, Values, Sent
  <2> QED BY <1>1, <2>3, <2>5, FramingJoined
<1>7. CASE \E key \in Keys : Type(key)
  <2>1. PICK key \in Keys : Type(key)
    BY <1>7
  <2>2. PICK byte \in Byte : Send(byte, "keyboard")
    BY <2>1, KeyCodes DEF Type
  <2>3. UNCHANGED <<unsent, offset, buffer, stolen, sti>>
    BY <2>1 DEF Type, mouseState
  <2>4. "keyboard" \in Origin /\ "keyboard" # "mouse"
    BY DEF Origin
  <2>5. /\ out' \in Seq(Entry) /\ Len(out') = Len(out) + 1
        /\ \A i \in 1 .. Len(out) : out'[i] = out[i]
        /\ out'[Len(out) + 1].from # "mouse"
    BY <1>1, <2>2, <2>4, Values, Sent
  <2> QED BY <1>1, <2>3, <2>5, FramingJoined
<1>8. CASE \E packet \in Packets : Report(packet)
  BY <1>1, <1>8, FramingReported
<1>9. CASE SendPacket
  BY <1>1, <1>9, FramingSent
<1> QED BY <1>2, <1>3, <1>4, <1>5, <1>6, <1>7, <1>8, <1>9
    DEF Next, KernelStep, Handle, Handlers, DeviceStep, Devices

\* The mouse driver stays in step with the mouse, for every packet and however
\* many bytes are under way, unless a driver took a byte that was not for it.
THEOREM InStepAlways == Spec => []InStep
<1>1. IInv /\ Framing => InStep
  <2> SUFFICES ASSUME IInv, Framing, ~stolen
               PROVE  /\ offset = (0 - Len(unsent) - UnderWay) % 3
                      /\ offset = 0 =>
                            <<buffer[0], buffer[1], buffer[2]>> \in Packets \cup {<<0, 0, 0>>}
    BY DEF InStep
  <2>1. /\ offset \in Nat /\ offset <= 2 /\ Len(unsent) \in Nat
        /\ Before(out, Len(out)) \in Nat /\ DOMAIN out = 1 .. Len(out)
    BY FramingValues DEF IInv
  <2>2. UnderWay = Before(out, Len(out))
    BY <2>1 DEF UnderWay, Before
  <2>3. (offset + Before(out, Len(out)) + Len(unsent)) % 3 = 0
    BY DEF Framing, Total
  <2>4. ASSUME NEW u \in Nat, NEW b \in Nat, (offset + b + u) % 3 = 0
        PROVE  offset = (0 - u - b) % 3
    BY <2>1, <2>4
  <2> QED BY <2>1, <2>2, <2>3, <2>4 DEF Framing
<1> QED BY <1>1, InitIInv, NextIInv, InitFraming, NextFraming, PTL DEF Spec
==============================================================================
