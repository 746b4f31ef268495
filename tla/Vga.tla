---------------------------------- MODULE Vga ----------------------------------
(***************************************************************************)
(* VideoGraphicsArray (vga.cpp): SetMode, which writes a table of register *)
(* values to the graphics card, and the register every pixel reads of it.  *)
(* kernelMain alone uses its ports, so that an iteration of a loop is one  *)
(* step.  The card (external) is four controllers, each with an index      *)
(* register that selects what its data port stands for; the attribute      *)
(* controller takes index and data at one port, by turns.                  *)
(***************************************************************************)
EXTENDS Pixels

CONSTANTS
    Table,      \* g_320x200x256
    Former,     \* what the card's controllers may have held before
    Modes       \* modes that SetMode is asked for: width, height, depth

Value == 0 .. 255
Controllers == {"sequencer", "crtc", "graphics", "attribute"}

\* How many registers of each controller the loops write, and how many bytes of
\* the table come before them.
Count(c) ==
    CASE c = "sequencer" -> 5 [] c = "crtc" -> 25 [] c = "graphics" -> 9 [] c = "attribute" -> 21
Offset(c) ==
    CASE c = "sequencer" -> 1 [] c = "crtc" -> 6 [] c = "graphics" -> 31 [] c = "attribute" -> 40

\* A controller: what is at its index, and which of both the attribute
\* controller expects.
Controller(c) == [index : Value, data : [0 .. Count(c) - 1 -> Value], expects : {"index", "data"}]

ASSUME VgaAssumption ==
    /\ Table \in [0 .. 60 -> Value]
    /\ \A chip \in Former : DOMAIN chip = Controllers /\ \A c \in Controllers : chip[c] \in Controller(c)

VARIABLES
    place,      \* where SetMode is: "idle", in WriteRegisters, or "done"
    loop,       \* the i of its loops
    registers,  \* how far its pointer into the table has moved
    table,      \* the table, of which WriteRegisters changes two bytes
    misc,       \* the card: the register of its own port
    chip        \* and the controllers

card == <<place, loop, registers, table, misc, chip>>

VgaInit ==
    /\ place = "idle" /\ loop = 0 /\ registers = 0
    /\ table = Table
    /\ misc = 0
    /\ chip \in Former

------------------------------------------------------------------------------
(* The card (external).                                                     *)

\* Bit 7 of a byte is set, or cleared.
Marked(byte) == IF byte < 128 THEN byte + 128 ELSE byte
Unmarked(byte) == byte % 128

Select(controller, n) == [controller EXCEPT !.index = n]

Store(controller, byte) ==
    IF controller.index \in DOMAIN controller.data
    THEN [controller EXCEPT !.data[controller.index] = byte]
    ELSE controller

\* Bit 7 of the CRT controller's register 0x11 protects its first eight.
StoreCrtc(crtc, byte) ==
    IF crtc.index <= 7 /\ crtc.data[17] >= 128 THEN crtc ELSE Store(crtc, byte)

\* The attribute controller's port, and the one that ends its turns.
Turn(attribute, byte) ==
    IF attribute.expects = "index"
    THEN [Select(attribute, byte) EXCEPT !.expects = "data"]
    ELSE [Store(attribute, byte) EXCEPT !.expects = "index"]
Reset(attribute) == [attribute EXCEPT !.expects = "index"]

------------------------------------------------------------------------------
(* SetMode.                                                                 *)

SupportsMode(mode) == mode = <<320, 200, 8>>

\* It returns false, or goes on to WriteRegisters.
SetMode(mode) ==
    /\ place = "idle"
    /\ place' = IF SupportsMode(mode) THEN "misc" ELSE "idle"
    /\ UNCHANGED <<loop, registers, table, misc, chip>>

WriteMisc ==
    /\ place = "misc"
    /\ misc' = table[registers]
    /\ registers' = registers + 1
    /\ place' = "sequencer"
    /\ UNCHANGED <<loop, table, chip>>

\* Mutant: the registers of the CRT controller stay protected.
UnlockNot ==
    /\ place = "unlock"
    /\ table' = [table EXCEPT ![registers + 3] = Marked(@), ![registers + 17] = Unmarked(@)]
    /\ place' = "crtc"
    /\ UNCHANGED <<loop, registers, misc, chip>>

\* Registers 3 and 0x11 of the CRT controller, in the card and in the table.
Unlock ==
    /\ place = "unlock"
    /\ chip' = [chip EXCEPT !["crtc"] =
                   LET three == Select(@, 3)
                       seventeen == Select(StoreCrtc(three, Marked(three.data[3])), 17)
                   IN  StoreCrtc(seventeen, Unmarked(seventeen.data[17]))]
    /\ table' = [table EXCEPT ![registers + 3] = Marked(@), ![registers + 17] = Unmarked(@)]
    /\ place' = "crtc"
    /\ UNCHANGED <<loop, registers, misc>>

\* An iteration of a controller's loop.
Written(c, n, byte) ==
    CASE c = "attribute" -> Turn(Turn(Reset(chip[c]), n), byte)
      [] c = "crtc" -> StoreCrtc(Select(chip[c], n), byte)
      [] OTHER -> Store(Select(chip[c], n), byte)

After(c) ==
    CASE c = "sequencer" -> "unlock" [] c = "crtc" -> "graphics"
      [] c = "graphics" -> "attribute" [] c = "attribute" -> "enable"

\* Mutant: a loop goes on for one register more.
WriteRegisterPast(c) ==
    /\ place = c
    /\ chip' = [chip EXCEPT ![c] = Written(c, loop, table[registers])]
    /\ registers' = registers + 1
    /\ IF loop < Count(c) THEN loop' = loop + 1 /\ UNCHANGED place
       ELSE loop' = 0 /\ place' = After(c)
    /\ UNCHANGED <<table, misc>>

WriteRegister(c) ==
    /\ place = c
    /\ chip' = [chip EXCEPT ![c] = Written(c, loop, table[registers])]
    /\ registers' = registers + 1
    /\ IF loop + 1 < Count(c) THEN loop' = loop + 1 /\ UNCHANGED place
       ELSE loop' = 0 /\ place' = After(c)
    /\ UNCHANGED <<table, misc>>

\* An index with bit 5 gives the card the palette back.
Enable ==
    /\ place = "enable"
    /\ chip' = [chip EXCEPT !["attribute"] = Turn(Reset(@), 32)]
    /\ place' = "done"
    /\ UNCHANGED <<loop, registers, table, misc>>

------------------------------------------------------------------------------
(* The frame buffer.                                                        *)

\* A pixel selects register 6 and reads from it which segment is the screen's.
GetFrameBufferSegment ==
    /\ place = "done"
    /\ chip' = [chip EXCEPT !["graphics"] = Select(@, 6)]
    /\ UNCHANGED <<place, loop, registers, table, misc>>

VgaNext ==
    \/ \E mode \in Modes : SetMode(mode)
    \/ WriteMisc \/ Unlock \/ Enable
    \/ \E c \in Controllers : WriteRegister(c)
    \/ GetFrameBufferSegment

VgaSpec == VgaInit /\ [][VgaNext]_card

------------------------------------------------------------------------------
(* Properties.                                                              *)

\* WriteRegisters reads no byte beyond the 61 of its table.
VgaTypeOK ==
    /\ place \in Controllers \cup {"idle", "misc", "unlock", "enable", "done"}
    /\ loop \in 0 .. 24 /\ registers \in 0 .. 61
    /\ place \in Controllers => loop < Count(place) /\ registers < 61
    /\ table \in [0 .. 60 -> Value] /\ misc \in Value
    /\ DOMAIN chip = Controllers /\ \A c \in Controllers : chip[c] \in Controller(c)

\* The table with the two bytes WriteRegisters changes, of the CRT controller's.
Wanted == [Table EXCEPT ![9] = Marked(@), ![23] = Unmarked(@)]

\* Whatever the card held, protected registers and a port that waits for data
\* included, every register holds its byte of the table when SetMode returns,
\* and the card has its palette.
EachRegisterSet ==
    place = "done" =>
        /\ misc = Wanted[0]
        /\ \A c \in Controllers : \A n \in 0 .. Count(c) - 1 :
               chip[c].data[n] = Wanted[Offset(c) + n]
        /\ chip["attribute"].index = 32
================================================================================
