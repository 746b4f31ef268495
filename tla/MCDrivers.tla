------------------------------ MODULE MCDrivers ------------------------------
\* Cards, packets, keys and firmware modes for TLC.
EXTENDS Drivers

\* A configuration space of the registers that are not 0.
Space(set) == [r \in Registers |-> IF r \in DOMAIN set THEN set[r] ELSE <<0, 0>>]

MCCards ==
    { \* a network card, 1022:2000, with an I/O and a memory address
      Space(0 :> <<4130, 8192>> @@ 16 :> <<53249, 0>> @@ 20 :> <<0, 61440>>),
      \* a display, 1234:1111, with a memory address
      Space(0 :> <<4660, 4369>> @@ 16 :> <<8, 57344>>),
      \* a bridge, 8086:124B, header type 1, with an I/O window
      Space(0 :> <<32902, 4683>> @@ 12 :> <<0, 1>> @@ 28 :> <<4353, 0>>),
      \* the first of several functions, 8086:7000
      Space(0 :> <<32902, 28672>> @@ 12 :> <<0, 128>>) }

\* Bit 3 of a packet's first byte is always 1.  That of a downward movement
\* with the right button held is the code of a shift key.
MCPackets == {<<8, 5, 0>>, <<42, 0, 200>>}

MCKeys == Shifts

\* Left by the firmware: the keyboard alone, and neither device.
MCModes == {101, 116}
=============================================================================
