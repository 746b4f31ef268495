--------------------------- MODULE InterruptsProofs ---------------------------
(***************************************************************************)
(* Proofs about Interrupts for every set of devices.                       *)
(***************************************************************************)
EXTENDS Interrupts, WellFoundedInduction, TLAPS

\* How far kernelMain has come, and what is in place by then.
Booted ==
    /\ kernel = "construct" => requested = {} /\ inService = {}
    /\ kernel # "construct" =>
          idt = [l \in Lines |-> IF l \in Wired THEN "stub" ELSE "ignore"]
    /\ kernel \notin {"construct", "keyboard"} => KeyboardLine \in handlers
    /\ kernel \notin {"construct", "keyboard", "mouse"} => MouseLine \in handlers
    /\ iflag \/ calls # <<>> => kernel \in {"loop", "cli"}
    /\ Cascade \notin requested

\* Interrupts are off while one is handled, and come back on with its iret.
OneCall ==
    /\ iflag => calls = <<>>
    /\ calls # <<>> => calls = <<Top>> /\ Top.flag

\* Before its iret an interrupt of a wired line is handled under its number.
Numbered ==
    calls # <<>> =>
        /\ Top.at # "iret" => Top.line \in Wired
        /\ Top.at = "call" => interruptnumber = Top.line
        /\ Top.at \in {"dispatch", "eoi", "eoi slave"} => Top.number = Top.line

\* The line is the most urgent its controller has in service.
Leads(line, controller) ==
    line \in inService \cap controller /\ \A k \in inService \cap controller : line <= k

\* Until it is acknowledged, an interrupt leads its controller, and for one of
\* the slave the cascade leads the master.
Leading ==
    calls # <<>> =>
        /\ Top.at \in {"stub", "call", "dispatch", "eoi"} =>
              IF Top.line \in Slave THEN Leads(Top.line, Slave) /\ Leads(Cascade, Master)
              ELSE Leads(Top.line, Master)
        /\ Top.at = "eoi slave" => Leads(Top.line, Slave)

IInv == TypeOK /\ Booted /\ OneCall /\ Numbered /\ Leading

------------------------------------------------------------------------------
(* The controllers.                                                         *)

\* A set of lines has a most urgent one.
LEMMA FirstOf ==
    ASSUME NEW S, S \subseteq Lines, S # {}
    PROVE  First(S) \in S /\ \A k \in S : First(S) <= k
<1>1. S \subseteq Nat
  BY DEF Lines
<1>2. PICK l \in S : \A k \in S : ~(<<k, l>> \in OpToRel(<, Nat))
  BY <1>1, NatLessThanWellFounded, WFMin
<1>3. \A k \in S : k \in Nat /\ l \in Nat /\ ~(k < l)
  BY <1>1, <1>2 DEF OpToRel
<1>4. \A k \in S : l <= k
  BY <1>3
<1> QED BY <1>4 DEF First

\* What leads a controller is what 0x20 ends.
LEMMA FirstIs ==
    ASSUME NEW S, S \subseteq Lines, NEW l \in S, \A k \in S : l <= k
    PROVE  First(S) = l
<1>1. First(S) \in S /\ First(S) <= l
  BY FirstOf
<1>2. l <= First(S)
  BY <1>1
<1>3. Lines \subseteq Int
  BY DEF Lines
<1>4. First(S) \in Int /\ l \in Int
  BY <1>1, <1>3
<1> QED BY <1>1, <1>2, <1>4

\* 0x20 ends the line that leads the controller it is written to.
LEMMA EndOfLeader ==
    ASSUME NEW controller, inService \subseteq Lines,
           NEW l, Leads(l, controller)
    PROVE  EndOf(controller) = inService \ {l}
  BY FirstIs DEF EndOf, Leads

\* What the controllers deliver is more urgent than all that is in service.
LEMMA DeliveredLeads ==
    ASSUME requested \subseteq Lines, Cascade \notin requested,
           inService \subseteq Lines, Intr
    PROVE  /\ Delivered \in requested
           /\ Delivered \in Slave =>
                 /\ \A k \in inService \cap Slave : Delivered < k
                 /\ \A k \in inService \cap Master : Cascade < k
           /\ Delivered \notin Slave =>
                 Delivered \in Master /\ \A k \in inService \cap Master : Delivered < k
<1>1. Asking \subseteq Master /\ Master \subseteq Lines
  BY DEF Asking, Master, Cascade, Lines
<1>2. First(Asking) \in Asking /\ \A k \in inService \cap Master : First(Asking) < k
  BY <1>1, FirstOf DEF Intr
<1>3. CASE First(Asking) = Cascade
  <2>1. SlaveAsks
    BY <1>2, <1>3 DEF Asking
  <2>2. Delivered = First(requested \cap Slave)
    BY <1>3 DEF Delivered
  <2>3. Delivered \in requested \cap Slave
    BY <2>1, <2>2, FirstOf DEF SlaveAsks
  <2> QED BY <1>2, <1>3, <2>1, <2>2, <2>3 DEF SlaveAsks
<1>4. CASE First(Asking) # Cascade
  <2>1. Delivered = First(Asking)
    BY <1>4 DEF Delivered
  <2>2. Delivered \in requested \cap Master
    BY <1>2, <1>4, <2>1 DEF Asking
  <2>3. Delivered \notin Slave
    BY <2>2 DEF Master, Slave
  <2> QED BY <1>2, <2>1, <2>2, <2>3
<1> QED BY <1>3, <1>4
------------------------------------------------------------------------------
(* The invariant.                                                           *)

\* The invariant holds before the constructor of InterruptManager.
LEMMA InitIInv == Init => IInv
<1> SUFFICES ASSUME Init PROVE IInv
  OBVIOUS
<1>1. interruptnumber \in Lines
  BY DEF Init, Lines
<1>2. TypeOK
  BY <1>1 DEF Init, TypeOK
<1>3. Booted /\ OneCall /\ Numbered /\ Leading
  BY DEF Init, Booted, OneCall, Numbered, Leading
<1> QED BY <1>2, <1>3 DEF IInv

\* The innermost of one call.
LEMMA HeadOfOne == ASSUME NEW c PROVE Head(<<c>>) = c
  OBVIOUS

\* One call is a sequence of calls.
LEMMA SeqOfOne == ASSUME NEW S, NEW c \in S PROVE <<c>> \in Seq(S)
  OBVIOUS

\* There is one call, and it goes on.
LEMMA GoesOn ==
    ASSUME IInv, calls # <<>>
    PROVE  /\ calls = <<Top>> /\ Top \in Call /\ Top.flag /\ ~iflag
           /\ Tail(calls) = <<>>
           /\ \A c \in Call : <<c>> \o Tail(calls) = <<c>>
<1>1. calls = <<Top>> /\ calls \in Seq(Call) /\ Top.flag /\ ~iflag
  BY DEF IInv, OneCall, TypeOK
<1>2. Top \in Call
  BY <1>1 DEF Top
<1>3. Tail(calls) = <<>>
  BY <1>1
<1> QED BY <1>1, <1>2, <1>3

\* The only call is the innermost.
LEMMA OnlyCall ==
    ASSUME IInv, NEW i \in DOMAIN calls PROVE calls # <<>> /\ calls[i] = Top
<1>1. calls # <<>>
  OBVIOUS
<1>2. calls = <<Top>>
  BY <1>1, GoesOn
<1>3. i = 1
  BY <1>2
<1> QED BY <1>1, <1>2, <1>3

\* Of a call that goes on, only its place changes.
LEMMA GoesTo ==
    ASSUME IInv, calls # <<>>, NEW place, GoTo(place),
           place \in {"stub", "call", "dispatch", "eoi", "eoi slave", "iret"}
    PROVE  /\ calls' = <<Top'>> /\ calls' # <<>> /\ Top' \in Call
           /\ Top'.at = place /\ Top'.line = Top.line
           /\ Top'.flag = Top.flag /\ Top'.number = Top.number
<1> DEFINE c == [Top EXCEPT !.at = place]
<1>1. c \in Call
  BY GoesOn DEF Call
<1>2. calls' = <<c>>
  BY <1>1, GoesOn DEF GoTo
<1>3. c.at = place /\ c.line = Top.line /\ c.flag = Top.flag /\ c.number = Top.number
  BY GoesOn DEF Call
<1> HIDE DEF c
<1>4. Head(<<c>>) = c
  BY HeadOfOne
<1>5. Top' = c
  BY <1>2, <1>4 DEF Top
<1> QED BY <1>1, <1>2, <1>3, <1>5

\* kernelMain's own statements run between interrupts.
LEMMA KernelStepIInv == ASSUME IInv, KernelStep \/ Deactivate PROVE IInv'
<1>1. calls = <<>> /\ calls' = <<>>
  BY DEF IInv, Booted, KernelStep, Construct, Register, Activate, Sti, Cli, Deactivate
<1>2. Numbered' /\ Leading' /\ OneCall'
  BY <1>1 DEF Numbered, Leading, OneCall
<1>3. CASE Construct
  <2>1. TypeOK'
    BY <1>3 DEF Construct, IInv, TypeOK
  <2>2. Booted'
    BY <1>1, <1>3 DEF Construct, IInv, Booted
  <2> QED BY <1>2, <2>1, <2>2 DEF IInv
<1>4. CASE Register(KeyboardLine, "keyboard", "mouse") \/ Register(MouseLine, "mouse", "activate")
  <2>1. KeyboardLine \in Lines /\ MouseLine \in Lines
    BY DEF KeyboardLine, MouseLine, Lines
  <2>2. TypeOK'
    BY <1>4, <2>1 DEF Register, IInv, TypeOK
  <2>3. Booted'
    BY <1>1, <1>4 DEF Register, IInv, Booted
  <2> QED BY <1>2, <2>2, <2>3 DEF IInv
<1>5. CASE Activate \/ Sti \/ Deactivate \/ Cli
  <2>1. TypeOK'
    BY <1>5 DEF Activate, Sti, Deactivate, Cli, IInv, TypeOK
  <2>2. Booted'
    BY <1>1, <1>5 DEF Activate, Sti, Deactivate, Cli, IInv, Booted, OneCall
  <2> QED BY <1>2, <2>1, <2>2 DEF IInv
<1> QED BY <1>3, <1>4, <1>5 DEF KernelStep

\* A device raises a line at any time.
LEMMA RaiseIInv == ASSUME IInv, NEW line \in Devices, Raise(line) PROVE IInv'
<1>1. line \in Lines /\ line # Cascade
  BY InterruptAssumption
<1>2. TypeOK'
  BY <1>1 DEF Raise, IInv, TypeOK
<1>3. Booted'
  BY <1>1 DEF Raise, IInv, Booted
<1>4. OneCall' /\ Numbered' /\ Leading'
  BY DEF Raise, IInv, OneCall, Numbered, Leading, Leads, Top
<1> QED BY <1>2, <1>3, <1>4 DEF IInv

\* An interrupt the processor takes is the only call, and leads its controller.
LEMMA AcceptIInv == ASSUME IInv, NEW line \in Lines, Accept(line) PROVE IInv'
<1> DEFINE c == [line |-> line, flag |-> TRUE, number |-> -1,
                 at |-> IF idt[line] = "stub" THEN "stub" ELSE "iret"]
<1>1. calls = <<>> /\ iflag /\ kernel \in {"loop", "cli"}
  BY DEF Accept, IInv, OneCall, Booted
<1>2. calls' = <<c>>
  <2>1. iflag = TRUE
    BY <1>1, Zenon DEF IInv, TypeOK
  <2>2. calls' = <<c>> \o calls
    BY <2>1 DEF Accept
  <2>3. c \in Call
    BY DEF Call
  <2> HIDE DEF c
  <2> QED BY <1>1, <2>2, <2>3
<1>3. c \in Call /\ c.line = line /\ c.flag /\ c.at \in {"stub", "iret"}
      /\ (c.at = "stub" => idt[line] = "stub")
  BY DEF Call
<1> HIDE DEF c
<1>4. Top' = c
  BY <1>2, HeadOfOne DEF Top
<1>5. calls' # <<>> /\ calls' \in Seq(Call)
  BY <1>2, <1>3
<1>6. c.at = "stub" => line \in Wired
  BY <1>1, <1>3 DEF IInv, Booted
<1>7. /\ line \in requested
      /\ line \in Slave =>
            /\ \A k \in inService \cap Slave : line < k
            /\ \A k \in inService \cap Master : Cascade < k
      /\ line \notin Slave =>
            line \in Master /\ \A k \in inService \cap Master : line < k
  BY DeliveredLeads DEF Accept, IInv, TypeOK, Booted
<1>8. inService' = inService \cup {line} \cup (IF line \in Slave THEN {Cascade} ELSE {})
  BY DEF Accept
<1>9. TypeOK'
  <2>1. Cascade \in Lines
    BY DEF Cascade, Lines
  <2>2. requested' \subseteq Lines /\ inService' \subseteq Lines
    BY <1>8, <2>1 DEF Accept, IInv, TypeOK
  <2> QED BY <1>5, <2>2 DEF Accept, IInv, TypeOK
<1>10. Booted'
  BY <1>1 DEF Accept, IInv, Booted
<1>11. OneCall' /\ Numbered'
  BY <1>2, <1>3, <1>4, <1>5, <1>6 DEF Accept, OneCall, Numbered
<1>12. Leading'
  <2>1. CASE line \in Slave
    <3>1. Cascade \in Master /\ Cascade \notin Slave /\ line \notin Master /\ line \in Int
      BY <2>1 DEF Cascade, Master, Slave
    <3>2. Leads(line, Slave)'
      BY <1>7, <1>8, <2>1, <3>1 DEF Leads, Slave
    <3>3. Leads(Cascade, Master)'
      BY <1>7, <1>8, <2>1, <3>1 DEF Leads, Cascade, Master
    <3> QED BY <1>3, <1>4, <2>1, <3>2, <3>3 DEF Leading
  <2>2. CASE line \notin Slave
    <3>1. Leads(line, Master)'
      BY <1>7, <1>8, <2>2 DEF Leads, Master
    <3> QED BY <1>3, <1>4, <2>2, <3>1 DEF Leading
  <2> QED BY <2>1, <2>2
<1> QED BY <1>9, <1>10, <1>11, <1>12 DEF IInv

\* Up to the acknowledgement the line leads as it did when it was taken.
LEMMA StubIInv == ASSUME IInv, StoreNumber \/ HandleInterrupt \/ Dispatch PROVE IInv'
<1>1. calls # <<>> /\ inService' = inService /\ requested' = requested
      /\ UNCHANGED <<iflag, idt, handlers, active, kernel>>
  BY DEF StoreNumber, HandleInterrupt, Dispatch
<1>2. Top \in Call /\ Top.flag /\ ~iflag
  BY <1>1, GoesOn
<1>3. CASE StoreNumber
  <2>1. GoTo("call") /\ Top.at = "stub" /\ interruptnumber' = Top.line
    BY <1>3 DEF StoreNumber
  <2>2. /\ calls' = <<Top'>> /\ calls' # <<>> /\ Top' \in Call /\ Top'.at = "call"
        /\ Top'.line = Top.line /\ Top'.flag = Top.flag
    BY <1>1, <2>1, GoesTo
  <2>3. TypeOK'
    <3>1. Top.line \in Lines
      BY <1>2 DEF Call
    <3>2. calls' \in Seq(Call)
      BY <2>2
    <3> QED BY <1>1, <2>1, <3>1, <3>2 DEF IInv, TypeOK
  <2>4. Booted' /\ OneCall'
    BY <1>1, <1>2, <2>2 DEF IInv, Booted, OneCall
  <2>5. Numbered' /\ Leading'
    BY <1>1, <2>1, <2>2 DEF IInv, Numbered, Leading, Leads
  <2> QED BY <2>3, <2>4, <2>5 DEF IInv
<1>4. CASE HandleInterrupt
  <2> DEFINE c == [Top EXCEPT !.number = interruptnumber,
                              !.at = IF active THEN "dispatch" ELSE "iret"]
  <2>1. Top.at = "call" /\ interruptnumber' = interruptnumber
    BY <1>4 DEF HandleInterrupt
  <2>2. /\ c \in Call /\ c.line = Top.line /\ c.flag = Top.flag
        /\ c.number = interruptnumber /\ c.at \in {"dispatch", "iret"}
    BY <1>2 DEF IInv, TypeOK, Call
  <2>3. calls' = <<c>> \o Tail(calls)
    BY <1>4 DEF HandleInterrupt
  <2> HIDE DEF c
  <2>4. calls' = <<c>>
    BY <1>1, <2>2, <2>3, GoesOn
  <2>5. Top' = c
    BY <2>4, HeadOfOne DEF Top
  <2>6. TypeOK'
    BY <1>1, <2>1, <2>2, <2>4 DEF IInv, TypeOK
  <2>7. Booted' /\ OneCall'
    BY <1>1, <1>2, <2>2, <2>4, <2>5 DEF IInv, Booted, OneCall
  <2>8. Numbered' /\ Leading'
    BY <1>1, <2>1, <2>2, <2>5 DEF IInv, Numbered, Leading, Leads
  <2> QED BY <2>6, <2>7, <2>8 DEF IInv
<1>5. CASE Dispatch
  <2>1. GoTo("eoi") /\ Top.at = "dispatch" /\ interruptnumber' = interruptnumber
    BY <1>5 DEF Dispatch
  <2>2. /\ calls' = <<Top'>> /\ calls' # <<>> /\ Top' \in Call /\ Top'.at = "eoi"
        /\ Top'.line = Top.line /\ Top'.flag = Top.flag /\ Top'.number = Top.number
    BY <1>1, <2>1, GoesTo
  <2>3. TypeOK'
    BY <1>1, <2>1, <2>2 DEF IInv, TypeOK
  <2>4. Booted' /\ OneCall'
    BY <1>1, <1>2, <2>2 DEF IInv, Booted, OneCall
  <2>5. Numbered' /\ Leading'
    BY <1>1, <2>1, <2>2 DEF IInv, Numbered, Leading, Leads
  <2> QED BY <2>3, <2>4, <2>5 DEF IInv
<1> QED BY <1>3, <1>4, <1>5

\* The slave's requests reach the master.
LEMMA CascadeLine == Cascade \in Master /\ Cascade \notin Slave
  BY DEF Cascade, Master, Slave

\* The byte 0x20 to the master ends the interrupt being handled, or the cascade
\* when that is one of the slave, which then goes on to the slave.
LEMMA EndMasterEnds ==
    ASSUME IInv, EndMaster
    PROVE  /\ calls # <<>> /\ Top.at = "eoi" /\ Top.number = Top.line
           /\ Top.line \in Wired
           /\ IF Top.line \in Slave
              THEN /\ inService' = inService \ {Cascade} /\ GoTo("eoi slave")
                   /\ Leads(Top.line, Slave)
              ELSE inService' = inService \ {Top.line} /\ GoTo("iret")
<1>1. calls # <<>> /\ Top.at = "eoi"
  BY DEF EndMaster
<1>2. Top.number = Top.line /\ Top.line \in Wired
  BY <1>1 DEF IInv, Numbered
<1>3. Top.line \in Slave <=> 8 <= Top.number
  BY <1>2 DEF Wired, TimerLine, KeyboardLine, MouseLine, Slave
<1>4. IF Top.line \in Slave THEN Leads(Top.line, Slave) /\ Leads(Cascade, Master)
      ELSE Leads(Top.line, Master)
  BY <1>1 DEF IInv, Leading
<1>5. inService \subseteq Lines
  BY DEF IInv, TypeOK
<1>6. inService' = EndOf(Master) /\ GoTo(IF 8 <= Top.number THEN "eoi slave" ELSE "iret")
  BY DEF EndMaster
<1>7. CASE Top.line \in Slave
  BY <1>1, <1>2, <1>3, <1>4, <1>5, <1>6, <1>7, EndOfLeader
<1>8. CASE Top.line \notin Slave
  BY <1>1, <1>2, <1>3, <1>4, <1>5, <1>6, <1>8, EndOfLeader
<1> QED BY <1>7, <1>8

\* The byte 0x20 to the slave ends the interrupt being handled.
LEMMA EndSlaveEnds ==
    ASSUME IInv, EndSlave
    PROVE  /\ calls # <<>> /\ Top.at = "eoi slave" /\ GoTo("iret")
           /\ Top.line \in Slave /\ inService' = inService \ {Top.line}
<1>1. calls # <<>> /\ Top.at = "eoi slave" /\ GoTo("iret") /\ inService' = EndOf(Slave)
  BY DEF EndSlave
<1>2. Leads(Top.line, Slave) /\ inService \subseteq Lines
  BY <1>1 DEF IInv, Leading, TypeOK
<1> QED BY <1>1, <1>2, EndOfLeader DEF Leads

\* The acknowledgements keep the invariant.
LEMMA EndIInv == ASSUME IInv, EndMaster \/ EndSlave PROVE IInv'
<1>1. /\ calls # <<>> /\ requested' = requested
      /\ UNCHANGED <<iflag, idt, handlers, active, interruptnumber, kernel>>
  BY DEF EndMaster, EndSlave
<1>2. Top.flag /\ ~iflag
  BY <1>1, GoesOn
<1>3. CASE EndMaster
  <2>1. PICK place \in {"eoi slave", "iret"} :
            /\ GoTo(place)
            /\ place = "eoi slave" =>
                  inService' = inService \ {Cascade} /\ Leads(Top.line, Slave)
    BY <1>3, EndMasterEnds
  <2>2. Top.number = Top.line /\ Top.line \in Wired /\ inService' \subseteq inService
    BY <1>3, EndMasterEnds
  <2>3. /\ calls' = <<Top'>> /\ calls' # <<>> /\ Top' \in Call /\ Top'.at = place
        /\ Top'.line = Top.line /\ Top'.flag = Top.flag /\ Top'.number = Top.number
    BY <1>1, <2>1, GoesTo
  <2>4. TypeOK'
    <3>1. calls' \in Seq(Call)
      BY <2>3, SeqOfOne
    <3>2. inService' \subseteq inService
      BY <2>2
    <3> QED BY <1>1, <3>1, <3>2 DEF IInv, TypeOK
  <2>5. Booted' /\ OneCall'
    BY <1>1, <1>2, <2>3 DEF EndMaster, IInv, Booted, OneCall
  <2>6. place = "eoi slave" => Leads(Top.line, Slave)'
    BY <2>1, <2>3, CascadeLine DEF Leads
  <2>7. Numbered' /\ Leading'
    BY <2>1, <2>2, <2>3, <2>6 DEF Numbered, Leading
  <2> QED BY <2>4, <2>5, <2>7 DEF IInv
<1>4. CASE EndSlave
  <2>1. GoTo("iret") /\ inService' \subseteq inService
    BY <1>4, EndSlaveEnds
  <2>2. /\ calls' = <<Top'>> /\ calls' # <<>> /\ Top' \in Call /\ Top'.at = "iret"
        /\ Top'.line = Top.line /\ Top'.flag = Top.flag
    BY <1>1, <2>1, GoesTo
  <2>3. TypeOK'
    BY <1>1, <2>1, <2>2 DEF IInv, TypeOK
  <2>4. Booted' /\ OneCall'
    BY <1>1, <1>2, <2>2 DEF EndSlave, IInv, Booted, OneCall
  <2>5. Numbered' /\ Leading'
    BY <2>2 DEF Numbered, Leading
  <2> QED BY <2>3, <2>4, <2>5 DEF IInv
<1> QED BY <1>3, <1>4

\* The iret keeps the invariant.
LEMMA ReturnIInv == ASSUME IInv, Return PROVE IInv'
<1>1. calls # <<>> /\ iflag' = Top.flag /\ calls' = Tail(calls)
  BY DEF Return
<1>2. calls' = <<>> /\ iflag' = TRUE
  <2>1. Top.flag = TRUE
    <3>1. Top \in Call /\ Top.flag
      BY <1>1, GoesOn
    <3>2. Top.flag \in BOOLEAN
      BY <3>1 DEF Call
    <3> QED BY <3>1, <3>2, Zenon
  <2> QED BY <1>1, <2>1, GoesOn
<1>3. TypeOK'
  <2>1. calls' \in Seq(Call) /\ iflag' \in BOOLEAN
    BY <1>2
  <2>2. UNCHANGED <<requested, inService, idt, handlers, active, interruptnumber, kernel>>
    BY DEF Return
  <2> QED BY <2>1, <2>2 DEF IInv, TypeOK
<1>4. Booted'
  BY <1>1 DEF Return, IInv, Booted
<1>5. OneCall' /\ Numbered' /\ Leading'
  BY <1>2 DEF OneCall, Numbered, Leading
<1> QED BY <1>3, <1>4, <1>5 DEF IInv

\* Every step keeps the invariant.
LEMMA NextIInv == IInv /\ [Next]_vars => IInv'
<1> SUFFICES ASSUME IInv, [Next]_vars PROVE IInv'
  OBVIOUS
<1>1. CASE KernelStep \/ Deactivate
  BY <1>1, KernelStepIInv
<1>2. CASE StoreNumber \/ HandleInterrupt \/ Dispatch
  BY <1>2, StubIInv
<1>3. CASE EndMaster \/ EndSlave
  BY <1>3, EndIInv
<1>4. CASE Return
  BY <1>4, ReturnIInv
<1>5. ASSUME NEW line \in Lines, Accept(line) PROVE IInv'
  BY <1>5, AcceptIInv
<1>6. ASSUME NEW line \in Devices, Raise(line) PROVE IInv'
  BY <1>6, RaiseIInv
<1>7. CASE UNCHANGED vars
  BY <1>7 DEF vars, IInv, TypeOK, Booted, OneCall, Numbered, Leading, Leads, Top
<1> QED BY <1>1, <1>2, <1>3, <1>4, <1>5, <1>6, <1>7 DEF Next, CallStep

\* The invariant holds in every state that is reached.
THEOREM Invariance == Spec => []IInv
  BY InitIInv, NextIInv, PTL DEF Spec

------------------------------------------------------------------------------
(* What follows for every set of devices.                                   *)

\* Every variable keeps to its values, from the constructor of
\* InterruptManager on.
THEOREM TypeCorrect == Spec => []TypeOK
  BY Invariance, PTL DEF IInv

\* The manager handles the interrupt the processor took: though the stubs hand
\* their number over in one byte of memory, no other stub runs between the
\* store and the push, as the gates keep IF clear until the iret.
THEOREM RightNumberAlways == Spec => []RightNumber
<1>1. ASSUME IInv PROVE RightNumber
  <2> SUFFICES ASSUME NEW i \in DOMAIN calls,
                      calls[i].at \in {"dispatch", "eoi", "eoi slave"}
               PROVE  calls[i].number = calls[i].line
    BY DEF RightNumber
  <2>1. calls # <<>> /\ calls[i] = Top
    BY <1>1, OnlyCall
  <2> QED BY <1>1, <2>1 DEF IInv, Numbered
<1> QED BY <1>1, Invariance, PTL

\* No interrupt meets an absent gate, and one of a wired line finds its driver
\* registered, as kernelMain constructs the drivers before it activates the
\* manager, in whatever order requests come.
THEOREM DriverReadyAlways == Spec => []DriverReady
<1>1. ASSUME IInv PROVE DriverReady
  <2> SUFFICES ASSUME NEW i \in DOMAIN calls
               PROVE  /\ idt[calls[i].line] # "absent"
                      /\ calls[i].at = "dispatch" =>
                            calls[i].number \in handlers \cup {TimerLine}
    BY DEF DriverReady
  <2>1. calls # <<>> /\ calls[i] = Top /\ Top.line \in Lines
    BY <1>1, OnlyCall, GoesOn DEF Call
  <2>2. kernel \in {"loop", "cli"}
    BY <1>1, <2>1 DEF IInv, Booted
  <2>3. idt[Top.line] # "absent"
    BY <1>1, <2>1, <2>2 DEF IInv, Booted
  <2>4. Top.at = "dispatch" => Top.number \in handlers \cup {TimerLine}
    BY <1>1, <2>1, <2>2 DEF IInv, Booted, Numbered, Wired
  <2> QED BY <2>1, <2>3, <2>4
<1> QED BY <1>1, Invariance, PTL

\* A step that takes a line out of service.
LEMMA EndsStep ==
    ASSUME IInv, [Next]_vars, NEW l \in inService \ inService'
    PROVE  calls # <<>> /\ (Top.line \in Slave \/ l # Cascade) /\ l \in {Top.line, Cascade}
<1>1. CASE KernelStep \/ Deactivate
  BY <1>1 DEF KernelStep, Construct, Register, Activate, Sti, Cli, Deactivate, IInv, Booted
<1>2. CASE StoreNumber \/ HandleInterrupt \/ Dispatch \/ Return
  BY <1>2 DEF StoreNumber, HandleInterrupt, Dispatch, Return
<1>3. CASE EndMaster
  <2>1. Cascade \notin Wired
    BY DEF Cascade, Wired, TimerLine, KeyboardLine, MouseLine
  <2> QED BY <1>3, <2>1, EndMasterEnds
<1>4. CASE EndSlave
  BY <1>4, EndSlaveEnds
<1>5. CASE (\E line \in Lines : Accept(line)) \/ \E line \in Devices : Raise(line)
  BY <1>5 DEF Accept, Raise
<1>6. CASE UNCHANGED vars
  BY <1>6 DEF vars
<1> QED BY <1>1, <1>2, <1>3, <1>4, <1>5, <1>6 DEF Next, CallStep

\* The 0x20 at the end of DoHandleInterrupt ends the interrupt being handled
\* and no other, on either controller, whichever lines are raised and whatever
\* stays in service beside it.
THEOREM EndsOnlyItsOwnAlways == Spec => EndsOnlyItsOwn
<1>1. IInv /\ [Next]_vars =>
          [ \A l \in inService \ inService' :
                /\ calls # <<>>
                /\ Top.line \in Slave \/ l # Cascade
                /\ l \in {Top.line, Cascade} ]_vars
  BY EndsStep
<1> QED BY <1>1, Invariance, PTL DEF Spec, EndsOnlyItsOwn

------------------------------------------------------------------------------
(* While only wired lines are raised and the manager stays active.          *)
\* In service is what the handling of a call still has to acknowledge.
Settled ==
    /\ kernel \in {"sti", "loop"} => active
    /\ calls = <<>> => inService = {}
    /\ calls # <<>> =>
          /\ Top.line \in Wired
          /\ Top.at = "iret" => inService = {}
          /\ Top.at = "eoi slave" => inService = {Top.line}
          /\ Top.at \in {"stub", "call", "dispatch", "eoi"} =>
                inService = {Top.line} \cup (IF Top.line \in Slave THEN {Cascade} ELSE {})

\* Nothing is in service at the start.
LEMMA InitSettled == Init => Settled
  BY DEF Init, Settled

\* kernelMain leaves the controllers settled, unless it deactivates the manager.
LEMMA KernelStepSettled ==
    ASSUME IInv, Settled, kernel' # "cli", KernelStep \/ Deactivate
    PROVE  Settled'
<1>1. calls = <<>> /\ calls' = <<>>
  BY DEF IInv, Booted, KernelStep, Construct, Register, Activate, Sti, Cli, Deactivate
<1>2. inService' = {}
  BY <1>1 DEF Settled, KernelStep, Construct, Register, Activate, Sti, Cli, Deactivate
<1>3. kernel' \in {"sti", "loop"} => active'
  BY DEF Settled, KernelStep, Construct, Register, Activate, Sti, Cli, Deactivate
<1> QED BY <1>1, <1>2, <1>3 DEF Settled

\* A wired line that is taken is all that is in service.
LEMMA AcceptSettled ==
    ASSUME IInv, Settled, Expected, NEW line \in Lines, Accept(line)
    PROVE  Settled'
<1> DEFINE c == [line |-> line, flag |-> iflag, number |-> -1,
                 at |-> IF idt[line] = "stub" THEN "stub" ELSE "iret"]
<1>1. iflag /\ calls = <<>> /\ inService = {}
  BY DEF Accept, IInv, OneCall, Settled
<1>2. line \in Wired
  <2>1. Delivered \in requested
    BY DeliveredLeads DEF Accept, IInv, TypeOK, Booted
  <2> QED BY <2>1 DEF Accept, Expected
<1>3. idt[line] = "stub"
  BY <1>1, <1>2 DEF IInv, Booted
<1>4. c \in Call /\ c.line = line /\ c.at = "stub"
  BY <1>3 DEF Call, IInv, TypeOK
<1>5. calls' = <<c>> \o calls
  BY DEF Accept
<1> HIDE DEF c
<1>6. calls' = <<c>>
  BY <1>1, <1>4, <1>5
<1>7. Top' = c /\ calls' # <<>>
  BY <1>6, HeadOfOne DEF Top
<1>8. inService' = {line} \cup (IF line \in Slave THEN {Cascade} ELSE {})
  BY <1>1 DEF Accept
<1>9. UNCHANGED <<kernel, active>>
  BY DEF Accept
<1> QED BY <1>2, <1>4, <1>7, <1>8, <1>9 DEF Settled

\* Up to the acknowledgement the line stays in service.
LEMMA StubSettled ==
    ASSUME IInv, Settled, Expected, StoreNumber \/ HandleInterrupt \/ Dispatch
    PROVE  Settled'
<1>1. calls # <<>> /\ UNCHANGED <<inService, kernel, active>>
  BY DEF StoreNumber, HandleInterrupt, Dispatch
<1>2. calls' # <<>> /\ Top'.line = Top.line /\ Top.at \in {"stub", "call", "dispatch"}
      /\ Top'.at \in {"call", "dispatch", "eoi"}
  <2>1. CASE StoreNumber
    BY <2>1, GoesTo DEF StoreNumber
  <2>2. CASE Dispatch
    BY <2>2, GoesTo DEF Dispatch
  <2>3. CASE HandleInterrupt
    <3> DEFINE c == [Top EXCEPT !.number = interruptnumber,
                                !.at = IF active THEN "dispatch" ELSE "iret"]
    <3>1. active
      BY <1>1 DEF IInv, Booted, Settled, Expected
    <3>2. c \in Call /\ c.line = Top.line /\ c.at = "dispatch"
      BY <1>1, <3>1, GoesOn DEF IInv, TypeOK, Call
    <3>3. calls' = <<c>> \o Tail(calls) /\ Top.at = "call"
      BY <2>3 DEF HandleInterrupt
    <3> HIDE DEF c
    <3>4. calls' = <<c>>
      BY <1>1, <3>2, <3>3, GoesOn
    <3>5. Top' = c
      BY <3>4, HeadOfOne DEF Top
    <3> QED BY <3>2, <3>3, <3>4, <3>5
  <2> QED BY <2>1, <2>2, <2>3
<1> QED BY <1>1, <1>2 DEF Settled

\* The acknowledgements take out all that is in service.
LEMMA EndSettled ==
    ASSUME IInv, Settled, EndMaster \/ EndSlave PROVE Settled'
<1>1. UNCHANGED <<kernel, active>>
  BY DEF EndMaster, EndSlave
<1>2. CASE EndMaster
  <2>1. calls # <<>> /\ Top.line \in Wired
        /\ inService = {Top.line} \cup (IF Top.line \in Slave THEN {Cascade} ELSE {})
    BY <1>2, EndMasterEnds DEF Settled
  <2>2. CASE Top.line \in Slave
    <3>1. inService' = {Top.line} /\ GoTo("eoi slave")
      BY <1>2, <2>1, <2>2, EndMasterEnds, CascadeLine
    <3>2. calls' # <<>> /\ Top'.line = Top.line /\ Top'.at = "eoi slave"
      BY <2>1, <3>1, GoesTo
    <3> QED BY <1>1, <2>1, <3>1, <3>2 DEF Settled
  <2>3. CASE Top.line \notin Slave
    <3>1. inService' = {} /\ GoTo("iret")
      BY <1>2, <2>1, <2>3, EndMasterEnds
    <3>2. calls' # <<>> /\ Top'.line = Top.line /\ Top'.at = "iret"
      BY <2>1, <3>1, GoesTo
    <3> QED BY <1>1, <2>1, <3>1, <3>2 DEF Settled
  <2> QED BY <2>2, <2>3
<1>3. CASE EndSlave
  <2>1. calls # <<>> /\ Top.line \in Wired /\ inService' = {} /\ GoTo("iret")
    BY <1>3, EndSlaveEnds DEF Settled
  <2>2. calls' # <<>> /\ Top'.line = Top.line /\ Top'.at = "iret"
    BY <2>1, GoesTo
  <2> QED BY <1>1, <2>1, <2>2 DEF Settled
<1> QED BY <1>2, <1>3

\* After the iret nothing is in service.
LEMMA ReturnSettled == ASSUME IInv, Settled, Return PROVE Settled'
<1>1. calls' = <<>> /\ inService' = {} /\ UNCHANGED <<kernel, active>>
  BY GoesOn DEF Return, Settled
<1> QED BY <1>1 DEF Settled

\* Every step keeps the controllers settled.
LEMMA NextSettled ==
    IInv /\ Settled /\ Expected /\ Expected' /\ [Next]_vars => Settled'
<1> SUFFICES ASSUME IInv, Settled, Expected, kernel' # "cli", [Next]_vars PROVE Settled'
  BY DEF Expected
<1>1. CASE KernelStep \/ Deactivate
  BY <1>1, KernelStepSettled
<1>2. CASE StoreNumber \/ HandleInterrupt \/ Dispatch
  BY <1>2, StubSettled
<1>3. CASE EndMaster \/ EndSlave
  BY <1>3, EndSettled
<1>4. CASE Return
  BY <1>4, ReturnSettled
<1>5. ASSUME NEW line \in Lines, Accept(line) PROVE Settled'
  BY <1>5, AcceptSettled
<1>6. ASSUME NEW line \in Devices, Raise(line) PROVE Settled'
  BY <1>6 DEF Raise, Settled, Top
<1>7. CASE UNCHANGED vars
  BY <1>7 DEF vars, Settled, Top
<1> QED BY <1>1, <1>2, <1>3, <1>4, <1>5, <1>6, <1>7 DEF Next, CallStep

\* Every acknowledgement is made: while the kernel's own code runs no
\* interrupt is in service, so none holds back the less urgent lines, as long
\* as only wired lines are raised and the manager stays active.
THEOREM NoneLeftInServiceAlways == Spec => NoneLeftInService
<1>1. Settled => (calls = <<>> => inService = {})
  BY DEF Settled
<1> QED BY <1>1, InitSettled, NextSettled, Invariance, PTL DEF Spec, NoneLeftInService
================================================================================
