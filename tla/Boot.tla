--------------------------------- MODULE Boot ---------------------------------
(***************************************************************************)
(* What kernelMain computes once, before anything runs: the descriptors of *)
(* GlobalDescriptorTable (gdt.cpp), and the size of the heap (kernel.cpp). *)
(* Operators without state, and what holds of them for every argument.     *)
(***************************************************************************)
EXTENDS Integers, TLAPS

Byte == {n \in Nat : n < 256}               \* uint8_t
Word == {n \in Nat : n < 4294967296}        \* uint32_t

------------------------------------------------------------------------------
(* Segment descriptors, by the bytes of target[].                           *)

\* Up to 64 KB a limit is stored as it is, beyond in units of 4 KB, of which
\* the last is counted only when it is whole.
Stored(limit) ==
    IF limit <= 65536 THEN limit
    ELSE IF limit % 4096 # 4095 THEN (limit \div 4096) - 1
    ELSE limit \div 4096

\* SegmentDescriptor::SegmentDescriptor.
SegmentDescriptor(base, limit, flags) ==
    [t0 |-> Stored(limit) % 256,
     t1 |-> (Stored(limit) \div 256) % 256,
     t2 |-> base % 256,
     t3 |-> (base \div 256) % 256,
     t4 |-> (base \div 65536) % 256,
     t5 |-> flags,
     t6 |-> (IF limit <= 65536 THEN 64 ELSE 192) + ((Stored(limit) \div 65536) % 16),
     t7 |-> (base \div 16777216) % 256]

\* SegmentDescriptor::Base.
Base(target) ==
    ((target.t7 * 256 + target.t4) * 256 + target.t3) * 256 + target.t2

\* SegmentDescriptor::Limit.
Limit(target) ==
    LET result == ((target.t6 % 16) * 256 + target.t1) * 256 + target.t0 IN
    IF target.t6 \div 64 = 3 THEN (result * 4096) + 4095 ELSE result

------------------------------------------------------------------------------
\* The heap begins at 10 MB, and its size is computed in 32 bits from memupper,
\* the memory above the first megabyte in KB.
Heap == 10485760
HeapSize(memupper) == ((memupper * 1024) - Heap - 10240) % 4294967296

------------------------------------------------------------------------------
(* Theorems.                                                                *)

Descriptor == [t0 : Byte, t1 : Byte, t2 : Byte, t3 : Byte,
               t4 : Byte, t5 : Byte, t6 : Byte, t7 : Byte]

\* A limit has 20 bits once it is stored, and its parts make it up.
LEMMA StoredFits ==
    ASSUME NEW limit \in Word
    PROVE  /\ Stored(limit) \in Nat /\ Stored(limit) < 1048576
           /\ Stored(limit) = ((((Stored(limit) \div 65536) % 16) * 256)
                  + ((Stored(limit) \div 256) % 256)) * 256 + (Stored(limit) % 256)
<1>1. Stored(limit) \in Nat /\ Stored(limit) < 1048576
  <2>1. limit \in Nat /\ limit < 1048576 * 4096
    BY DEF Word
  <2>2. limit > 65536 => /\ limit \div 4096 \in Nat /\ limit \div 4096 >= 16
                         /\ limit \div 4096 < 1048576
    BY <2>1
  <2> QED BY <2>1, <2>2 DEF Stored
<1> HIDE DEF Stored
<1> QED
  BY <1>1, SMT

\* The constructor of a descriptor puts a byte in each place; in the sixth the
\* marks do not run into the limit.
THEOREM BytesFit ==
    ASSUME NEW base \in Word, NEW limit \in Word, NEW flags \in Byte
    PROVE  SegmentDescriptor(base, limit, flags) \in Descriptor
  BY StoredFits, SMT DEF SegmentDescriptor, Descriptor, Word, Byte

\* SegmentDescriptor::Base reads the base the constructor was given, from the
\* four bytes it is scattered over.
THEOREM BaseKept ==
    ASSUME NEW base \in Word, NEW limit \in Word, NEW flags \in Byte
    PROVE  Base(SegmentDescriptor(base, limit, flags)) = base
  BY SMT DEF Base, SegmentDescriptor, Word, Byte

\* SegmentDescriptor::Limit reads the limit the constructor was given up to
\* 64 KB, and beyond the end of the last whole page of 4 KB before it: a
\* segment is never larger than was asked for, and smaller by less than a page.
THEOREM LimitKept ==
    ASSUME NEW base \in Word, NEW limit \in Word, NEW flags \in Byte
    PROVE  LET kept == Limit(SegmentDescriptor(base, limit, flags)) IN
           /\ limit <= 65536 => kept = limit
           /\ limit > 65536 => /\ kept <= limit /\ limit < kept + 4096
                               /\ kept % 4096 = 4095
<1> DEFINE target == SegmentDescriptor(base, limit, flags)
           high == (Stored(limit) \div 65536) % 16
           result == ((target.t6 % 16) * 256 + target.t1) * 256 + target.t0
<1>1. /\ target.t6 = (IF limit <= 65536 THEN 64 ELSE 192) + high
      /\ target.t1 = (Stored(limit) \div 256) % 256
      /\ target.t0 = Stored(limit) % 256
  BY DEF SegmentDescriptor
<1>2. high \in Nat /\ high < 16
  BY StoredFits, SMT
<1>3. Limit(target) =
        IF target.t6 \div 64 = 3 THEN (result * 4096) + 4095 ELSE result
  BY DEF Limit
<1>4. Stored(limit) = (high * 256 + ((Stored(limit) \div 256) % 256)) * 256
                         + (Stored(limit) % 256)
  BY StoredFits
<1> HIDE DEF target, high
<1>5. target.t6 % 16 = high
  BY <1>1, <1>2, SMT DEF Word
<1>6. result = Stored(limit)
  BY <1>1, <1>4, <1>5
<1> HIDE DEF result
<1>7. CASE limit <= 65536
  <2>1. target.t6 \div 64 = 1
    BY <1>1, <1>2, <1>7, SMT
  <2>2. Limit(target) = result
    BY <1>3, <2>1
  <2> QED
    BY <1>6, <1>7, <2>2, SMT DEF Stored, Word, target
<1>8. CASE limit > 65536
  <2>1. target.t6 \div 64 = 3
    BY <1>1, <1>2, <1>8, SMT DEF Word
  <2>2. Limit(target) = (result * 4096) + 4095
    BY <1>3, <2>1
  <2> QED
    BY <1>6, <1>8, <2>2, SMT DEF Stored, Word, target
<1> QED
  BY <1>7, <1>8, SMT DEF Word, target

\* With 10250 KB of memory above the first megabyte, or more, the heap is what
\* kernelMain means it to be: it ends within the address space, which is what
\* MemoryAssumption asks of it, and within memory.
THEOREM HeapInMemory ==
    ASSUME NEW memupper \in Nat, 10250 <= memupper, memupper < 4194304
    PROVE  /\ HeapSize(memupper) = (memupper * 1024) - Heap - 10240
           /\ Heap + HeapSize(memupper) \in Word
           /\ Heap + HeapSize(memupper) < 1048576 + (memupper * 1024)
  BY SMT DEF HeapSize, Heap, Word

\* With less, the subtraction wraps, and the heap is larger than memory.
THEOREM HeapBeyondMemory ==
    ASSUME NEW memupper \in Nat, memupper < 10250
    PROVE  Heap + HeapSize(memupper) > 1048576 + (memupper * 1024)
  BY SMT DEF HeapSize, Heap
===============================================================================
