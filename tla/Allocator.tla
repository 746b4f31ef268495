------------------------------ MODULE Allocator ------------------------------
(***************************************************************************)
(* What a caller of operator new / MemoryManager::malloc is promised,      *)
(* whatever data structure is behind it: a block that is handed out lies   *)
(* inside the heap, is as large as was asked for, keeps a gap of Overhead  *)
(* bytes in front of it that belongs to no other caller, shares no byte    *)
(* with a block somebody else holds, and stays where it is until its       *)
(* holder gives it back.  MemoryManager implements it.                     *)
(***************************************************************************)
EXTENDS Integers

CONSTANTS
    Sizes,      \* what callers may ask for
    Overhead    \* bytes the allocator keeps in front of each block

VARIABLES
    low, high,  \* the heap is low .. high - 1; empty while low = high
    blocks,     \* block address -> size asked for, for every block held
    waiting,    \* a caller is inside malloc
    wanted      \* the size it asked for

vars == <<low, high, blocks, waiting, wanted>>

\* Two half-open byte ranges have no byte in common.
Disjoint(a, aEnd, b, bEnd) == aEnd <= b \/ bEnd <= a

Init ==
    /\ low = 0 /\ high = 0
    /\ blocks = [p \in {} |-> 0]
    /\ waiting = FALSE
    /\ wanted = 0

\* The heap is given the memory it manages, once.
Open ==
    /\ high = 0
    /\ ~waiting
    /\ low' \in Nat /\ high' \in Nat
    /\ UNCHANGED <<blocks, waiting, wanted>>

Request(size) ==
    /\ ~waiting
    /\ waiting' = TRUE
    /\ wanted' = size
    /\ UNCHANGED <<low, high, blocks>>

Grant(ptr) ==
    /\ waiting
    /\ low <= ptr - Overhead
    /\ ptr + wanted <= high
    /\ \A p \in DOMAIN blocks :
          Disjoint(ptr - Overhead, ptr + wanted, p - Overhead, p + blocks[p])
    /\ blocks' = [p \in DOMAIN blocks \cup {ptr} |->
                     IF p = ptr THEN wanted ELSE blocks[p]]
    /\ waiting' = FALSE
    /\ UNCHANGED <<low, high, wanted>>

Refuse ==
    /\ waiting
    /\ waiting' = FALSE
    /\ UNCHANGED <<low, high, blocks, wanted>>

Release(ptr) ==
    /\ ~waiting
    /\ ptr \in DOMAIN blocks
    /\ blocks' = [p \in DOMAIN blocks \ {ptr} |-> blocks[p]]
    /\ UNCHANGED <<low, high, waiting, wanted>>

Next ==
    \/ Open
    \/ \E size \in Sizes : Request(size)
    \/ \E ptr \in DOMAIN blocks' : Grant(ptr)
    \/ Refuse
    \/ \E ptr \in DOMAIN blocks : Release(ptr)

Spec == Init /\ [][Next]_vars
==============================================================================
