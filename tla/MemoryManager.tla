---------------------------- MODULE MemoryManager ----------------------------
(***************************************************************************)
(* The kernel heap of memorymanagement.cpp: a doubly linked list of        *)
(* chunks, each a header of HeaderSize bytes followed by size bytes, in    *)
(* the order of their addresses.  malloc takes the first free chunk that   *)
(* is large enough and splits it; free merges a chunk with its free        *)
(* neighbours.  Memory is the function mem from the addresses where a      *)
(* header lies to the header: a header that a merge swallows leaves its    *)
(* domain, so following a stale pointer has no value.  One iteration of    *)
(* malloc's loop is one step.                                              *)
(***************************************************************************)
EXTENDS Integers

CONSTANTS
    Start,      \* address of the heap (10 MB in kernelMain)
    HeaderSize, \* sizeof(MemoryChunk), 16 on the i386
    Word,       \* size_t counts modulo Word
    HeapSizes,  \* what the constructor may be told to manage
    Sizes       \* what callers may ask for

NULL == 0

ASSUME MemoryAssumption ==
    /\ Start \in Nat \ {0}
    /\ HeaderSize \in Nat \ {0}
    /\ Word \in Nat
    /\ HeaderSize < Word
    /\ HeapSizes \subseteq Nat
    /\ \A size \in HeapSizes : Start + size <= Word
    /\ Sizes \subseteq 0 .. Word - 1

VARIABLES
    active,     \* activeMemoryManager is the manager, and not 0
    first,      \* MemoryManager::first
    mem,        \* header address -> MemoryChunk
    top,        \* start + size as the constructor got them (0 before)
    pc,         \* "static" before the constructor, then "idle", or "search"
                \* inside malloc's loop
    want,       \* malloc's argument
    chunk,      \* malloc's loop variable
    result,     \* what the last call of malloc or new returned
    held        \* returned and not yet freed: address -> size asked for

vars == <<active, first, mem, top, pc, want, chunk, result, held>>

Chunk == [next : Nat, prev : Nat, allocated : BOOLEAN, size : Nat]

\* A sum of two size_t values.
Wrap(n) == IF n < Word THEN n ELSE n - Word

\* The first byte after the chunk at a.
End(m, a) == a + HeaderSize + m[a].size

------------------------------------------------------------------------------
(* The pieces of malloc and free.                                           *)

\* Mutant: the loop does not look whether the chunk is in use.
FitsAny(c, size) == c.size > size

\* The test of malloc's loop.
Fits(c, size) == c.size > size /\ ~c.allocated

\* The header of a new chunk finds room in the chunk, and one byte more.
Splits(c, size) == c.size >= Wrap(size + HeaderSize + 1)

\* The chunk at c is cut after size bytes; the rest becomes a free chunk.
Split(m, c, size) ==
    LET temp == c + HeaderSize + size IN
    [a \in DOMAIN m \cup {temp} |->
        IF a = temp THEN
            [next |-> m[c].next, prev |-> c, allocated |-> FALSE,
             size |-> m[c].size - size - HeaderSize]
        ELSE IF a = c THEN
            [next |-> temp, prev |-> m[c].prev, allocated |-> m[c].allocated,
             size |-> size]
        ELSE IF a = m[c].next THEN [m[a] EXCEPT !.prev = temp]
        ELSE m[a]]

Mark(m, c, taken) == [m EXCEPT ![c].allocated = taken]

\* malloc once it has its chunk.
Place(m, c, size) ==
    Mark(IF Splits(m[c], size) THEN Split(m, c, size) ELSE m, c, TRUE)

\* Mutant: the chunk after the swallowed one still points back at it.
AbsorbUnrepaired(m, c) ==
    LET gone == m[c].next IN
    [a \in DOMAIN m \ {gone} |->
        IF a = c THEN
            [next |-> m[gone].next, prev |-> m[c].prev,
             allocated |-> m[c].allocated,
             size |-> m[c].size + HeaderSize + m[gone].size]
        ELSE m[a]]

\* The chunk at c swallows the chunk after it.
Absorb(m, c) ==
    LET gone == m[c].next IN
    [a \in DOMAIN m \ {gone} |->
        IF a = c THEN
            [next |-> m[gone].next, prev |-> m[c].prev,
             allocated |-> m[c].allocated,
             size |-> m[c].size + HeaderSize + m[gone].size]
        ELSE IF a = m[gone].next THEN [m[a] EXCEPT !.prev = c]
        ELSE m[a]]

\* Mutant: a merge does not look whether the neighbour is in use.
PresentAt(m, a) == a # NULL

\* There is a chunk at a and it is free.
FreeAt(m, a) == a # NULL /\ ~m[a].allocated

\* free's first merge: into the chunk before, when that one is free.
MergeBack(m, c) == IF FreeAt(m, m[c].prev) THEN Absorb(m, m[c].prev) ELSE m

\* The chunk free goes on with after the first merge.
Survivor(m, c) == IF FreeAt(m, m[c].prev) THEN m[c].prev ELSE c

\* Mutant: free merges backwards only.
MergeNever(m, c) == m

\* free's second merge: with the chunk behind, when that one is free.
MergeNext(m, c) == IF FreeAt(m, m[c].next) THEN Absorb(m, c) ELSE m

\* The whole of free, on the chunk at c.
Freed(m, c) ==
    LET marked == Mark(m, c, FALSE) IN
    MergeNext(MergeBack(marked, c), Survivor(marked, c))

------------------------------------------------------------------------------
Init ==
    /\ active = FALSE
    /\ first = NULL
    /\ mem = [a \in {} |-> 0]
    /\ top = 0
    /\ pc = "static"
    /\ want = 0
    /\ chunk = NULL
    /\ result = NULL
    /\ held = [p \in {} |-> 0]

\* Mutant: no test whether a header fits into the heap.
ConstructUnchecked(size) ==
    /\ pc = "static"
    /\ pc' = "idle"
    /\ active' = TRUE
    /\ top' = Start + size
    /\ first' = Start
    /\ mem' = [a \in {Start} |->
                  [next |-> NULL, prev |-> NULL, allocated |-> FALSE,
                   size |-> size - HeaderSize]]
    /\ UNCHANGED <<want, chunk, result, held>>

\* MemoryManager::MemoryManager(Start, size).
Construct(size) ==
    /\ pc = "static"
    /\ pc' = "idle"
    /\ active' = TRUE
    /\ top' = Start + size
    /\ IF size < HeaderSize
       THEN first' = NULL /\ mem' = mem
       ELSE /\ first' = Start
            /\ mem' = [a \in {Start} |->
                          [next |-> NULL, prev |-> NULL, allocated |-> FALSE,
                           size |-> size - HeaderSize]]
    /\ UNCHANGED <<want, chunk, result, held>>

\* MemoryManager::~MemoryManager().
Destruct ==
    /\ pc = "idle"
    /\ active
    /\ active' = FALSE
    /\ UNCHANGED <<first, mem, top, pc, want, chunk, result, held>>

\* malloc is entered, directly or from operator new.
Malloc(size) ==
    /\ pc = "idle"
    /\ active
    /\ pc' = "search"
    /\ want' = size
    /\ chunk' = first
    /\ UNCHANGED <<active, first, mem, top, result, held>>

\* operator new before there is a manager or after it is gone.
NewWithoutManager ==
    /\ pc # "search"
    /\ ~active
    /\ result' = NULL
    /\ UNCHANGED <<active, first, mem, top, pc, want, chunk, held>>

\* Mutant: the loop goes on by two chunks.
AdvanceTwice ==
    /\ pc = "search"
    /\ chunk # NULL
    /\ ~Fits(mem[chunk], want)
    /\ chunk' = IF mem[chunk].next = NULL THEN NULL ELSE mem[mem[chunk].next].next
    /\ UNCHANGED <<active, first, mem, top, pc, want, result, held>>

\* Mutant: the loop does not go on.
AdvanceNever ==
    /\ pc = "search"
    /\ chunk # NULL
    /\ ~Fits(mem[chunk], want)
    /\ UNCHANGED <<active, first, mem, top, pc, want, chunk, result, held>>

\* One iteration that does not stop at its chunk.
Advance ==
    /\ pc = "search"
    /\ chunk # NULL
    /\ ~Fits(mem[chunk], want)
    /\ chunk' = mem[chunk].next
    /\ UNCHANGED <<active, first, mem, top, pc, want, result, held>>

\* The iteration that finds a chunk, and the rest of malloc.
Take ==
    /\ pc = "search"
    /\ chunk # NULL
    /\ Fits(mem[chunk], want)
    /\ mem' = Place(mem, chunk, want)
    /\ result' = chunk + HeaderSize
    /\ held' = [p \in DOMAIN held \cup {chunk + HeaderSize} |->
                   IF p = chunk + HeaderSize THEN want ELSE held[p]]
    /\ pc' = "idle"
    /\ UNCHANGED <<active, first, top, want, chunk>>

\* The list is at its end: malloc returns 0.
Fail ==
    /\ pc = "search"
    /\ chunk = NULL
    /\ result' = NULL
    /\ pc' = "idle"
    /\ UNCHANGED <<active, first, mem, top, want, chunk, held>>

\* operator delete, or free while there is a manager, of a block the caller
\* holds.  Without a manager delete leaves the heap alone.
Free(ptr) ==
    /\ pc # "search"
    /\ mem' = IF active THEN Freed(mem, ptr - HeaderSize) ELSE mem
    /\ held' = [p \in DOMAIN held \ {ptr} |-> held[p]]
    /\ UNCHANGED <<active, first, top, pc, want, chunk, result>>

Next ==
    \/ \E size \in HeapSizes : Construct(size)
    \/ Destruct
    \/ \E size \in Sizes : Malloc(size)
    \/ NewWithoutManager
    \/ Advance
    \/ Take
    \/ Fail
    \/ \E ptr \in DOMAIN held : Free(ptr)

\* Nothing preempts malloc for good: its loop goes on.
Spec == Init /\ [][Next]_vars /\ WF_vars(Advance \/ Take \/ Fail)

------------------------------------------------------------------------------
(* Properties.                                                              *)

\* Every variable keeps to its range.
TypeOK ==
    /\ active \in BOOLEAN
    /\ first \in Nat
    /\ DOMAIN mem \subseteq Nat \ {0}
    /\ mem \in [DOMAIN mem -> Chunk]
    /\ top \in Nat
    /\ pc \in {"static", "idle", "search"}
    /\ want \in 0 .. Word - 1
    /\ chunk \in Nat
    /\ result \in Nat
    /\ DOMAIN held \subseteq Nat
    /\ held \in [DOMAIN held -> 0 .. Word - 1]

\* The chunks of m, followed through their pointers, tile Start .. hi - 1.
Next2Prev(m, hi, a) ==
    /\ m[a].next = NULL => End(m, a) = hi
    /\ m[a].next # NULL =>
          /\ m[a].next \in DOMAIN m
          /\ m[a].next = End(m, a)
          /\ m[m[a].next].prev = a

Prev2Next(m, a) ==
    /\ m[a].prev = NULL => a = Start
    /\ m[a].prev # NULL => m[a].prev \in DOMAIN m /\ m[m[a].prev].next = a

Within(m, hi, a) == Start <= a /\ End(m, a) <= hi

Apart(m, a, b) == a < b => End(m, a) <= b

WellLinked(m, hi) ==
    /\ \A a \in DOMAIN m : Within(m, hi, a)
    /\ \A a \in DOMAIN m : Next2Prev(m, hi, a)
    /\ \A a \in DOMAIN m : Prev2Next(m, a)
    /\ \A a, b \in DOMAIN m : Apart(m, a, b)

\* The list is what documentation.pdf p. 6 draws: next and prev point at the
\* adjacent chunks and at each other, the chunks cover the memory the
\* constructor got without gap or overlap, and first is the lowest of them.
\* Splitting and the two merges of free all have to repair it.
HeapTiled ==
    /\ WellLinked(mem, top)
    /\ first # NULL => first = Start /\ Start \in DOMAIN mem
    /\ first = NULL => DOMAIN mem = {}

NoFreePair(m, a) ==
    m[a].next # NULL => m[a].allocated \/ m[m[a].next].allocated

\* No two adjacent chunks are both free ("we want to merge them", p. 6): free
\* merges on both sides, and malloc never leaves a free rest before a free
\* chunk.
Coalesced == \A a \in DOMAIN mem : NoFreePair(mem, a)

\* What callers hold and what the list says is allocated are the same chunks,
\* each at least as large as was asked for: no merge or split reaches into a
\* block in use, and none stays taken that nobody holds.
HeldIntact ==
    /\ \A p \in DOMAIN held :
          /\ p - HeaderSize \in DOMAIN mem
          /\ mem[p - HeaderSize].allocated
          /\ held[p] <= mem[p - HeaderSize].size
    /\ active =>
          \A a \in DOMAIN mem :
              mem[a].allocated => a + HeaderSize \in DOMAIN held

\* When every block is back the heap is the one chunk it began as: no order
\* of calls leaks or fragments it for good.
NothingLeaks ==
    active /\ DOMAIN held = {} /\ first # NULL =>
        /\ DOMAIN mem = {Start}
        /\ mem[Start] = [next |-> NULL, prev |-> NULL, allocated |-> FALSE,
                         size |-> top - Start - HeaderSize]

\* A call of malloc that returns 0 did so because no free chunk is larger than
\* what was asked for: the loop skips none, wherever splits and merges left
\* the chunks.
FailsOnlyWhenFull ==
    [][ pc = "search" /\ pc' = "idle" /\ result' = NULL
            => \A a \in DOMAIN mem : ~Fits(mem[a], want) ]_vars

\* malloc returns: the list has no cycle.
MallocReturns == pc = "search" ~> pc = "idle"

\* The part of it that is safety: every iteration of malloc's loop goes on by a
\* header or more, to a chunk that ends within the heap, or to the end of the list.
MallocNearsItsEnd ==
    [][ pc = "search" /\ pc' = "search" =>
            \/ chunk' = NULL
            \/ chunk + HeaderSize <= chunk' /\ End(mem, chunk') <= top ]_vars

------------------------------------------------------------------------------
(* The allocator callers see.                                               *)
Callers == INSTANCE Allocator WITH
    Overhead <- HeaderSize,
    low <- IF pc = "static" THEN 0 ELSE Start,
    high <- top,
    blocks <- held,
    waiting <- pc = "search",
    wanted <- want

\* malloc, new, free and delete over the list give callers what Allocator
\* promises: blocks in the heap, large enough, disjoint from every other
\* block and its header.
CallersSpec == Callers!Spec
==============================================================================
