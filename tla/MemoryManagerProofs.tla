-------------------------- MODULE MemoryManagerProofs --------------------------
(***************************************************************************)
(* Proofs about MemoryManager for every heap, header size, word size and   *)
(* sequence of calls.  The first part is about the operators on lists      *)
(* (cutting and joining chunks keeps a list well linked), the second about *)
(* the steps of the specification.                                         *)
(***************************************************************************)
EXTENDS MemoryManager, TLAPS

IsMem(m) == DOMAIN m \subseteq Nat \ {0} /\ m \in [DOMAIN m -> Chunk]

\* What a header in memory may hold, and where its chunk ends.
LEMMA Fields ==
    ASSUME NEW m, IsMem(m), NEW a \in DOMAIN m
    PROVE  /\ a \in Nat /\ a # 0
           /\ m[a] \in Chunk
           /\ m[a].next \in Nat /\ m[a].prev \in Nat
           /\ m[a].allocated \in BOOLEAN /\ m[a].size \in Nat
           /\ End(m, a) = a + HeaderSize + m[a].size
           /\ End(m, a) \in Nat /\ a < End(m, a) /\ a + HeaderSize <= End(m, a)
<1>1. a \in Nat /\ a # 0 /\ m[a] \in Chunk
  BY DEF IsMem
<1>2. /\ m[a].next \in Nat /\ m[a].prev \in Nat
      /\ m[a].allocated \in BOOLEAN /\ m[a].size \in Nat
  BY <1>1 DEF Chunk
<1> QED BY <1>1, <1>2, MemoryAssumption DEF End

\* The chunk at a is as it was, but for the pointer back.
Keeps(m, s, a) ==
    /\ s[a].next = m[a].next
    /\ s[a].allocated = m[a].allocated
    /\ s[a].size = m[a].size

\* s is m with the chunk at c cut at t.
IsCut(m, s, c, t) ==
    /\ DOMAIN s = DOMAIN m \cup {t}
    /\ s[t].next = m[c].next
    /\ s[t].allocated = FALSE
    /\ s[c].next = t
    /\ s[c].size = t - HeaderSize - c
    /\ s[c].allocated = m[c].allocated
    /\ \A a \in DOMAIN m \ {c} : Keeps(m, s, a)

\* s is m with the chunk at c joined with the one after it.
IsJoin(m, s, c) ==
    /\ DOMAIN s = DOMAIN m \ {m[c].next}
    /\ s[c].next = m[m[c].next].next
    /\ s[c].allocated = m[c].allocated
    /\ \A a \in DOMAIN m \ {c, m[c].next} : Keeps(m, s, a)

\* s is m but for the flag of c, which is taken.
IsMarked(m, s, c, taken) ==
    /\ DOMAIN s = DOMAIN m
    /\ s[c].allocated = taken
    /\ \A a \in DOMAIN m : /\ s[a].next = m[a].next
                           /\ s[a].prev = m[a].prev
                           /\ s[a].size = m[a].size
                           /\ a # c => s[a] = m[a]

\* Cutting a chunk that has room for a header behind the first size bytes
\* leaves a well-linked list of headers, with one more chunk in it.
LEMMA SplitLinked ==
    ASSUME NEW m, IsMem(m),
           NEW hi \in Nat, WellLinked(m, hi),
           NEW c \in DOMAIN m, NEW size \in Nat,
           size + HeaderSize <= m[c].size
    PROVE  /\ c + HeaderSize + size \notin DOMAIN m
           /\ IsMem(Split(m, c, size))
           /\ WellLinked(Split(m, c, size), hi)
           /\ IsCut(m, Split(m, c, size), c, c + HeaderSize + size)
<1> DEFINE t == c + HeaderSize + size
           s == Split(m, c, size)
<1> USE MemoryAssumption DEF NULL
<1>1. /\ c \in Nat /\ t \in Nat /\ c < t /\ t + HeaderSize <= End(m, c)
      /\ t # 0
  BY DEF IsMem, Chunk, End
<1>2. t \notin DOMAIN m
  BY <1>1 DEF IsMem, Chunk, End, WellLinked, Apart
<1>3. DOMAIN s = DOMAIN m \cup {t}
  BY DEF Split
<1>4. s[t] = [next |-> m[c].next, prev |-> c, allocated |-> FALSE,
              size |-> m[c].size - size - HeaderSize]
  BY DEF Split
<1>5. s[c] = [next |-> t, prev |-> m[c].prev, allocated |-> m[c].allocated,
              size |-> size]
  BY <1>1 DEF Split
<1>6. ASSUME NEW a \in DOMAIN m, a # c
      PROVE  /\ s[a] = IF a = m[c].next THEN [m[a] EXCEPT !.prev = t] ELSE m[a]
             /\ s[a].next = m[a].next
             /\ s[a].allocated = m[a].allocated
             /\ s[a].size = m[a].size
             /\ s[a].prev = IF a = m[c].next THEN t ELSE m[a].prev
             /\ s[a] \in Chunk
  BY <1>1, <1>2, <1>6 DEF Split, IsMem, Chunk
<1>7. s[t] \in Chunk /\ s[c] \in Chunk
  BY <1>1, <1>4, <1>5 DEF IsMem, Chunk
<1>8. IsMem(s)
  BY <1>1, <1>3, <1>6, <1>7 DEF IsMem, Split
<1>9. /\ End(s, t) = End(m, c)
      /\ End(s, c) = t
      /\ \A a \in DOMAIN m \ {c} : End(s, a) = End(m, a)
  <2>1. m[c].size \in Nat
    BY Fields
  <2>2. s[t].size = m[c].size - size - HeaderSize /\ s[c].size = size
    BY <1>4, <1>5
  <2>3. End(s, t) = End(m, c)
    BY <2>1, <2>2, <1>1 DEF End
  <2>4. End(s, c) = t
    BY <2>2, <1>1 DEF End
  <2>5. \A a \in DOMAIN m \ {c} : End(s, a) = End(m, a)
    BY <1>6 DEF End
  <2> QED BY <2>3, <2>4, <2>5
<1>10. \A a \in DOMAIN s : Within(s, hi, a)
  BY <1>1, <1>3, <1>9 DEF WellLinked, Within, IsMem, Chunk, End
<1>11. ASSUME NEW a \in DOMAIN s PROVE Next2Prev(s, hi, a)
  <2>1. CASE a = t
    BY <2>1, <1>1, <1>2, <1>3, <1>4, <1>6, <1>9 DEF WellLinked, Next2Prev, IsMem, Chunk, End
  <2>2. CASE a = c
    BY <2>2, <1>1, <1>3, <1>4, <1>5, <1>9 DEF WellLinked, Next2Prev
  <2>3. CASE a # t /\ a # c
    <3>1. a \in DOMAIN m /\ Next2Prev(m, hi, a) /\ Next2Prev(m, hi, c)
      BY <2>3, <1>3 DEF WellLinked
    <3>2. a # 0 /\ s[a].next = m[a].next /\ End(s, a) = End(m, a)
      BY <2>3, <3>1, <1>6, <1>9 DEF IsMem
    <3>3. CASE m[a].next = 0
      BY <3>1, <3>2, <3>3 DEF Next2Prev
    <3>4. CASE m[a].next = c /\ m[a].next # 0
      BY <3>1, <3>2, <3>4, <1>3, <1>5 DEF Next2Prev
    <3>5. CASE m[a].next # c /\ m[a].next # 0
      <4>1. m[a].next \in DOMAIN m /\ m[m[a].next].prev = a
        BY <3>1, <3>5 DEF Next2Prev
      <4>2. m[a].next # m[c].next
        BY <2>3, <3>1, <4>1, <3>5 DEF Next2Prev
      <4>3. s[m[a].next].prev = a
        BY <4>1, <4>2, <3>5, <1>6
      <4> QED BY <3>1, <3>2, <3>5, <4>1, <4>3, <1>3 DEF Next2Prev
    <3> QED BY <3>3, <3>4, <3>5
  <2> QED BY <2>1, <2>2, <2>3
<1>12. ASSUME NEW a \in DOMAIN s PROVE Prev2Next(s, a)
  <2>1. CASE a = t
    BY <2>1, <1>1, <1>3, <1>4, <1>5 DEF Prev2Next, IsMem
  <2>2. CASE a = c
    <3>1. Prev2Next(m, c) /\ (m[c].prev # 0 => m[c].prev # c)
      <4>1. Prev2Next(m, c) /\ Next2Prev(m, hi, c)
        BY DEF WellLinked
      <4> QED BY <4>1, <1>1 DEF Prev2Next, Next2Prev, End, IsMem, Chunk
    <3> QED BY <2>2, <3>1, <1>3, <1>5, <1>6 DEF Prev2Next, IsMem
  <2>3. CASE a # t /\ a # c
    <3>1. a \in DOMAIN m /\ Prev2Next(m, a)
      BY <2>3, <1>3 DEF WellLinked
    <3>2. CASE a = m[c].next
      BY <3>1, <3>2, <2>3, <1>1, <1>3, <1>4, <1>6 DEF Prev2Next
    <3>3. CASE a # m[c].next
      BY <3>1, <3>3, <2>3, <1>3, <1>6 DEF Prev2Next
    <3> QED BY <3>2, <3>3
  <2> QED BY <2>1, <2>2, <2>3
<1>13. ASSUME NEW a \in DOMAIN s, NEW b \in DOMAIN s PROVE Apart(s, a, b)
  <2>1. CASE a \in DOMAIN m /\ b \in DOMAIN m
    BY <2>1, <1>1, <1>9 DEF WellLinked, Apart, IsMem, End, Chunk
  <2>2. CASE a = t /\ b \in DOMAIN m
    <3>1. b # c => Apart(m, b, c) /\ Apart(m, c, b)
      BY <2>2 DEF WellLinked
    <3>2. b \in Nat /\ End(m, b) > b
      BY <2>2, Fields
    <3> QED BY <2>2, <3>1, <3>2, <1>1, <1>9 DEF Apart
  <2>3. CASE b = t /\ a \in DOMAIN m
    <3>1. a # c => Apart(m, a, c) /\ Apart(m, c, a)
      BY <2>3 DEF WellLinked
    <3>2. a \in Nat /\ End(m, a) \in Nat /\ End(m, a) > a /\ End(m, c) \in Nat
      BY <2>3, Fields
    <3> QED BY <2>3, <3>1, <3>2, <1>1, <1>9 DEF Apart
  <2>4. CASE a = t /\ b = t
    BY <2>4, <1>1 DEF Apart
  <2> QED BY <2>1, <2>2, <2>3, <2>4, <1>3
<1>14. WellLinked(s, hi)
  BY <1>10, <1>11, <1>12, <1>13 DEF WellLinked
<1>15. IsCut(m, s, c, t)
  <2>1. \A a \in DOMAIN m \ {c} : Keeps(m, s, a)
    BY <1>6 DEF Keeps
  <2>2. s[c].size = t - HeaderSize - c
    BY <1>1, <1>5
  <2> QED BY <2>1, <2>2, <1>3, <1>4, <1>5 DEF IsCut
<1> QED BY <1>2, <1>8, <1>14, <1>15

\* Joining a chunk with the one after it keeps the list well linked.
LEMMA AbsorbLinked ==
    ASSUME NEW m, IsMem(m),
           NEW hi \in Nat, WellLinked(m, hi),
           NEW c \in DOMAIN m, m[c].next # NULL
    PROVE  /\ m[c].next \in DOMAIN m /\ c # m[c].next /\ m[c].next # Start
           /\ IsMem(Absorb(m, c))
           /\ WellLinked(Absorb(m, c), hi)
           /\ IsJoin(m, Absorb(m, c), c)
<1> DEFINE g == m[c].next
           s == Absorb(m, c)
<1> USE MemoryAssumption DEF NULL
<1>1. g \in DOMAIN m /\ g = End(m, c) /\ m[g].prev = c /\ c < g /\ c # g
  <2>1. Next2Prev(m, hi, c)
    BY DEF WellLinked
  <2> QED BY <2>1, Fields DEF Next2Prev
<1>2. DOMAIN s = DOMAIN m \ {g} /\ c \in DOMAIN s
  BY <1>1 DEF Absorb
<1>3. /\ m[g].next # c /\ m[g].next # g
      /\ m[g].next # 0 => m[g].next \in DOMAIN m /\ m[m[g].next].prev = g
  <2>1. Next2Prev(m, hi, g)
    BY <1>1 DEF WellLinked
  <2>2. g < End(m, g) /\ c \in Nat /\ c # 0 /\ g \in Nat /\ g # 0 /\ End(m, g) \in Nat
    BY <1>1, Fields
  <2> QED BY <2>1, <2>2, <1>1 DEF Next2Prev
<1>4. s[c] = [next |-> m[g].next, prev |-> m[c].prev,
              allocated |-> m[c].allocated,
              size |-> m[c].size + HeaderSize + m[g].size]
  BY <1>1 DEF Absorb
<1>5. ASSUME NEW a \in DOMAIN m, a # c, a # g
      PROVE  /\ s[a].next = m[a].next
             /\ s[a].allocated = m[a].allocated
             /\ s[a].size = m[a].size
             /\ s[a].prev = IF a = m[g].next THEN c ELSE m[a].prev
             /\ s[a] \in Chunk
  <2>1. s[a] = IF a = m[g].next THEN [m[a] EXCEPT !.prev = c] ELSE m[a]
    BY <1>5 DEF Absorb
  <2>2. m[a] \in Chunk /\ c \in Nat
    BY Fields
  <2> QED BY <2>1, <2>2 DEF Chunk
<1>6. IsMem(s)
  <2>1. s[c] \in Chunk
    BY <1>1, <1>4, Fields DEF Chunk
  <2>2. DOMAIN s \subseteq Nat \ {0}
    BY <1>2 DEF IsMem
  <2>3. \A a \in DOMAIN s : s[a] \in Chunk
    BY <2>1, <1>2, <1>5
  <2> QED BY <2>2, <2>3 DEF IsMem, Absorb
<1>7. /\ End(s, c) = End(m, g)
      /\ \A a \in DOMAIN m : a # c /\ a # g => End(s, a) = End(m, a)
  <2>1. s[c].size = m[c].size + HeaderSize + m[g].size
    BY <1>4
  <2>2. m[c].size \in Nat /\ m[g].size \in Nat /\ c \in Nat /\ g = c + HeaderSize + m[c].size
    BY <1>1, Fields
  <2>3. End(s, c) = End(m, g)
    BY <2>1, <2>2 DEF End
  <2>4. \A a \in DOMAIN m : a # c /\ a # g => End(s, a) = End(m, a)
    BY <1>5 DEF End
  <2> QED BY <2>3, <2>4
<1>8. ASSUME NEW a \in DOMAIN s PROVE Within(s, hi, a)
  <2>1. a \in DOMAIN m /\ a # g
    BY <1>2
  <2>2. Within(m, hi, a) /\ Within(m, hi, g)
    BY <2>1, <1>1 DEF WellLinked
  <2> QED BY <2>1, <2>2, <1>7 DEF Within
<1>9. ASSUME NEW a \in DOMAIN s PROVE Next2Prev(s, hi, a)
  <2>1. CASE a = c
    <3>1. Next2Prev(m, hi, g)
      BY <1>1 DEF WellLinked
    <3> QED BY <2>1, <3>1, <1>2, <1>3, <1>4, <1>5, <1>7 DEF Next2Prev
  <2>2. CASE a # c
    <3>1. a \in DOMAIN m /\ a # g /\ Next2Prev(m, hi, a) /\ Next2Prev(m, hi, g) /\ a # 0
      BY <2>2, <1>1, <1>2, Fields DEF WellLinked
    <3>2. s[a].next = m[a].next /\ End(s, a) = End(m, a)
      BY <2>2, <3>1, <1>5, <1>7
    <3>3. CASE m[a].next = 0
      BY <3>1, <3>2, <3>3 DEF Next2Prev
    <3>4. CASE m[a].next = c /\ m[a].next # 0
      BY <3>1, <3>2, <3>4, <1>2, <1>4 DEF Next2Prev
    <3>5. CASE m[a].next # c /\ m[a].next # 0
      <4>1. m[a].next \in DOMAIN m /\ m[m[a].next].prev = a /\ m[a].next # g
        BY <2>2, <3>1, <3>5, <1>1 DEF Next2Prev
      <4>2. m[a].next # m[g].next
        BY <3>1, <4>1, <1>3, <3>5
      <4>3. s[m[a].next].prev = a
        BY <4>1, <4>2, <3>5, <1>5
      <4> QED BY <3>1, <3>2, <3>5, <4>1, <4>3, <1>2 DEF Next2Prev
    <3> QED BY <3>3, <3>4, <3>5
  <2> QED BY <2>1, <2>2
<1>10. ASSUME NEW a \in DOMAIN s PROVE Prev2Next(s, a)
  <2>1. a \in DOMAIN m /\ a # g /\ Prev2Next(m, a) /\ a # 0 /\ c # 0
    BY <1>2, Fields DEF WellLinked
  <2>2. CASE a = c
    <3>1. m[c].prev # 0 => m[c].prev # c /\ m[c].prev # g
      BY <2>1, <2>2, <1>1, <1>3 DEF Prev2Next
    <3> QED BY <2>1, <2>2, <3>1, <1>2, <1>4, <1>5 DEF Prev2Next
  <2>3. CASE a # c /\ a = m[g].next
    <3>1. s[a].prev = c /\ s[c].next = a
      BY <2>1, <2>3, <1>4, <1>5
    <3> QED BY <2>1, <3>1, <1>2 DEF Prev2Next
  <2>4. CASE a # c /\ a # m[g].next
    <3>1. s[a].prev = m[a].prev
      BY <2>1, <2>4, <1>5
    <3>2. m[a].prev # 0 => m[a].prev # g /\ m[a].prev # c
      BY <2>1, <2>4 DEF Prev2Next
    <3> QED BY <2>1, <3>1, <3>2, <1>2, <1>5 DEF Prev2Next
  <2> QED BY <2>2, <2>3, <2>4
<1>11. ASSUME NEW a \in DOMAIN s, NEW b \in DOMAIN s PROVE Apart(s, a, b)
  <2>1. a \in DOMAIN m /\ b \in DOMAIN m /\ b # g /\ a # g
    BY <1>2
  <2>2. Apart(m, a, b) /\ Apart(m, g, b) /\ Apart(m, b, g)
    BY <2>1, <1>1 DEF WellLinked
  <2>3. /\ a \in Nat /\ b \in Nat /\ c \in Nat /\ g \in Nat
        /\ b < End(m, b) /\ End(m, b) \in Nat
    BY <2>1, <1>1, Fields
  <2>4. CASE a = c
    BY <2>1, <2>2, <2>3, <2>4, <1>1, <1>7 DEF Apart
  <2>5. CASE a # c
    BY <2>1, <2>2, <2>5, <1>7 DEF Apart
  <2> QED BY <2>4, <2>5
<1>12. WellLinked(s, hi)
  BY <1>8, <1>9, <1>10, <1>11 DEF WellLinked
<1>13. IsJoin(m, s, c)
  <2>1. \A a \in DOMAIN m \ {c, g} : Keeps(m, s, a)
    BY <1>5 DEF Keeps
  <2> QED BY <2>1, <1>2, <1>4 DEF IsJoin
<1>14. g # Start
  <2>1. Within(m, hi, c) /\ c \in Nat /\ g \in Nat
    BY <1>1, Fields DEF WellLinked
  <2> QED BY <2>1, <1>1 DEF Within
<1> QED BY <1>1, <1>6, <1>12, <1>13, <1>14

\* Setting the flag of one chunk changes nothing else.
LEMMA MarkLinked ==
    ASSUME NEW m, IsMem(m),
           NEW hi \in Nat, WellLinked(m, hi),
           NEW c \in DOMAIN m, NEW taken \in BOOLEAN
    PROVE  /\ IsMem(Mark(m, c, taken))
           /\ WellLinked(Mark(m, c, taken), hi)
           /\ IsMarked(m, Mark(m, c, taken), c, taken)
<1> DEFINE s == Mark(m, c, taken)
<1>1. DOMAIN s = DOMAIN m
  BY DEF Mark
<1>2. s[c] = [m[c] EXCEPT !.allocated = taken]
  BY DEF Mark
<1>3. \A a \in DOMAIN m : a # c => s[a] = m[a]
  BY DEF Mark
<1>4. m[c] \in Chunk
  BY Fields
<1>5. s[c].allocated = taken /\ s[c] \in Chunk
  BY <1>2, <1>4 DEF Chunk
<1>6. \A a \in DOMAIN m : /\ s[a].next = m[a].next
                          /\ s[a].prev = m[a].prev
                          /\ s[a].size = m[a].size
  BY <1>2, <1>3, <1>4 DEF Chunk
<1>7. \A a \in DOMAIN m : End(s, a) = End(m, a)
  BY <1>6 DEF End
<1>8. IsMem(s)
  <2>1. \A a \in DOMAIN s : s[a] \in Chunk
    BY <1>1, <1>3, <1>5, Fields
  <2> QED BY <2>1, <1>1 DEF IsMem, Mark
<1>9. WellLinked(s, hi)
  <2>1. \A a \in DOMAIN s : Within(s, hi, a)
    BY <1>1, <1>7 DEF WellLinked, Within
  <2>2. ASSUME NEW a \in DOMAIN s PROVE Next2Prev(s, hi, a)
    <3>1. Next2Prev(m, hi, a)
      BY <1>1 DEF WellLinked
    <3> QED BY <3>1, <1>1, <1>6, <1>7 DEF Next2Prev
  <2>3. ASSUME NEW a \in DOMAIN s PROVE Prev2Next(s, a)
    <3>1. Prev2Next(m, a)
      BY <1>1 DEF WellLinked
    <3> QED BY <3>1, <1>1, <1>6 DEF Prev2Next
  <2>4. \A a, b \in DOMAIN s : Apart(s, a, b)
    BY <1>1, <1>7 DEF WellLinked, Apart
  <2> QED BY <2>1, <2>2, <2>3, <2>4 DEF WellLinked
<1>10. IsMarked(m, s, c, taken)
  BY <1>1, <1>3, <1>5, <1>6 DEF IsMarked
<1> QED BY <1>8, <1>9, <1>10

\* size_t does not wrap in the test for splitting: a chunk that fits is
\* itself in memory, so there is room for the sum below Word.
LEMMA NoWrap ==
    ASSUME NEW m, IsMem(m),
           NEW hi \in Nat, WellLinked(m, hi), hi <= Word,
           NEW c \in DOMAIN m, NEW size \in Nat, m[c].size > size
    PROVE  Wrap(size + HeaderSize + 1) = size + HeaderSize + 1
<1>1. Start <= c /\ End(m, c) <= hi
  BY DEF WellLinked, Within
<1>2. c \in Nat /\ m[c].size \in Nat /\ End(m, c) = c + HeaderSize + m[c].size
  BY Fields
<1>3. size + HeaderSize + 1 < Word
  BY <1>1, <1>2, MemoryAssumption
<1> QED BY <1>3 DEF Wrap

\* m and s have the same chunks in use, but for the chunk at c.
SameInUse(m, s, c) ==
    /\ \A a \in DOMAIN m \ {c} :
          m[a].allocated =>
              a \in DOMAIN s /\ s[a].allocated /\ s[a].size = m[a].size
    /\ \A a \in DOMAIN s \ {c} :
          s[a].allocated => a \in DOMAIN m /\ m[a].allocated

NoFreePairs(m) == \A a \in DOMAIN m : NoFreePair(m, a)

\* What malloc does to the list once it has found a chunk: the chunk is
\* taken, is large enough, and no other chunk in use is touched.
LEMMA PlaceGood ==
    ASSUME NEW m, IsMem(m),
           NEW hi \in Nat, WellLinked(m, hi), hi <= Word, NoFreePairs(m),
           NEW c \in DOMAIN m, NEW size \in Nat, Fits(m[c], size)
    PROVE  /\ IsMem(Place(m, c, size))
           /\ WellLinked(Place(m, c, size), hi)
           /\ NoFreePairs(Place(m, c, size))
           /\ SameInUse(m, Place(m, c, size), c)
           /\ DOMAIN m \subseteq DOMAIN Place(m, c, size)
           /\ Place(m, c, size)[c].allocated
           /\ size <= Place(m, c, size)[c].size
<1> DEFINE t == c + HeaderSize + size
           s == Split(m, c, size)
           p == Place(m, c, size)
<1>1. m[c].size > size /\ ~m[c].allocated /\ m[c].size \in Nat
  BY Fields DEF Fits
<1>2. CASE Splits(m[c], size)
  <2>1. size + HeaderSize + 1 <= m[c].size
    BY <1>1, <1>2, NoWrap, MemoryAssumption DEF Splits
  <2>2. size + HeaderSize <= m[c].size
    BY <2>1, <1>1, MemoryAssumption
  <2>3. /\ t \notin DOMAIN m /\ IsMem(s) /\ WellLinked(s, hi)
        /\ IsCut(m, s, c, t)
    BY <2>2, SplitLinked
  <2>4. p = Mark(s, c, TRUE)
    BY <1>2 DEF Place
  <2>5. c \in DOMAIN s /\ c # t /\ t - HeaderSize - c = size
    BY <2>3, Fields, MemoryAssumption DEF IsCut
  <2> HIDE DEF p, s, t
  <2>6. IsMem(p) /\ WellLinked(p, hi) /\ IsMarked(s, p, c, TRUE)
    BY <2>3, <2>4, <2>5, MarkLinked
  <2>7. /\ DOMAIN p = DOMAIN m \cup {t}
        /\ p[c].allocated = TRUE /\ p[c].next = t /\ p[c].size = size
    BY <2>3, <2>5, <2>6 DEF IsCut, IsMarked
  <2>8. p[t].allocated = FALSE /\ p[t].next = m[c].next
    BY <2>3, <2>5, <2>6 DEF IsCut, IsMarked
  <2>9. \A a \in DOMAIN m \ {c} : Keeps(m, p, a)
    BY <2>3, <2>5, <2>6 DEF IsCut, IsMarked, Keeps
  <2>10. ASSUME NEW a \in DOMAIN p PROVE NoFreePair(p, a)
    <3>1. CASE a = c
      BY <3>1, <2>7 DEF NoFreePair
    <3>2. CASE a = t
      <4>1. Next2Prev(m, hi, c) /\ NoFreePair(m, c)
        BY DEF WellLinked, NoFreePairs
      <4>2. CASE m[c].next = NULL
        BY <3>2, <4>2, <2>8 DEF NoFreePair
      <4>3. CASE m[c].next # NULL
        <5>1. m[c].next \in DOMAIN m /\ m[c].next # c /\ m[m[c].next].allocated
          BY <4>1, <4>3, <1>1, Fields DEF Next2Prev, NoFreePair
        <5> QED BY <3>2, <5>1, <2>8, <2>9 DEF NoFreePair, Keeps
      <4> QED BY <4>2, <4>3
    <3>3. CASE a # c /\ a # t
      <4>1. a \in DOMAIN m /\ Next2Prev(m, hi, a) /\ NoFreePair(m, a) /\ Keeps(m, p, a)
        BY <3>3, <2>7, <2>9 DEF WellLinked, NoFreePairs
      <4> QED BY <3>3, <4>1, <2>7, <2>9 DEF NoFreePair, Next2Prev, Keeps
    <3> QED BY <3>1, <3>2, <3>3
  <2>11. SameInUse(m, p, c)
    BY <2>7, <2>8, <2>9 DEF SameInUse, Keeps
  <2>12. size <= p[c].size
    BY <2>7
  <2>13. DOMAIN m \subseteq DOMAIN p
    BY <2>7
  <2>14. NoFreePairs(p)
    BY <2>10 DEF NoFreePairs
  <2> QED BY <2>6, <2>7, <2>11, <2>12, <2>13, <2>14 DEF p
<1>3. CASE ~Splits(m[c], size)
  <2>1. p = Mark(m, c, TRUE)
    BY <1>3 DEF Place
  <2> HIDE DEF p
  <2>2. IsMem(p) /\ WellLinked(p, hi) /\ IsMarked(m, p, c, TRUE)
    BY <2>1, MarkLinked
  <2>3. ASSUME NEW a \in DOMAIN p PROVE NoFreePair(p, a)
    <3>1. a \in DOMAIN m /\ Next2Prev(m, hi, a) /\ NoFreePair(m, a)
      BY <2>2 DEF WellLinked, NoFreePairs, IsMarked
    <3> QED BY <3>1, <2>2 DEF NoFreePair, Next2Prev, IsMarked
  <2>4. size <= p[c].size
    BY <1>1, <2>2 DEF IsMarked
  <2>5. SameInUse(m, p, c)
    BY <2>2 DEF IsMarked, SameInUse
  <2>6. DOMAIN m \subseteq DOMAIN p /\ p[c].allocated
    BY <2>2 DEF IsMarked
  <2>7. NoFreePairs(p)
    BY <2>3 DEF NoFreePairs
  <2> QED BY <2>2, <2>4, <2>5, <2>6, <2>7 DEF p
<1> QED BY <1>2, <1>3

\* What free does to the list: the chunk is free or merged away, no other
\* chunk in use is touched, and no two free chunks are neighbours again.
LEMMA FreedGood ==
    ASSUME NEW m, IsMem(m),
           NEW hi \in Nat, WellLinked(m, hi), NoFreePairs(m),
           NEW c \in DOMAIN m, m[c].allocated
    PROVE  /\ IsMem(Freed(m, c))
           /\ WellLinked(Freed(m, c), hi)
           /\ NoFreePairs(Freed(m, c))
           /\ SameInUse(m, Freed(m, c), c)
           /\ c \in DOMAIN Freed(m, c) => ~Freed(m, c)[c].allocated
           /\ Start \in DOMAIN m => Start \in DOMAIN Freed(m, c)
<1> DEFINE m1 == Mark(m, c, FALSE)
           m2 == MergeBack(m1, c)
           d  == Survivor(m1, c)
           m3 == MergeNext(m2, d)
<1>1. IsMem(m1) /\ WellLinked(m1, hi) /\ IsMarked(m, m1, c, FALSE)
  BY MarkLinked
<1>2. m3 = Freed(m, c)
  BY DEF Freed
<1>3. c \in DOMAIN m1 /\ DOMAIN m1 = DOMAIN m /\ m1[c].allocated = FALSE
  BY <1>1 DEF IsMarked
<1> HIDE DEF m1
\* After the first merge: one free chunk d, and no free pair but at d.
<1>4. /\ IsMem(m2) /\ WellLinked(m2, hi)
      /\ d \in DOMAIN m2 /\ ~m2[d].allocated
      /\ \A a \in DOMAIN m2 : a # d => NoFreePair(m2, a)
      /\ SameInUse(m, m2, c)
      /\ c \in DOMAIN m2 => c = d
      /\ Start \in DOMAIN m => Start \in DOMAIN m2
  <2>1. CASE FreeAt(m1, m1[c].prev)
    <3> DEFINE q == m1[c].prev
    <3>1. q \in DOMAIN m1 /\ m1[q].next = c /\ ~m1[q].allocated /\ c # NULL
      <4>1. Prev2Next(m1, c) /\ c # NULL
        BY <1>1, <1>3, Fields DEF WellLinked, NULL
      <4> QED BY <4>1, <2>1 DEF Prev2Next, FreeAt
    <3>2. m2 = Absorb(m1, q) /\ d = q
      BY <2>1 DEF MergeBack, Survivor
    <3> HIDE DEF q, m2, d
    <3>3. /\ IsMem(m2) /\ WellLinked(m2, hi) /\ IsJoin(m1, m2, q)
          /\ q # c /\ c # Start
      BY <3>1, <3>2, <1>1, AbsorbLinked
    <3>4. DOMAIN m2 = DOMAIN m \ {c} /\ q \in DOMAIN m2 /\ ~m2[q].allocated
      BY <3>1, <3>3, <1>3 DEF IsJoin
    <3>5. \A a \in DOMAIN m2 : a # q => Keeps(m1, m2, a)
      BY <3>1, <3>3, <3>4, <1>3 DEF IsJoin
    <3>6. ASSUME NEW a \in DOMAIN m2, a # q PROVE NoFreePair(m2, a)
      <4> DEFINE n == m1[a].next
      <4>1. /\ a \in DOMAIN m /\ a # c /\ NoFreePair(m, a) /\ Next2Prev(m1, hi, a)
            /\ m2[a].next = n /\ m2[a].allocated = m[a].allocated /\ m[a].next = n
        BY <3>4, <3>5, <3>6, <1>1, <1>3 DEF WellLinked, NoFreePairs, IsMarked, Keeps
      <4>2. CASE n = NULL
        BY <4>1, <4>2 DEF NoFreePair
      <4>3. CASE n # NULL
        <5>1. n \in DOMAIN m1 /\ m1[n].prev = a
          BY <4>1, <4>3 DEF Next2Prev
        <5>2. n # c
          BY <5>1, <3>6 DEF q
        <5>3. m2[n].allocated = m[n].allocated
          <6>1. m1[n] = m[n]
            BY <5>1, <5>2, <1>1, <1>3 DEF IsMarked
          <6> QED BY <6>1, <5>1, <5>2, <3>1, <3>3, <3>4, <3>5, <1>3 DEF Keeps, IsJoin
        <5> QED BY <4>1, <5>3 DEF NoFreePair
      <4> QED BY <4>2, <4>3
    <3>7. SameInUse(m, m2, c)
      <4>1. ~m[q].allocated
        BY <3>1, <3>3, <1>1, <1>3 DEF IsMarked
      <4> QED BY <4>1, <3>4, <3>5, <1>1, <1>3 DEF SameInUse, IsMarked, Keeps
    <3> QED BY <3>2, <3>3, <3>4, <3>6, <3>7
  <2>2. CASE ~FreeAt(m1, m1[c].prev)
    <3>1. m2 = m1 /\ d = c
      BY <2>2 DEF MergeBack, Survivor
    <3> HIDE DEF m2, d
    <3>2. ASSUME NEW a \in DOMAIN m1, a # c PROVE NoFreePair(m1, a)
      <4>1. /\ NoFreePair(m, a) /\ Next2Prev(m1, hi, a) /\ a # NULL
            /\ m1[a] = m[a]
        BY <3>2, <1>1, <1>3, Fields DEF WellLinked, NoFreePairs, IsMarked, NULL
      <4>2. CASE m1[a].next = c
        <5>1. m1[c].prev = a
          BY <4>1, <4>2, <1>1, <1>3, Fields DEF Next2Prev, NULL
        <5> QED BY <5>1, <4>1, <2>2 DEF FreeAt, NoFreePair
      <4>3. CASE m1[a].next # c
        BY <4>1, <4>3, <1>1, <1>3 DEF Next2Prev, NoFreePair, IsMarked
      <4> QED BY <4>2, <4>3
    <3>3. SameInUse(m, m1, c)
      BY <1>1 DEF SameInUse, IsMarked
    <3> QED BY <3>1, <3>2, <3>3, <1>1, <1>3
  <2> QED BY <2>1, <2>2
<1> HIDE DEF m2, d
<1>5. /\ IsMem(m3) /\ WellLinked(m3, hi) /\ NoFreePairs(m3)
      /\ SameInUse(m, m3, c)
      /\ c \in DOMAIN m3 => ~m3[c].allocated
      /\ Start \in DOMAIN m => Start \in DOMAIN m3
  <2>1. CASE FreeAt(m2, m2[d].next)
    <3> DEFINE g == m2[d].next
    <3>1. m3 = Absorb(m2, d) /\ g # NULL /\ ~m2[g].allocated
      BY <2>1 DEF MergeNext, FreeAt
    <3> HIDE DEF m3
    <3>2. /\ IsMem(m3) /\ WellLinked(m3, hi) /\ IsJoin(m2, m3, d)
          /\ g \in DOMAIN m2 /\ g # d /\ g # Start
      BY <3>1, <1>4, AbsorbLinked
    <3> HIDE DEF g
    <3>3. /\ DOMAIN m3 = DOMAIN m2 \ {g} /\ ~m3[d].allocated
          /\ m3[d].next = m2[g].next
          /\ \A a \in DOMAIN m3 : a # d => Keeps(m2, m3, a)
      BY <3>2, <1>4 DEF IsJoin, g
    <3>4. ASSUME NEW a \in DOMAIN m3 PROVE NoFreePair(m3, a)
      <4>1. CASE a = d
        <5>1. NoFreePair(m2, g) /\ Next2Prev(m2, hi, g) /\ Next2Prev(m2, hi, d)
          BY <3>2, <1>4 DEF WellLinked
        <5>2. g < End(m2, g) /\ d < End(m2, d) /\ d \in Nat /\ g \in Nat /\ d # 0
              /\ End(m2, g) \in Nat /\ g # 0
          BY <3>2, <1>4, Fields
        <5>3. m2[g].next # NULL =>
                 m2[g].next \in DOMAIN m2 /\ m2[m2[g].next].allocated
                 /\ m2[g].next # g /\ m2[g].next # d
          <6>1. ASSUME m2[g].next # NULL
                PROVE  /\ m2[g].next \in DOMAIN m2
                       /\ m2[g].next = End(m2, g) /\ m2[m2[g].next].prev = g
                       /\ m2[m2[g].next].allocated
            BY <6>1, <5>1, <3>1 DEF NoFreePair, Next2Prev, NULL, g
          <6>2. g = End(m2, d)
            BY <5>1, <3>1 DEF Next2Prev, NULL, g
          <6> QED BY <6>1, <6>2, <5>2
        <5> QED BY <4>1, <5>3, <3>3 DEF NoFreePair, Keeps
      <4>2. CASE a # d
        <5>1. /\ a \in DOMAIN m2 /\ NoFreePair(m2, a) /\ Next2Prev(m2, hi, a)
              /\ Keeps(m2, m3, a) /\ a # g
          BY <4>2, <3>3, <1>4 DEF WellLinked
        <5>2. Next2Prev(m2, hi, d)
          BY <1>4 DEF WellLinked
        <5>3. m2[a].next # NULL => m2[a].next # g /\ m2[a].next \in DOMAIN m3
          BY <5>1, <5>2, <4>2, <3>1, <3>3 DEF Next2Prev, g
        <5> QED BY <5>1, <5>3, <3>3, <1>4 DEF NoFreePair, Keeps
      <4> QED BY <4>1, <4>2
    <3>5. SameInUse(m, m3, c)
      BY <3>1, <3>3, <1>4 DEF SameInUse, Keeps
    <3>6. c \in DOMAIN m3 => ~m3[c].allocated
      BY <3>3, <1>4
    <3>7. NoFreePairs(m3)
      BY <3>4 DEF NoFreePairs
    <3> QED BY <3>2, <3>3, <3>5, <3>6, <3>7, <1>4
  <2>2. CASE ~FreeAt(m2, m2[d].next)
    <3>1. m3 = m2
      BY <2>2 DEF MergeNext
    <3> HIDE DEF m3
    <3>2. NoFreePair(m2, d)
      BY <2>2 DEF FreeAt, NoFreePair
    <3>3. NoFreePairs(m3)
      BY <3>1, <3>2, <1>4 DEF NoFreePairs
    <3> QED BY <3>1, <3>3, <1>4
  <2> QED BY <2>1, <2>2
<1> QED BY <1>2, <1>5

------------------------------------------------------------------------------
(* The inductive invariant.                                                 *)

\* What each stage of the manager's life fixes.
Stages ==
    /\ top <= Word
    /\ pc = "static" => /\ ~active /\ top = 0 /\ first = NULL
                        /\ DOMAIN mem = {} /\ DOMAIN held = {}
    /\ pc = "search" => active
    /\ pc # "static" => Start <= top

\* malloc's loop stands on a chunk, and those it has passed do not fit.
Passed ==
    pc = "search" =>
        /\ chunk = NULL \/ chunk \in DOMAIN mem
        /\ \A a \in DOMAIN mem :
              chunk = NULL \/ a < chunk => ~Fits(mem[a], want)

IInv == TypeOK /\ HeapTiled /\ Coalesced /\ HeldIntact /\ Stages /\ Passed

\* The invariant holds before the constructor has run.
LEMMA InitIInv == Init => IInv
<1> SUFFICES ASSUME Init PROVE IInv
  OBVIOUS
<1> USE DEF Init, NULL
<1>1. 0 \in 0 .. Word - 1
  BY MemoryAssumption
<1>2. TypeOK
  BY <1>1 DEF TypeOK
<1>3. HeapTiled /\ Coalesced /\ HeldIntact
  BY DEF HeapTiled, WellLinked, Coalesced, HeldIntact
<1>4. Stages /\ Passed
  BY MemoryAssumption DEF Stages, Passed
<1> QED BY <1>2, <1>3, <1>4 DEF IInv

\* The constructor makes one free chunk of the heap, or none.
LEMMA ConstructIInv ==
    ASSUME IInv, NEW size \in HeapSizes, Construct(size) PROVE IInv'
<1> USE MemoryAssumption DEF NULL
<1>1. size \in Nat /\ Start + size <= Word
  OBVIOUS
<1>2. /\ pc = "static" /\ DOMAIN mem = {} /\ DOMAIN held = {} /\ first = 0
      /\ top' = Start + size /\ pc' = "idle" /\ active'
      /\ held' = held /\ chunk' = chunk /\ want' = want /\ result' = result
  BY DEF IInv, Stages, Construct
<1>3. CASE size < HeaderSize
  <2>1. mem' = mem /\ first' = 0
    BY <1>3 DEF Construct
  <2>2. TypeOK'
    BY <1>1, <1>2, <2>1 DEF IInv, TypeOK
  <2>3. HeapTiled' /\ Coalesced' /\ HeldIntact'
    BY <1>2, <2>1 DEF HeapTiled, WellLinked, Coalesced, HeldIntact
  <2>4. Stages' /\ Passed'
    BY <1>1, <1>2, <2>1 DEF Stages, Passed
  <2> QED BY <2>2, <2>3, <2>4 DEF IInv
<1>4. CASE ~(size < HeaderSize)
  <2>1. /\ first' = Start
        /\ mem' = [a \in {Start} |-> [next |-> 0, prev |-> 0, allocated |-> FALSE,
                                     size |-> size - HeaderSize]]
    BY <1>4 DEF Construct
  <2>2. /\ DOMAIN mem' = {Start} /\ mem'[Start].next = 0 /\ mem'[Start].prev = 0
        /\ mem'[Start].allocated = FALSE /\ mem'[Start].size = size - HeaderSize
        /\ mem'[Start] \in Chunk
    BY <2>1, <1>1, <1>4 DEF Chunk
  <2>3. IsMem(mem')
    BY <2>1, <2>2 DEF IsMem
  <2>4. End(mem', Start) = top'
    BY <1>1, <1>2, <2>2 DEF End
  <2>5. WellLinked(mem', top')
    <3>1. top' \in Nat /\ Start \in Nat
      BY <1>1, <1>2
    <3>2. \A a \in DOMAIN mem' : a = Start
      BY <2>2
    <3>3. \A a \in DOMAIN mem' : Within(mem', top', a)
      BY <3>1, <3>2, <2>4 DEF Within
    <3>4. \A a \in DOMAIN mem' : Next2Prev(mem', top', a) /\ Prev2Next(mem', a)
      BY <3>2, <2>2, <2>4 DEF Next2Prev, Prev2Next
    <3>5. \A a, b \in DOMAIN mem' : Apart(mem', a, b)
      BY <3>1, <3>2 DEF Apart
    <3> QED BY <3>3, <3>4, <3>5 DEF WellLinked
  <2>6. TypeOK'
    BY <1>1, <1>2, <2>1, <2>3 DEF IInv, TypeOK, IsMem
  <2>7. HeapTiled' /\ Coalesced' /\ HeldIntact'
    BY <1>2, <2>1, <2>2, <2>5 DEF HeapTiled, Coalesced, HeldIntact, NoFreePair
  <2>8. Stages' /\ Passed'
    BY <1>1, <1>2 DEF Stages, Passed
  <2> QED BY <2>6, <2>7, <2>8 DEF IInv
<1> QED BY <1>3, <1>4

\* A call of malloc begins at the first chunk.
LEMMA MallocIInv ==
    ASSUME IInv, NEW size \in Sizes, Malloc(size) PROVE IInv'
<1> USE MemoryAssumption DEF NULL
<1>1. /\ active /\ pc' = "search" /\ want' = size /\ chunk' = first
      /\ active' = active /\ first' = first /\ mem' = mem /\ top' = top
      /\ result' = result /\ held' = held /\ pc = "idle"
  BY DEF Malloc
<1>2. TypeOK'
  BY <1>1 DEF IInv, TypeOK
<1>3. HeapTiled' /\ Coalesced' /\ HeldIntact' /\ Stages'
  BY <1>1 DEF IInv, HeapTiled, Coalesced, HeldIntact, Stages
<1>4. Passed'
  <2>1. first # 0 => first = Start /\ Start \in DOMAIN mem /\ first \in Nat
    BY DEF IInv, HeapTiled
  <2>2. first = 0 => DOMAIN mem = {}
    BY DEF IInv, HeapTiled
  <2>3. \A a \in DOMAIN mem : a \in Nat /\ Start <= a
    BY DEF IInv, TypeOK, HeapTiled, WellLinked, Within
  <2> QED BY <1>1, <2>1, <2>2, <2>3 DEF Passed
<1> QED BY <1>2, <1>3, <1>4 DEF IInv

\* The loop goes past a chunk that does not fit.
LEMMA AdvanceIInv ==
    ASSUME IInv, Advance PROVE IInv'
<1> USE MemoryAssumption DEF NULL
<1>1. /\ pc = "search" /\ chunk # 0 /\ ~Fits(mem[chunk], want)
      /\ chunk' = mem[chunk].next
      /\ active' = active /\ first' = first /\ mem' = mem /\ top' = top
      /\ pc' = pc /\ want' = want /\ result' = result /\ held' = held
  BY DEF Advance
<1>2. IsMem(mem) /\ top \in Nat
  BY DEF IInv, TypeOK, IsMem
<1>3. chunk \in DOMAIN mem /\ chunk \in Nat /\ mem[chunk].next \in Nat
  BY <1>1, <1>2, Fields DEF IInv, Passed
<1>4. TypeOK'
  BY <1>1, <1>3 DEF IInv, TypeOK
<1>5. HeapTiled' /\ Coalesced' /\ HeldIntact' /\ Stages'
  BY <1>1 DEF IInv, HeapTiled, Coalesced, HeldIntact, Stages
<1>6. Passed'
  <2>1. Next2Prev(mem, top, chunk)
    BY <1>3 DEF IInv, HeapTiled, WellLinked
  <2>2. ASSUME NEW a \in DOMAIN mem, chunk' = 0 \/ a < chunk'
        PROVE  ~Fits(mem[a], want)
    <3>1. Within(mem, top, a) /\ Apart(mem, chunk, a)
      BY <1>3 DEF IInv, HeapTiled, WellLinked
    <3>2. /\ a \in Nat /\ End(mem, a) \in Nat /\ a < End(mem, a)
          /\ End(mem, chunk) \in Nat
      BY <1>2, <1>3, Fields
    <3>3. a < chunk \/ a = chunk
      BY <3>1, <3>2, <2>1, <2>2, <1>1, <1>2, <1>3 DEF Within, Apart, Next2Prev
    <3> QED BY <3>3, <1>1 DEF IInv, Passed
  <2>3. chunk' = 0 \/ chunk' \in DOMAIN mem
    BY <2>1, <1>1 DEF Next2Prev
  <2> QED BY <2>2, <2>3, <1>1 DEF Passed
<1> QED BY <1>4, <1>5, <1>6 DEF IInv

\* A chunk that fits is taken, and split where there is room.
LEMMA TakeIInv ==
    ASSUME IInv, Take PROVE IInv'
<1> USE MemoryAssumption DEF NULL
<1> DEFINE c == chunk
           ptr == chunk + HeaderSize
<1>1. /\ pc = "search" /\ c # 0 /\ Fits(mem[c], want)
      /\ mem' = Place(mem, c, want) /\ result' = ptr
      /\ held' = [p \in DOMAIN held \cup {ptr} |->
                     IF p = ptr THEN want ELSE held[p]]
      /\ pc' = "idle"
      /\ active' = active /\ first' = first /\ top' = top
      /\ want' = want /\ chunk' = chunk
  BY DEF Take
<1>2. /\ IsMem(mem) /\ top \in Nat /\ WellLinked(mem, top) /\ top <= Word
      /\ NoFreePairs(mem) /\ c \in DOMAIN mem /\ want \in Nat
  BY <1>1 DEF IInv, TypeOK, IsMem, HeapTiled, Stages, Coalesced, NoFreePairs, Passed
<1>3. /\ IsMem(mem') /\ WellLinked(mem', top) /\ NoFreePairs(mem')
      /\ SameInUse(mem, mem', c)
      /\ DOMAIN mem \subseteq DOMAIN mem'
      /\ mem'[c].allocated /\ want <= mem'[c].size
  BY <1>1, <1>2, PlaceGood
<1>4. c \in Nat /\ ptr \in Nat
  BY <1>2, Fields
<1> HIDE DEF c, ptr
<1>5. TypeOK'
  <2>1. /\ DOMAIN held' = DOMAIN held \cup {ptr}
        /\ held' \in [DOMAIN held' -> 0 .. Word - 1]
    BY <1>1 DEF IInv, TypeOK
  <2> QED BY <2>1, <1>1, <1>3, <1>4 DEF IInv, TypeOK, IsMem
<1>6. HeapTiled'
  BY <1>1, <1>2, <1>3 DEF IInv, HeapTiled
<1>7. Coalesced'
  BY <1>3 DEF Coalesced, NoFreePairs
<1>8. HeldIntact'
  <2>1. ASSUME NEW p \in DOMAIN held'
        PROVE  /\ p - HeaderSize \in DOMAIN mem'
               /\ mem'[p - HeaderSize].allocated
               /\ held'[p] <= mem'[p - HeaderSize].size
    <3>1. CASE p = ptr
      <4>1. p - HeaderSize = c /\ held'[p] = want
        BY <3>1, <1>1, <1>4 DEF ptr, c
      <4> QED BY <4>1, <1>2, <1>3
    <3>2. CASE p # ptr
      <4>1. p \in DOMAIN held /\ held'[p] = held[p] /\ p \in Nat
        BY <3>2, <1>1 DEF IInv, TypeOK
      <4>2. /\ p - HeaderSize \in DOMAIN mem /\ mem[p - HeaderSize].allocated
            /\ held[p] <= mem[p - HeaderSize].size
        BY <4>1 DEF IInv, HeldIntact
      <4>3. p - HeaderSize # c
        BY <3>2, <4>1, <1>4 DEF ptr, c
      <4> QED BY <4>1, <4>2, <4>3, <1>3 DEF SameInUse
    <3> QED BY <3>1, <3>2
  <2>2. ASSUME active', NEW a \in DOMAIN mem', mem'[a].allocated
        PROVE  a + HeaderSize \in DOMAIN held'
    <3>1. CASE a = c
      BY <3>1, <1>1 DEF ptr, c
    <3>2. CASE a # c
      <4>1. a \in DOMAIN mem /\ mem[a].allocated
        BY <3>2, <2>2, <1>3 DEF SameInUse
      <4>2. a + HeaderSize \in DOMAIN held
        BY <4>1, <2>2, <1>1 DEF IInv, HeldIntact
      <4> QED BY <4>2, <1>1
    <3> QED BY <3>1, <3>2
  <2> QED BY <2>1, <2>2 DEF HeldIntact
<1>9. Stages' /\ Passed'
  BY <1>1 DEF IInv, Stages, Passed
<1> QED BY <1>5, <1>6, <1>7, <1>8, <1>9 DEF IInv

\* A chunk is freed and merged with its neighbours.
LEMMA FreeIInv ==
    ASSUME IInv, NEW ptr \in DOMAIN held, Free(ptr) PROVE IInv'
<1> USE MemoryAssumption DEF NULL
<1> DEFINE c == ptr - HeaderSize
<1>1. /\ pc # "search" /\ pc' = pc
      /\ mem' = IF active THEN Freed(mem, c) ELSE mem
      /\ held' = [p \in DOMAIN held \ {ptr} |-> held[p]]
      /\ active' = active /\ first' = first /\ top' = top
      /\ want' = want /\ chunk' = chunk /\ result' = result
  BY DEF Free
<1>2. /\ IsMem(mem) /\ top \in Nat /\ WellLinked(mem, top)
      /\ NoFreePairs(mem) /\ ptr \in Nat
      /\ c \in DOMAIN mem /\ mem[c].allocated
  BY DEF IInv, TypeOK, IsMem, HeapTiled, Coalesced, NoFreePairs, HeldIntact
<1>3. /\ IsMem(mem') /\ WellLinked(mem', top) /\ NoFreePairs(mem')
      /\ SameInUse(mem, mem', c)
      /\ active => (c \in DOMAIN mem' => ~mem'[c].allocated)
      /\ Start \in DOMAIN mem => Start \in DOMAIN mem'
      /\ DOMAIN mem # {}
  <2>1. CASE active
    <3>1. mem' = Freed(mem, c)
      BY <2>1, <1>1
    <3> HIDE DEF c
    <3> QED BY <3>1, <1>2, FreedGood
  <2>2. CASE ~active
    <3>1. mem' = mem
      BY <2>2, <1>1
    <3> QED BY <2>2, <3>1, <1>2 DEF SameInUse
  <2> QED BY <2>1, <2>2
<1>4. TypeOK'
  <2>1. DOMAIN held' \subseteq DOMAIN held /\ held' \in [DOMAIN held' -> 0 .. Word - 1]
    BY <1>1 DEF IInv, TypeOK
  <2> QED BY <2>1, <1>1, <1>3 DEF IInv, TypeOK, IsMem
<1>5. HeapTiled'
  BY <1>1, <1>3 DEF IInv, HeapTiled
<1>6. Coalesced'
  BY <1>3 DEF Coalesced, NoFreePairs
<1>7. HeldIntact'
  <2>1. ASSUME NEW p \in DOMAIN held'
        PROVE  /\ p - HeaderSize \in DOMAIN mem'
               /\ mem'[p - HeaderSize].allocated
               /\ held'[p] <= mem'[p - HeaderSize].size
    <3>1. p \in DOMAIN held /\ p # ptr /\ held'[p] = held[p] /\ p \in Nat
      BY <1>1 DEF IInv, TypeOK
    <3>2. /\ p - HeaderSize \in DOMAIN mem /\ mem[p - HeaderSize].allocated
          /\ held[p] <= mem[p - HeaderSize].size
      BY <3>1 DEF IInv, HeldIntact
    <3>3. p - HeaderSize # c
      BY <3>1, <1>2
    <3> HIDE DEF c
    <3> QED BY <3>1, <3>2, <3>3, <1>3 DEF SameInUse
  <2>2. ASSUME active', NEW a \in DOMAIN mem', mem'[a].allocated
        PROVE  a + HeaderSize \in DOMAIN held'
    <3>1. a # c /\ active
      BY <2>2, <1>1, <1>3
    <3>2. a \in DOMAIN mem /\ mem[a].allocated /\ a \in Nat
      BY <3>1, <2>2, <1>2, <1>3 DEF SameInUse, IsMem
    <3>3. a + HeaderSize \in DOMAIN held /\ a + HeaderSize # ptr
      BY <3>1, <3>2, <1>2 DEF IInv, HeldIntact
    <3> QED BY <3>3, <1>1
  <2> QED BY <2>1, <2>2 DEF HeldIntact
<1>8. Stages'
  BY <1>1, <1>2 DEF IInv, Stages
<1>9. Passed'
  BY <1>1 DEF Passed
<1> QED BY <1>4, <1>5, <1>6, <1>7, <1>8, <1>9 DEF IInv

\* Every step keeps the inductive invariant.
LEMMA NextIInv == IInv /\ [Next]_vars => IInv'
<1> SUFFICES ASSUME IInv, [Next]_vars PROVE IInv'
  OBVIOUS
<1>1. ASSUME NEW size \in HeapSizes, Construct(size) PROVE IInv'
  BY <1>1, ConstructIInv
<1>2. CASE Destruct
  BY <1>2 DEF Destruct, IInv, TypeOK, HeapTiled, Coalesced, HeldIntact, Stages, Passed
<1>3. ASSUME NEW size \in Sizes, Malloc(size) PROVE IInv'
  BY <1>3, MallocIInv
<1>4. CASE NewWithoutManager
  BY <1>4 DEF NewWithoutManager, NULL, IInv, TypeOK, HeapTiled, Coalesced,
              HeldIntact, Stages, Passed
<1>5. CASE Advance
  BY <1>5, AdvanceIInv
<1>6. CASE Take
  BY <1>6, TakeIInv
<1>7. CASE Fail
  BY <1>7 DEF Fail, NULL, IInv, TypeOK, HeapTiled, Coalesced, HeldIntact,
              Stages, Passed
<1>8. ASSUME NEW ptr \in DOMAIN held, Free(ptr) PROVE IInv'
  BY <1>8, FreeIInv
<1>9. CASE UNCHANGED vars
  BY <1>9 DEF vars, IInv, TypeOK, HeapTiled, Coalesced, HeldIntact, Stages, Passed
<1> QED BY <1>1, <1>2, <1>3, <1>4, <1>5, <1>6, <1>7, <1>8, <1>9 DEF Next

------------------------------------------------------------------------------
(* What holds of every behaviour.                                           *)

\* The inductive invariant holds of every reachable state.
THEOREM Invariance == Spec => []IInv
<1>1. Init => IInv
  BY InitIInv
<1>2. IInv /\ [Next]_vars => IInv'
  BY NextIInv
<1> QED BY <1>1, <1>2, PTL DEF Spec

\* Every variable of the heap keeps to its range, whatever its size and the
\* requests.
THEOREM TypeCorrect == Spec => []TypeOK
<1>1. IInv => TypeOK
  BY DEF IInv
<1> QED BY <1>1, Invariance, PTL

\* Splitting and merging keep the chunk list of documentation.pdf p. 6: a
\* doubly linked list that tiles the heap.
THEOREM TiledAlways == Spec => []HeapTiled
<1>1. IInv => HeapTiled
  BY DEF IInv
<1> QED BY <1>1, Invariance, PTL

\* free leaves no two adjacent free chunks.
THEOREM CoalescedAlways == Spec => []Coalesced
<1>1. IInv => Coalesced
  BY DEF IInv
<1> QED BY <1>1, Invariance, PTL

\* The chunks marked allocated are those callers hold, large enough each.
THEOREM HeldIntactAlways == Spec => []HeldIntact
<1>1. IInv => HeldIntact
  BY DEF IInv
<1> QED BY <1>1, Invariance, PTL

\* With every block given back the heap is one free chunk again.
THEOREM NothingLeaksEver == Spec => []NothingLeaks
<1> USE MemoryAssumption DEF NULL
<1>1. ASSUME IInv, active, DOMAIN held = {}, first # 0
      PROVE  /\ DOMAIN mem = {Start}
             /\ mem[Start] = [next |-> 0, prev |-> 0, allocated |-> FALSE,
                              size |-> top - Start - HeaderSize]
  <2>1. /\ IsMem(mem) /\ WellLinked(mem, top) /\ NoFreePairs(mem) /\ top \in Nat
        /\ Start \in DOMAIN mem /\ \A a \in DOMAIN mem : ~mem[a].allocated
    BY <1>1 DEF IInv, TypeOK, IsMem, HeapTiled, Coalesced, NoFreePairs, HeldIntact
  <2>2. NoFreePair(mem, Start) /\ Next2Prev(mem, top, Start) /\ Prev2Next(mem, Start)
    BY <2>1 DEF WellLinked, NoFreePairs
  <2>3. mem[Start].next = 0 /\ End(mem, Start) = top
    BY <2>1, <2>2 DEF NoFreePair, Next2Prev
  <2>4. ASSUME NEW a \in DOMAIN mem PROVE a = Start
    <3>1. Within(mem, top, a) /\ Apart(mem, Start, a)
      BY <2>1 DEF WellLinked
    <3>2. a \in Nat /\ a < End(mem, a) /\ End(mem, a) \in Nat
      BY <2>1, Fields
    <3> QED BY <3>1, <3>2, <2>1, <2>3 DEF Within, Apart
  <2>5. mem[Start].prev = 0
    <3>1. mem[Start].prev = Start => FALSE
      BY <2>1, <2>2, <2>3 DEF Prev2Next
    <3> QED BY <3>1, <2>2, <2>4 DEF Prev2Next
  <2>6. mem[Start].size = top - Start - HeaderSize
    <3>1. mem[Start].size \in Nat /\ End(mem, Start) = Start + HeaderSize + mem[Start].size
      BY <2>1, Fields
    <3> QED BY <3>1, <2>1, <2>3
  <2>7. mem[Start] \in Chunk /\ mem[Start].allocated = FALSE
    BY <2>1, Fields
  <2>8. mem[Start] = [next |-> 0, prev |-> 0, allocated |-> FALSE,
                      size |-> top - Start - HeaderSize]
    BY <2>3, <2>5, <2>6, <2>7 DEF Chunk
  <2>9. DOMAIN mem = {Start}
    BY <2>1, <2>4
  <2> QED BY <2>8, <2>9
<1>2. IInv => NothingLeaks
  BY <1>1 DEF NothingLeaks
<1> QED BY <1>2, Invariance, PTL

\* malloc returns 0 only when no free chunk is larger than the request.
THEOREM FailureJustified == Spec => FailsOnlyWhenFull
<1>1. ASSUME IInv, [Next]_vars, pc = "search", pc' = "idle", result' = NULL,
             NEW a \in DOMAIN mem
      PROVE  ~Fits(mem[a], want)
  <2>1. CASE Take
    <3>1. result' = chunk + HeaderSize
      BY <2>1 DEF Take
    <3>2. chunk \in Nat
      BY <1>1 DEF IInv, TypeOK
    <3>3. chunk + HeaderSize # 0
      BY <3>2, MemoryAssumption
    <3> QED BY <3>1, <3>3, <1>1 DEF NULL
  <2>2. CASE Fail
    BY <1>1, <2>2 DEF IInv, Passed, Fail
  <2> QED BY <1>1, <2>1, <2>2 DEF Next, Construct, Destruct, Malloc, Advance,
             NewWithoutManager, Free, vars
<1>2. IInv /\ [Next]_vars =>
        [pc = "search" /\ pc' = "idle" /\ result' = NULL
            => \A a \in DOMAIN mem : ~Fits(mem[a], want)]_vars
  BY <1>1
<1> QED BY <1>2, Invariance, PTL DEF Spec, FailsOnlyWhenFull

\* Every iteration of malloc's loop brings it nearer to the end of the heap, so
\* that it has no more of them than there are headers' lengths in the heap.
THEOREM MallocNearsItsEndAlways == Spec => MallocNearsItsEnd
<1>1. ASSUME IInv, Advance, chunk' # NULL
      PROVE  chunk + HeaderSize <= chunk' /\ End(mem, chunk') <= top
  <2> USE MemoryAssumption DEF NULL
  <2>1. chunk # 0 /\ chunk' = mem[chunk].next
    BY <1>1 DEF Advance
  <2>2. IsMem(mem) /\ top \in Nat
    BY <1>1 DEF IInv, TypeOK, IsMem
  <2>3. chunk \in DOMAIN mem
    BY <1>1, <2>1 DEF IInv, Passed, Advance
  <2>4. Next2Prev(mem, top, chunk)
    BY <1>1, <2>3 DEF IInv, HeapTiled, WellLinked
  <2>5. chunk' \in DOMAIN mem /\ chunk' = End(mem, chunk)
    BY <1>1, <2>1, <2>4 DEF Next2Prev
  <2>6. Within(mem, top, chunk')
    BY <1>1, <2>5 DEF IInv, HeapTiled, WellLinked
  <2>7. chunk \in Nat /\ mem[chunk].size \in Nat
    BY <2>2, <2>3, Fields
  <2>8. chunk + HeaderSize <= End(mem, chunk)
    BY <2>7 DEF End
  <2> QED BY <2>5, <2>6, <2>8 DEF Within
<1>2. ASSUME IInv, [Next]_vars, pc = "search", pc' = "search"
      PROVE  Advance \/ UNCHANGED vars
  BY <1>2 DEF Next, Construct, Destruct, Malloc, NewWithoutManager, Take, Fail, Free
<1>3. IInv /\ [Next]_vars =>
        [pc = "search" /\ pc' = "search" =>
            \/ chunk' = NULL
            \/ chunk + HeaderSize <= chunk' /\ End(mem, chunk') <= top]_vars
  BY <1>1, <1>2
<1> QED BY <1>3, Invariance, PTL DEF Spec, MallocNearsItsEnd

------------------------------------------------------------------------------
(* The heap implements Allocator.                                           *)

\* A block malloc takes shares no byte with a block somebody holds.
LEMMA GrantDisjoint ==
    ASSUME IInv, Take, NEW p \in DOMAIN held
    PROVE  Callers!Disjoint(chunk, chunk + HeaderSize + want,
                            p - HeaderSize, p + held[p])
<1> USE MemoryAssumption DEF NULL
<1>1. /\ IsMem(mem) /\ WellLinked(mem, top) /\ chunk \in DOMAIN mem
      /\ ~mem[chunk].allocated /\ mem[chunk].size > want /\ want \in Nat
  BY DEF IInv, TypeOK, IsMem, HeapTiled, Passed, Take, Fits
<1>2. /\ p - HeaderSize \in DOMAIN mem /\ mem[p - HeaderSize].allocated
      /\ held[p] <= mem[p - HeaderSize].size /\ p \in Nat /\ held[p] \in Nat
  BY DEF IInv, TypeOK, HeldIntact
<1>3. /\ Apart(mem, chunk, p - HeaderSize) /\ Apart(mem, p - HeaderSize, chunk)
      /\ chunk # p - HeaderSize
  BY <1>1, <1>2 DEF WellLinked
<1>4. /\ chunk \in Nat /\ End(mem, chunk) = chunk + HeaderSize + mem[chunk].size
      /\ mem[chunk].size \in Nat
  BY <1>1, Fields
<1>5. /\ End(mem, p - HeaderSize) = p + mem[p - HeaderSize].size
      /\ mem[p - HeaderSize].size \in Nat
  BY <1>1, <1>2, Fields
<1> QED BY <1>1, <1>2, <1>3, <1>4, <1>5 DEF Apart, Callers!Disjoint

\* Each step of the heap is a step of the allocator callers see, or none.
LEMMA StepCallers == IInv /\ [Next]_vars => [Callers!Next]_(Callers!vars)
<1> SUFFICES ASSUME IInv, [Next]_vars PROVE [Callers!Next]_(Callers!vars)
  OBVIOUS
<1> USE MemoryAssumption DEF NULL
<1>1. ASSUME NEW size \in HeapSizes, Construct(size) PROVE Callers!Open
  <2>1. pc = "static" /\ top = 0 /\ pc' = "idle" /\ top' = Start + size
        /\ held' = held /\ want' = want
    BY <1>1 DEF IInv, Stages, Construct
  <2> QED BY <2>1 DEF Callers!Open
<1>2. CASE Destruct \/ NewWithoutManager \/ Advance
  <2>1. /\ held' = held /\ top' = top /\ want' = want
        /\ (pc = "static") = (pc' = "static") /\ (pc = "search") = (pc' = "search")
    BY <1>2 DEF Destruct, NewWithoutManager, Advance
  <2> QED BY <2>1 DEF Callers!vars
<1>3. ASSUME NEW size \in Sizes, Malloc(size) PROVE Callers!Request(size)
  BY <1>3 DEF Malloc, Callers!Request
<1>4. CASE Take
  <2> DEFINE ptr == chunk + HeaderSize
  <2>1. /\ pc = "search" /\ pc' = "idle" /\ top' = top /\ want' = want
        /\ held' = [p \in DOMAIN held \cup {ptr} |->
                       IF p = ptr THEN want ELSE held[p]]
    BY <1>4 DEF Take
  <2>2. /\ IsMem(mem) /\ chunk \in DOMAIN mem /\ mem[chunk].size > want
        /\ Within(mem, top, chunk) /\ want \in Nat /\ top \in Nat
    BY <1>4 DEF IInv, TypeOK, IsMem, HeapTiled, WellLinked, Passed, Take, Fits
  <2>3. /\ chunk \in Nat /\ mem[chunk].size \in Nat
        /\ End(mem, chunk) = chunk + HeaderSize + mem[chunk].size
    BY <2>2, Fields
  <2>4. ptr - HeaderSize = chunk /\ Start <= chunk /\ ptr + want <= top
        /\ ptr + want = chunk + HeaderSize + want
    BY <2>2, <2>3 DEF Within
  <2>5. \A p \in DOMAIN held :
           Callers!Disjoint(ptr - HeaderSize, ptr + want, p - HeaderSize, p + held[p])
    BY <1>4, <2>4, GrantDisjoint
  <2> HIDE DEF ptr
  <2>6. Callers!Grant(ptr)
    BY <2>1, <2>4, <2>5 DEF Callers!Grant
  <2>7. ptr \in DOMAIN held'
    BY <2>1
  <2> QED BY <2>6, <2>7 DEF Callers!Next
<1>5. CASE Fail
  BY <1>5 DEF Fail, Callers!Refuse, Callers!Next
<1>6. ASSUME NEW ptr \in DOMAIN held, Free(ptr) PROVE Callers!Release(ptr)
  BY <1>6 DEF Free, Callers!Release
<1>7. CASE UNCHANGED vars
  BY <1>7 DEF vars, Callers!vars
<1> QED BY <1>1, <1>2, <1>3, <1>4, <1>5, <1>6, <1>7 DEF Next, Callers!Next

\* The chunk list with its splits and merges implements the allocator callers
\* are promised: blocks inside the heap, disjoint with their headers, kept
\* until they are given back.
THEOREM ImplementsAllocator == Spec => CallersSpec
<1>1. Init => Callers!Init
  BY DEF Init, Callers!Init
<1>2. IInv /\ [Next]_vars => [Callers!Next]_(Callers!vars)
  BY StepCallers
<1> QED BY <1>1, <1>2, Invariance, PTL DEF Spec, CallersSpec, Callers!Spec
================================================================================
