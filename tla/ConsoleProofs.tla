------------------------------ MODULE ConsoleProofs ------------------------------
(***************************************************************************)
(* Proofs about Console for every size of the screen, every message and    *)
(* all the texts and movements that its handlers may be called with.       *)
(***************************************************************************)
EXTENDS Console, WellFoundedInduction, TLAPS

------------------------------------------------------------------------------
(* What a text does to the cursor.                                          *)

\* What holds of 0, and of every number whose predecessor it holds of, holds of
\* all up to n.
LEMMA UpTo ==
    ASSUME NEW n \in Nat, NEW Good, 0 \in Good,
           \A i \in 1 .. n : i - 1 \in Good => i \in Good
    PROVE  0 .. n \subseteq Good
<1> DEFINE Bad == {i \in 0 .. n : i \notin Good}
<1>1. SUFFICES ASSUME Bad # {} PROVE FALSE
  OBVIOUS
<1>2. Bad \subseteq Nat
  OBVIOUS
<1>3. PICK l \in Bad : \A k \in Bad : ~(<<k, l>> \in OpToRel(<, Nat))
  BY <1>1, <1>2, NatLessThanWellFounded, WFMin
<1>4. l \in 1 .. n /\ l - 1 \in 0 .. n /\ l \notin Good
  <2>1. l \in 0 .. n /\ l \notin Good
    BY <1>3
  <2>2. l # 0
    BY <2>1
  <2> QED BY <2>1, <2>2
<1>5. <<l - 1, l>> \in OpToRel(<, Nat)
  BY <1>4 DEF OpToRel
<1>6. l - 1 \in Good
  BY <1>3, <1>4, <1>5
<1> QED BY <1>4, <1>6

\* The cursors on the way.
IsTrail(f, n, cursor, text) ==
    f = [i \in 0 .. n |-> IF i = 0 THEN cursor ELSE Put(f[i - 1], text[i])]

\* There is one for every text.
LEMMA TrailExists ==
    ASSUME NEW n \in Nat, NEW cursor, NEW text
    PROVE  \E f : IsTrail(f, n, cursor, text)
<1> DEFINE Good == {m \in 0 .. n : \E f : IsTrail(f, m, cursor, text)}
<1>1. 0 \in Good
  <2>1. IsTrail([i \in 0 .. 0 |-> cursor], 0, cursor, text)
    BY DEF IsTrail
  <2> QED BY <2>1
<1>2. ASSUME NEW m \in 1 .. n, m - 1 \in Good PROVE m \in Good
  <2>1. PICK f : IsTrail(f, m - 1, cursor, text)
    BY <1>2
  <2> DEFINE g == [i \in 0 .. m |-> IF i = m THEN Put(f[m - 1], text[m]) ELSE f[i]]
  <2>2. IsTrail(g, m, cursor, text)
    <3>1. ASSUME NEW i \in 0 .. m
          PROVE  g[i] = IF i = 0 THEN cursor ELSE Put(g[i - 1], text[i])
      <4>1. CASE i = m
        BY <1>2, <4>1
      <4>2. CASE i # m
        <5>1. i \in 0 .. m - 1 /\ g[i] = f[i]
          BY <1>2, <4>2
        <5>2. f[i] = IF i = 0 THEN cursor ELSE Put(f[i - 1], text[i])
          BY <2>1, <5>1 DEF IsTrail
        <5>3. i # 0 => g[i - 1] = f[i - 1]
          BY <1>2, <4>2
        <5> HIDE DEF g
        <5> QED BY <5>1, <5>2, <5>3
      <4> QED BY <4>1, <4>2
    <3>2. g = [i \in 0 .. m |-> g[i]]
      OBVIOUS
    <3> HIDE DEF g
    <3> QED BY <3>1, <3>2 DEF IsTrail
  <2> QED BY <2>2
<1> HIDE DEF Good
<1>3. 0 .. n \subseteq Good
  BY <1>1, <1>2, UpTo
<1> QED BY <1>3 DEF Good

\* The cursor after a text is the last of them.
LEMMA PrintedIs ==
    ASSUME NEW cursor, NEW text, Len(text) \in Nat
    PROVE  \E f : IsTrail(f, Len(text), cursor, text) /\ Printed(cursor, text) = f[Len(text)]
<1> DEFINE trail == CHOOSE f : IsTrail(f, Len(text), cursor, text)
<1>1. IsTrail(trail, Len(text), cursor, text)
  BY TrailExists
<1>2. Printed(cursor, text) = trail[Len(text)]
  BY DEF Printed, IsTrail
<1> QED BY <1>1, <1>2

\* printf keeps its cursor on the screen, wherever it was found.
Cursors == (0 .. Width) \X (0 .. Height)
OnScreen == (0 .. Width - 1) \X (0 .. Height - 1)

\* A cursor that was advanced, brought back to the screen.
Settled(cursor) ==
    LET wrapped == IF cursor[1] >= Width THEN <<0, cursor[2] + 1>> ELSE cursor
    IN  IF wrapped[2] >= Height THEN <<0, 0>> ELSE wrapped

\* Both numbers of a cursor.
LEMMA CursorParts ==
    ASSUME NEW cursor \in Cursors
    PROVE  /\ cursor[1] \in Nat /\ cursor[2] \in Nat
           /\ cursor[1] <= Width /\ cursor[2] <= Height
           /\ cursor = <<cursor[1], cursor[2]>>
           /\ Width \in Nat /\ Width >= 1 /\ Height \in Nat /\ Height >= 1
<1>1. Width \in Nat /\ Width >= 1 /\ Height \in Nat /\ Height >= 1
  BY ConsoleAssumption
<1> QED BY <1>1 DEF Cursors

\* A character moves the cursor back to the screen.
LEMMA PutOnScreen ==
    ASSUME NEW cursor \in Cursors, NEW char
    PROVE  Put(cursor, char) \in OnScreen
<1>1. /\ cursor[1] \in Nat /\ cursor[2] \in Nat
      /\ Width \in Nat /\ Width >= 1 /\ Height \in Nat /\ Height >= 1
  BY CursorParts
<1> DEFINE put == IF char = "\n" THEN <<0, cursor[2] + 1>> ELSE <<cursor[1] + 1, cursor[2]>>
           wrapped == IF put[1] >= Width THEN <<0, put[2] + 1>> ELSE put
<1>2. put \in Nat \X Nat
  BY <1>1
<1> HIDE DEF put
<1>3. wrapped \in Nat \X Nat /\ wrapped[1] < Width
  BY <1>1, <1>2
<1> HIDE DEF wrapped
<1>4. (IF wrapped[2] >= Height THEN <<0, 0>> ELSE wrapped) \in OnScreen
  BY <1>1, <1>3 DEF OnScreen
<1> QED BY <1>4 DEF Put, wrapped, put

\* The screen is within the cursor's range.
LEMMA ScreenInCursors == OnScreen \subseteq Cursors
  BY ConsoleAssumption DEF OnScreen, Cursors

\* A text leaves the cursor in its range, and on the screen if it was there.
LEMMA PrintedInRange ==
    ASSUME NEW cursor \in Cursors, NEW text \in Seq(Characters)
    PROVE  /\ Printed(cursor, text) \in Cursors
           /\ Printed(cursor, text) = cursor \/ Printed(cursor, text) \in OnScreen
<1>1. PICK f : IsTrail(f, Len(text), cursor, text) /\ Printed(cursor, text) = f[Len(text)]
  BY PrintedIs
<1> DEFINE n == Len(text)
           Good == {i \in 0 .. n : f[i] \in Cursors /\ (f[i] = cursor \/ f[i] \in OnScreen)}
<1>2. n \in Nat
  OBVIOUS
<1>3. \A i \in 0 .. n : f[i] = IF i = 0 THEN cursor ELSE Put(f[i - 1], text[i])
  BY <1>1 DEF IsTrail
<1> HIDE DEF n
<1>4. 0 \in Good
  BY <1>2, <1>3
<1>5. ASSUME NEW i \in 1 .. n, i - 1 \in Good PROVE i \in Good
  <2>1. f[i] = Put(f[i - 1], text[i]) /\ i \in 0 .. n
    BY <1>2, <1>3
  <2> QED BY <1>5, <2>1, PutOnScreen, ScreenInCursors
<1> HIDE DEF Good
<1>6. 0 .. n \subseteq Good
  BY <1>2, <1>4, <1>5, UpTo
<1>7. n \in Good
  BY <1>2, <1>6
<1> QED BY <1>1, <1>7 DEF Good, n

\* A text is its first character and then the others.
LEMMA PrintedStep ==
    ASSUME NEW cursor, NEW text \in Seq(Characters), text # <<>>
    PROVE  Printed(cursor, text) = Printed(Put(cursor, Head(text)), Tail(text))
<1>1. PICK f : IsTrail(f, Len(text), cursor, text) /\ Printed(cursor, text) = f[Len(text)]
  BY PrintedIs
<1> DEFINE n == Len(Tail(text))
           first == Put(cursor, Head(text))
<1>2. /\ n \in Nat /\ Len(text) = n + 1 /\ Head(text) = text[1]
      /\ \A i \in 1 .. n : Tail(text)[i] = text[i + 1]
  OBVIOUS
<1>3. PICK g : IsTrail(g, n, first, Tail(text)) /\ Printed(first, Tail(text)) = g[n]
  BY <1>2, PrintedIs
<1>4. \A i \in 0 .. n + 1 : f[i] = IF i = 0 THEN cursor ELSE Put(f[i - 1], text[i])
  BY <1>1, <1>2 DEF IsTrail
<1>5. \A i \in 0 .. n : g[i] = IF i = 0 THEN first ELSE Put(g[i - 1], Tail(text)[i])
  BY <1>3 DEF IsTrail
<1> DEFINE Good == {i \in 0 .. n : g[i] = f[i + 1]}
<1> HIDE DEF n
<1>6. 0 \in Good
  <2>1. f[0] = cursor /\ f[1] = Put(f[0], text[1])
    BY <1>2, <1>4
  <2>2. g[0] = first
    BY <1>2, <1>5
  <2> QED BY <1>2, <2>1, <2>2
<1>7. ASSUME NEW i \in 1 .. n, i - 1 \in Good PROVE i \in Good
  <2>1. g[i] = Put(g[i - 1], text[i + 1]) /\ i \in 0 .. n
    BY <1>2, <1>5
  <2>2. f[i + 1] = Put(f[i], text[i + 1])
    BY <1>2, <1>4
  <2>3. g[i - 1] = f[i]
    BY <1>2, <1>7
  <2> QED BY <2>1, <2>2, <2>3
<1> HIDE DEF Good
<1>8. n \in Good
  <2>1. 0 .. n \subseteq Good
    BY <1>2, <1>6, <1>7, UpTo
  <2> QED BY <1>2, <2>1
<1>9. g[n] = f[n + 1]
  BY <1>8 DEF Good
<1> QED BY <1>1, <1>2, <1>3, <1>9

\* The empty text leaves the cursor where it is.
LEMMA PrintedNothing == ASSUME NEW cursor PROVE Printed(cursor, <<>>) = cursor
<1>1. Len(<<>>) = 0
  OBVIOUS
<1>2. PICK f : IsTrail(f, 0, cursor, <<>>) /\ Printed(cursor, <<>>) = f[0]
  BY <1>1, PrintedIs
<1> QED BY <1>2 DEF IsTrail

\* What printf does to its cursor in the end, in terms of where it has put it.
LEMMA PutSettles ==
    ASSUME NEW cursor \in Cursors
    PROVE  /\ Put(cursor, "c") = Settled(<<cursor[1] + 1, cursor[2]>>)
           /\ Put(cursor, "\n") = Settled(<<0, cursor[2] + 1>>)
  BY DEF Put, Settled

\* The places printf may find a cursor at that is beyond the end of a line.
LEMMA SettledWraps ==
    ASSUME NEW cursor \in Cursors
    PROVE  /\ cursor[1] >= Width => Settled(cursor) = Settled(<<0, cursor[2] + 1>>)
           /\ cursor \in OnScreen => Settled(cursor) = cursor
           /\ cursor[1] < Width /\ cursor[2] >= Height => Settled(cursor) = <<0, 0>>
<1>1. /\ cursor[1] \in Nat /\ cursor[2] \in Nat /\ cursor = <<cursor[1], cursor[2]>>
      /\ Width \in Nat /\ Width >= 1 /\ Height \in Nat /\ Height >= 1
  BY CursorParts
<1>2. cursor \in OnScreen => cursor[1] < Width /\ cursor[2] < Height
  BY <1>1 DEF OnScreen
<1> QED BY <1>1, <1>2 DEF Settled

------------------------------------------------------------------------------
(* The invariant.                                                           *)

Places == {"fetch", "done",
           "address", "load", "row", "store", "increment_x", "store_x", "test_x",
           "return", "increment_y", "store_y", "test_y",
           "clear", "test_row", "first_column", "test_column", "blank_address",
           "blank_load", "blank_row", "blank_store", "next_column", "store_column",
           "next_row", "store_row", "home_x", "home_y"}

\* Where the cursor may be beyond a line, and beyond the last one.
BeyondLine == {"test_x", "return", "test_row", "first_column", "test_column",
               "next_row", "store_row", "home_x"}
BeyondScreen == {"test_y", "clear", "test_row", "home_x", "home_y"}

\* The cursor is beyond the screen at those places only, and what was loaded
\* from it keeps its range until it is stored.
Within ==
    /\ pc \in Places
    /\ pc \notin BeyondLine => x < Width
    /\ pc \notin BeyondScreen => y < Height
    /\ row < Height
    /\ pc \in {"store_x", "store_column"} => register <= Width
    /\ pc \in {"store_y", "store_row"} => register <= Height

\* What was loaded for a cell is still true when it is used, or the cell is
\* marred.
Loaded ==
    Target \notin marred =>
        /\ pc \in {"load", "blank_load"} => row = y
        /\ Holding => (colours <=> Target \in swapped)

\* Where the cursor will be when the next character is fetched.
Ahead ==
    IF pc \in {"fetch", "done"} THEN <<x, y>>
    ELSE IF pc \in {"address", "load", "row", "store", "increment_x", "store_x"}
    THEN Settled(<<x + 1, y>>)
    ELSE IF pc \in {"return", "increment_y", "store_y"} THEN Settled(<<0, y + 1>>)
    ELSE IF pc \in {"test_x", "test_y"} THEN Settled(<<x, y>>)
    ELSE <<0, 0>>

\* As long as no key was printed, the characters that are left take the cursor
\* from there to where the whole message takes it.
OnTheWay ==
    /\ pc = "done" => rest = <<>>
    /\ start # NoCursor =>
          /\ Printed(Ahead, rest) = Printed(start, Message)
          /\ pc \in {"increment_y", "store_y", "home_y"} => x = 0
          /\ pc = "store_x" => register = x + 1
          /\ pc = "store_y" => register = y + 1

IInv == TypeOK /\ Within /\ Loaded /\ OnePointer /\ OnTheWay

\* Cells of the screen, of the column and of the row beyond it.
LEMMA CellInReach ==
    ASSUME NEW a \in 0 .. Width, NEW b \in 0 .. Height
    PROVE  Width * b + a \in Cells
<1>1. Width \in Nat /\ Height \in Nat /\ a \in Nat /\ b \in Nat /\ a <= Width /\ b <= Height
  BY ConsoleAssumption
<1>2. PICK d \in Nat : Height = b + d
  <2>1. Height - b \in Nat /\ Height = b + (Height - b)
    BY <1>1
  <2> QED BY <2>1
<1>3. Width * (Height + 1) = Width * b + Width * d + Width
  BY <1>1, <1>2
<1>4. Width * b \in Nat /\ Width * d \in Nat
  BY <1>1, <1>2
<1>5. Width * b + a \in 0 .. Width * (Height + 1)
  BY <1>1, <1>3, <1>4
<1> QED BY <1>5 DEF Cells

\* It holds when interrupts have been turned on.
LEMMA InitIInv == Init => IInv
<1> SUFFICES ASSUME Init PROVE IInv
  OBVIOUS
<1>1. Width \in Nat \ {0} /\ Height \in Nat \ {0} /\ Message \in Seq(Characters)
  BY ConsoleAssumption
<1>2. x \in 0 .. Width - 1 /\ y \in 0 .. Height - 1
  BY DEF Init
<1>3. pointer \in (0 .. Width - 1) \X (0 .. Height - 1)
      /\ Width \div 2 \in 0 .. Width /\ Height \div 2 \in 0 .. Height
  BY <1>1 DEF Init
<1>4. swapped = {Index(pointer)} /\ Index(pointer) \in Cells
  <2>1. Width * (Height \div 2) + (Width \div 2) \in Cells
    BY <1>3, CellInReach
  <2> QED BY <2>1 DEF Init, Index
<1>5. TypeOK
  <2>1. x \in 0 .. Width /\ y \in 0 .. Height /\ 0 \in 0 .. Height /\ 0 \in 0 .. Width + Height
    BY <1>1, <1>2
  <2>2. start = <<x, y>> /\ start \in (0 .. Width - 1) \X (0 .. Height - 1)
    BY <1>2 DEF Init
  <2>3. rest = Message /\ row = 0 /\ register = 0 /\ colours = FALSE /\ marred = {}
    BY DEF Init
  <2> QED BY <1>1, <1>3, <1>4, <2>1, <2>2, <2>3 DEF TypeOK
<1>6. Within
  BY <1>1, <1>2 DEF Init, Within, Places, BeyondLine, BeyondScreen
<1>7. Loaded /\ OnePointer
  BY <1>4 DEF Init, Loaded, Holding, OnePointer
<1>8. OnTheWay
  BY DEF Init, OnTheWay, Ahead
<1> QED BY <1>5, <1>6, <1>7, <1>8 DEF IInv

\* The numbers are numbers.
LEMMA Numbers ==
    ASSUME IInv
    PROVE  /\ x \in Nat /\ y \in Nat /\ row \in Nat /\ register \in Nat
           /\ x <= Width /\ y <= Height /\ row < Height
           /\ Width \in Nat /\ Width >= 1 /\ Height \in Nat /\ Height >= 1
           /\ pc \in Places
<1>1. Width \in Nat /\ Width >= 1 /\ Height \in Nat /\ Height >= 1
  BY ConsoleAssumption
<1>2. /\ x \in 0 .. Width /\ y \in 0 .. Height /\ row \in 0 .. Height
      /\ register \in 0 .. Width + Height
  BY DEF IInv, TypeOK
<1>3. row < Height /\ pc \in Places
  BY DEF IInv, Within
<1> QED BY <1>1, <1>2, <1>3

\* Every place of printf keeps the cursor, and what it loaded of it, in range.
LEMMA PrintfWithin == ASSUME IInv, Printf PROVE Within'
<1>1. /\ x \in Nat /\ y \in Nat /\ row \in Nat /\ register \in Nat
      /\ x <= Width /\ y <= Height /\ row < Height
      /\ Width \in Nat /\ Width >= 1 /\ Height \in Nat /\ Height >= 1
      /\ pc \in Places
  BY Numbers
<1>2. Within
  BY DEF IInv
<1> USE <1>1, <1>2 DEF Within, Places, BeyondLine, BeyondScreen, Goto
<1>3. CASE Write
  BY <1>3 DEF Write, LoadRow, LoadCell, StoreCell, LoadX, StoreX
<1>4. CASE NewLine
  BY <1>4 DEF NewLine, ZeroX, LoadY, StoreY, TestY, TestX
<1>5. CASE Clear
  BY <1>5 DEF Clear, ZeroX, ZeroY, LoadRow, LoadCell, StoreCell, LoadX, StoreX, LoadY, StoreY,
              TestY, TestX
<1>6. CASE Fetch
  BY <1>6 DEF Fetch
<1> QED BY <1>3, <1>4, <1>5, <1>6 DEF Printf

\* printf leaves the pointer and the history alone.
LEMMA PrintfLeaves ==
    ASSUME Printf
    PROVE  /\ UNCHANGED <<pointer, marred, start>>
           /\ pc' = "done" \/ rest' = rest \/ pc = "fetch"
           /\ ~Fetch => rest' = rest
  BY DEF Printf, Fetch, Write, NewLine, Clear, ZeroX, ZeroY, LoadRow, LoadCell, StoreCell,
         LoadX, StoreX, LoadY, StoreY, TestY, TestX, Goto

\* The cell printf will store is in reach.
LEMMA TargetInReach == ASSUME TypeOK PROVE Target \in Cells
  BY CellInReach DEF TypeOK, Target

\* No cell is healed, and none marred but the one named or, when there were too
\* many, all there are.
LEMMA Marred ==
    ASSUME TypeOK, NEW cell \in Cells, Mar(cell)
    PROVE  marred' \subseteq Cells /\ marred \subseteq marred' /\ cell \in marred'
  BY DEF TypeOK, Mar

\* The colours of a cell are stored as they were loaded: to cells in reach, and
\* changing none that is not marred.
LEMMA PrintfSwaps ==
    ASSUME IInv, Printf
    PROVE  /\ swapped' \subseteq Cells /\ colours' \in BOOLEAN
           /\ \A cell \in Cells : cell \notin marred => (cell \in swapped' <=> cell \in swapped)
<1>1. ASSUME StoreCell("store", "increment_x") \/ StoreCell("blank_store", "next_column")
      PROVE  /\ swapped' \subseteq Cells /\ colours' \in BOOLEAN
             /\ \A cell \in Cells :
                   cell \notin marred => (cell \in swapped' <=> cell \in swapped)
  <2>1. /\ pc \in {"store", "blank_store"} /\ colours' = FALSE
        /\ swapped' = IF marred = Cells THEN {}
                      ELSE IF colours THEN swapped \cup {Target} ELSE swapped \ {Target}
    BY <1>1 DEF StoreCell, Recolour, Goto
  <2>2. Target \in Cells
    BY TargetInReach DEF IInv
  <2>3. Target \notin marred => (colours <=> Target \in swapped)
    BY <2>1 DEF IInv, Loaded, Holding
  <2>4. swapped \subseteq Cells /\ colours \in BOOLEAN
    BY DEF IInv, TypeOK
  <2>5. swapped' \subseteq Cells
    BY <2>1, <2>2, <2>4, Zenon
  <2>6. ASSUME NEW cell \in Cells, cell \notin marred PROVE cell \in swapped' <=> cell \in swapped
    BY <2>1, <2>3, <2>6
  <2> QED BY <2>1, <2>5, <2>6
<1>2. ASSUME ~(StoreCell("store", "increment_x") \/ StoreCell("blank_store", "next_column"))
      PROVE  swapped' = swapped
  BY <1>2 DEF Printf, Fetch, Write, NewLine, Clear, ZeroX, ZeroY, LoadRow, LoadCell,
              LoadX, StoreX, LoadY, StoreY, TestY, TestX
<1>3. ASSUME ~(StoreCell("store", "increment_x") \/ StoreCell("blank_store", "next_column"))
      PROVE  colours' \in BOOLEAN
  <2>1. CASE LoadCell("load", "row") \/ LoadCell("blank_load", "blank_row")
    <3>1. colours' = (Width * row + x \in swapped)
      BY <2>1 DEF LoadCell
    <3>2. CASE Width * row + x \in swapped
      BY <3>1, <3>2
    <3>3. CASE Width * row + x \notin swapped
      BY <3>1, <3>3
    <3> QED BY <3>2, <3>3
  <2>2. CASE ~(LoadCell("load", "row") \/ LoadCell("blank_load", "blank_row"))
    <3>1. colours' = colours
      BY <1>3, <2>2 DEF Printf, Fetch, Write, NewLine, Clear, ZeroX, ZeroY, LoadRow,
                        LoadX, StoreX, LoadY, StoreY, TestY, TestX
    <3> QED BY <3>1 DEF IInv, TypeOK
  <2> QED BY <2>1, <2>2
<1> QED BY <1>1, <1>2, <1>3 DEF IInv, TypeOK

\* printf keeps to the types.
LEMMA PrintfTypeOK == ASSUME IInv, Printf PROVE TypeOK'
<1>1. /\ x \in Nat /\ y \in Nat /\ row \in Nat /\ register \in Nat
      /\ x <= Width /\ y <= Height /\ row < Height /\ register <= Width + Height
      /\ Width \in Nat /\ Width >= 1 /\ Height \in Nat /\ Height >= 1
      /\ pc \in Places
  BY Numbers DEF IInv, TypeOK
<1>2. Within
  BY DEF IInv
<1>3. /\ x' \in Nat /\ y' \in Nat /\ row' \in Nat /\ register' \in Nat
      /\ x' <= Width /\ y' <= Height /\ row' <= Height /\ register' <= Width + Height
  <2> USE <1>1, <1>2 DEF Within, Places, BeyondLine, BeyondScreen, Goto
  <2>1. CASE Write
    BY <2>1 DEF Write, LoadRow, LoadCell, StoreCell, LoadX, StoreX
  <2>2. CASE NewLine
    BY <2>2 DEF NewLine, ZeroX, LoadY, StoreY, TestY, TestX
  <2>3. CASE Clear
    BY <2>3 DEF Clear, ZeroX, ZeroY, LoadRow, LoadCell, StoreCell, LoadX, StoreX, LoadY,
                StoreY, TestY, TestX
  <2>4. CASE Fetch
    BY <2>4 DEF Fetch
  <2> QED BY <2>1, <2>2, <2>3, <2>4 DEF Printf
<1>4. /\ x' \in 0 .. Width /\ y' \in 0 .. Height /\ row' \in 0 .. Height
      /\ register' \in 0 .. Width + Height
  BY <1>1, <1>3
<1>5. rest' \in Seq(Characters)
  <2>1. rest \in Seq(Characters)
    BY DEF IInv, TypeOK
  <2>2. CASE Fetch
    <3>1. rest' = rest \/ (rest # <<>> /\ rest' = Tail(rest))
      BY <2>2 DEF Fetch
    <3>2. rest # <<>> => Tail(rest) \in Seq(Characters)
      BY <2>1
    <3> QED BY <2>1, <3>1, <3>2
  <2>3. CASE ~Fetch
    BY <2>1, <2>3, PrintfLeaves
  <2> QED BY <2>2, <2>3
<1>6. pointer' = pointer /\ marred' = marred /\ start' = start
  BY PrintfLeaves
<1>7. swapped' \subseteq Cells /\ colours' \in BOOLEAN
  BY PrintfSwaps
<1> QED BY <1>4, <1>5, <1>6, <1>7 DEF IInv, TypeOK

\* What printf loads of a cell is true when it loads it.
LEMMA PrintfLoaded == ASSUME IInv, Printf PROVE Loaded' /\ OnePointer'
<1>1. /\ marred' = marred /\ Index(pointer)' = Index(pointer)
      /\ \A cell \in Cells : cell \notin marred => (cell \in swapped' <=> cell \in swapped)
      /\ Target \in Cells
  BY PrintfSwaps, PrintfLeaves, TargetInReach DEF IInv, Index
<1>2. OnePointer'
  BY <1>1 DEF IInv, OnePointer, Cells
<1>3. Loaded
  BY DEF IInv
<1>4. ASSUME pc' \in {"load", "blank_load"} PROVE row' = y'
  BY <1>4 DEF Printf, Fetch, Write, NewLine, Clear, ZeroX, ZeroY, LoadRow, LoadCell,
              StoreCell, LoadX, StoreX, LoadY, StoreY, TestY, TestX, Goto
<1>5. ASSUME pc' \in {"row", "blank_row"}, Target' \notin marred
      PROVE  colours' <=> Target' \in swapped'
  <2>1. LoadCell("load", "row") \/ LoadCell("blank_load", "blank_row")
    BY <1>5 DEF Printf, Fetch, Write, NewLine, Clear, ZeroX, ZeroY, LoadRow,
                StoreCell, LoadX, StoreX, LoadY, StoreY, TestY, TestX, Goto
  <2>2. colours' = (Width * row + x \in swapped) /\ pc \in {"load", "blank_load"}
        /\ x' = x /\ y' = y
    BY <2>1 DEF LoadCell, Goto
  <2>3. Target' = Width * y + x /\ Target = Width * y + x
    BY <1>5, <2>2 DEF Target
  <2>4. row = y
    BY <1>3, <1>5, <2>2, <2>3 DEF Loaded
  <2> QED BY <1>1, <1>5, <2>2, <2>3, <2>4, Zenon
<1>6. ASSUME pc' \in {"store", "blank_store"}, Target' \notin marred
      PROVE  colours' <=> Target' \in swapped'
  <2>1. LoadRow("row", "store") \/ LoadRow("blank_row", "blank_store")
    BY <1>6 DEF Printf, Fetch, Write, NewLine, Clear, ZeroX, ZeroY, LoadRow, LoadCell,
                StoreCell, LoadX, StoreX, LoadY, StoreY, TestY, TestX, Goto
  <2>2. pc \in {"row", "blank_row"} /\ row' = y /\ x' = x /\ colours' = colours
    BY <2>1 DEF LoadRow, Goto
  <2>3. Target' = Target
    BY <1>6, <2>2 DEF Target
  <2>4. colours <=> Target \in swapped
    BY <1>3, <1>6, <2>2, <2>3 DEF Loaded, Holding
  <2> QED BY <1>1, <1>6, <2>2, <2>3, <2>4, Zenon
<1> QED BY <1>1, <1>2, <1>4, <1>5, <1>6, Zenon DEF Loaded, Holding

\* Fetching a character puts the cursor's change of it ahead.
LEMMA FetchOnTheWay == ASSUME IInv, Fetch PROVE OnTheWay'
<1>1. /\ pc = "fetch" /\ x' = x /\ y' = y /\ start' = start /\ register' = register
      /\ IF rest = <<>> THEN pc' = "done" /\ rest' = rest
         ELSE /\ rest' = Tail(rest)
              /\ pc' = IF Head(rest) = "\n" THEN "return" ELSE "address"
  BY DEF Fetch
<1>2. <<x, y>> \in Cursors /\ rest \in Seq(Characters)
  BY DEF IInv, TypeOK, Cursors
<1>3. start # NoCursor => Printed(<<x, y>>, rest) = Printed(start, Message)
  BY <1>1 DEF IInv, OnTheWay, Ahead
<1>4. CASE rest = <<>>
  <2>1. pc' = "done" /\ rest' = rest
    BY <1>1, <1>4
  <2>2. Ahead' = <<x, y>>
    BY <1>1, <2>1 DEF Ahead
  <2> QED BY <1>1, <1>3, <1>4, <2>1, <2>2 DEF OnTheWay
<1>5. CASE rest # <<>>
  <2>1. /\ rest' = Tail(rest) /\ pc' = IF Head(rest) = "\n" THEN "return" ELSE "address"
    BY <1>1, <1>5
  <2>2. Head(rest) \in Characters
    BY <1>2, <1>5
  <2>3. Printed(<<x, y>>, rest) = Printed(Put(<<x, y>>, Head(rest)), rest')
    BY <1>2, <1>5, <2>1, PrintedStep
  <2>4. /\ Put(<<x, y>>, "c") = Settled(<<x + 1, y>>)
        /\ Put(<<x, y>>, "\n") = Settled(<<0, y + 1>>)
    BY <1>2, PutSettles
  <2>5. Ahead' = Put(<<x, y>>, Head(rest))
    <3>1. CASE Head(rest) = "\n"
      <4>1. pc' = "return"
        BY <2>1, <3>1
      <4>2. Ahead' = Settled(<<0, y + 1>>)
        BY <1>1, <4>1 DEF Ahead
      <4> QED BY <2>4, <3>1, <4>2
    <3>2. CASE Head(rest) # "\n"
      <4>1. pc' = "address" /\ Head(rest) = "c"
        BY <2>1, <2>2, <3>2 DEF Characters
      <4>2. Ahead' = Settled(<<x + 1, y>>)
        BY <1>1, <4>1 DEF Ahead
      <4> QED BY <2>4, <4>1, <4>2
    <3> QED BY <3>1, <3>2
  <2>6. start' # NoCursor => Printed(Ahead', rest') = Printed(start', Message)
    BY <1>1, <1>3, <2>3, <2>5
  <2>7. pc' \in {"return", "address"}
    BY <2>1
  <2> QED BY <2>6, <2>7 DEF OnTheWay
<1> QED BY <1>4, <1>5

\* The other steps of printf leave what is ahead as it is.
LEMMA PrintfOnTheWay ==
    ASSUME IInv, Write \/ NewLine \/ Clear PROVE OnTheWay'
<1>1. /\ x \in Nat /\ y \in Nat /\ Width \in Nat /\ Height \in Nat /\ pc \in Places
      /\ x <= Width /\ y <= Height /\ Width >= 1 /\ Height >= 1
  BY Numbers
<1>2. /\ start # NoCursor =>
            /\ Printed(Ahead, rest) = Printed(start, Message)
            /\ pc \in {"increment_y", "store_y", "home_y"} => x = 0
            /\ pc = "store_x" => register = x + 1
            /\ pc = "store_y" => register = y + 1
      /\ pc \notin BeyondLine => x < Width
      /\ pc \notin BeyondScreen => y < Height
  BY DEF IInv, OnTheWay, Within
<1>3. start' = start /\ rest' = rest /\ pc' # "done" /\ pc \notin {"fetch", "done"}
  BY DEF Write, NewLine, Clear, LoadRow, LoadCell, StoreCell, LoadX, StoreX, LoadY, StoreY,
         ZeroX, ZeroY, TestX, TestY, Goto
<1> SUFFICES ASSUME start # NoCursor
             PROVE  /\ Ahead' = Ahead
                    /\ pc' \in {"increment_y", "store_y", "home_y"} => x' = 0
                    /\ pc' = "store_x" => register' = x' + 1
                    /\ pc' = "store_y" => register' = y' + 1
  BY <1>2, <1>3 DEF OnTheWay
<1>4. <<x, y>> \in Cursors
  BY <1>1 DEF Cursors
<1>5. /\ x >= Width => Settled(<<x, y>>) = Settled(<<0, y + 1>>)
      /\ x < Width /\ y < Height => Settled(<<x, y>>) = <<x, y>>
      /\ x < Width /\ y >= Height => Settled(<<x, y>>) = <<0, 0>>
  <2>1. x < Width /\ y < Height => <<x, y>> \in OnScreen
    BY <1>1 DEF OnScreen
  <2> QED BY <1>4, <2>1, SettledWraps
<1>6. CASE Write
  BY <1>1, <1>2, <1>6 DEF Ahead, Write, LoadRow, LoadCell, StoreCell, LoadX, StoreX, Goto
<1>7. CASE NewLine
  <2>1. CASE ZeroX("return", "increment_y")
    BY <1>2, <2>1 DEF Ahead, ZeroX, Goto
  <2>2. CASE TestX("test_x", "test_y", "return")
    BY <1>1, <1>2, <1>5, <2>2 DEF Ahead, TestX, Goto
  <2>3. CASE LoadY("increment_y", "store_y")
    BY <1>2, <2>3 DEF Ahead, LoadY, Goto
  <2>4. CASE StoreY("store_y", "test_y")
    BY <1>2, <2>4 DEF Ahead, StoreY, Goto
  <2>5. CASE TestY("test_y", "fetch", "clear")
    BY <1>1, <1>2, <1>5, <2>5 DEF Ahead, TestY, Goto, BeyondLine
  <2> QED BY <1>7, <2>1, <2>2, <2>3, <2>4, <2>5 DEF NewLine
<1>8. CASE Clear
  BY <1>1, <1>2, <1>8 DEF Ahead, Clear, LoadRow, LoadCell, StoreCell, LoadX, StoreX, LoadY,
                          StoreY, ZeroX, ZeroY, TestX, TestY, Goto
<1> QED BY <1>6, <1>7, <1>8

\* kernelMain's steps keep the invariant.
LEMMA PrintfIInv == ASSUME IInv, Printf PROVE IInv'
<1>1. OnTheWay'
  BY FetchOnTheWay, PrintfOnTheWay DEF Printf
<1> QED BY <1>1, PrintfTypeOK, PrintfWithin, PrintfLoaded DEF IInv

\* A key leaves the cursor on the screen or where it was, and mars the cell at
\* its new place if one was being addressed.
LEMMA OnKeyDownIInv == ASSUME IInv, NEW text \in Texts, OnKeyDown(text) PROVE IInv'
<1> DEFINE cursor == Printed(<<x, y>>, text)
<1>1. /\ x' = cursor[1] /\ y' = cursor[2] /\ start' = NoCursor
      /\ UNCHANGED <<pc, rest, row, colours, register, pointer>>
      /\ IF Addressing THEN Mar(Target') ELSE UNCHANGED marred
      /\ Recolour(swapped)
  BY DEF OnKeyDown
<1>2. /\ x \in Nat /\ y \in Nat /\ Width \in Nat /\ Height \in Nat
      /\ x <= Width /\ y <= Height /\ Width >= 1 /\ Height >= 1
      /\ <<x, y>> \in Cursors
  BY Numbers DEF Cursors
<1>3. text \in Seq(Characters)
  BY ConsoleAssumption
<1>4. cursor \in Cursors /\ (cursor = <<x, y>> \/ cursor \in OnScreen)
  BY <1>2, <1>3, PrintedInRange
<1> HIDE DEF cursor
<1>5. /\ x' \in 0 .. Width /\ y' \in 0 .. Height
      /\ (x' = x /\ y' = y) \/ (x' < Width /\ y' < Height)
  <2>1. cursor[1] \in 0 .. Width /\ cursor[2] \in 0 .. Height
    BY <1>4 DEF Cursors
  <2>2. cursor \in OnScreen => cursor[1] < Width /\ cursor[2] < Height
    BY <1>2 DEF OnScreen
  <2>3. cursor = <<x, y>> => cursor[1] = x /\ cursor[2] = y
    OBVIOUS
  <2> QED BY <1>1, <1>4, <2>1, <2>2, <2>3
<1>6. /\ marred' \subseteq Cells /\ marred \subseteq marred'
      /\ Addressing => Target' \in marred'
      /\ swapped' = IF marred' = Cells THEN {} ELSE swapped
  <2>1. row' \in 0 .. Height
    BY <1>1 DEF IInv, TypeOK
  <2>2. Target' \in Cells
    BY <1>5, <2>1, CellInReach DEF Target
  <2> QED BY <1>1, <2>2, Marred DEF IInv, TypeOK, Recolour
<1>7. TypeOK'
  BY <1>1, <1>5, <1>6 DEF IInv, TypeOK, Cells
<1>8. Within'
  BY <1>1, <1>5 DEF IInv, Within
<1>9. Loaded'
  BY <1>1, <1>6 DEF Loaded, Addressing, Holding
<1>10. OnePointer'
  BY <1>1, <1>6 DEF IInv, OnePointer, Index, Cells
<1>11. OnTheWay'
  BY <1>1 DEF IInv, OnTheWay
<1> QED BY <1>7, <1>8, <1>9, <1>10, <1>11 DEF IInv

\* One coordinate of the pointer stays on the screen, whatever it is moved by.
LEMMA StepStays ==
    ASSUME NEW at \in Int, NEW offset \in Int, NEW limit \in Nat \ {0}
    PROVE  Step(at, offset, limit) \in 0 .. limit - 1
<1> DEFINE moved == Narrow(at + Quotient(offset, 2))
<1>1. Quotient(offset, 2) \in Int
  BY DEF Quotient
<1>2. moved \in Int
  <2>1. Half \in Nat /\ Half >= 1
    BY ConsoleAssumption
  <2>2. PICK n \in Int : n = at + Quotient(offset, 2)
    BY <1>1
  <2>3. (n + Half) % (2 * Half) \in Int
    BY <2>1
  <2> QED BY <2>1, <2>2, <2>3 DEF Narrow
<1> HIDE DEF moved
<1>3. Step(at, offset, limit) =
        IF moved < 0 THEN 0 ELSE IF moved >= limit THEN limit - 1 ELSE moved
  BY DEF Step, moved
<1> QED BY <1>2, <1>3

\* The pointer moves with its cell's colours, and mars the cell whose colours
\* printf holds if it goes to or from it.
LEMMA OnMouseMoveIInv ==
    ASSUME IInv, NEW offset \in Offsets, OnMouseMove(offset) PROVE IInv'
<1>1. /\ pointer' = <<Step(pointer[1], offset[1], Width), Step(pointer[2], offset[2], Height)>>
      /\ IF Holding /\ pointer' # pointer /\ Target \in {Index(pointer), Index(pointer')}
         THEN Mar(Target) ELSE UNCHANGED marred
      /\ Recolour(Swap(Swap(swapped, Index(pointer)), Index(pointer')))
      /\ UNCHANGED <<x, y, pc, rest, row, colours, register, start>>
  BY DEF OnMouseMove
<1>2. /\ Width \in Nat \ {0} /\ Height \in Nat \ {0} /\ Half \in Nat
      /\ offset \in (-Half .. Half - 1) \X (-Half .. Half - 1)
  BY ConsoleAssumption
<1>3. pointer \in (0 .. Width - 1) \X (0 .. Height - 1)
  BY DEF IInv, TypeOK
<1>4. pointer' \in (0 .. Width - 1) \X (0 .. Height - 1)
  <2>1. pointer[1] \in Int /\ pointer[2] \in Int /\ offset[1] \in Int /\ offset[2] \in Int
    BY <1>2, <1>3
  <2>2. /\ Step(pointer[1], offset[1], Width) \in 0 .. Width - 1
        /\ Step(pointer[2], offset[2], Height) \in 0 .. Height - 1
    BY <1>2, <2>1, StepStays
  <2> QED BY <1>1, <2>2
<1>5. Index(pointer') \in Cells
  <2>1. pointer'[1] \in 0 .. Width /\ pointer'[2] \in 0 .. Height
    BY <1>2, <1>4
  <2>2. Width * pointer'[2] + pointer'[1] \in Cells
    BY <2>1, CellInReach
  <2> QED BY <2>2 DEF Index
<1>6. /\ Target \in Cells /\ Target' = Target /\ Index(pointer)' = Index(pointer')
      /\ marred' \subseteq Cells /\ marred \subseteq marred'
      /\ Holding /\ pointer' # pointer /\ Target \in {Index(pointer), Index(pointer')} =>
            Target \in marred'
  <2>1. Target \in Cells /\ Target' = Target /\ Index(pointer)' = Index(pointer')
    BY <1>1, TargetInReach DEF IInv, Target, Index
  <2> QED BY <1>1, <2>1, Marred DEF IInv, TypeOK
<1>7. ASSUME NEW cell \in Cells, cell \notin marred'
      PROVE  cell \in swapped' <=>
                IF Index(pointer) = Index(pointer') \/ cell \notin {Index(pointer), Index(pointer')}
                THEN cell \in swapped ELSE cell \notin swapped
  <2>1. swapped' = Swap(Swap(swapped, Index(pointer)), Index(pointer'))
    BY <1>1, <1>7 DEF Recolour
  <2> QED BY <2>1 DEF Swap
<1>8. TypeOK'
  <2>1. Index(pointer) \in Cells
    <3>1. pointer[1] \in 0 .. Width /\ pointer[2] \in 0 .. Height
      BY <1>2, <1>3
    <3>2. Width * pointer[2] + pointer[1] \in Cells
      BY <3>1, CellInReach
    <3> QED BY <3>2 DEF Index
  <2>2. swapped \subseteq Cells
    BY DEF IInv, TypeOK
  <2>3. \A cells, i : cells \subseteq Cells /\ i \in Cells => Swap(cells, i) \subseteq Cells
    BY DEF Swap
  <2>4. Swap(Swap(swapped, Index(pointer)), Index(pointer')) \subseteq Cells
    BY <1>5, <2>1, <2>2, <2>3
  <2>5. swapped' \subseteq Cells
    BY <1>1, <2>4 DEF Recolour
  <2> QED BY <1>1, <1>4, <1>6, <2>5 DEF IInv, TypeOK, Cells
<1>9. Within' /\ OnTheWay'
  BY <1>1 DEF IInv, Within, OnTheWay, Ahead
<1>10. Loaded'
  <2>1. ASSUME Target \notin marred', Holding PROVE Target \in swapped' <=> Target \in swapped
    BY <1>6, <1>7, <2>1
  <2>2. Loaded
    BY DEF IInv
  <2> QED BY <1>1, <1>6, <2>1, <2>2 DEF Loaded, Holding
<1>11. OnePointer'
  <2> SUFFICES ASSUME NEW cell \in Cells, cell \notin marred'
               PROVE  cell \in swapped' <=> cell = Index(pointer')
    BY <1>6 DEF OnePointer, Cells
  <2>1. cell \in swapped <=> cell = Index(pointer)
    BY <1>6 DEF IInv, OnePointer
  <2> QED BY <1>7, <2>1
<1> QED BY <1>8, <1>9, <1>10, <1>11 DEF IInv

\* So do all steps, and those of nobody.
LEMMA NextIInv == ASSUME IInv, [Next]_console PROVE IInv'
<1>1. CASE Printf
  BY <1>1, PrintfIInv
<1>2. ASSUME NEW text \in Texts, OnKeyDown(text) PROVE IInv'
  BY <1>2, OnKeyDownIInv
<1>3. ASSUME NEW offset \in Offsets, OnMouseMove(offset) PROVE IInv'
  BY <1>3, OnMouseMoveIInv
<1>4. CASE UNCHANGED console
  BY <1>4 DEF console, IInv, TypeOK, Within, Loaded, Target, Holding, OnePointer,
                     Index, OnTheWay, Ahead
<1> QED BY <1>1, <1>2, <1>3, <1>4 DEF Next, Handler

\* The invariant holds always.
LEMMA Invariance == Spec => []IInv
<1> QED BY InitIInv, NextIInv, PTL DEF Spec

------------------------------------------------------------------------------
(* The theorems.                                                            *)

\* The cursor is at most one beyond the screen on either axis between any two
\* stores of printf, whatever the handlers print in between, and the pointer
\* stays on the screen.
THEOREM TypeCorrect == Spec => []TypeOK
<1> QED BY Invariance, PTL DEF IInv

\* No store of printf leaves the screen and the row after it, wherever a key is
\* printed between the loads of a cell's row and column and the store.
THEOREM InReachAlways == Spec => []InReach
<1>1. ASSUME IInv PROVE InReach
  BY <1>1, CellInReach DEF IInv, TypeOK, InReach
<1> QED BY <1>1, Invariance, PTL

\* Exactly the pointer's cell has its colours swapped, but for the cells that
\* printf was about to store when a handler changed what it had loaded for them.
THEOREM OnePointerAlways == Spec => []OnePointer
<1> QED BY Invariance, PTL DEF IInv

\* The accesses of printf, at most one load or store at a time, put the cursor
\* where the message takes it when it is printed in one step.
THEOREM PrintsAsWholeAlways == Spec => []PrintsAsWhole
<1>1. ASSUME IInv PROVE PrintsAsWhole
  <2> SUFFICES ASSUME pc = "done", start # NoCursor PROVE <<x, y>> = Printed(start, Message)
    BY DEF PrintsAsWhole
  <2>1. rest = <<>> /\ Ahead = <<x, y>> /\ Printed(Ahead, rest) = Printed(start, Message)
    BY <1>1 DEF IInv, OnTheWay, Ahead
  <2> QED BY <2>1, PrintedNothing
<1> QED BY <1>1, Invariance, PTL

\* A number an int8_t holds is narrowed to itself.
LEMMA NarrowKeeps == ASSUME NEW n \in -Half .. Half - 1 PROVE Narrow(n) = n
<1>1. Half \in Nat /\ Half >= 1 /\ n + Half \in 0 .. 2 * Half - 1 /\ n \in Int
  BY ConsoleAssumption
<1>2. ASSUME NEW b \in Nat, NEW a \in 0 .. b - 1 PROVE a % b = a
  BY <1>2
<1>3. 2 * Half \in Nat
  BY <1>1
<1>4. (n + Half) % (2 * Half) = n + Half
  BY <1>1, <1>2, <1>3
<1> QED BY <1>1, <1>4 DEF Narrow

\* Half a movement is no longer than half of it, and goes the same way.
LEMMA QuotientHalves ==
    ASSUME NEW offset \in Int
    PROVE  /\ Quotient(offset, 2) \in Int
           /\ offset >= 0 => /\ Quotient(offset, 2) = offset \div 2
                             /\ Quotient(offset, 2) >= 0 /\ 2 * Quotient(offset, 2) <= offset
           /\ offset <= 0 => Quotient(offset, 2) <= 0 /\ 2 * Quotient(offset, 2) >= offset
  BY DEF Quotient

\* One coordinate goes the way of the movement, unless an int8_t does not hold
\* where it would go to; on a screen of at most half that range it always does.
LEMMA StepFollows ==
    ASSUME NEW limit \in Nat \ {0}, limit <= Half,
           NEW at \in 0 .. limit - 1, NEW offset \in -Half .. Half - 1
    PROVE  /\ offset >= 0 => Step(at, offset, limit) >= at \/ at + offset \div 2 >= Half
           /\ offset >= 0 /\ 2 * limit <= Half => Step(at, offset, limit) >= at
           /\ offset <= 0 => Step(at, offset, limit) <= at
<1> DEFINE q == Quotient(offset, 2)
           moved == Narrow(at + q)
<1>1. Half \in Nat /\ at \in Nat /\ at < limit /\ offset \in Int
      /\ -Half <= offset /\ offset < Half
  BY ConsoleAssumption
<1>2. /\ q \in Int
      /\ offset >= 0 => q = offset \div 2 /\ q >= 0 /\ 2 * q <= offset
      /\ offset <= 0 => q <= 0 /\ 2 * q >= offset
  BY <1>1, QuotientHalves
<1>3. Step(at, offset, limit) =
        IF moved < 0 THEN 0 ELSE IF moved >= limit THEN limit - 1 ELSE moved
  BY DEF Step
<1> HIDE DEF q
<1>4. at + q \in -Half .. Half - 1 => moved = at + q
  BY NarrowKeeps
<1> HIDE DEF moved
<1>5. at + q < Half => at + q \in -Half .. Half - 1
  BY <1>1, <1>2
<1>6. at + q < Half =>
        /\ offset >= 0 => Step(at, offset, limit) >= at
        /\ offset <= 0 => Step(at, offset, limit) <= at
  BY <1>1, <1>2, <1>3, <1>4, <1>5
<1>7. offset <= 0 \/ 2 * limit <= Half => at + q < Half
  BY <1>1, <1>2
<1>8. offset >= 0 => at + q < Half \/ at + offset \div 2 >= Half
  <2> SUFFICES ASSUME offset >= 0, ~(at + q < Half) PROVE at + offset \div 2 >= Half
    OBVIOUS
  <2>1. at + q >= Half
    BY <1>1, <1>2
  <2> QED BY <1>2, <2>1
<1> QED BY <1>6, <1>7, <1>8

\* The pointer goes where the mouse goes: down and back always, and to the right
\* unless it is where an int8_t overflows.
THEOREM PointerFollowsAlways == Spec => PointerFollows
<1> DEFINE Follows(offset) ==
        /\ offset[1] >= 0 => \/ pointer'[1] >= pointer[1]
                             \/ pointer[1] + offset[1] \div 2 >= Half
        /\ offset[2] >= 0 => pointer'[2] >= pointer[2]
        /\ offset[1] <= 0 => pointer'[1] <= pointer[1]
        /\ offset[2] <= 0 => pointer'[2] <= pointer[2]
<1>1. ASSUME IInv, NEW offset \in Offsets, OnMouseMove(offset) PROVE Follows(offset)
  <2>1. /\ pointer'[1] = Step(pointer[1], offset[1], Width)
        /\ pointer'[2] = Step(pointer[2], offset[2], Height)
    BY <1>1 DEF OnMouseMove
  <2>2. /\ Width \in Nat \ {0} /\ Height \in Nat \ {0} /\ Half \in Nat
        /\ Width <= Half /\ 2 * Height <= Half /\ Height <= Half
        /\ offset[1] \in -Half .. Half - 1 /\ offset[2] \in -Half .. Half - 1
    BY ConsoleAssumption
  <2>3. pointer[1] \in 0 .. Width - 1 /\ pointer[2] \in 0 .. Height - 1
    BY <1>1 DEF IInv, TypeOK
  <2>4. /\ offset[1] >= 0 => \/ Step(pointer[1], offset[1], Width) >= pointer[1]
                             \/ pointer[1] + offset[1] \div 2 >= Half
        /\ offset[1] <= 0 => Step(pointer[1], offset[1], Width) <= pointer[1]
    BY <2>2, <2>3, StepFollows
  <2>5. /\ offset[2] >= 0 => Step(pointer[2], offset[2], Height) >= pointer[2]
        /\ offset[2] <= 0 => Step(pointer[2], offset[2], Height) <= pointer[2]
    BY <2>2, <2>3, StepFollows
  <2> QED BY <2>1, <2>4, <2>5
<1> DEFINE Follow == \A offset \in Offsets :
                         pointer' # pointer /\ OnMouseMove(offset) => Follows(offset)
<1>2. IInv => [Follow]_console
  BY <1>1
<1>3. PointerFollows <=> [][Follow]_console
  BY DEF PointerFollows
<1> HIDE DEF Follow
<1> QED BY <1>2, <1>3, Invariance, PTL
------------------------------------------------------------------------------
(* printf comes nearer to its end.                                          *)

\* What is left of a count.
LEMMA CountLeft ==
    ASSUME NEW n \in Nat, NEW k \in 0 .. n PROVE n - k \in Nat /\ n + 1 - k \in Nat
  OBVIOUS

\* A sequence has a length.
LEMMA LengthCounts == ASSUME NEW S, NEW s \in Seq(S) PROVE Len(s) \in Nat
  OBVIOUS

\* Six numbers are a function on their positions.
LEMMA SixNumbers ==
    ASSUME NEW a \in Nat, NEW b \in Nat, NEW c \in Nat, NEW d \in Nat, NEW e \in Nat, NEW f \in Nat
    PROVE  <<a, b, c, d, e, f>> \in [1 .. 6 -> Nat]
  OBVIOUS

\* What is left is counted in natural numbers, after every step of printf.
LEMMA DistanceCounts == ASSUME IInv, Printf PROVE Distance' \in [1 .. 6 -> Nat]
<1>1. IInv'
  BY PrintfIInv
<1>2. x' \in 0 .. Width /\ y' \in 0 .. Height /\ Width \in Nat /\ Height \in Nat
  BY <1>1, ConsoleAssumption DEF IInv, TypeOK
<1>3. /\ pc' = "store_column" => register' \in 0 .. Width
      /\ pc' = "store_row" => register' \in 0 .. Height
  <2>1. register' \in 0 .. Width + Height
    BY <1>1 DEF IInv, TypeOK
  <2>2. /\ pc' = "store_column" => register' <= Width
        /\ pc' = "store_row" => register' <= Height
    BY <1>1 DEF IInv, Within
  <2> QED BY <1>2, <2>1, <2>2
<1>4. Statements' \in Nat /\ RowStatements' \in Nat /\ ColumnStatements' \in Nat
  BY DEF Statements, RowStatements, ColumnStatements
<1>5. RowsLeft' \in Nat
  BY <1>2, <1>3, CountLeft DEF RowsLeft
<1>6. ColumnsLeft' \in Nat
  BY <1>2, <1>3, CountLeft DEF ColumnsLeft
<1>7. Len(rest') \in Nat
  <2>1. rest' \in Seq(Characters)
    BY <1>1 DEF IInv, TypeOK
  <2> QED BY <2>1, LengthCounts
<1> QED BY <1>4, <1>5, <1>6, <1>7, SixNumbers DEF Distance

\* The first number that changes falls.
LEMMA FirstFalls ==
    ASSUME NEW i \in 1 .. 6, Distance'[i] < Distance[i],
           \A j \in 1 .. i - 1 : Distance'[j] = Distance[j]
    PROVE  Below(Distance', Distance)
<1>1. DOMAIN Distance = 1 .. 6
  BY DEF Distance
<1> QED BY <1>1 DEF Below

\* A character that is fetched is no longer left.
LEMMA FetchNearer == ASSUME IInv, Fetch PROVE Below(Distance', Distance)
<1>1. rest \in Seq(Characters)
  BY DEF IInv, TypeOK
<1>2. CASE rest = <<>>
  <2>1. rest' = rest /\ Statements = 1 /\ Statements' = 0
    BY <1>2 DEF Fetch, Statements, Clearing, Blanking
  <2>2. Distance'[1] = Distance[1] /\ Distance'[2] < Distance[2]
    BY <2>1 DEF Distance
  <2> QED BY <2>2, FirstFalls
<1>3. CASE rest # <<>>
  <2>1. rest' = Tail(rest)
    BY <1>3 DEF Fetch
  <2>2. Len(rest') < Len(rest)
    BY <1>1, <1>3, <2>1
  <2>3. Distance'[1] < Distance[1]
    BY <2>2 DEF Distance
  <2> QED BY <2>3, FirstFalls
<1> QED BY <1>2, <1>3

\* The statements of a character come one after the other; so do clearing and
\* what follows it.
LEMMA StatementNearer ==
    ASSUME rest' = rest, Statements' < Statements PROVE Below(Distance', Distance)
<1>1. Distance'[1] = Distance[1] /\ Distance'[2] < Distance[2]
  BY DEF Distance
<1> QED BY <1>1, FirstFalls

\* A row, and then what is done in it.
LEMMA RowNearer ==
    ASSUME rest' = rest, Statements' = Statements,
           \/ RowsLeft' < RowsLeft
           \/ RowsLeft' = RowsLeft /\ RowStatements' < RowStatements
    PROVE  Below(Distance', Distance)
<1>1. Distance'[1] = Distance[1] /\ Distance'[2] = Distance[2]
  BY DEF Distance
<1>2. CASE RowsLeft' < RowsLeft
  <2>1. Distance'[3] < Distance[3] /\ \A j \in 1 .. 3 - 1 : Distance'[j] = Distance[j]
    BY <1>1, <1>2 DEF Distance
  <2> QED BY <2>1, FirstFalls
<1>3. CASE RowsLeft' = RowsLeft /\ RowStatements' < RowStatements
  <2>1. Distance'[4] < Distance[4] /\ \A j \in 1 .. 4 - 1 : Distance'[j] = Distance[j]
    BY <1>1, <1>3 DEF Distance
  <2> QED BY <2>1, FirstFalls
<1> QED BY <1>2, <1>3

\* A column, and then what is done with its cell.
LEMMA ColumnNearer ==
    ASSUME rest' = rest, Statements' = Statements,
           RowsLeft' = RowsLeft, RowStatements' = RowStatements,
           \/ ColumnsLeft' < ColumnsLeft
           \/ ColumnsLeft' = ColumnsLeft /\ ColumnStatements' < ColumnStatements
    PROVE  Below(Distance', Distance)
<1>1. \A j \in 1 .. 4 : Distance'[j] = Distance[j]
  BY DEF Distance
<1>2. CASE ColumnsLeft' < ColumnsLeft
  <2>1. Distance'[5] < Distance[5] /\ \A j \in 1 .. 5 - 1 : Distance'[j] = Distance[j]
    BY <1>1, <1>2 DEF Distance
  <2> QED BY <2>1, FirstFalls
<1>3. CASE ColumnsLeft' = ColumnsLeft /\ ColumnStatements' < ColumnStatements
  <2>1. Distance'[6] < Distance[6] /\ \A j \in 1 .. 6 - 1 : Distance'[j] = Distance[j]
    BY <1>1, <1>3 DEF Distance
  <2> QED BY <2>1, FirstFalls
<1> QED BY <1>2, <1>3

\* The cell of a column is blanked, and the column counted.
LEMMA BlankNearer ==
    ASSUME IInv,
           \/ LoadRow("blank_address", "blank_load") \/ LoadCell("blank_load", "blank_row")
           \/ LoadRow("blank_row", "blank_store") \/ StoreCell("blank_store", "next_column")
           \/ LoadX("next_column", "store_column") \/ StoreX("store_column", "test_column")
    PROVE  Below(Distance', Distance)
<1>1. /\ x \in Nat /\ y \in Nat /\ register \in Nat
      /\ Width \in Nat /\ Height \in Nat
  BY Numbers
<1>2. /\ pc \in Blanking /\ pc' \in Blanking /\ rest' = rest /\ y' = y
  BY DEF LoadRow, LoadCell, StoreCell, LoadX, StoreX, Goto, Blanking
<1>3. Statements' = Statements /\ RowStatements' = RowStatements
  BY <1>2 DEF Statements, RowStatements, Clearing, Blanking
<1>4. RowsLeft' = RowsLeft
  BY <1>2 DEF RowsLeft, Clearing, Blanking
<1>5. \/ ColumnsLeft' < ColumnsLeft
      \/ ColumnsLeft' = ColumnsLeft /\ ColumnStatements' < ColumnStatements
  <2>1. CASE \/ LoadRow("blank_address", "blank_load") \/ LoadCell("blank_load", "blank_row")
             \/ LoadRow("blank_row", "blank_store") \/ StoreCell("blank_store", "next_column")
    BY <2>1 DEF LoadRow, LoadCell, StoreCell, Goto, ColumnsLeft, ColumnStatements, Blanking
  <2>2. CASE LoadX("next_column", "store_column")
    BY <1>1, <2>2 DEF LoadX, Goto, ColumnsLeft, ColumnStatements, Blanking
  <2>3. CASE StoreX("store_column", "test_column")
    BY <1>1, <2>3 DEF StoreX, Goto, ColumnsLeft, ColumnStatements, Blanking
  <2> QED BY <2>1, <2>2, <2>3
<1> QED BY <1>2, <1>3, <1>4, <1>5, ColumnNearer

\* A row is begun, its columns are left behind, and it is counted.
LEMMA ClearNearer == ASSUME IInv, Clear PROVE Below(Distance', Distance)
<1>1. /\ x \in Nat /\ y \in Nat /\ register \in Nat
      /\ Width \in Nat /\ Height \in Nat
  BY Numbers
<1>2. rest' = rest
  BY PrintfLeaves DEF Printf, Clear, Fetch, ZeroX, ZeroY, LoadRow, LoadCell, StoreCell,
                      LoadX, StoreX, LoadY, StoreY, TestY, TestX, Goto
<1>3. CASE ZeroY("clear", "test_row") \/ ZeroX("home_x", "home_y") \/ ZeroY("home_y", "fetch")
  <2>1. Statements' < Statements
    BY <1>3 DEF ZeroX, ZeroY, Goto, Statements, Clearing, Blanking
  <2> QED BY <1>2, <2>1, StatementNearer
<1>4. CASE TestY("test_row", "first_column", "home_x")
  <2>1. CASE y >= Height
    <3>1. Statements' < Statements
      BY <1>4, <2>1 DEF TestY, Goto, Statements, Clearing, Blanking
    <3> QED BY <1>2, <3>1, StatementNearer
  <2>2. CASE ~(y >= Height)
    <3>1. /\ Statements' = Statements /\ RowsLeft' = RowsLeft
          /\ RowStatements' < RowStatements
      BY <1>4, <2>2 DEF TestY, Goto, Statements, RowsLeft, RowStatements, Clearing, Blanking
    <3> QED BY <1>2, <3>1, RowNearer
  <2> QED BY <2>1, <2>2
<1>5. CASE ZeroX("first_column", "test_column")
  <2>1. /\ Statements' = Statements /\ RowsLeft' = RowsLeft
        /\ RowStatements' < RowStatements
    BY <1>5 DEF ZeroX, Goto, Statements, RowsLeft, RowStatements, Clearing, Blanking
  <2> QED BY <1>2, <2>1, RowNearer
<1>6. CASE TestX("test_column", "blank_address", "next_row")
  <2>1. Statements' = Statements /\ RowsLeft' = RowsLeft
    BY <1>6 DEF TestX, Goto, Statements, RowsLeft, Clearing, Blanking
  <2>2. CASE x >= Width
    <3>1. RowStatements' < RowStatements
      BY <1>6, <2>2 DEF TestX, Goto, RowStatements, Blanking
    <3> QED BY <1>2, <2>1, <3>1, RowNearer
  <2>3. CASE ~(x >= Width)
    <3>1. /\ RowStatements' = RowStatements /\ ColumnsLeft' = ColumnsLeft
          /\ ColumnStatements' < ColumnStatements
      BY <1>6, <2>3 DEF TestX, Goto, RowStatements, ColumnsLeft, ColumnStatements, Blanking
    <3> QED BY <1>2, <2>1, <3>1, ColumnNearer
  <2> QED BY <2>2, <2>3
<1>7. CASE LoadY("next_row", "store_row")
  <2>1. /\ Statements' = Statements /\ RowsLeft' = RowsLeft
        /\ RowStatements' < RowStatements
    BY <1>1, <1>7 DEF LoadY, Goto, Statements, RowsLeft, RowStatements, Clearing, Blanking
  <2> QED BY <1>2, <2>1, RowNearer
<1>8. CASE StoreY("store_row", "test_row")
  <2>1. Statements' = Statements /\ RowsLeft' < RowsLeft
    BY <1>1, <1>8 DEF StoreY, Goto, Statements, RowsLeft, Clearing, Blanking
  <2> QED BY <1>2, <2>1, RowNearer
<1> QED BY <1>3, <1>4, <1>5, <1>6, <1>7, <1>8, BlankNearer DEF Clear

\* Whatever the keys have made of the counters of its loops, each access of
\* printf brings it nearer to its end, by a measure that cannot fall for ever.
THEOREM PrintfNearsItsEndAlways == Spec => PrintfNearsItsEnd
<1>1. ASSUME IInv, Printf PROVE Below(Distance', Distance)
  <2>1. CASE Write
    <3>1. rest' = rest /\ Statements' < Statements
      BY <2>1 DEF Write, LoadRow, LoadCell, StoreCell, LoadX, StoreX, Goto, Statements,
                  Clearing, Blanking
    <3> QED BY <3>1, StatementNearer
  <2>2. CASE NewLine
    <3>1. rest' = rest /\ Statements' < Statements
      BY <2>2 DEF NewLine, ZeroX, LoadY, StoreY, TestX, TestY, Goto, Statements,
                  Clearing, Blanking
    <3> QED BY <3>1, StatementNearer
  <2> QED BY <1>1, <2>1, <2>2, FetchNearer, ClearNearer DEF Printf
<1> DEFINE Nearer == Printf => Distance' \in [1 .. 6 -> Nat] /\ Below(Distance', Distance)
<1>2. IInv => [Nearer]_console
  BY <1>1, DistanceCounts
<1>3. PrintfNearsItsEnd <=> [][Nearer]_console
  BY DEF PrintfNearsItsEnd
<1> HIDE DEF Nearer
<1> QED BY <1>2, <1>3, Invariance, PTL
==============================================================================
