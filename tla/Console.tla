------------------------------- MODULE Console -------------------------------
(***************************************************************************)
(* The console (kernel.cpp): printf, which keeps its cursor in static      *)
(* variables, called by kernelMain with interrupts on and by the handlers  *)
(* of the keyboard; and the mouse pointer, a cell whose colours are        *)
(* swapped.  kernelMain's call goes access by access, as the code is built *)
(* (no optimisation: every use of x and y is a load, every assignment a    *)
(* store of its own); a handler runs with interrupts off and is one step.  *)
(* Loads of x and of the cell it selects are one step: no handler changes  *)
(* what one finds after the other.  Of a cell only its colours are kept.   *)
(***************************************************************************)
EXTENDS Integers, Sequences, FiniteSets

CONSTANTS
    Width, Height,  \* 80 and 25 in the code
    Half,           \* int8_t counts from -Half to Half - 1
    Message,        \* what kernelMain prints with interrupts on
    Texts,          \* what the keyboard's handlers print
    Offsets,        \* the movements the mouse's handler is told of
    MaxMarred       \* cells gone wrong, up to which the screen is followed

Characters == {"c", "\n"}       \* a character that is shown, and a new line

ASSUME ConsoleAssumption ==
    /\ Width \in Nat \ {0} /\ Height \in Nat \ {0}
    /\ Half \in Nat /\ Width <= Half /\ 2 * Height <= Half
    /\ Message \in Seq(Characters)
    /\ Texts \subseteq Seq(Characters)
    /\ Offsets \subseteq (-Half .. Half - 1) \X (-Half .. Half - 1)
    /\ MaxMarred \in Nat

VARIABLES
    x, y,       \* printf's cursor, shared by all that print
    pc,         \* kernelMain's place in printf
    rest,       \* the characters it has not fetched
    row,        \* y as it was loaded to find a cell
    colours,    \* whether the cell it loaded was swapped
    register,   \* x or y as it was loaded to be incremented
    pointer,    \* MouseToConsole::x, y
    swapped,    \* the cells whose colours are swapped, by their index
    marred,     \* history: the cells that printf was about to store when a
                \* handler changed what it had loaded for them; all cells when
                \* they were more than MaxMarred
    start       \* history: the cursor before the message, or no cursor when
                \* a key was printed since

console == <<x, y, pc, rest, row, colours, register, pointer, swapped, marred, start>>

NoCursor == <<-1, -1>>

------------------------------------------------------------------------------
(* The handlers.                                                            *)

\* Mutant: a new line leaves the column as it is.
PutNoReturn(cursor, char) ==
    LET put == IF char = "\n" THEN <<cursor[1], cursor[2] + 1>>
               ELSE <<cursor[1] + 1, cursor[2]>>
        wrapped == IF put[1] >= Width THEN <<0, put[2] + 1>> ELSE put
    IN  IF wrapped[2] >= Height THEN <<0, 0>> ELSE wrapped

\* The cursor after one character of printf; at the bottom the screen is
\* cleared, its colours left.
Put(cursor, char) ==
    LET put == IF char = "\n" THEN <<0, cursor[2] + 1>>
               ELSE <<cursor[1] + 1, cursor[2]>>
        wrapped == IF put[1] >= Width THEN <<0, put[2] + 1>> ELSE put
    IN  IF wrapped[2] >= Height THEN <<0, 0>> ELSE wrapped

\* And after a text.
Printed(cursor, text) ==
    LET trail[i \in 0 .. Len(text)] ==
            IF i = 0 THEN cursor ELSE Put(trail[i - 1], text[i])
    IN  trail[Len(text)]

\* kernelMain is between the first load for a cell and the store to it; and
\* it has loaded the cell.
Addressing == pc \in {"load", "blank_load", "row", "blank_row", "store", "blank_store"}
Holding == pc \in {"row", "blank_row", "store", "blank_store"}

\* The cell it will store, as long as no key moves the cursor.
Target == Width * (IF pc \in {"store", "blank_store"} THEN row ELSE y) + x

Cells == 0 .. Width * (Height + 1)

\* One more cell is marred, and the screen not followed beyond MaxMarred.
Mar(cell) ==
    marred' = IF Cardinality(marred \cup {cell}) > MaxMarred THEN Cells
              ELSE marred \cup {cell}
Recolour(cells) == swapped' = IF marred' = Cells THEN {} ELSE cells

\* PrintfKeyboardEventHandler::OnKeyDown, and the driver's own print of a key
\* it does not know.
OnKeyDown(text) ==
    /\ LET cursor == Printed(<<x, y>>, text) IN x' = cursor[1] /\ y' = cursor[2]
    /\ start' = NoCursor
    /\ UNCHANGED <<pc, rest, row, colours, register, pointer>>
    /\ IF Addressing THEN Mar(Target') ELSE UNCHANGED marred
    /\ Recolour(swapped)

Index(cell) == Width * cell[2] + cell[1]

Swap(cells, i) == IF i \in cells THEN cells \ {i} ELSE cells \cup {i}

\* C's division, and the narrowing of an int to an int8_t.
Quotient(n, d) == IF n >= 0 THEN n \div d ELSE -((-n) \div d)
Narrow(n) == ((n + Half) % (2 * Half)) - Half

\* Mutant: the bound itself is let through.
StepBeyond(at, offset, limit) ==
    LET moved == Narrow(at + Quotient(offset, 2)) IN
    IF moved < 0 THEN 0 ELSE IF moved > limit THEN limit - 1 ELSE moved

\* Mutant: the pointer leaves on one side and comes in on the other.
StepAround(at, offset, limit) ==
    LET moved == Narrow(at + Quotient(offset, 2)) IN
    IF moved < 0 THEN limit - 1 ELSE IF moved >= limit THEN 0 ELSE moved

\* One coordinate: it is narrowed, and only then kept on the screen.
Step(at, offset, limit) ==
    LET moved == Narrow(at + Quotient(offset, 2)) IN
    IF moved < 0 THEN 0 ELSE IF moved >= limit THEN limit - 1 ELSE moved

\* MouseToConsole::OnMouseMove swaps the pointer's cell back, moves it, and
\* swaps the new one.
OnMouseMove(offset) ==
    /\ pointer' = <<Step(pointer[1], offset[1], Width), Step(pointer[2], offset[2], Height)>>
    /\ IF Holding /\ pointer' # pointer /\ Target \in {Index(pointer), Index(pointer')}
       THEN Mar(Target) ELSE UNCHANGED marred
    /\ Recolour(Swap(Swap(swapped, Index(pointer)), Index(pointer')))
    /\ UNCHANGED <<x, y, pc, rest, row, colours, register, start>>

Handler ==
    \/ \E text \in Texts : OnKeyDown(text)
    \/ \E offset \in Offsets : OnMouseMove(offset)

------------------------------------------------------------------------------
(* printf as kernelMain runs it.  Each action goes from one place in the    *)
(* code to another; registers that are dead are reset.                      *)

Goto(here, there) == pc = here /\ pc' = there

\* The end of the text, a new line or a character.
Fetch ==
    /\ pc = "fetch"
    /\ IF rest = <<>>
       THEN pc' = "done" /\ UNCHANGED rest
       ELSE /\ rest' = Tail(rest)
            /\ pc' = IF Head(rest) = "\n" THEN "return" ELSE "address"
    /\ UNCHANGED <<x, y, row, colours, register, pointer, swapped, marred, start>>

\* Half of an address: 80 * y.
LoadRow(here, there) ==
    /\ Goto(here, there)
    /\ row' = y
    /\ UNCHANGED <<x, y, rest, colours, register, pointer, swapped, marred, start>>

\* The cell, of which & 0xFF00 leaves the colours.
LoadCell(here, there) ==
    /\ Goto(here, there)
    /\ colours' = (Width * row + x \in swapped)
    /\ row' = 0
    /\ UNCHANGED <<x, y, rest, register, pointer, swapped, marred, start>>

\* Mutant: the character comes with the colours of an empty screen.
StoreCellPlain(here, there) ==
    /\ Goto(here, there)
    /\ swapped' = swapped \ {Width * row + x}
    /\ row' = 0 /\ colours' = FALSE
    /\ UNCHANGED <<x, y, rest, register, pointer, marred, start>>

\* The character, with those colours.
StoreCell(here, there) ==
    /\ Goto(here, there)
    /\ UNCHANGED <<x, y, rest, register, pointer, marred, start>>
    /\ Recolour(IF colours THEN swapped \cup {Target} ELSE swapped \ {Target})
    /\ row' = 0 /\ colours' = FALSE

LoadX(here, there) ==
    /\ Goto(here, there)
    /\ register' = x + 1
    /\ UNCHANGED <<x, y, rest, row, colours, pointer, swapped, marred, start>>

StoreX(here, there) ==
    /\ Goto(here, there)
    /\ x' = register /\ register' = 0
    /\ UNCHANGED <<y, rest, row, colours, pointer, swapped, marred, start>>

LoadY(here, there) ==
    /\ Goto(here, there)
    /\ register' = y + 1
    /\ UNCHANGED <<x, y, rest, row, colours, pointer, swapped, marred, start>>

StoreY(here, there) ==
    /\ Goto(here, there)
    /\ y' = register /\ register' = 0
    /\ UNCHANGED <<x, rest, row, colours, pointer, swapped, marred, start>>

ZeroX(here, there) ==
    /\ Goto(here, there)
    /\ x' = 0
    /\ UNCHANGED <<y, rest, row, colours, register, pointer, swapped, marred, start>>

ZeroY(here, there) ==
    /\ Goto(here, there)
    /\ y' = 0
    /\ UNCHANGED <<x, rest, row, colours, register, pointer, swapped, marred, start>>

TestX(here, within, beyond) ==
    /\ Goto(here, IF x >= Width THEN beyond ELSE within)
    /\ UNCHANGED <<x, y, rest, row, colours, register, pointer, swapped, marred, start>>

\* Mutant: the row below the last passes the test.
TestYLoose(here, within, beyond) ==
    /\ Goto(here, IF y > Height THEN beyond ELSE within)
    /\ UNCHANGED <<x, y, rest, row, colours, register, pointer, swapped, marred, start>>

TestY(here, within, beyond) ==
    /\ Goto(here, IF y >= Height THEN beyond ELSE within)
    /\ UNCHANGED <<x, y, rest, row, colours, register, pointer, swapped, marred, start>>

\* A character: its cell, x++.
Write ==
    \/ LoadRow("address", "load")
    \/ LoadCell("load", "row")
    \/ LoadRow("row", "store")
    \/ StoreCell("store", "increment_x")
    \/ LoadX("increment_x", "store_x")
    \/ StoreX("store_x", "test_x")

\* A new line, or the end of a line: x = 0, y++.  The test of x after a new
\* line finds no x beyond the line, and is left out.
NewLine ==
    \/ ZeroX("return", "increment_y")
    \/ TestX("test_x", "test_y", "return")
    \/ LoadY("increment_y", "store_y")
    \/ StoreY("store_y", "test_y")
    \/ TestY("test_y", "fetch", "clear")

\* Mutant: the clearing loop does not count its rows.
ClearNoCount ==
    \/ ZeroY("clear", "test_row")
    \/ TestY("test_row", "first_column", "home_x")
    \/ ZeroX("first_column", "test_column")
    \/ TestX("test_column", "blank_address", "test_row")
    \/ LoadRow("blank_address", "blank_load")
    \/ LoadCell("blank_load", "blank_row")
    \/ LoadRow("blank_row", "blank_store")
    \/ StoreCell("blank_store", "next_column")
    \/ LoadX("next_column", "store_column")
    \/ StoreX("store_column", "test_column")
    \/ ZeroX("home_x", "home_y")
    \/ ZeroY("home_y", "fetch")

\* At the bottom: all cells are blanked, by loops that count with the cursor
\* itself, and the cursor goes to the top.
Clear ==
    \/ ZeroY("clear", "test_row")
    \/ TestY("test_row", "first_column", "home_x")
    \/ ZeroX("first_column", "test_column")
    \/ TestX("test_column", "blank_address", "next_row")
    \/ LoadRow("blank_address", "blank_load")
    \/ LoadCell("blank_load", "blank_row")
    \/ LoadRow("blank_row", "blank_store")
    \/ StoreCell("blank_store", "next_column")
    \/ LoadX("next_column", "store_column")
    \/ StoreX("store_column", "test_column")
    \/ LoadY("next_row", "store_row")
    \/ StoreY("store_row", "test_row")
    \/ ZeroX("home_x", "home_y")
    \/ ZeroY("home_y", "fetch")

Printf == Fetch \/ Write \/ NewLine \/ Clear

\* Interrupts have just been turned on: the cursor is where the messages
\* before left it, and MouseToConsole::MouseToConsole has shown the pointer in
\* the middle of a screen of one colour.
Init ==
    /\ x \in 0 .. Width - 1 /\ y \in 0 .. Height - 1
    /\ pc = "fetch" /\ rest = Message
    /\ row = 0 /\ colours = FALSE /\ register = 0
    /\ pointer = <<Width \div 2, Height \div 2>>
    /\ swapped = {Index(pointer)}
    /\ marred = {}
    /\ start = <<x, y>>

Next == Printf \/ Handler

\* kernelMain goes on between the interrupts; the devices may be silent.
Spec == Init /\ [][Next]_console /\ WF_console(Printf)

------------------------------------------------------------------------------
(* Properties.                                                              *)

\* The cursor is at most one beyond the screen on either axis, even between
\* two stores, and the pointer never leaves it, though it is narrowed to an
\* int8_t before it is kept on the screen.
TypeOK ==
    /\ x \in 0 .. Width /\ y \in 0 .. Height /\ row \in 0 .. Height
    /\ register \in 0 .. Width + Height
    /\ colours \in BOOLEAN
    /\ rest \in Seq(Characters)
    /\ pointer \in (0 .. Width - 1) \X (0 .. Height - 1)
    /\ swapped \subseteq Cells /\ marred \subseteq Cells
    /\ start \in ((0 .. Width - 1) \X (0 .. Height - 1)) \cup {NoCursor}

\* Wherever a key comes between two accesses of printf, no store leaves the
\* screen and the one row after it (of a video memory of eight screens): not
\* that of the key's own characters, at a cursor kernelMain has advanced and
\* not yet brought back, nor that of kernelMain's, of a row and a column that
\* were loaded before and after the key.
InReach ==
    /\ Width * y + x \in Cells
    /\ Width * row + x \in Cells

\* Exactly the pointer's cell has its colours swapped, whatever is printed and
\* cleared and wherever the pointer moves.  When the pointer goes to or from the
\* very cell whose colours printf holds, or a key moves the cursor away from the
\* cell it loaded, the cell it stores may be wrong for good; no other ever is.
OnePointer == \A cell \in Cells \ marred : cell \in swapped <=> cell = Index(pointer)

\* printf in its many steps does what it does in one when no key comes in
\* between: it leaves the cursor where the message ends.
PrintsAsWhole ==
    pc = "done" /\ start # NoCursor => <<x, y>> = Printed(start, Message)

\* kernelMain's printf returns when the keys do not go on for ever, though
\* each of them may move the counters of its loops.
PrintfReturns ==
    <>[][\A text \in Texts : ~OnKeyDown(text)]_console => <>(pc = "done")

\* The pointer does not go back when the mouse goes on: to the right it jumps
\* to the left edge only from a column that an int8_t does not hold once half
\* the movement is added, and downwards never.
PointerFollows ==
    [][ \A offset \in Offsets :
            pointer' # pointer /\ OnMouseMove(offset) =>
                /\ offset[1] >= 0 =>
                      \/ pointer'[1] >= pointer[1]
                      \/ pointer[1] + offset[1] \div 2 >= Half
                /\ offset[2] >= 0 => pointer'[2] >= pointer[2]
                /\ offset[1] <= 0 => pointer'[1] <= pointer[1]
                /\ offset[2] <= 0 => pointer'[2] <= pointer[2] ]_console

\* How far kernelMain's printf is from its end: characters, statements of a
\* character, and, while it clears the screen, rows, statements of a row,
\* columns and statements of a column.
Blanking == {"test_column", "blank_address", "blank_load", "blank_row", "blank_store",
             "next_column", "store_column"}
Clearing == Blanking \cup {"test_row", "first_column", "next_row", "store_row"}

Statements ==
    CASE pc = "done" -> 0
      [] pc = "fetch" -> 1
      [] pc = "home_y" -> 2
      [] pc = "home_x" -> 3
      [] pc \in Clearing -> 4
      [] pc = "clear" -> 5
      [] pc = "test_y" -> 6
      [] pc = "store_y" -> 7
      [] pc = "increment_y" -> 8
      [] pc = "return" -> 9
      [] pc = "test_x" -> 10
      [] pc = "store_x" -> 11
      [] pc = "increment_x" -> 12
      [] pc = "store" -> 13
      [] pc = "row" -> 14
      [] pc = "load" -> 15
      [] OTHER -> 16

RowsLeft ==
    IF pc \notin Clearing THEN 0
    ELSE IF pc = "store_row" THEN Height + 1 - register
    ELSE Height - y

RowStatements ==
    CASE pc = "test_row" -> 4
      [] pc = "first_column" -> 3
      [] pc \in Blanking -> 2
      [] pc = "next_row" -> 1
      [] OTHER -> 0

ColumnsLeft ==
    IF pc \notin Blanking THEN 0
    ELSE IF pc = "store_column" THEN Width + 1 - register
    ELSE Width - x

ColumnStatements ==
    CASE pc = "test_column" -> 6
      [] pc = "blank_address" -> 5
      [] pc = "blank_load" -> 4
      [] pc = "blank_row" -> 3
      [] pc = "blank_store" -> 2
      [] pc = "next_column" -> 1
      [] OTHER -> 0

Distance ==
    <<Len(rest), Statements, RowsLeft, RowStatements, ColumnsLeft, ColumnStatements>>

\* a comes before b in the order of words.
Below(a, b) == \E i \in DOMAIN b : a[i] < b[i] /\ \A j \in 1 .. i - 1 : a[j] = b[j]

\* Whatever the keys have made of the counters of its loops, each access of
\* printf brings it nearer to its end, by a measure that cannot fall for ever:
\* only keys that go on for ever can keep it from returning.
PrintfNearsItsEnd ==
    [][Printf => Distance' \in [1 .. 6 -> Nat] /\ Below(Distance', Distance)]_console
=============================================================================
