------------------------------ MODULE MCConsole ------------------------------
\* A message, texts and movements for TLC.  Width and Half stand to each other
\* as 80 and 128 do: half the largest movement takes the pointer from the right
\* edge out of an int8_t, and from the bottom does not.
EXTENDS Console

MCMessage == <<"c", "c", "\n">>
MCTexts == {<<"c">>, <<"\n">>, <<"c", "c", "c">>}
MCOffsets == {<<3, 0>>, <<-4, 3>>, <<-2, -2>>}
=============================================================================
