------------------------------ MODULE MCTextIO -------------------------------
\* Small values for TextIO: strings longer than the buffer, with a byte that
\* comes twice, and room for one of them in each inode a program writes.
EXTENDS TextIOProps

MCStrings == {<<1, 2, 1>>}
MCContents == {<<1, 2, 2>>}
MCMaxLen == [f |-> 3, stdin |-> 0, stdout |-> 3, stderr |-> 0]
MCFileOnly == [f |-> 3, stdin |-> 0, stdout |-> 0, stderr |-> 0]
=============================================================================
