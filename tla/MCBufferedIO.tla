----------------------------- MODULE MCBufferedIO ----------------------------
\* Files longer than the buffer and than iobuff, with a line end (9) in the
\* middle, at the end, twice, or nowhere.
EXTENDS BufferedIO

MCFiles == {<<>>, <<1, 2>>, <<1, 9, 2, 9>>, <<9, 9, 1, 2, 3>>, <<1, 2, 3, 4, 5, 9>>}
=============================================================================
