--------------------------- MODULE MCWindowedRead ---------------------------
EXTENDS WindowedRead
=============================================================================
