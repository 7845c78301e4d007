------------------------------ MODULE MCzgetrf_1d ------------------------------
EXTENDS zgetrf_1d

\* The columns of tiles are dealt out to Q processes, and so are the pivots.
CONSTANT Q
ColumnCyclic(x) == x[2] % Q
=============================================================================
