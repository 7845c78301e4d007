------------------------------ MODULE MCzpotrf_L ------------------------------
EXTENDS zpotrf_L

\* A 2D block-cyclic distribution on a grid of P x Q processes.
CONSTANTS P, Q
Grid(x) == Q * (x[1] % P) + (x[2] % Q)
=============================================================================
