------------------------------- MODULE MCzamax1 -------------------------------
EXTENDS CORE_zamax1_thread

\* Four calls: the last thread wins, thread 1 wins a tie against the last one,
\* all equal (a barrier), thread 0 wins.
Table == << <<1, 2, 3, 4>>, <<1, 2, 2, 2>>, <<1, 1, 1, 1>>, <<3, 0, 2, 1>> >>
Amx(t, r) == Table[r][t + 1]
=============================================================================
