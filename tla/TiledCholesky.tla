----------------------------- MODULE TiledCholesky -----------------------------
(***************************************************************************)
(* What a tile Cholesky factorisation promises, without tasks, copies or   *)
(* messages: tile (m, n) of the lower triangle is updated once with every  *)
(* panel k < n, in this order, and then becomes part of panel n; an update *)
(* with panel k uses tiles of panel k that are final.  version[<<m, n>>]   *)
(* counts the updates of a tile.                                           *)
(***************************************************************************)
EXTENDS Integers

CONSTANT mt

VARIABLE version

Index == 0 .. mt-1
Lower == {x \in Index \X Index : x[2] <= x[1]}

Final(m, n) == version[<<m, n>>] = n + 1

Advance(m, n, k) ==
  /\ version[<<m, n>>] = k
  /\ version' = [version EXCEPT ![<<m, n>>] = k + 1]

Init == version = [x \in Lower |-> 0]

\* Factorise the diagonal tile of panel k.
Factor(k) == Advance(k, k, k)

\* Solve tile m of panel k with the factor of its diagonal tile.
Solve(m, k) == k < m /\ Final(k, k) /\ Advance(m, k, k)

\* Update tile (m, n) with the tiles m and n of panel k.
Update(m, n, k) ==
  k < n /\ n <= m /\ Final(m, k) /\ Final(n, k) /\ Advance(m, n, k)

Next ==
  \/ \E k \in Index : Factor(k)
  \/ \E m, k \in Index : Solve(m, k)
  \/ \E m, n, k \in Index : Update(m, n, k)

Spec == Init /\ [][Next]_version
=============================================================================
