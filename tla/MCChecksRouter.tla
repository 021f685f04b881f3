--------------------------- MODULE MCChecksRouter ---------------------------
(***************************************************************************)
(* ChecksRouter with two checks, two handlers at work at the same time and *)
(* two wizards, the second of which may start before the first one ends.   *)
(***************************************************************************)
EXTENDS ChecksRouter, TLC

CONSTANTS c1, c2, j1, j2

MCSymmetry == Permutations({c1, c2}) \union Permutations({j1, j2})
=============================================================================
