---------------------------- MODULE MCCacheFill ----------------------------
(***************************************************************************)
(* Small instances of CacheFill for TLC.                                   *)
(***************************************************************************)
EXTENDS CacheFill, TLC

CONSTANTS u1, u2

NoBatch == {}
Twice == {<<u1, u1>>}
\* The second longer than its two workers.
Repeated == {<<u1, u1>>, <<u1, u1, u1>>}
\* More URLs than workers, the first one again at the end.
Again == {<<u1, u2, u1>>, <<u1, u1>>}

Symmetry == Permutations(Clients) \cup Permutations(Workers) \cup Permutations(Fills)
=============================================================================
