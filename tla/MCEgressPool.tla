---------------------------- MODULE MCEgressPool ----------------------------
(***************************************************************************)
(* Small instances of EgressPool for TLC.                                  *)
(***************************************************************************)
EXTENDS EgressPool, TLC

CONSTANTS d, p, p2, q, b

\* direct, an entry p with its later version p2 (same id), an entry q, and a
\* broken entry b.
MCIdOf == [r \in Routes |-> CASE r = d -> 0 [] r \in {p, p2} -> 1 [] r = q -> 2 [] r = b -> 3]

AllOn(n) == [enabled |-> TRUE, concurrency |-> n]
OneEach == {[i \in Ids |-> AllOn(1)]}
\* One at a time everywhere, direct possibly switched off.
OneEachMaybeDirect ==
  {[i \in Ids |-> IF i = 0 THEN [enabled |-> on, concurrency |-> 1] ELSE AllOn(1)] : on \in BOOLEAN}

Symmetry == Permutations(Tasks) \cup Permutations(Checkers)
              \cup Permutations(Patchers) \cup Permutations(Ips)
=============================================================================
