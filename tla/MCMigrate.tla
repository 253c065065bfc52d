------------------------------ MODULE MCMigrate ------------------------------
(***************************************************************************)
(* Small instances of Migrate (and KeyEnvelope) for TLC.                   *)
(***************************************************************************)
EXTENDS Migrate, TLC

MCVersions == 0..MaxRuns

With(e, w, d, n, objs) ==
  [encrypt |-> e, overwrite |-> w, dryRun |-> d, concurrency |-> n, prefix |-> objs]

\* Each flag on and off, with and without encryption; one key at a time, and in
\* a dry run two at once; all objects, and those of a prefix.
SomeFlags ==
  {With(TRUE, FALSE, FALSE, 1, Objects), With(FALSE, FALSE, TRUE, 2, Objects)} \cup
  {With(FALSE, FALSE, FALSE, 1, {o}) : o \in Objects} \cup
  {With(TRUE, TRUE, FALSE, 1, {o}) : o \in Objects}

Symmetry == Permutations(Objects) \cup Permutations(Keys)
=============================================================================
