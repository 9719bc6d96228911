------------------------------- MODULE MCLsm -------------------------------
(* Instances of Lsm for TLC. *)
EXTENDS Lsm

CONSTANTS k1, k2

Keys == {k1, k2}
Vals == {1, 2}
Perms == Permutations(Keys)
NoAlias == {}
K2ExtendsK1 == {<<k2, k1>>}

Use(ops, vals, trigger, max) ==
  [ops |-> ops, vals |-> vals, l0Trigger |-> trigger, maxCalls |-> max]

\* Versions with compaction, and raw keys without it.
EveryUse == {Use({"version", "delete", "gc"}, {1}, 2, 5),
             Use({"version", "tombstone"}, {1}, 2, 5),
             Use({"put", "batch", "sync"}, {1, 2}, 9, 4)}
GroupCommit == {Use({"version", "sync"}, {1}, 2, 5)}
Versions == {Use({"version"}, {1}, 2, 5)}
Rewrites == {Use({"version"}, {1, 2}, 2, 5)}

\* Uses and an alias under which the tree is not the map (README, refuted properties).
RawPuts == {Use({"put"}, {1, 2}, 2, 5)}
RawDeletes == {Use({"put", "delete"}, {1, 2}, 2, 5)}
Redrawn == {Use({"version", "delete"}, {1}, 2, 5)}
Raw == {Use({"put", "batch", "sync"}, {1, 2}, 9, 4)}

\* Every point of a call but the two where files are already gone and the
\* manifest does not say so yet.
CoveredPoints == {"idle", "logged", "shadow", "sst", "segment", "current", "retire",
                  "compact", "remove"}
EveryPoint == Points
=============================================================================
