-------------------------- MODULE MCBuildRequests --------------------------
(* Two requests at once on two builds and an instance.                      *)
EXTENDS BuildRequests, TLC

CONSTANTS a, b,         \* requests
          s1, s2,       \* schemas
          l1, l2,       \* mutexes
          t1, t2,       \* temporary containers
          port          \* the port lock file

MCKeys == BuildKeys \cup {port}
MCSymmetry == Permutations(Threads) \cup Permutations(Schemas) \cup Permutations(Locks) \cup Permutations(Temps)
=============================================================================
