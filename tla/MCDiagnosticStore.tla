------------------------- MODULE MCDiagnosticStore -------------------------
EXTENDS DiagnosticStore, TLC

\* Threads, error slots, landing slots and sites are interchangeable.
Symmetry ==
  Permutations(Threads) \cup Permutations(Errors) \cup
  Permutations(Landings) \cup Permutations(Sites)

\* One thread whose landings nest: arena and chain overflow.
Nesting ==
  {[threads |-> {t}, sites |-> Sites, scoped |-> TRUE, migrates |-> FALSE,
    max_inflight |-> 2, MaxOpens |-> 3, MaxTrail |-> 3] : t \in Threads}

\* Threads that exchange errors and end landings in any order: every slot is
\* used again.
Sharing ==
  {[threads |-> Threads, sites |-> {s}, scoped |-> FALSE, migrates |-> TRUE,
    max_inflight |-> 1, MaxOpens |-> 2, MaxTrail |-> 0] : s \in Sites}

NestingOrSharing == Nesting \cup Sharing

\* Threads that exchange errors, whose landings nest.
Handing ==
  {[threads |-> Threads, sites |-> Sites, scoped |-> TRUE, migrates |-> TRUE,
    max_inflight |-> 2, MaxOpens |-> 2, MaxTrail |-> 1]}
=============================================================================
