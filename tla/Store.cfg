CONSTANTS
  Threads = {t1, t2}
  Errors = {e1, e2}
  Landings = {l1, l2}
  Sites = {s1, s2}
  MaxInflight = 2
  MaxChain = 2
  IdRange = 5
  Programs <- NestingOrSharing
SPECIFICATION Spec
SYMMETRY Symmetry
INVARIANTS TypeOK ContextExact LandingOwnsExactly ChainFaithful LandingKeepsOlder
PROPERTIES NoResurrection
CHECK_DEADLOCK FALSE
