CONSTANTS
  Threads = {t1, t2}
  Errors = {e1, e2}
  Landings = {l1}
  Sites = {s1}
  MaxInflight = 2
  MaxChain = 1
  IdRange = 4
  Programs <- Handing
SPECIFICATION Spec
SYMMETRY Symmetry
INVARIANTS ForeignResolvesNothing
CHECK_DEADLOCK FALSE
