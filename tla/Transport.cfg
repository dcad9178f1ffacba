CONSTANTS
  Results = {r1, r2, r3, n1}
  Nested = {n1}
  Types <- MCTypes
  MaxData = 3
  MaxOps = 6
SPECIFICATION Spec
SYMMETRY Symmetry
INVARIANTS NeverValueless NoFault Conserved
PROPERTIES AssignDelivers
CHECK_DEADLOCK FALSE
