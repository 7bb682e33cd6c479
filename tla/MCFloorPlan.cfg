CONSTANTS
  Zone = {z1, z2}
  Table = {t1, t2}
  Code = {c1, c2}
  Order = {o1}
  Slot = {s1, s2}
  None = None
  Operations = 3
SPECIFICATION Spec
SYMMETRY Symmetry
INVARIANTS PlanConsistent SeatedTablesStay
