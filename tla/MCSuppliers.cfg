SPECIFICATION SuppliersSpec
CONSTANTS
  s1 = s1
  s2 = s2
  r1 = r1
  Supplier = {s1, s2}
  Seeded = {s1}
  Resource = {r1}
  NewId = {n1}
  MaxEntries = 2
  References <- OneReference
  Favourites <- OneReference
  Caller = {c1, c2}
  Absent = Absent
PROPERTIES
  SavedPreferredIsSole
  ReferencesMigrated
CHECK_DEADLOCK FALSE
SYMMETRY Clients
