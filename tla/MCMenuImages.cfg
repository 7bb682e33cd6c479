SPECIFICATION ImagesSpec
CONSTANTS
  i1 = i1
  i2 = i2
  a1 = a1
  a2 = a2
  l1 = l1
  l2 = l2
  Item = {i1, i2}
  Asset = {a1, a2, l1, l2}
  LegacyAsset <- MCLegacyAsset
  None = None
  Operation = {o1}
  Patient = TRUE
SYMMETRY Symmetry
INVARIANTS
  ReferencedImagesExist
  
