SPECIFICATION AccessSpec
CONSTANTS
  Employee = {anna, boris}
  Workspace = {bar, kitchen}
  Nothing = Nothing
  Rotations = 1
  Operations = 3
SYMMETRY Symmetry
INVARIANTS
  DirectoryInStep
  
