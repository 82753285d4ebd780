SPECIFICATION Spec
CONSTANTS
  i1 = i1
  i2 = i2
  i3 = i3
  r1 = r1
  Inits = {i1, i2, i3}
  Readers = {r1}
  NoFile = NoFile
  NoOne = NoOne
SYMMETRY Symmetry
INVARIANTS TypeOK SuccessIsNeverTorn OneWriter OneIdentity
PROPERTIES NeverOverwritten ImplementsDirectory
CHECK_DEADLOCK FALSE
