SPECIFICATION Spec
CONSTANTS
  r1 = r1
  r2 = r2
  r3 = r3
  Run = {r1, r2, r3}
  Heavy = {r1, r2}
  PerPage = 2
SYMMETRY Symmetry
CHECK_DEADLOCK FALSE
PROPERTY CheckSound
