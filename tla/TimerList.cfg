SPECIFICATION Spec
CONSTANTS
  Nodes = {n1, n2, n3}
  Nil = Nil
  HeadField = HeadField
  Elements = {e1, e2}
  None = None
  MaxLen = 3
SYMMETRY Symmetry
INVARIANTS
  Chained
PROPERTIES
  SeqSpec
