SPECIFICATION Spec
CONSTANTS
  Nodes = {n1, n2, n3, n4, n5, n6}
  Nil = Nil
  Modulus = 6
SYMMETRY Symmetry
INVARIANTS SearchTree
