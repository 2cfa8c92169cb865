SPECIFICATION Spec
CONSTANTS Pools = {c1, c2, c3}
          Pages = {p1, p2, p3}
          NumElements = 2
          NoElement = NoElement
INVARIANTS OnePlace NoUseAfterFree NoLeak OwnerIsAlive
SYMMETRY Symmetry
