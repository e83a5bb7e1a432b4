SPECIFICATION Spec
CONSTANTS
  Name = {a, b, c, d}
  None = None
  MaxFile = 2
  MaxLinks = 5
SYMMETRY Symmetry
INVARIANTS TypeOK NamesReachData ListHoldsLinks
CONSTRAINT Explored
