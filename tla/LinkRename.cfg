SPECIFICATION RenameSpec
CONSTANTS
  Name = {a, b, c}
  None = None
  MaxFile = 2
  MaxLinks = 3
SYMMETRY Symmetry
INVARIANT ListHoldsLinks
CONSTRAINT Explored
