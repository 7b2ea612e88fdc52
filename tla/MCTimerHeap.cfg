SPECIFICATION Spec
CONSTANTS
  e1 = e1  e2 = e2  e3 = e3  e4 = e4  e5 = e5  e6 = e6
  Entries = {e1, e2, e3, e4, e5, e6}
  Deadlines = {1, 2, 3}
SYMMETRY MCSymmetry
INVARIANT WellFormed
PROPERTIES ImplementsQueue
