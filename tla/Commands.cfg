CONSTANTS
  d1 = d1
  d2 = d2
  Orders = {d1, d2}
  MaxRestarts = 1
SPECIFICATION Spec
SYMMETRY MCSymmetry
INVARIANTS
  OnceAndAckedMeansRan
  RecordIsTrue
  DrillIsShownAsItIs
PROPERTY
  NeverRevives
CHECK_DEADLOCK FALSE
