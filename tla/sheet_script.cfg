SPECIFICATION Spec
CONSTANTS
  Payments = {x1, x2}
  Referenced = {x1}
  Commands = {c1}
  Runs = {e1, e2}
  None = None
  Lines = 5
  MaxStarts = 3
SYMMETRY Symmetry
CHECK_DEADLOCK FALSE
INVARIANT TypeOK
PROPERTY CreditedOnce
