SPECIFICATION Spec
CONSTANTS
  Payments = {x1}
  Referenced = {x1}
  Commands = {c1, c2}
  Runs = {e1, e2}
  None = None
  Lines = 5
  MaxStarts = 3
SYMMETRY Symmetry
CHECK_DEADLOCK FALSE
INVARIANT AnsweredCommandWasCarriedOut
