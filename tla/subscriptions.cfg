SPECIFICATION Spec
CONSTANTS
  Subs = {a, b}
  Terms = {2, 3}
  Updates = {None, 3}
  Leads = {1}
  Window = 2
  Runs = {r1, r2}
  None = None
  LastDay = 1
  MaxEvents = 3
  MaxFaults = 1
SYMMETRY Symmetry
CHECK_DEADLOCK FALSE
INVARIANT TypeOK
 
 
