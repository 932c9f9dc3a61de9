SPECIFICATION Spec
CONSTANTS
  Users = {u1, u2}
  Products = {p1}
  Licences = {l1, l2}
  None = None
  MaxLate = 1
SYMMETRY Symmetry
INVARIANT TypeOK
INVARIANT NoSecondLicence
INVARIANT AdministratorsDecide
INVARIANT ClubKeyIsGranted
INVARIANT ShownIsVouchedFor
PROPERTY RevokedKeyStaysRevoked
