SPECIFICATION Spec
CONSTANTS
  Users = {u1}
  Accounts = {u1}
  Commands = {"deny", "allow", "revoke_site_access", "restore_site_access", "issue_credentials"}
  MaxPending = 3
  MaxManual = 1
  MaxUpdates = 1
  MaxFailures = 1
INVARIANT TypeOK
INVARIANT LicenceFollowsGroup
PROPERTY BarredStaysOut
