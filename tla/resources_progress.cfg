SPECIFICATION FairSpec
CONSTANTS
  Users = {u1}
  Accounts = {}
  Commands = {"issue_credentials"}
  MaxPending = 2
  MaxManual = 1
  MaxUpdates = 1
  MaxFailures = 1
PROPERTY LeaverLosesSite
PROPERTY MemberRegainsSite
