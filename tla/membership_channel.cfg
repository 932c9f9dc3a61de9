SPECIFICATION Spec
CONSTANTS
  Users = {u1}
  Admins = {}
  Chats <- GroupAndChannel
  Removal = {"group", "channel"}
  SiteDeactivation = TRUE
  Decisions = {}
  Reordering = FALSE
  MaxUpdates = 1
  MaxRestores = 0
  MaxCrashes = 1
PROPERTY RemovalFollowsAlert
