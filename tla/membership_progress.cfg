SPECIFICATION FairSpec
CONSTANTS
  Users = {u1}
  Admins = {}
  Chats <- GroupOnly
  Removal = {"group"}
  SiteDeactivation = FALSE
  Decisions = {}
  Reordering = FALSE
  MaxUpdates = 1
  MaxRestores = 0
  MaxCrashes = 1
PROPERTY LapsedMemberLeaves
