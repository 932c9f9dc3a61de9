SPECIFICATION Spec
CONSTANTS
  Users = {u1}
  Admins = {}
  Chats <- GroupOnly
  Removal = {"group"}
  SiteDeactivation = FALSE
  Decisions = {"deny"}
  Reordering = TRUE
  MaxUpdates = 1
  MaxRestores = 2
  MaxCrashes = 0
INVARIANT TypeOK
INVARIANT BanWasReported
INVARIANT OwnRemovalIsNoManualBan
INVARIANT AdminKickRecorded
PROPERTY BanLiftedByRestore
PROPERTY DeniedStaysOut
