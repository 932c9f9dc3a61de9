SPECIFICATION Spec
CONSTANTS
  Users = {u1}
  Strangers = {s1}
  Decisions = {"deny"}
  Chats <- GroupOnly
  MaxJobs = 1
  MaxLinks = 2
  MaxRequests = 2
  MaxEvents = 3
  MaxCrashes = 1
INVARIANT TypeOK
INVARIANT DoneJobLinksKnown
PROPERTY UsedLinkIsSpent
PROPERTY OnlyOwnersEnter
PROPERTY DeniedIsNotAdmitted
CHECK_DEADLOCK FALSE
