SPECIFICATION FairSpec
CONSTANTS
  Jobs <- MCJobs
  Kinds = {"restores", "licences"}
  KindOf <- MCKindOf
  Order <- MCOrder
  LockFirst = {"restores"}
  Kept = {"licences"}
  Window = 1
  Runs = {s1, s2}
  None = None
  MaxFaults = 1
INVARIANT TypeOK
INVARIANT LockedJobMadeOnce
PROPERTY EndsOnce
PROPERTY EveryJobEnds
