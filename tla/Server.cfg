CONSTANTS
  None = None
  Requesters = {"r1"}
  MaxAccounts = 2
  MaxRequests = 3
  CheckTimes = {1}
  MaxClock = 2
  MaxFaults = 1
SPECIFICATION FairSpec
INVARIANTS
  TypeOK
  CopiedIntoEmpty
  OneDefault
  MarkedIsChecked
  OncePerCheckTime
PROPERTIES
  EnabledIsPolled
  DisabledFallsSilent
  ScansGoOn
