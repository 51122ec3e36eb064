CONSTANTS
  None = None
  Deciders = {"d1"}
  Filers = {"f1"}
  Mails = {1}
  Deadlines = {100}
  Chosen = {"core", "career_promo", "completed"}
  MaxApprovals = 1
  MaxItems = 4
  MaxOps = 2
  MaxCrashes = 1
SPECIFICATION Spec
INVARIANTS
  TypeOK
  RejectedUntouched
  ApprovedDeletionHolds
  MadeItemIsLinked
  FiledAway
PROPERTIES
  DecisionsAreFinal
CHECK_DEADLOCK FALSE
