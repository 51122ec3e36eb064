SPECIFICATION Spec
CONSTANTS
  None = None
  k1 = k1
  k2 = k2
  s1 = s1
  e1 = e1
  Day = 3
  LeadTime = 1
  DaysBefore = 1
  TwoHours = 2
  HalfHour = 2
  DueLimit = 9
  Deadlines <- UrgentOrNormal
  Checkers = {k1}
  Senders = {}
  Editors = {e1}
  Mergers = {}
  PromptRuns = FALSE
  MaxItems = 1
  MaxLogs = 5
  MaxNow = 2
  MaxOps = 3
  MaxInterrupts = 1
  MaxLost = 1
INVARIANT SlotDeliveredOnce
INVARIANT ScanKeepsTheGap
INVARIANT TypeOK
INVARIANT QuietNotReminded
INVARIANT RetryWaitsHalfHour
PROPERTY SentIsFinal
