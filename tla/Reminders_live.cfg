SPECIFICATION FairSpec
CONSTANTS
  None = None
  k1 = k1
  k2 = k2
  s1 = s1
  e1 = e1
  Day = 6
  LeadTime = 1
  DaysBefore = 1
  TwoHours = 4
  HalfHour = 1
  DueLimit = 9
  Deadlines <- FarUrgent
  Checkers = {k1}
  Senders = {s1}
  Editors = {e1}
  Mergers = {e1}
  PromptRuns = TRUE
  MaxItems = 1
  MaxLogs = 4
  MaxNow = 2
  MaxOps = 1
  MaxInterrupts = 1
  MaxLost = 0
PROPERTY DueSlotAttempted
PROPERTY DueLogAttempted
