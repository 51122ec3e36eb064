SPECIFICATION Spec
CONSTANTS
  None = None
  k1 = k1
  k2 = k2
  s1 = s1
  e1 = e1
  Day = 3
  LeadTime = 1
  DaysBefore = 1
  TwoHours = 2
  HalfHour = 1
  DueLimit = 9
  Deadlines <- Urgent
  Checkers = {k1}
  Senders = {s1}
  Editors = {e1}
  Mergers = {e1}
  PromptRuns = TRUE
  MaxItems = 1
  MaxLogs = 7
  MaxNow = 1
  MaxOps = 2
  MaxInterrupts = 1
  MaxLost = 0
INVARIANT HoldsItsOwnRow
INVARIANT SentMeansDelivered
PROPERTY SentIsFinal
