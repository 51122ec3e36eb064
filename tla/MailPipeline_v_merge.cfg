CONSTANTS
  None = None
  Fetchers = {"poll", "manual"}
  Pollers = {"poll"}
  Mails <- TwoMails
  Trait <- AllTraits
  Since <- RangeStart
  Now <- At5
  LegacyUids = {None}
  MaxRounds = 1
  MaxUid = 2
  MaxOps = 0
  MaxInterrupts = 0
SPECIFICATION Spec
INVARIANTS
  LinkLeadsToItem
