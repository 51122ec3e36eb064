CONSTANTS
  None = None
  Fetchers = {"poll", "manual"}
  Pollers = {"poll"}
  Mails <- PairMails
  Trait <- AllTraits
  Since <- RangeStart
  Now <- At5
  LegacyUids <- LegacyPair
  MaxRounds = 0
  MaxUid = 2
  MaxOps = 0
  MaxInterrupts = 1
SPECIFICATION FairSpec
INVARIANTS
  CursorCovered
  OneItemPerMail
PROPERTIES
  IntakeSpec
  MailTaken
