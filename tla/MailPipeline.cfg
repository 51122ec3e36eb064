CONSTANTS
  None = None
  Fetchers = {"poll"}
  Pollers = {"poll"}
  Mails <- AllMails
  Trait <- AllTraits
  Since <- RangeStart
  Now <- At5
  LegacyUids = {None}
  MaxRounds = 2
  MaxUid = 2
  MaxOps = 1
  MaxInterrupts = 1
SPECIFICATION Spec
INVARIANTS
  TypeOK
  OneItemPerMail
  LinkLeadsToItem
  PromoNotKept
  UndatedIsMarked
