--------------------------- MODULE DeliveryProofs ---------------------------
(***************************************************************************)
(* What one checker at a time guarantees about deliveries: a reminder that  *)
(* is recorded as sent stays so, a failed one waits its half hour, a slot   *)
(* is delivered once, and the item scan keeps its distance from what was    *)
(* sent before.                                                             *)
(*                                                                          *)
(* The first part flattens every step of Next into what it does to the      *)
(* process that takes it and to the tables; the invariants after it are     *)
(* proved of those descriptions.                                            *)
(***************************************************************************)
EXTENDS RemindersProofs, FiniteSetTheorems

Others(w) == \A v \in Workers : v # w => run'[v] = run[v]

TablesRest == UNCHANGED <<logs, nextLog, acks, failedAt, interrupts>>

\* No item comes into being, though one may cease to be.
NoneAppear == nextItem' = nextItem /\ \A i \in ItemIds : Exists(i)' => Exists(i)

\* Only w moves; the tables the invariants below read stay as they are.
Alone(w) == Others(w) /\ TablesRest /\ NoneAppear /\ now' = now

Rests == run' = run /\ TablesRest /\ NoneAppear /\ (now' = now \/ now' = now + 1)

Creates ==
  /\ run' = run /\ TablesRest /\ now' = now /\ nextItem' = nextItem + 1
  /\ \A i \in ItemIds : Exists(i)' => Exists(i) \/ i = nextItem

\* Rows go: those of an item that is gone too, or, in a merge, unsent ones.
Removes ==
  /\ UNCHANGED <<now, nextLog, acks, failedAt, interrupts>> /\ NoneAppear
  /\ \A v \in Workers :
       run'[v] = run[v] \/ (run[v].pc = "unsent" /\ run'[v] = Idle)
  /\ \A l \in LogIds :
       \/ logs'[l] = logs[l]
       \/ /\ logs'[l].status = "absent"
          /\ \/ items'[logs[l].item].status = "absent"
             \/ logs[l].status # "sent" /\ \E c \in Workers : run[c].pc = "unsent"

Crashes ==
  /\ run' = [w \in Workers |-> Idle] /\ interrupts' = interrupts + 1
  /\ UNCHANGED <<now, logs, nextLog, acks, failedAt>> /\ NoneAppear

Abandons(w) ==
  /\ run[w].pc = "deliver" /\ run'[w] = Idle /\ Others(w)
  /\ acks' = acks \/ acks' = Acknowledged(w, TRUE)
  /\ interrupts' = interrupts + 1
  /\ UNCHANGED <<now, logs, nextLog, failedAt>> /\ NoneAppear

\* A move with no log in hand, before it or after it.
Walks(w) ==
  /\ Alone(w)
  /\ run[w].pc \notin {"insert", "deliver", "record"}
  /\ run'[w].pc \in {"idle", "expire", "snapshot", "edit", "merge", "unsent"}
  /\ run'[w].pc \in {"merge", "unsent"} => w \in Mergers \/ run[w].pc = "merge"
  /\ run'[w].queue = {} \/ (run[w].pc = "expire" /\ run'[w].queue = run[w].queue)
  /\ run'[w].at \in {0, now} \/ run'[w].at = run[w].at
  /\ \A r \in run'[w].held : Exists(r.id)
  /\ \/ run'[w].slots = {}
     \/ /\ run'[w].slots = run[w].slots /\ run'[w].cur = run[w].cur
        /\ run'[w].recent = run[w].recent /\ run'[w].at = run[w].at

Scans(w) ==
  /\ Alone(w)
  /\ run[w].pc \in {"snapshot", "scan"} /\ run'[w].pc = "scan"
  /\ run'[w].queue = run[w].queue /\ run'[w].at = run[w].at
  /\ \A r \in run'[w].held : r \in run[w].held \/ Exists(r.id)
  /\ \/ /\ run'[w].slots \subseteq run[w].slots /\ run'[w].cur = run[w].cur
        /\ run'[w].recent = run[w].recent
     \/ /\ \E r \in run[w].held : run'[w].cur = r.id
        /\ run'[w].recent \/ ~RecentlySent(run'[w].cur, run[w].at)

\* A slot of the scan is taken up: what stays of the process.
TakesSlot(w) ==
  /\ Alone(w)
  /\ run[w].pc = "scan" /\ run[w].slots # {} /\ ~run[w].recent
  /\ run'[w].back = "scan" /\ run'[w].slots \subseteq run[w].slots
  /\ run'[w].cur = run[w].cur /\ run'[w].recent = run[w].recent
  /\ run'[w].at = run[w].at /\ run'[w].held = run[w].held
  /\ run'[w].queue = run[w].queue

Resends(w) ==
  /\ TakesSlot(w) /\ run'[w].pc = "deliver"
  /\ \E l \in LogIds :
       /\ logs[l].status # "absent" /\ logs[l].kind = "reminder"
       /\ logs[l].item = run[w].cur /\ ~Settled(logs[l], run[w].at)
       /\ run'[w].mail = logs[l]

Misses(w) ==
  /\ TakesSlot(w) /\ run'[w].pc = "insert"
  /\ \E t \in Int : run'[w].mail = NewLog(run[w].cur, t, "reminder")

Lists(w) ==
  /\ Alone(w)
  /\ run[w].pc = "scan" /\ run'[w].pc = "due"
  /\ run'[w].queue = LogsDue /\ run'[w].at = run[w].at
  /\ run'[w].held = {} /\ run'[w].slots = {}

\* A due log is taken up, to be sent or to be dropped.
TakesDue(w) ==
  /\ Alone(w)
  /\ run[w].pc = "due" /\ run'[w].back = "due"
  /\ run'[w].at = run[w].at /\ run'[w].held = run[w].held
  /\ run'[w].slots = run[w].slots /\ run'[w].cur = run[w].cur
  /\ run'[w].recent = run[w].recent
  /\ \E x \in run[w].queue :
       /\ run'[w].queue = run[w].queue \ {x}
       /\ \/ run'[w].pc = "deliver" /\ run'[w].mail = x
          \/ run'[w].pc = "record" /\ run'[w].mail = Dropped(x)

Asks(w) ==
  /\ Alone(w)
  /\ run[w].pc = "idle" /\ run'[w].pc = "insert" /\ run'[w].back = "idle" /\ run'[w].at = now
  /\ run'[w].held = {} /\ run'[w].slots = {} /\ run'[w].queue = {}
  /\ \E i \in ItemIds : Exists(i) /\ run'[w].mail = NewLog(i, now, "manual")

\* All of a process but its place and the log in its hand.
Keeps(w) ==
  /\ run'[w].at = run[w].at /\ run'[w].held = run[w].held
  /\ run'[w].slots = run[w].slots /\ run'[w].cur = run[w].cur
  /\ run'[w].queue = run[w].queue

Inserts(w) ==
  /\ Others(w) /\ Keeps(w)
  /\ run[w].pc = "insert" /\ run'[w].pc = "deliver"
  /\ run'[w].recent = run[w].recent /\ run'[w].back = run[w].back
  /\ run'[w].mail = [run[w].mail EXCEPT !.id = nextLog]
  /\ nextLog \in LogIds /\ nextLog' = nextLog + 1
  /\ logs[nextLog].status = "absent" /\ logs'[nextLog] = run'[w].mail
  /\ \A l \in LogIds : l # nextLog => logs'[l] = logs[l]
  /\ UNCHANGED <<now, acks, failedAt, interrupts>> /\ NoneAppear

\* The two answers of SMTP.
Answered(w) ==
  /\ Others(w) /\ Keeps(w)
  /\ run[w].pc = "deliver" /\ run'[w].pc = "record"
  /\ run'[w].recent = run[w].recent /\ run'[w].back = run[w].back
  /\ run'[w].mail.id = run[w].mail.id /\ run'[w].mail.item = run[w].mail.item
  /\ run'[w].mail.slot = run[w].mail.slot /\ run'[w].mail.kind = run[w].mail.kind
  /\ UNCHANGED <<now, logs, nextLog, interrupts>> /\ NoneAppear

Accepts(w) ==
  /\ Answered(w)
  /\ run'[w].mail.status = "sent" /\ run'[w].mail.sentAt = run[w].at
  /\ acks' = Acknowledged(w, TRUE) /\ failedAt' = failedAt

Refuses(w) ==
  /\ Answered(w)
  /\ run'[w].mail.status = "failed" /\ run'[w].mail.retryAt = run[w].at + HalfHour
  /\ acks' = acks \/ acks' = Acknowledged(w, FALSE)
  /\ failedAt' = [l \in LogIds |-> IF l = run[w].mail.id THEN run[w].at ELSE failedAt[l]]

\* The process goes on without its log.
Returns(w) ==
  /\ Keeps(w) /\ run[w].back \in {"scan", "due"}
  /\ run'[w].pc = run[w].back /\ run'[w].back = run[w].back
  /\ run'[w].recent = (run[w].recent \/ run[w].mail.status = "sent")

Records(w) ==
  /\ Others(w) /\ run[w].pc = "record"
  /\ (run[w].back = "idle" /\ run'[w] = Idle) \/ Returns(w)
  /\ \A l \in LogIds :
       /\ logs'[l].id = logs[l].id /\ logs'[l].item = logs[l].item
       /\ logs'[l].slot = logs[l].slot /\ logs'[l].kind = logs[l].kind
       /\ logs[l].status = "absent" => logs'[l].status = "absent"
       /\ l # run[w].mail.id => logs'[l] = logs[l]
       /\ l = run[w].mail.id /\ logs[l].status # "absent" =>
            /\ logs'[l].status = run[w].mail.status
            /\ logs'[l].sentAt = run[w].mail.sentAt
            /\ logs'[l].retryAt = run[w].mail.retryAt
  /\ UNCHANGED <<now, nextLog, acks, failedAt, interrupts>> /\ NoneAppear

\* The record could not be written.
Forgets(w) ==
  /\ Others(w) /\ run[w].pc = "record"
  /\ run'[w] = Idle \/ Returns(w)
  /\ interrupts' = interrupts + 1
  /\ UNCHANGED <<now, logs, nextLog, acks, failedAt>> /\ NoneAppear

Steps ==
  \/ Rests \/ Creates \/ Removes \/ Crashes
  \/ \E w \in Workers : Walks(w)
  \/ \E w \in Checkers :
       Scans(w) \/ Resends(w) \/ Misses(w) \/ Lists(w) \/ TakesDue(w)
  \/ \E w \in Senders : Asks(w)
  \/ \E w \in Checkers \cup Senders :
       \/ Inserts(w) \/ Accepts(w) \/ Refuses(w) \/ Records(w)
       \/ Abandons(w) \/ Forgets(w)

LEMMA GoStep ==
  ASSUME TypeOK, NEW w \in Workers, NEW p, Go(w, p)
  PROVE  run'[w] = p /\ Others(w)
BY DEF TypeOK, Go, Others

\* The listing holds rows of items that exist.
LEMMA ListedExist ==
  ASSUME QuietInv, NEW r \in ActiveRows
  PROVE  r.id \in ItemIds /\ Exists(r.id)
BY DEF QuietInv, RowsInPlace, ActiveRows, Exists

LEMMA CheckSteps ==
  ASSUME TypeOK, QuietInv, NEW w \in Checkers,
         CheckBegin(w) \/ CheckExpire(w) \/ CheckSnapshot(w)
         \/ OpenItem(w) \/ SkipSlot(w)
  PROVE  Walks(w) \/ Scans(w)
<1> USE DEF db, history
<1>1. w \in Workers /\ run[w] \in Process /\ now \in Int
  BY DEF TypeOK, Workers
<1>2. CASE CheckBegin(w)
  <2> DEFINE p == [Idle EXCEPT !.pc = "expire", !.at = now,
                               !.held = {r \in ActiveRows : Overdue(r, now)}]
  <2>1. /\ p.pc = "expire" /\ p.queue = {} /\ p.at = now /\ p.slots = {}
        /\ p.held = {r \in ActiveRows : Overdue(r, now)}
    BY DEF Idle
  <2>2. /\ Go(w, p) /\ TablesRest /\ NoneAppear /\ now' = now
        /\ run[w].pc = "idle"
    BY <1>2 DEF CheckBegin, TablesRest, NoneAppear, Exists
  <2> HIDE DEF p
  <2>3. run'[w] = p /\ Others(w)
    BY <1>1, <2>2, GoStep
  <2>4. \A r \in p.held : Exists(r.id)
    BY <2>1, ListedExist
  <2>5. QED
    BY <2>1, <2>2, <2>3, <2>4 DEF Walks, Alone
<1>3. CASE CheckExpire(w)
  <2> DEFINE p == [run[w] EXCEPT !.pc = "snapshot", !.held = {}]
  <2>1. /\ p.pc = "snapshot" /\ p.queue = run[w].queue /\ p.at = run[w].at
        /\ p.slots = run[w].slots /\ p.held = {} /\ p.cur = run[w].cur
        /\ p.recent = run[w].recent
    BY <1>1 DEF Process
  <2>2. Go(w, p) /\ TablesRest /\ now' = now /\ run[w].pc = "expire"
    BY <1>3 DEF CheckExpire, TablesRest
  <2>3. NoneAppear
    BY <1>3 DEF CheckExpire, NoneAppear, Exists
  <2> HIDE DEF p
  <2>4. run'[w] = p /\ Others(w)
    BY <1>1, <2>2, GoStep
  <2>5. QED
    BY <2>1, <2>2, <2>3, <2>4 DEF Walks, Alone
<1>4. CASE CheckSnapshot(w)
  <2> DEFINE p == [run[w] EXCEPT !.pc = "scan",
                     !.held = {r \in ActiveRows : /\ r.deadline # None
                                                  /\ ~Overdue(r, run[w].at)}]
  <2>1. /\ p.pc = "scan" /\ p.queue = run[w].queue /\ p.at = run[w].at
        /\ p.slots = run[w].slots /\ p.cur = run[w].cur
        /\ p.recent = run[w].recent /\ p.held \subseteq ActiveRows
    BY <1>1 DEF Process
  <2>2. /\ Go(w, p) /\ TablesRest /\ NoneAppear /\ now' = now
        /\ run[w].pc = "snapshot"
    BY <1>4 DEF CheckSnapshot, TablesRest, NoneAppear, Exists
  <2> HIDE DEF p
  <2>3. run'[w] = p /\ Others(w)
    BY <1>1, <2>2, GoStep
  <2>4. \A r \in p.held : Exists(r.id)
    BY <2>1, ListedExist
  <2>5. QED
    BY <2>1, <2>2, <2>3, <2>4 DEF Scans, Alone
<1>5. CASE OpenItem(w)
  <2>1. PICK r \in run[w].held :
          Go(w, [run[w] EXCEPT
                   !.held = @ \ {r}, !.cur = r.id,
                   !.slots = DueSlots(r, run[w].at),
                   !.recent = RecentlySent(r.id, run[w].at)])
    BY <1>5 DEF OpenItem
  <2> DEFINE p == [run[w] EXCEPT
                     !.held = @ \ {r}, !.cur = r.id,
                     !.slots = DueSlots(r, run[w].at),
                     !.recent = RecentlySent(r.id, run[w].at)]
  <2>2. /\ TablesRest /\ NoneAppear /\ now' = now /\ run[w].pc = "scan"
    BY <1>5 DEF OpenItem, TablesRest, NoneAppear, Exists
  <2>3. /\ p.pc = "scan" /\ p.queue = run[w].queue /\ p.at = run[w].at
        /\ p.cur = r.id /\ p.held \subseteq run[w].held
        /\ p.recent = RecentlySent(r.id, run[w].at)
    BY <1>1, <2>2 DEF Process
  <2>4. Go(w, p)
    BY <2>1
  <2> HIDE DEF p
  <2>5. run'[w] = p /\ Others(w)
    BY <1>1, <2>4, GoStep
  <2>6. run'[w].recent \/ ~RecentlySent(run'[w].cur, run[w].at)
    BY <2>3, <2>5
  <2>7. QED
    BY <2>2, <2>3, <2>5, <2>6 DEF Scans, Alone
<1>6. CASE SkipSlot(w)
  <2>1. PICK t \in run[w].slots : Go(w, [run[w] EXCEPT !.slots = @ \ {t}])
    BY <1>6 DEF SkipSlot
  <2> DEFINE p == [run[w] EXCEPT !.slots = @ \ {t}]
  <2>2. /\ TablesRest /\ NoneAppear /\ now' = now /\ run[w].pc = "scan"
    BY <1>6 DEF SkipSlot, IsNextSlot, TablesRest, NoneAppear, Exists
  <2>3. /\ p.pc = "scan" /\ p.queue = run[w].queue /\ p.at = run[w].at
        /\ p.cur = run[w].cur /\ p.held = run[w].held
        /\ p.recent = run[w].recent /\ p.slots \subseteq run[w].slots
    BY <1>1, <2>2 DEF Process
  <2>4. Go(w, p)
    BY <2>1
  <2> HIDE DEF p
  <2>5. run'[w] = p /\ Others(w)
    BY <1>1, <2>4, GoStep
  <2>6. QED
    BY <2>2, <2>3, <2>5 DEF Scans, Alone
<1>7. QED
  BY <1>2, <1>3, <1>4, <1>5, <1>6

LEMMA SlotSteps ==
  ASSUME TypeOK, NEW w \in Checkers, ResendSlot(w) \/ MissingSlot(w)
  PROVE  Resends(w) \/ Misses(w)
<1> USE DEF db, history
<1>1. w \in Workers /\ run[w] \in Process
  BY DEF TypeOK, Workers
<1>2. CASE ResendSlot(w)
  <2>1. PICK t \in run[w].slots, l \in LogIds :
          /\ ~run[w].recent /\ l \in KeyRows(run[w].cur, t)
          /\ ~Settled(logs[l], run[w].at)
          /\ Go(w, [run[w] EXCEPT !.pc = "deliver", !.slots = @ \ {t},
                                  !.mail = logs[l], !.back = "scan"])
    BY <1>2 DEF ResendSlot, KeyRows
  <2> DEFINE p == [run[w] EXCEPT !.pc = "deliver", !.slots = @ \ {t},
                                 !.mail = logs[l], !.back = "scan"]
  <2>2. /\ TablesRest /\ NoneAppear /\ now' = now /\ run[w].pc = "scan"
    BY <1>2 DEF ResendSlot, IsNextSlot, TablesRest, NoneAppear, Exists
  <2>3. /\ p.pc = "deliver" /\ p.queue = run[w].queue /\ p.at = run[w].at
        /\ p.cur = run[w].cur /\ p.held = run[w].held /\ p.back = "scan"
        /\ p.recent = run[w].recent /\ p.slots \subseteq run[w].slots
        /\ p.mail = logs[l]
    BY <1>1 DEF Process
  <2>4. Go(w, p)
    BY <2>1
  <2> HIDE DEF p
  <2>5. run'[w] = p /\ Others(w)
    BY <1>1, <2>4, GoStep
  <2>6. TakesSlot(w)
    BY <2>1, <2>2, <2>3, <2>5 DEF TakesSlot, Alone
  <2>7. QED
    BY <2>1, <2>3, <2>5, <2>6 DEF Resends, KeyRows
<1>3. CASE MissingSlot(w)
  <2>1. PICK t \in run[w].slots :
          /\ ~run[w].recent
          /\ Go(w, [run[w] EXCEPT !.pc = "insert", !.slots = @ \ {t},
                                  !.mail = NewLog(run[w].cur, t, "reminder"),
                                  !.back = "scan"])
    BY <1>3 DEF MissingSlot
  <2> DEFINE p == [run[w] EXCEPT !.pc = "insert", !.slots = @ \ {t},
                                 !.mail = NewLog(run[w].cur, t, "reminder"),
                                 !.back = "scan"]
  <2>2. /\ TablesRest /\ NoneAppear /\ now' = now /\ run[w].pc = "scan"
    BY <1>3 DEF MissingSlot, IsNextSlot, TablesRest, NoneAppear, Exists
  <2>3. /\ p.pc = "insert" /\ p.queue = run[w].queue /\ p.at = run[w].at
        /\ p.cur = run[w].cur /\ p.held = run[w].held /\ p.back = "scan"
        /\ p.recent = run[w].recent /\ p.slots \subseteq run[w].slots
        /\ p.mail = NewLog(run[w].cur, t, "reminder") /\ t \in Int
    BY <1>1 DEF Process
  <2>4. Go(w, p)
    BY <2>1
  <2> HIDE DEF p
  <2>5. run'[w] = p /\ Others(w)
    BY <1>1, <2>4, GoStep
  <2>6. TakesSlot(w)
    BY <2>1, <2>2, <2>3, <2>5 DEF TakesSlot, Alone
  <2>7. QED
    BY <2>3, <2>5, <2>6 DEF Misses
<1>4. QED
  BY <1>2, <1>3

LEMMA DueSteps ==
  ASSUME TypeOK, NEW w \in Checkers,
         ListDue(w) \/ CancelDue(w) \/ SendDue(w) \/ CheckEnd(w)
  PROVE  Lists(w) \/ TakesDue(w) \/ Walks(w)
<1> USE DEF db, history
<1>1. w \in Workers /\ run[w] \in Process
  BY DEF TypeOK, Workers
<1>2. CASE ListDue(w)
  <2> DEFINE p == [Idle EXCEPT !.pc = "due", !.at = run[w].at, !.queue = LogsDue]
  <2>1. /\ p.pc = "due" /\ p.queue = LogsDue /\ p.at = run[w].at
        /\ p.held = {} /\ p.slots = {}
    BY DEF Idle
  <2>2. Go(w, p) /\ TablesRest /\ NoneAppear /\ now' = now /\ run[w].pc = "scan"
    BY <1>2 DEF ListDue, TablesRest, NoneAppear, Exists
  <2> HIDE DEF p
  <2>3. run'[w] = p /\ Others(w)
    BY <1>1, <2>2, GoStep
  <2>4. QED
    BY <2>1, <2>2, <2>3 DEF Lists, Alone
<1>3. CASE CancelDue(w)
  <2>1. PICK x \in run[w].queue :
          Go(w, [run[w] EXCEPT !.pc = "record", !.queue = @ \ {x},
                               !.mail = Dropped(x), !.back = "due"])
    BY <1>3 DEF CancelDue
  <2> DEFINE p == [run[w] EXCEPT !.pc = "record", !.queue = @ \ {x},
                                 !.mail = Dropped(x), !.back = "due"]
  <2>2. TablesRest /\ NoneAppear /\ now' = now /\ run[w].pc = "due"
    BY <1>3 DEF CancelDue, IsNextDue, TablesRest, NoneAppear, Exists
  <2>3. /\ p.pc = "record" /\ p.queue = run[w].queue \ {x} /\ p.at = run[w].at
        /\ p.cur = run[w].cur /\ p.held = run[w].held /\ p.back = "due"
        /\ p.recent = run[w].recent /\ p.slots = run[w].slots
        /\ p.mail = Dropped(x)
    BY <1>1 DEF Process
  <2>4. Go(w, p)
    BY <2>1
  <2> HIDE DEF p
  <2>5. run'[w] = p /\ Others(w)
    BY <1>1, <2>4, GoStep
  <2>6. QED
    BY <2>2, <2>3, <2>5 DEF TakesDue, Alone
<1>4. CASE SendDue(w)
  <2>1. PICK x \in run[w].queue :
          Go(w, [run[w] EXCEPT !.pc = "deliver", !.queue = @ \ {x},
                               !.mail = x, !.back = "due"])
    BY <1>4 DEF SendDue
  <2> DEFINE p == [run[w] EXCEPT !.pc = "deliver", !.queue = @ \ {x},
                                 !.mail = x, !.back = "due"]
  <2>2. TablesRest /\ NoneAppear /\ now' = now /\ run[w].pc = "due"
    BY <1>4 DEF SendDue, IsNextDue, TablesRest, NoneAppear, Exists
  <2>3. /\ p.pc = "deliver" /\ p.queue = run[w].queue \ {x} /\ p.at = run[w].at
        /\ p.cur = run[w].cur /\ p.held = run[w].held /\ p.back = "due"
        /\ p.recent = run[w].recent /\ p.slots = run[w].slots /\ p.mail = x
    BY <1>1 DEF Process
  <2>4. Go(w, p)
    BY <2>1
  <2> HIDE DEF p
  <2>5. run'[w] = p /\ Others(w)
    BY <1>1, <2>4, GoStep
  <2>6. QED
    BY <2>2, <2>3, <2>5 DEF TakesDue, Alone
<1>5. CASE CheckEnd(w)
  <2>1. Go(w, Idle) /\ TablesRest /\ NoneAppear /\ now' = now /\ run[w].pc = "due"
    BY <1>5 DEF CheckEnd, End, TablesRest, NoneAppear, Exists
  <2>2. run'[w] = Idle /\ Others(w)
    BY <1>1, <2>1, GoStep
  <2>3. QED
    BY <2>1, <2>2 DEF Walks, Alone, Idle
<1>6. QED
  BY <1>2, <1>3, <1>4, <1>5

LEMMA OnwardSteps ==
  ASSUME TypeOK, NEW w \in Workers, Onward(w)
  PROVE  (run[w].back = "idle" /\ run'[w] = Idle /\ Others(w))
         \/ (Returns(w) /\ Others(w))
<1>1. CASE run[w].back = "idle" /\ End(w)
  BY <1>1, GoStep DEF End
<1>2. ASSUME NEW p \in Process, Go(w, p),
             run[w].back \in {"scan", "due"}, p.pc = run[w].back,
             p.back = run[w].back, p.at = run[w].at, p.held = run[w].held,
             p.slots = run[w].slots, p.cur = run[w].cur, p.queue = run[w].queue,
             p.recent = (run[w].recent \/ run[w].mail.status = "sent")
      PROVE  Returns(w) /\ Others(w)
  <2>1. run'[w] = p /\ Others(w)
    BY <1>2, GoStep
  <2>2. QED
    BY <1>2, <2>1 DEF Returns, Keeps
<1>3. QED
  BY <1>1, <1>2, OnwardMoves

LEMMA SendingSteps ==
  ASSUME TypeOK, RecordInv, NEW w \in Checkers \cup Senders, Sending(w)
  PROVE  Inserts(w) \/ Accepts(w) \/ Refuses(w) \/ Records(w)
<1> USE DEF db, history
<1> DEFINE m == run[w].mail
<1>1. /\ w \in Workers /\ run[w] \in Process /\ m \in LogRow
      /\ run[w].back \in {"idle", "scan", "due"}
  BY DEF TypeOK, Workers, Process
<1>2. CASE InsertLog(w)
  <2> DEFINE p == [run[w] EXCEPT !.pc = "deliver", !.mail.id = InsertedId]
             r == [m EXCEPT !.id = nextLog]
  <2>1. /\ nextLog \in Nat \ {0} /\ logs \in [LogIds -> LogRow]
        /\ nextLog <= MaxLogs /\ MaxLogs \in Nat
    BY <1>2, RemindersAssumption DEF TypeOK, InsertLog
  <2>2. nextLog \in LogIds
    BY <2>1 DEF LogIds
  <2>3. logs[nextLog].status = "absent"
    BY <2>1, <2>2 DEF RecordInv, TableInPlace
  <2>4. /\ p.pc = "deliver" /\ p.queue = run[w].queue /\ p.at = run[w].at
        /\ p.cur = run[w].cur /\ p.held = run[w].held /\ p.back = run[w].back
        /\ p.recent = run[w].recent /\ p.slots = run[w].slots /\ p.mail = r
    BY <1>1 DEF Process, InsertedId
  <2>5. /\ Go(w, p) /\ run[w].pc = "insert" /\ nextLog' = nextLog + 1
        /\ logs' = [logs EXCEPT ![nextLog] = r]
        /\ UNCHANGED <<now, acks, failedAt, interrupts>> /\ NoneAppear
    BY <1>2 DEF InsertLog, NoneAppear, Exists
  <2> HIDE DEF p, r
  <2>6. run'[w] = p /\ Others(w)
    BY <1>1, <2>5, GoStep
  <2>7. /\ logs'[nextLog] = r
        /\ \A l \in LogIds : l # nextLog => logs'[l] = logs[l]
    BY <2>1, <2>2, <2>5
  <2>8. run'[w].mail = [run[w].mail EXCEPT !.id = nextLog]
    BY <2>4, <2>6 DEF r
  <2>9. QED
    BY <2>2, <2>3, <2>4, <2>5, <2>6, <2>7, <2>8 DEF Inserts, Keeps
<1>3. CASE InsertIgnored(w)
  BY <1>1, <1>3 DEF InsertIgnored, RecordInv, Faithful
<1>4. CASE DeliverOk(w)
  <2> DEFINE p == [run[w] EXCEPT !.pc = "record",
                     !.mail = [m EXCEPT !.status = "sent", !.sentAt = run[w].at,
                                        !.retryAt = None]]
  <2>1. /\ Go(w, p) /\ UNCHANGED <<now, logs, nextLog, interrupts, failedAt>>
        /\ NoneAppear /\ acks' = Acknowledged(w, TRUE) /\ run[w].pc = "deliver"
    BY <1>4 DEF DeliverOk, NoneAppear, Exists
  <2>2. /\ p.pc = "record" /\ p.queue = run[w].queue /\ p.at = run[w].at
        /\ p.cur = run[w].cur /\ p.held = run[w].held /\ p.back = run[w].back
        /\ p.recent = run[w].recent /\ p.slots = run[w].slots
        /\ p.mail.id = m.id /\ p.mail.item = m.item /\ p.mail.slot = m.slot
        /\ p.mail.kind = m.kind /\ p.mail.status = "sent"
        /\ p.mail.sentAt = run[w].at
    BY <1>1 DEF Process, LogRow
  <2> HIDE DEF p
  <2>3. run'[w] = p /\ Others(w)
    BY <1>1, <2>1, GoStep
  <2>4. QED
    BY <2>1, <2>2, <2>3 DEF Accepts, Answered, Keeps
<1>5. CASE DeliverFail(w)
  <2> DEFINE p == [run[w] EXCEPT !.pc = "record",
                     !.mail = [m EXCEPT !.status = "failed",
                                        !.retryAt = run[w].at + HalfHour]]
  <2>1. /\ Go(w, p) /\ UNCHANGED <<now, logs, nextLog, interrupts>>
        /\ NoneAppear /\ run[w].pc = "deliver"
        /\ acks' = acks \/ acks' = Acknowledged(w, FALSE)
        /\ failedAt' = [l \in LogIds |-> IF l = m.id THEN run[w].at ELSE failedAt[l]]
    BY <1>5 DEF DeliverFail, NoneAppear, Exists
  <2>2. /\ p.pc = "record" /\ p.queue = run[w].queue /\ p.at = run[w].at
        /\ p.cur = run[w].cur /\ p.held = run[w].held /\ p.back = run[w].back
        /\ p.recent = run[w].recent /\ p.slots = run[w].slots
        /\ p.mail.id = m.id /\ p.mail.item = m.item /\ p.mail.slot = m.slot
        /\ p.mail.kind = m.kind /\ p.mail.status = "failed"
        /\ p.mail.retryAt = run[w].at + HalfHour
    BY <1>1 DEF Process, LogRow
  <2> HIDE DEF p
  <2>3. run'[w] = p /\ Others(w)
    BY <1>1, <2>1, GoStep
  <2>4. QED
    BY <2>1, <2>2, <2>3 DEF Refuses, Answered, Keeps
<1>6. CASE Record(w)
  <2>1. /\ UNCHANGED <<now, nextLog, acks, failedAt, interrupts>> /\ NoneAppear
        /\ run[w].pc = "record"
        /\ logs' = [l \in LogIds |->
                      IF l = m.id /\ logs[l].status # "absent"
                        THEN [logs[l] EXCEPT !.status = m.status,
                                             !.sentAt = m.sentAt,
                                             !.retryAt = m.retryAt]
                        ELSE logs[l]]
    BY <1>6 DEF Record, NoneAppear, Exists
  <2>2. ASSUME NEW l \in LogIds
        PROVE  /\ logs'[l].id = logs[l].id /\ logs'[l].item = logs[l].item
               /\ logs'[l].slot = logs[l].slot /\ logs'[l].kind = logs[l].kind
               /\ logs[l].status = "absent" => logs'[l].status = "absent"
               /\ l # m.id => logs'[l] = logs[l]
               /\ l = m.id /\ logs[l].status # "absent" =>
                    /\ logs'[l].status = m.status /\ logs'[l].sentAt = m.sentAt
                    /\ logs'[l].retryAt = m.retryAt
    <3>1. logs[l] \in LogRow
      BY DEF TypeOK
    <3>2. QED
      BY <2>1, <3>1 DEF LogRow
  <2>3. (run[w].back = "idle" /\ run'[w] = Idle /\ Others(w))
        \/ (Returns(w) /\ Others(w))
    BY <1>1, <1>6, OnwardSteps DEF Record
  <2>4. QED
    BY <2>1, <2>2, <2>3 DEF Records
<1>7. QED
  BY <1>2, <1>3, <1>4, <1>5, <1>6 DEF Sending

LEMMA EditSteps ==
  ASSUME TypeOK, QuietInv, NEW c \in Editors, Edit(c)
  PROVE  Walks(c) \/ Removes
<1> USE DEF db, history
<1>1. c \in Workers /\ run[c] \in Process
  BY DEF TypeOK, Workers
<1>2. ASSUME NEW p, Go(c, p), TablesRest, NoneAppear, now' = now,
             p.pc \in {"idle", "edit", "merge", "unsent"},
             p.pc \in {"merge", "unsent"} => c \in Mergers \/ run[c].pc = "merge",
             run[c].pc \in {"idle", "edit", "merge"},
             p.queue = {}, p.at = 0, p.slots = {}, \A r \in p.held : Exists(r.id)
      PROVE  Walks(c)
  <2>1. run'[c] = p /\ Others(c)
    BY <1>1, <1>2, GoStep
  <2>2. QED
    BY <1>2, <2>1 DEF Walks, Alone
<1>3. ASSUME NEW i \in ItemIds, NEW row, row.id = i, Exists(i)
      PROVE  \A r \in {row} : Exists(r.id)
  BY <1>3
<1>4. ASSUME NEW i \in ItemIds, NEW d \in Deadlines, EditRead(c, i, d)
      PROVE  Walks(c)
  <2> DEFINE row == [items[i] EXCEPT !.deadline = d,
                                     !.policy = DecideRemindPolicy(d, FALSE, now)]
             p == [Idle EXCEPT !.pc = "edit", !.held = {row}]
  <2>1. /\ Go(c, p) /\ TablesRest /\ NoneAppear /\ now' = now /\ Exists(i)
        /\ run[c].pc = "idle"
    BY <1>4 DEF EditRead, TablesRest, NoneAppear, Exists
  <2>2. row.id = i
    BY DEF TypeOK, ItemRow, QuietInv, RowsInPlace
  <2>3. /\ p.pc = "edit" /\ p.queue = {} /\ p.at = 0 /\ p.slots = {}
        /\ p.held = {row}
    BY DEF Idle
  <2> HIDE DEF p, row
  <2>4. QED
    BY <1>2, <1>3, <2>1, <2>2, <2>3
<1>5. ASSUME NEW i \in ItemIds, NEW d \in Deadlines \cup {None}, NEW link \in BOOLEAN,
             MergeRead(c, i, d, link), c \in Mergers
      PROVE  Walks(c)
  <2> DEFINE row == IF d = None THEN items[i]
                    ELSE [items[i] EXCEPT
                            !.deadline = d,
                            !.policy = DecideRemindPolicy(d, link, now)]
             p == [Idle EXCEPT !.pc = IF d = items[i].deadline THEN "edit" ELSE "merge",
                               !.held = {row}]
  <2>1. /\ Go(c, p) /\ TablesRest /\ NoneAppear /\ now' = now /\ Exists(i)
        /\ run[c].pc = "idle"
    BY <1>5 DEF MergeRead, TablesRest, NoneAppear, Exists
  <2>2. row.id = i
    BY DEF TypeOK, ItemRow, QuietInv, RowsInPlace
  <2>3. /\ p.pc \in {"edit", "merge"} /\ p.queue = {} /\ p.at = 0 /\ p.slots = {}
        /\ p.held = {row}
    BY DEF Idle
  <2> HIDE DEF p, row
  <2>4. QED
    BY <1>2, <1>3, <1>5, <2>1, <2>2, <2>3
<1>6. CASE EditWrite(c)
  <2>1. Go(c, Idle) /\ TablesRest /\ now' = now /\ run[c].pc = "edit"
    BY <1>6 DEF EditWrite, TablesRest
  <2>2. NoneAppear
    BY <1>6 DEF EditWrite, NoneAppear, Exists, TypeOK
  <2>3. QED
    BY <1>2, <2>1, <2>2 DEF Idle
<1>7. CASE MergeWrite(c)
  <2>1. PICK row \in run[c].held :
          /\ items' = [items EXCEPT ![row.id] = IF Exists(row.id) THEN row ELSE @]
          /\ Go(c, [Idle EXCEPT !.pc = "unsent", !.cur = row.id])
    BY <1>7 DEF MergeWrite
  <2> DEFINE p == [Idle EXCEPT !.pc = "unsent", !.cur = row.id]
  <2>2. TablesRest /\ now' = now /\ nextItem' = nextItem /\ run[c].pc = "merge"
    BY <1>7 DEF MergeWrite, TablesRest
  <2>3. NoneAppear
    BY <2>1, <2>2 DEF NoneAppear, Exists, TypeOK
  <2>4. /\ p.pc = "unsent" /\ p.queue = {} /\ p.at = 0 /\ p.slots = {}
        /\ p.held = {} /\ Go(c, p)
    BY <2>1 DEF Idle
  <2> HIDE DEF p
  <2>5. QED
    BY <1>2, <2>2, <2>3, <2>4
<1>8. CASE DropUnsent(c)
  <2>1. /\ Go(c, Idle) /\ NoneAppear /\ run[c].pc = "unsent"
        /\ UNCHANGED <<now, nextLog, acks, failedAt, interrupts>>
    BY <1>8 DEF DropUnsent, NoneAppear, Exists
  <2>2. \A v \in Workers :
          run'[v] = run[v] \/ (run[v].pc = "unsent" /\ run'[v] = Idle)
    BY <1>1, <2>1, GoStep DEF Others
  <2>3. \A l \in LogIds :
          \/ logs'[l] = logs[l]
          \/ logs'[l].status = "absent" /\ logs[l].status # "sent"
    BY <1>8 DEF DropUnsent, Unsent, NoLog, NewLog
  <2>4. QED
    BY <1>1, <2>1, <2>2, <2>3 DEF Removes
<1>9. QED
  BY <1>4, <1>5, <1>6, <1>7, <1>8 DEF Edit, Commit

LEMMA RequestSteps ==
  ASSUME TypeOK, OneCall
  PROVE  Creates \/ Removes \/ Rests
<1> USE DEF db, history
<1>1. ASSUME NEW d \in Deadlines, CreateItem(d)
      PROVE  Creates
  <2>1. run' = run /\ TablesRest /\ now' = now /\ nextItem' = nextItem + 1
    BY <1>1 DEF CreateItem, TablesRest
  <2>2. \A i \in ItemIds : Exists(i)' => Exists(i) \/ i = nextItem
    BY <1>1 DEF CreateItem, Exists, TypeOK
  <2>3. QED
    BY <2>1, <2>2 DEF Creates
<1>2. ASSUME NEW i \in ItemIds, NEW s \in {"active", "completed", "silent"},
             SetItemStatus(i, s)
      PROVE  Rests
  <2>1. run' = run /\ TablesRest /\ now' = now /\ nextItem' = nextItem
    BY <1>2 DEF SetItemStatus, TablesRest
  <2>2. \A j \in ItemIds : Exists(j)' => Exists(j)
    BY <1>2 DEF SetItemStatus, Exists, TypeOK
  <2>3. QED
    BY <2>1, <2>2 DEF Rests, NoneAppear
<1>3. ASSUME NEW i \in ItemIds, DeleteItem(i)
      PROVE  Removes
  <2>1. /\ UNCHANGED <<now, nextLog, acks, failedAt, interrupts, nextItem, run>>
        /\ items' = [items EXCEPT ![i] = NoItem(i)]
        /\ logs' = [l \in LogIds |-> IF logs[l].item = i THEN NoLog(l) ELSE logs[l]]
    BY <1>3 DEF DeleteItem
  <2>2. items'[i].status = "absent"
    BY <2>1 DEF TypeOK, NoItem
  <2>3. NoneAppear
    BY <2>1, <2>2 DEF NoneAppear, Exists, TypeOK
  <2>4. \A l \in LogIds :
          \/ logs'[l] = logs[l]
          \/ logs'[l].status = "absent" /\ items'[logs[l].item].status = "absent"
    BY <2>1, <2>2 DEF NoLog, NewLog
  <2>5. QED
    BY <2>1, <2>3, <2>4 DEF Removes
<1>4. QED
  BY <1>1, <1>2, <1>3 DEF OneCall

LEMMA AskSteps ==
  ASSUME TypeOK, NEW c \in Senders, NEW i \in ItemIds, RemindNow(c, i)
  PROVE  Asks(c)
<1> USE DEF db, history
<1> DEFINE p == [Idle EXCEPT !.pc = "insert", !.at = now,
                             !.mail = NewLog(i, now, "manual")]
<1>1. /\ Go(c, p) /\ TablesRest /\ NoneAppear /\ now' = now /\ Exists(i)
      /\ c \in Workers /\ run[c].pc = "idle"
  BY DEF RemindNow, TablesRest, NoneAppear, Exists, Workers
<1>2. /\ p.pc = "insert" /\ p.back = "idle" /\ p.at = now /\ p.held = {}
      /\ p.slots = {} /\ p.queue = {} /\ p.mail = NewLog(i, now, "manual")
  BY DEF Idle
<1> HIDE DEF p
<1>3. run'[c] = p /\ Others(c)
  BY <1>1, GoStep
<1>4. QED
  BY <1>1, <1>2, <1>3 DEF Asks, Alone

LEMMA EnvironmentSteps ==
  ASSUME TypeOK,
         Tick \/ Crash \/ \E w \in Checkers \cup Senders : Abandon(w) \/ RecordFails(w)
  PROVE  \/ Rests \/ Crashes
         \/ \E w \in Checkers \cup Senders : Abandons(w) \/ Forgets(w)
<1> USE DEF db, history
<1>1. CASE Tick
  BY <1>1 DEF Tick, Rests, TablesRest, NoneAppear, Exists
<1>2. CASE Crash
  BY <1>2 DEF Crash, Crashes, NoneAppear, Exists
<1>3. ASSUME NEW w \in Checkers \cup Senders, Abandon(w)
      PROVE  Abandons(w)
  <2>1. /\ run[w].pc = "deliver" /\ Go(w, Idle) /\ interrupts' = interrupts + 1
        /\ acks' = acks \/ acks' = Acknowledged(w, TRUE)
        /\ UNCHANGED <<now, logs, nextLog, failedAt>> /\ NoneAppear
        /\ w \in Workers
    BY <1>3 DEF Abandon, End, NoneAppear, Exists, Workers
  <2>2. run'[w] = Idle /\ Others(w)
    BY <2>1, GoStep
  <2>3. QED
    BY <2>1, <2>2 DEF Abandons
<1>4. ASSUME NEW w \in Checkers \cup Senders, RecordFails(w)
      PROVE  Forgets(w)
  <2>1. /\ run[w].pc = "record"
        /\ Onward(w) \/ End(w)
        /\ interrupts' = interrupts + 1
        /\ UNCHANGED <<now, logs, nextLog, acks, failedAt>> /\ NoneAppear
        /\ w \in Workers
    BY <1>4 DEF RecordFails, NoneAppear, Exists, Workers
  <2>2. (run'[w] = Idle \/ Returns(w)) /\ Others(w)
    BY <2>1, OnwardSteps, GoStep DEF End
  <2>3. QED
    BY <2>1, <2>2 DEF Forgets
<1>5. QED
  BY <1>1, <1>2, <1>3, <1>4

LEMMA NextSteps ==
  ASSUME TypeOK, QuietInv, RecordInv, [Next]_vars
  PROVE  Steps
<1>1. CASE UNCHANGED vars
  BY <1>1 DEF vars, db, history, Steps, Rests, TablesRest, NoneAppear, Exists
<1>2. ASSUME NEW w \in Checkers, RunCheck(w)
      PROVE  Steps
  <2>1. w \in Workers /\ w \in Checkers \cup Senders
    BY DEF Workers
  <2>2. CASE CheckBegin(w) \/ CheckExpire(w) \/ CheckSnapshot(w)
             \/ OpenItem(w) \/ SkipSlot(w)
    BY <2>1, <2>2, CheckSteps DEF Steps
  <2>3. CASE ResendSlot(w) \/ MissingSlot(w)
    BY <2>1, <2>3, SlotSteps DEF Steps
  <2>4. CASE ListDue(w) \/ CancelDue(w) \/ SendDue(w) \/ CheckEnd(w)
    BY <2>1, <2>4, DueSteps DEF Steps
  <2>5. CASE Sending(w)
    BY <2>1, <2>5, SendingSteps DEF Steps
  <2>6. QED
    BY <1>2, <2>2, <2>3, <2>4, <2>5 DEF RunCheck
<1>3. ASSUME NEW c \in Senders, Send(c)
      PROVE  Steps
  <2>1. c \in Checkers \cup Senders
    OBVIOUS
  <2>2. CASE Sending(c)
    BY <2>1, <2>2, SendingSteps DEF Steps
  <2>3. CASE \E i \in ItemIds : RemindNow(c, i)
    BY <2>3, AskSteps DEF Steps
  <2>4. QED
    BY <1>3, <2>2, <2>3 DEF Send
<1>4. ASSUME NEW c \in Editors, Edit(c)
      PROVE  Steps
  <2>1. c \in Workers
    BY DEF Workers
  <2>2. QED
    BY <1>4, <2>1, EditSteps DEF Steps
<1>5. CASE OneCall
  BY <1>5, RequestSteps DEF Steps
<1>6. CASE Tick \/ Crash \/ \E w \in Checkers \cup Senders : Abandon(w) \/ RecordFails(w)
  BY <1>6, EnvironmentSteps DEF Steps
<1>7. QED
  BY <1>1, <1>2, <1>3, <1>4, <1>5, <1>6 DEF Next

\* The invariants of RemindersProofs hold of every behaviour.
LEMMA QuietAlways == Spec => []QuietInv
<1>1. Init => QuietInv
  BY InitQuiet
<1>2. TypeOK /\ QuietInv /\ [Next]_vars => QuietInv'
  BY NextQuiet
<1>3. QED
  BY <1>1, <1>2, TypeCorrect, PTL DEF Spec

-----------------------------------------------------------------------------
(* What is recorded as sent stays so. *)

Holding(w) == run[w].pc \in {"deliver", "record"}

Unsettled(log) == log.kind = "reminder" => logs[log.id].status # "sent"

\* Logs of reminders are in the checker's hands only, each at most once, and
\* none of them has a row that says sent.
OneHand(w) ==
  /\ w \notin Mergers => run[w].pc \notin {"merge", "unsent"}
  /\ w \notin Checkers =>
       /\ run[w].queue = {}
       /\ run[w].pc \in {"insert", "deliver", "record"} =>
            run[w].mail.kind = "manual" /\ run[w].back = "idle"
  /\ run[w].queue # {} =>
       run[w].pc = "due" \/ (Holding(w) /\ run[w].back = "due")
  /\ \A x, y \in run[w].queue : x.id = y.id => x = y
  /\ Holding(w) => \A x \in run[w].queue : x.id # run[w].mail.id
  /\ \A x \in run[w].queue : Unsettled(x)
  /\ Holding(w) => Unsettled(run[w].mail)
  /\ run[w].pc = "record" => run[w].mail.status \in {"sent", "failed"}

FinalInv == \A w \in Workers : OneHand(w)

\* Whatever becomes sent is no row of a reminder that v may hold.
NoneSettled(v) ==
  \A l \in LogIds :
    logs'[l].status = "sent" =>
      \/ logs[l].status = "sent"
      \/ v \notin Checkers
      \/ logs[l].status # "absent" /\ logs[l].kind = "manual"

LEMMA IdleHand ==
  ASSUME NEW v, run'[v] = Idle
  PROVE  OneHand(v)'
BY DEF OneHand, Idle, Holding

LEMMA StaysOneHand ==
  ASSUME TypeOK, RecordInv, NEW v \in Workers, OneHand(v), run'[v] = run[v],
         NoneSettled(v)
  PROVE  OneHand(v)'
<1>1. run[v] \in Process /\ Faithful(v)
  BY DEF TypeOK, RecordInv
<1>2. ASSUME NEW x, MatchesRow(x), Unsettled(x),
             v \in Checkers \/ x.kind # "reminder"
      PROVE  x.kind = "reminder" => logs'[x.id].status # "sent"
  <2>1. x.id \in LogIds
    BY <1>2 DEF MatchesRow
  <2>2. QED
    BY <1>2, <2>1 DEF MatchesRow, Unsettled, NoneSettled
<1>3. \A x \in run[v].queue : x.kind = "reminder" => logs'[x.id].status # "sent"
  BY <1>1, <1>2 DEF Faithful, OneHand
<1>4. Holding(v) => (run[v].mail.kind = "reminder" =>
                       logs'[run[v].mail.id].status # "sent")
  <2>1. SUFFICES ASSUME Holding(v)
                 PROVE  run[v].mail.kind = "reminder" =>
                          logs'[run[v].mail.id].status # "sent"
    OBVIOUS
  <2>2. MatchesRow(run[v].mail) /\ Unsettled(run[v].mail)
    BY <1>1, <2>1 DEF Faithful, OneHand, Holding
  <2>3. v \in Checkers \/ run[v].mail.kind # "reminder"
    BY <2>1 DEF OneHand, Holding
  <2>4. QED
    BY <1>2, <2>2, <2>3
<1>5. QED
  BY <1>3, <1>4 DEF OneHand, Unsettled, Holding

\* A step of one process.
LEMMA FinalStep ==
  ASSUME TypeOK, RecordInv, FinalInv, NEW w \in Workers, Others(w), OneHand(w)',
         \A v \in Workers : v # w => NoneSettled(v)
  PROVE  FinalInv'
<1>1. ASSUME NEW v \in Workers, v # w
      PROVE  OneHand(v)'
  <2>1. run'[v] = run[v] /\ OneHand(v) /\ NoneSettled(v)
    BY <1>1 DEF Others, FinalInv
  <2>2. QED
    BY <2>1, StaysOneHand
<1>2. QED
  BY <1>1 DEF FinalInv

LEMMA SameSettled ==
  ASSUME NEW v, logs' = logs
  PROVE  NoneSettled(v)
BY DEF NoneSettled

LEMMA TableFinal ==
  ASSUME TypeOK, RecordInv, FinalInv, Rests \/ Creates \/ Removes \/ Crashes
  PROVE  FinalInv'
<1>1. ASSUME NEW v \in Workers
      PROVE  OneHand(v)'
  <2>1. OneHand(v)
    BY DEF FinalInv
  <2>2. run'[v] = run[v] \/ run'[v] = Idle
    BY DEF Rests, Creates, Removes, Crashes
  <2>3. NoneSettled(v)
    <3>1. \A l \in LogIds : logs'[l] = logs[l] \/ logs'[l].status = "absent"
      BY DEF Rests, Creates, Removes, Crashes, TablesRest
    <3>2. QED
      BY <3>1 DEF NoneSettled
  <2>4. QED
    BY <2>1, <2>2, <2>3, StaysOneHand, IdleHand
<1>2. QED
  BY <1>1 DEF FinalInv

LEMMA MoveFinal ==
  ASSUME TypeOK, RecordInv, FinalInv, NEW w \in Workers,
         Walks(w) \/ Abandons(w) \/ Forgets(w) \/ (w \in Checkers /\ Scans(w))
         \/ (w \in Senders /\ Asks(w))
  PROVE  FinalInv'
<1>1. Others(w) /\ logs' = logs
  BY DEF Walks, Abandons, Forgets, Scans, Asks, Alone, TablesRest
<1>2. OneHand(w)
  BY DEF FinalInv
<1>3. OneHand(w)'
  <2>1. CASE Walks(w)
    BY <1>2, <2>1 DEF Walks, OneHand, Holding
  <2>2. CASE Abandons(w)
    BY <2>2, IdleHand DEF Abandons
  <2>3. CASE w \in Checkers /\ Scans(w)
    BY <1>2, <2>3 DEF Scans, OneHand, Holding
  <2>4. CASE w \in Senders /\ Asks(w)
    BY <2>4 DEF Asks, OneHand, Holding, NewLog
  <2>5. CASE Forgets(w)
    <3>1. CASE run'[w] = Idle
      BY <3>1, IdleHand
    <3>2. CASE Returns(w)
      <4>1. w \in Checkers /\ run[w].pc = "record"
        BY <1>2, <2>5, <3>2 DEF Forgets, Returns, OneHand
      <4>2. QED
        BY <1>1, <1>2, <3>2, <4>1 DEF Returns, Keeps, OneHand, Holding, Unsettled
    <3>3. QED
      BY <2>5, <3>1, <3>2 DEF Forgets
  <2>6. QED
    BY <2>1, <2>2, <2>3, <2>4, <2>5
<1>4. QED
  BY <1>1, <1>3, SameSettled, FinalStep

LEMMA TakeFinal ==
  ASSUME TypeOK, RecordInv, FinalInv, NEW w \in Checkers,
         Resends(w) \/ Misses(w) \/ Lists(w) \/ TakesDue(w)
  PROVE  FinalInv'
<1>1. w \in Workers /\ Others(w) /\ logs' = logs
  BY DEF Workers, Resends, Misses, Lists, TakesDue, TakesSlot, Alone, TablesRest
<1>2. OneHand(w) /\ Faithful(w) /\ run[w] \in Process
  BY <1>1 DEF FinalInv, RecordInv, TypeOK
<1>3. CASE Resends(w)
  <2>1. PICK l \in LogIds : ~Settled(logs[l], run[w].at) /\ run'[w].mail = logs[l]
    BY <1>3 DEF Resends
  <2>2. logs[l].id = l /\ logs[l].status # "sent"
    BY <2>1 DEF RecordInv, TableInPlace, Settled
  <2>3. run'[w].pc = "deliver" /\ run'[w].queue = {}
    BY <1>2, <1>3 DEF Resends, TakesSlot, OneHand, Holding
  <2>4. OneHand(w)'
    BY <1>1, <1>2, <2>1, <2>2, <2>3 DEF OneHand, Holding, Unsettled
  <2>5. QED
    BY <1>1, <2>4, SameSettled, FinalStep
<1>4. CASE Misses(w)
  <2>1. run'[w].pc = "insert" /\ run'[w].queue = {}
    BY <1>2, <1>4 DEF Misses, TakesSlot, OneHand, Holding
  <2>2. OneHand(w)'
    BY <2>1 DEF OneHand, Holding
  <2>3. QED
    BY <1>1, <2>2, SameSettled, FinalStep
<1>5. CASE Lists(w)
  <2>1. run'[w].pc = "due" /\ run'[w].queue = LogsDue
    BY <1>5 DEF Lists
  <2>2. \A x \in LogsDue : x = logs[x.id] /\ x.status # "sent"
    BY DEF LogsDue, IsDue, RecordInv, TableInPlace
  <2>3. OneHand(w)'
    BY <1>1, <2>1, <2>2 DEF OneHand, Holding, Unsettled
  <2>4. QED
    BY <1>1, <2>3, SameSettled, FinalStep
<1>6. CASE TakesDue(w)
  <2>1. PICK x \in run[w].queue :
          /\ run'[w].queue = run[w].queue \ {x}
          /\ \/ run'[w].pc = "deliver" /\ run'[w].mail = x
             \/ run'[w].pc = "record" /\ run'[w].mail = Dropped(x)
    BY <1>6 DEF TakesDue
  <2>2. x \in LogRow /\ Unsettled(x)
    BY <1>2 DEF Process, OneHand
  <2>3. /\ Dropped(x).id = x.id /\ Dropped(x).kind = x.kind
        /\ Dropped(x).status = "failed"
    BY <2>2 DEF Dropped, LogRow
  <2>4. run'[w].mail.id = x.id /\ run'[w].mail.kind = x.kind
    BY <2>1, <2>3
  <2>5. /\ run'[w].pc \in {"deliver", "record"} /\ run'[w].back = "due"
        /\ run'[w].pc = "record" => run'[w].mail.status = "failed"
    BY <1>6, <2>1, <2>3 DEF TakesDue
  <2>6. \A y \in run'[w].queue : y \in run[w].queue /\ y.id # x.id
    BY <1>2, <2>1 DEF OneHand
  <2>7. OneHand(w)'
    BY <1>1, <1>2, <2>2, <2>4, <2>5, <2>6 DEF OneHand, Holding, Unsettled
  <2>8. QED
    BY <1>1, <2>7, SameSettled, FinalStep
<1>7. QED
  BY <1>3, <1>4, <1>5, <1>6

LEMMA SendFinal ==
  ASSUME OneChecker, TypeOK, RecordInv, FinalInv, NEW w \in Checkers \cup Senders,
         Inserts(w) \/ Accepts(w) \/ Refuses(w) \/ Records(w)
  PROVE  FinalInv'
<1>1. w \in Workers /\ Others(w)
  BY DEF Workers, Inserts, Accepts, Refuses, Answered, Records
<1>2. OneHand(w) /\ Faithful(w) /\ run[w] \in Process /\ run[w].mail \in LogRow
  BY <1>1 DEF FinalInv, RecordInv, TypeOK, Process
<1>3. CASE Inserts(w)
  <2>1. /\ run[w].mail.status = "pending" /\ run[w].pc = "insert"
        /\ run'[w].pc = "deliver" /\ run'[w].queue = run[w].queue
        /\ run'[w].mail = [run[w].mail EXCEPT !.id = nextLog]
        /\ logs'[nextLog] = run'[w].mail /\ run'[w].back = run[w].back
        /\ \A l \in LogIds : l # nextLog => logs'[l] = logs[l]
    BY <1>2, <1>3 DEF Inserts, Keeps, Faithful
  <2>2. /\ run'[w].mail.id = nextLog /\ run'[w].mail.status = "pending"
        /\ run'[w].mail.kind = run[w].mail.kind
    BY <1>2, <2>1 DEF LogRow
  <2>3. \A v \in Workers : NoneSettled(v)
    BY <2>1, <2>2 DEF NoneSettled
  <2>4. run[w].queue = {}
    BY <1>2, <2>1 DEF OneHand, Holding
  <2>5. OneHand(w)'
    BY <1>2, <2>1, <2>2, <2>4 DEF OneHand, Holding, Unsettled
  <2>6. QED
    BY <1>1, <2>3, <2>5, FinalStep
<1>4. CASE Accepts(w) \/ Refuses(w)
  <2>1. Answered(w) /\ run'[w].mail.status \in {"sent", "failed"}
    BY <1>4 DEF Accepts, Refuses
  <2>2. OneHand(w)' /\ logs' = logs
    BY <1>2, <2>1 DEF Answered, Keeps, OneHand, Holding, Unsettled
  <2>3. QED
    BY <1>1, <2>2, SameSettled, FinalStep
<1>5. CASE Records(w)
  <2> DEFINE m == run[w].mail
  <2>1. /\ run[w].pc = "record" /\ MatchesRow(m)
        /\ \A l \in LogIds : /\ l # m.id => logs'[l] = logs[l]
                             /\ logs[l].status = "absent" => logs'[l].status = "absent"
    BY <1>2, <1>5 DEF Records, Faithful
  <2>2. ASSUME NEW v \in Workers, v # w
        PROVE  NoneSettled(v)
    <3>1. w \in Checkers => v \notin Checkers
      BY <2>2 DEF OneChecker
    <3>2. w \notin Checkers => m.kind = "manual"
      BY <1>2, <2>1 DEF OneHand
    <3>3. logs[m.id].status # "absent" => logs[m.id].kind = m.kind
      BY <2>1 DEF MatchesRow
    <3>4. QED
      BY <2>1, <3>1, <3>2, <3>3 DEF NoneSettled
  <2>3. OneHand(w)'
    <3>1. CASE run'[w] = Idle
      BY <3>1, IdleHand
    <3>2. CASE Returns(w)
      <4>1. w \in Checkers
        BY <1>2, <2>1, <3>2 DEF Returns, OneHand
      <4>2. \A x \in run[w].queue : MatchesRow(x) /\ x.id # m.id
        BY <1>2, <2>1 DEF OneHand, Holding, Faithful
      <4>3. \A x \in run[w].queue : logs'[x.id] = logs[x.id]
        BY <2>1, <4>2 DEF MatchesRow
      <4>4. QED
        BY <1>2, <2>1, <3>2, <4>1, <4>3
           DEF Returns, Keeps, OneHand, Holding, Unsettled
    <3>3. QED
      BY <1>5, <3>1, <3>2 DEF Records
  <2>4. QED
    BY <1>1, <2>2, <2>3, FinalStep
<1>6. QED
  BY <1>3, <1>4, <1>5

LEMMA NextFinal ==
  ASSUME OneChecker, TypeOK, RecordInv, FinalInv, Steps
  PROVE  FinalInv'
<1>1. Checkers \subseteq Workers /\ Senders \subseteq Workers
  BY DEF Workers
<1>2. QED
  BY <1>1, TableFinal, MoveFinal, TakeFinal, SendFinal DEF Steps

LEMMA InitFinal == Init => FinalInv
BY DEF Init, FinalInv, OneHand, Holding, Idle

LEMMA FinalAlways ==
  ASSUME OneChecker
  PROVE  Spec => []FinalInv
<1>1. Init => FinalInv
  BY InitFinal
<1>2. TypeOK /\ QuietInv /\ RecordInv /\ FinalInv /\ [Next]_vars => FinalInv'
  BY NextSteps, NextFinal
<1>3. QED
  BY <1>1, <1>2, TypeCorrect, QuietAlways, RecordAlways, PTL DEF Spec

\* What is recorded of a reminder is touched again only with its item.
LEMMA SentRowsRest ==
  ASSUME OneChecker, TypeOK, RecordInv, FinalInv, Steps,
         NEW l \in LogIds, logs[l].status = "sent", logs[l].kind = "reminder"
  PROVE  logs'[l] = logs[l] \/ items'[logs[l].item].status = "absent"
<1>1. CASE Rests \/ Creates \/ Removes \/ Crashes
  BY <1>1 DEF Rests, Creates, Removes, Crashes, TablesRest
<1>2. CASE \E w \in Workers : Walks(w)
  BY <1>2 DEF Walks, Alone, TablesRest
<1>3. CASE \E w \in Checkers :
             Scans(w) \/ Resends(w) \/ Misses(w) \/ Lists(w) \/ TakesDue(w)
  BY <1>3 DEF Scans, Resends, Misses, Lists, TakesDue, TakesSlot, Alone, TablesRest
<1>4. CASE \E w \in Senders : Asks(w)
  BY <1>4 DEF Asks, Alone, TablesRest
<1>5. ASSUME NEW w \in Checkers \cup Senders,
             Inserts(w) \/ Accepts(w) \/ Refuses(w) \/ Abandons(w) \/ Forgets(w)
      PROVE  logs'[l] = logs[l]
  BY <1>5 DEF Inserts, Accepts, Refuses, Answered, Abandons, Forgets
<1>6. ASSUME NEW w \in Checkers \cup Senders, Records(w)
      PROVE  logs'[l] = logs[l]
  <2>1. /\ w \in Workers /\ OneHand(w) /\ Faithful(w) /\ run[w].pc = "record"
        /\ l # run[w].mail.id => logs'[l] = logs[l]
    BY <1>6 DEF Workers, FinalInv, RecordInv, Records
  <2>2. CASE l = run[w].mail.id
    BY <2>1, <2>2 DEF OneHand, Holding, Unsettled, Faithful, MatchesRow
  <2>3. QED
    BY <2>1, <2>2
<1>7. QED
  BY <1>1, <1>2, <1>3, <1>4, <1>5, <1>6 DEF Steps

\* With one task at a time in run_check, the row of a reminder that was sent is
\* never changed again while its item exists: no later run, no late failure, no
\* merge and no crash reopens it.
THEOREM SentStaysSent ==
  ASSUME OneChecker
  PROVE  Spec => SentIsFinal
<1>1. TypeOK /\ QuietInv /\ RecordInv /\ FinalInv /\ [Next]_vars =>
        [\A l \in LogIds :
           logs[l].status = "sent" /\ logs[l].kind = "reminder" =>
             logs'[l] = logs[l] \/ items'[logs[l].item].status = "absent"]_vars
  BY NextSteps, SentRowsRest
<1>2. QED
  BY <1>1, TypeCorrect, QuietAlways, RecordAlways, FinalAlways, PTL
     DEF Spec, SentIsFinal
-----------------------------------------------------------------------------
(* A failed reminder waits its half hour. *)

ClockInv == now \in Nat /\ \A w \in Workers : run[w].at <= now

\* A manual message on its way and the reminders in a checker's hands are
\* about different rows, even when the rows are gone.
Apart(c, w) ==
  run[c].pc = "deliver" =>
    /\ \A x \in run[w].queue : x.kind = "reminder" => x.id # run[c].mail.id
    /\ Holding(w) /\ run[w].mail.kind = "reminder" =>
         run[w].mail.id # run[c].mail.id

ApartInv ==
  /\ \A l \in LogIds : l >= nextLog => failedAt[l] = None
  /\ \A c \in Senders : \A w \in Checkers : Apart(c, w)

\* The half hour since the log's last failure, if it had one, is over.
Waited(x) ==
  \/ failedAt[x.id] = None
  \/ /\ x.retryAt # None /\ x.retryAt = failedAt[x.id] + HalfHour
     /\ x.retryAt <= now

\* The row of a reminder that failed says so, or the checker is about to
\* record it.
RowWaits(l) ==
  logs[l].status # "absent" /\ logs[l].kind = "reminder" /\ failedAt[l] # None =>
    \/ \E c \in Checkers : run[c].pc = "record" /\ run[c].mail.id = l
    \/ logs[l].status = "sent"
    \/ logs[l].status = "failed" /\ logs[l].retryAt = failedAt[l] + HalfHour

HandWaits(w) ==
  /\ \A x \in run[w].queue : x.kind = "reminder" => Waited(x)
  /\ run[w].pc = "deliver" /\ run[w].mail.kind = "reminder" => Waited(run[w].mail)
  /\ /\ run[w].pc = "record" /\ run[w].mail.kind = "reminder"
     /\ run[w].mail.status = "failed"
     => \/ failedAt[run[w].mail.id] = None
        \/ run[w].mail.retryAt = failedAt[run[w].mail.id] + HalfHour

WaitInv ==
  interrupts = 0 =>
    (\A l \in LogIds : RowWaits(l)) /\ (\A w \in Checkers : HandWaits(w))

LEMMA InitWait == Init => ClockInv /\ ApartInv /\ WaitInv
<1> SUFFICES ASSUME Init PROVE ClockInv /\ ApartInv /\ WaitInv
  OBVIOUS
<1>1. ClockInv
  BY DEF Init, ClockInv, Idle
<1>2. \A w \in Workers : run[w].queue = {} /\ run[w].pc = "idle"
  BY DEF Init, Idle
<1>3. Checkers \subseteq Workers /\ Senders \subseteq Workers
  BY DEF Workers
<1>4. ApartInv
  BY <1>2, <1>3 DEF Init, ApartInv, Apart, Holding
<1>5. WaitInv
  BY <1>2, <1>3 DEF Init, WaitInv, RowWaits, HandWaits
<1>6. QED
  BY <1>1, <1>4, <1>5

\* Whoever takes a step, its start and everyone else's lie in the past.
LEMMA OthersClock ==
  ASSUME TypeOK, ClockInv, NEW w \in Workers, Others(w), now' = now,
         run'[w].at <= now
  PROVE  ClockInv'
BY DEF ClockInv, Others

LEMMA NextClock ==
  ASSUME TypeOK, ClockInv, Steps
  PROVE  ClockInv'
<1>1. now \in Nat /\ \A w \in Workers : run[w].at \in Int /\ run[w].at <= now
  BY DEF ClockInv, TypeOK, Process
<1>2. Checkers \subseteq Workers /\ Senders \subseteq Workers
  BY DEF Workers
<1>3. Idle.at = 0
  BY DEF Idle
<1>4. CASE Rests \/ Creates \/ Removes \/ Crashes
  <2>1. now' = now \/ now' = now + 1
    BY <1>4 DEF Rests, Creates, Removes, Crashes
  <2>2. \A w \in Workers : run'[w] = run[w] \/ run'[w] = Idle
    BY <1>4 DEF Rests, Creates, Removes, Crashes
  <2>3. \A w \in Workers : run'[w].at <= now
    BY <1>1, <1>3, <2>2
  <2>4. ASSUME NEW w \in Workers
        PROVE  run'[w].at <= now'
    <3>1. run'[w].at \in Int /\ run'[w].at <= now
      BY <1>1, <1>3, <2>2, <2>3
    <3>2. QED
      BY <1>1, <2>1, <3>1
  <2>5. QED
    BY <1>1, <2>1, <2>4 DEF ClockInv
<1>5. ASSUME NEW w \in Workers, Walks(w)
      PROVE  ClockInv'
  BY <1>1, <1>5, OthersClock DEF Walks, Alone
<1>6. ASSUME NEW w \in Checkers,
             Scans(w) \/ Resends(w) \/ Misses(w) \/ Lists(w) \/ TakesDue(w)
      PROVE  ClockInv'
  BY <1>1, <1>2, <1>6, OthersClock
     DEF Scans, Resends, Misses, Lists, TakesDue, TakesSlot, Alone
<1>7. ASSUME NEW w \in Senders, Asks(w)
      PROVE  ClockInv'
  BY <1>1, <1>2, <1>7, OthersClock DEF Asks, Alone
<1>8. ASSUME NEW w \in Checkers \cup Senders,
             \/ Inserts(w) \/ Accepts(w) \/ Refuses(w) \/ Records(w)
             \/ Abandons(w) \/ Forgets(w)
      PROVE  ClockInv'
  <2>1. Others(w) /\ now' = now /\ w \in Workers
    BY <1>2, <1>8 DEF Inserts, Accepts, Refuses, Answered, Records, Abandons, Forgets
  <2>2. CASE Inserts(w) \/ Accepts(w) \/ Refuses(w)
    BY <1>1, <2>1, <2>2, OthersClock DEF Inserts, Accepts, Refuses, Answered, Keeps
  <2>3. CASE Records(w) \/ Abandons(w) \/ Forgets(w)
    <3>1. run'[w] = Idle \/ run'[w].at = run[w].at
      BY <2>3 DEF Records, Abandons, Forgets, Returns, Keeps
    <3>2. QED
      BY <1>1, <1>3, <2>1, <3>1, OthersClock
  <2>4. QED
    BY <1>8, <2>2, <2>3
<1>9. QED
  BY <1>4, <1>5, <1>6, <1>7, <1>8 DEF Steps

LEMMA NextFailedAt ==
  ASSUME TypeOK, RecordInv, Steps, \A l \in LogIds : l >= nextLog => failedAt[l] = None
  PROVE  \A l \in LogIds : l >= nextLog' => failedAt'[l] = None
<1>1. nextLog \in Nat /\ LogIds \subseteq Nat
  BY RemindersAssumption DEF TypeOK, LogIds
<1>2. CASE failedAt' = failedAt /\ (nextLog' = nextLog \/ nextLog' = nextLog + 1)
  BY <1>1, <1>2
<1>3. ASSUME NEW w \in Checkers \cup Senders, Refuses(w)
      PROVE  \A l \in LogIds : l >= nextLog' => failedAt'[l] = None
  <2>1. w \in Workers /\ run[w].pc = "deliver" /\ nextLog' = nextLog
    BY <1>3 DEF Workers, Refuses, Answered
  <2>2. MatchesRow(run[w].mail)
    BY <2>1 DEF RecordInv, Faithful
  <2>3. run[w].mail.id \in LogIds /\ run[w].mail.id < nextLog
    BY <2>2 DEF MatchesRow
  <2>4. \A l \in LogIds : l >= nextLog => l # run[w].mail.id
    <3> DEFINE k == run[w].mail.id
    <3>1. k \in Nat /\ k < nextLog
      BY <1>1, <2>3
    <3> HIDE DEF k
    <3>2. \A l \in LogIds : l >= nextLog => l # k
      BY <1>1, <3>1
    <3>3. QED
      BY <3>2 DEF k
  <2>5. QED
    BY <1>3, <2>1, <2>4 DEF Refuses
<1>4. CASE Rests \/ Creates \/ Removes \/ Crashes
  BY <1>2, <1>4 DEF Rests, Creates, Removes, Crashes, TablesRest
<1>5. CASE \/ \E w \in Workers : Walks(w)
           \/ \E w \in Senders : Asks(w)
           \/ \E w \in Checkers :
                Scans(w) \/ Resends(w) \/ Misses(w) \/ Lists(w) \/ TakesDue(w)
  BY <1>2, <1>5 DEF Walks, Asks, Scans, Resends, Misses, Lists, TakesDue, TakesSlot,
                    Alone, TablesRest
<1>6. CASE \E w \in Checkers \cup Senders :
             Inserts(w) \/ Accepts(w) \/ Records(w) \/ Abandons(w) \/ Forgets(w)
  BY <1>2, <1>6 DEF Inserts, Accepts, Answered, Records, Returns, Abandons, Forgets
<1>7. QED
  BY <1>3, <1>4, <1>5, <1>6 DEF Steps

\* A reminder's row is not the one a manual message on its way is about.
LEMMA RowsApart ==
  ASSUME TypeOK, RecordInv, FinalInv, NEW c \in Senders, run[c].pc = "deliver",
         NEW l \in LogIds, logs[l].status # "absent", logs[l].kind = "reminder"
  PROVE  logs[l].id # run[c].mail.id
<1>1. c \in Workers /\ c \notin Checkers
  BY RemindersAssumption DEF Workers
<1>2. MatchesRow(run[c].mail) /\ run[c].mail.kind = "manual"
  BY <1>1 DEF RecordInv, Faithful, FinalInv, OneHand
<1>3. logs[l].id = l
  BY DEF RecordInv, TableInPlace
<1>4. QED
  BY <1>2, <1>3 DEF MatchesRow

LEMMA HeldIds ==
  ASSUME TypeOK, RecordInv, NEW w \in Workers
  PROVE  /\ \A x \in run[w].queue : x.id \in LogIds /\ x.id # nextLog
         /\ Holding(w) => run[w].mail.id \in LogIds /\ run[w].mail.id # nextLog
<1>1. Faithful(w) /\ nextLog \in Nat /\ LogIds \subseteq Nat
  BY RemindersAssumption DEF RecordInv, TypeOK, LogIds
<1>2. ASSUME NEW x, MatchesRow(x)
      PROVE  x.id \in LogIds /\ x.id # nextLog
  <2>1. x.id \in LogIds /\ x.id < nextLog
    BY <1>2 DEF MatchesRow
  <2> DEFINE a == x.id
  <2>2. a \in Nat /\ a < nextLog
    BY <1>1, <2>1
  <2> HIDE DEF a
  <2>3. a # nextLog
    BY <1>1, <2>2
  <2>4. QED
    BY <2>1, <2>3 DEF a
<1>3. QED
  BY <1>1, <1>2 DEF Faithful, Holding

LEMMA NextApart ==
  ASSUME TypeOK, RecordInv, FinalInv, ApartInv, Steps
  PROVE  ApartInv'
<1>1. Checkers \subseteq Workers /\ Senders \subseteq Workers
      /\ Checkers \cap Senders = {}
  BY RemindersAssumption DEF Workers
<1>2. ASSUME NEW c \in Senders, NEW w \in Checkers
      PROVE  Apart(c, w)'
  <2>1. Apart(c, w) /\ c # w /\ c \in Workers /\ w \in Workers
    BY <1>1 DEF ApartInv
  <2>2. OneHand(w) /\ OneHand(c)
    BY <2>1 DEF FinalInv
  <2>3. CASE run'[c] = run[c] /\ run'[w] = run[w]
    BY <2>1, <2>3 DEF Apart, Holding
  <2>4. CASE run'[c].pc # "deliver"
    BY <2>4 DEF Apart
  <2>5. ASSUME run'[c] = run[c], run'[w].queue \subseteq run[w].queue,
               \/ run'[w].pc \notin {"deliver", "record"}
               \/ Holding(w) /\ run'[w].mail.id = run[w].mail.id
                  /\ run'[w].mail.kind = run[w].mail.kind
        PROVE  Apart(c, w)'
    BY <2>1, <2>5 DEF Apart, Holding
  <2>6. CASE Rests \/ Creates \/ Removes \/ Crashes
    <3>1. /\ run'[c] = run[c] \/ run'[c] = Idle
          /\ run'[w] = run[w] \/ run'[w] = Idle
      BY <2>1, <2>6 DEF Rests, Creates, Removes, Crashes
    <3>2. QED
      BY <2>3, <2>4, <2>5, <3>1 DEF Idle
  <2>7. ASSUME NEW v \in Workers, Walks(v)
        PROVE  Apart(c, w)'
    <3>1. CASE v = c
      BY <2>4, <2>7, <3>1 DEF Walks
    <3>2. CASE v # c
      BY <2>1, <2>3, <2>5, <2>7, <3>2 DEF Walks, Alone, Others
    <3>3. QED
      BY <3>1, <3>2
  <2>8. ASSUME NEW v \in Checkers,
               Scans(v) \/ Misses(v) \/ Resends(v) \/ Lists(v) \/ TakesDue(v)
        PROVE  Apart(c, w)'
    <3>1. run'[c] = run[c]
      BY <1>1, <2>1, <2>8
         DEF Scans, Misses, Resends, Lists, TakesDue, TakesSlot, Alone, Others
    <3>2. CASE v # w
      BY <2>1, <2>3, <2>8, <3>1, <3>2
         DEF Scans, Misses, Resends, Lists, TakesDue, TakesSlot, Alone, Others
    <3>3. CASE v = w /\ (Scans(w) \/ Misses(w))
      BY <2>5, <3>1, <3>3 DEF Scans, Misses, TakesSlot
    <3>4. CASE v = w /\ Resends(w)
      <4>1. PICK l \in LogIds : /\ logs[l].status # "absent"
                                /\ logs[l].kind = "reminder"
                                /\ run'[w].mail = logs[l]
        BY <3>4 DEF Resends
      <4>2. run'[w].queue = run[w].queue
        BY <3>4 DEF Resends, TakesSlot
      <4>3. QED
        BY <2>1, <3>1, <4>1, <4>2, RowsApart DEF Apart, Holding
    <3>5. CASE v = w /\ Lists(w)
      <4>1. run'[w].pc = "due" /\ run'[w].queue = LogsDue
        BY <3>5 DEF Lists
      <4>2. ASSUME NEW x \in LogsDue, x.kind = "reminder", run[c].pc = "deliver"
            PROVE  x.id # run[c].mail.id
        BY <4>2, RowsApart DEF LogsDue, IsDue
      <4>3. QED
        BY <3>1, <4>1, <4>2 DEF Apart, Holding
    <3>6. CASE v = w /\ TakesDue(w)
      <4>1. PICK x \in run[w].queue :
              /\ run'[w].queue = run[w].queue \ {x}
              /\ run'[w].mail = x \/ run'[w].mail = Dropped(x)
        BY <3>6 DEF TakesDue
      <4>2. x \in LogRow
        BY <2>1 DEF TypeOK, Process
      <4>3. run'[w].mail.id = x.id /\ run'[w].mail.kind = x.kind
        BY <4>1, <4>2 DEF Dropped, LogRow
      <4>4. QED
        BY <2>1, <3>1, <4>1, <4>3 DEF Apart
    <3>7. QED
      BY <2>8, <3>2, <3>3, <3>4, <3>5, <3>6
  <2>9. ASSUME NEW v \in Senders, Asks(v)
        PROVE  Apart(c, w)'
    <3>1. CASE v = c
      BY <2>4, <2>9, <3>1 DEF Asks
    <3>2. CASE v # c
      BY <1>1, <2>1, <2>3, <2>9, <3>2 DEF Asks, Alone, Others
    <3>3. QED
      BY <3>1, <3>2
  <2>10. ASSUME NEW v \in Checkers \cup Senders, Inserts(v)
         PROVE  Apart(c, w)'
    <3>1. run[v].mail \in LogRow /\ v \in Workers
      BY <1>1 DEF TypeOK, Process
    <3>2. run'[v].mail.id = nextLog /\ run'[v].queue = run[v].queue
      BY <2>10, <3>1 DEF Inserts, Keeps, LogRow
    <3>3. CASE v = c
      <4>1. run'[w] = run[w]
        BY <2>1, <2>10, <3>3 DEF Inserts, Others
      <4>2. QED
        BY <2>1, <3>2, <3>3, <4>1, HeldIds DEF Apart, Holding
    <3>4. CASE v = w
      <4>1. run'[c] = run[c]
        BY <2>1, <2>10, <3>4 DEF Inserts, Others
      <4>2. run[c].pc = "deliver" => run[c].mail.id # nextLog
        BY <2>1, HeldIds DEF Holding
      <4>3. QED
        BY <2>1, <3>2, <3>4, <4>1, <4>2 DEF Apart, Holding
    <3>5. CASE v # c /\ v # w
      BY <2>1, <2>3, <2>10, <3>5 DEF Inserts, Others
    <3>6. QED
      BY <3>3, <3>4, <3>5
  <2>11. ASSUME NEW v \in Checkers \cup Senders,
                Accepts(v) \/ Refuses(v) \/ Records(v) \/ Abandons(v) \/ Forgets(v)
         PROVE  Apart(c, w)'
    <3>1. Others(v)
      BY <2>11 DEF Accepts, Refuses, Answered, Records, Returns, Abandons, Forgets
    <3>2. CASE v = c
      <4>1. run'[c].pc # "deliver"
        <5>1. CASE Accepts(v) \/ Refuses(v)
          BY <3>2, <5>1 DEF Accepts, Refuses, Answered
        <5>2. CASE Records(v) \/ Abandons(v) \/ Forgets(v)
          <6>1. run'[v] = Idle \/ Returns(v)
            BY <5>2 DEF Records, Abandons, Forgets
          <6>2. Returns(v) => run'[v].pc \in {"scan", "due"}
            BY DEF Returns
          <6>3. QED
            BY <3>2, <6>1, <6>2 DEF Idle
        <5>3. QED
          BY <2>11, <5>1, <5>2
      <4>2. QED
        BY <2>4, <4>1
    <3>3. CASE v = w
      <4>1. run'[c] = run[c]
        BY <2>1, <3>1, <3>3 DEF Others
      <4>2. \/ run'[w] = Idle
            \/ run'[w].queue = run[w].queue
               /\ \/ run'[w].pc \in {"scan", "due"}
                  \/ Holding(w) /\ run'[w].mail.id = run[w].mail.id
                     /\ run'[w].mail.kind = run[w].mail.kind
        BY <2>11, <3>3
           DEF Accepts, Refuses, Answered, Records, Returns, Abandons, Forgets, Keeps, Holding
      <4>3. QED
        BY <2>5, <4>1, <4>2 DEF Idle
    <3>4. CASE v # c /\ v # w
      BY <2>1, <2>3, <3>1, <3>4 DEF Others
    <3>5. QED
      BY <3>2, <3>3, <3>4
  <2>12. QED
    BY <2>6, <2>7, <2>8, <2>9, <2>10, <2>11 DEF Steps
<1>3. QED
  BY <1>2, NextFailedAt DEF ApartInv

\* While the process keeps its log, and no failure is added to a row it holds.
LEMMA StaysWaiting ==
  ASSUME TypeOK, TypeOK', ClockInv, FinalInv, NEW w \in Workers, HandWaits(w), now <= now',
         run'[w].queue \subseteq run[w].queue,
         \/ run'[w].pc \notin {"deliver", "record"}
         \/ run'[w].pc = run[w].pc /\ run'[w].mail = run[w].mail,
         \A x \in run[w].queue :
           x.kind = "reminder" => failedAt'[x.id] = failedAt[x.id],
         Holding(w) /\ run[w].mail.kind = "reminder" =>
           failedAt'[run[w].mail.id] = failedAt[run[w].mail.id]
  PROVE  HandWaits(w)'
<1>1. run[w] \in Process /\ now \in Int /\ now' \in Int
  BY DEF TypeOK
<1>2. ASSUME NEW x \in LogRow, failedAt'[x.id] = failedAt[x.id], Waited(x)
      PROVE  \/ failedAt'[x.id] = None
             \/ /\ x.retryAt # None /\ x.retryAt = failedAt'[x.id] + HalfHour
                /\ x.retryAt <= now'
  <2>1. CASE failedAt[x.id] = None
    BY <1>2, <2>1
  <2>2. CASE failedAt[x.id] # None
    <3> DEFINE r == x.retryAt
    <3>1. r \in Int /\ r <= now
      BY <1>2, <2>2 DEF Waited, LogRow, OptTime
    <3> HIDE DEF r
    <3>2. r <= now'
      BY <1>1, <3>1
    <3>3. QED
      BY <1>2, <2>2, <3>2 DEF Waited, r
  <2>3. QED
    BY <2>1, <2>2
<1>3. /\ run[w].queue \subseteq LogRow /\ run[w].mail \in LogRow
  BY <1>1 DEF Process
<1>4. \A x \in run'[w].queue : x.kind = "reminder" => Waited(x)'
  BY <1>2, <1>3 DEF HandWaits, Waited
<1>5. run'[w].pc = "deliver" /\ run'[w].mail.kind = "reminder" =>
        \/ failedAt'[run'[w].mail.id] = None
        \/ /\ run'[w].mail.retryAt # None
           /\ run'[w].mail.retryAt = failedAt'[run'[w].mail.id] + HalfHour
           /\ run'[w].mail.retryAt <= now'
  BY <1>2, <1>3 DEF HandWaits, Holding
<1>6. /\ run'[w].pc = "record" /\ run'[w].mail.kind = "reminder"
      /\ run'[w].mail.status = "failed"
      => \/ failedAt'[run'[w].mail.id] = None
         \/ run'[w].mail.retryAt = failedAt'[run'[w].mail.id] + HalfHour
  BY DEF HandWaits, Holding
<1>7. QED
  BY <1>4, <1>5, <1>6 DEF HandWaits, Waited

\* What a scan or a due list takes from the table has waited.
LEMMA TakenWaited ==
  ASSUME OneChecker, TypeOK, RecordInv, ClockInv, NEW w \in Checkers,
         run[w].pc = "scan", NEW l \in LogIds, RowWaits(l),
         logs[l].status # "absent", logs[l].status # "sent", logs[l].kind = "reminder",
         logs[l].status = "failed" => logs[l].retryAt = None \/ logs[l].retryAt <= now
  PROVE  Waited(logs[l])
<1>1. logs[l].id = l /\ l \in LogIds
  BY DEF RecordInv, TableInPlace
<1>2. failedAt[l] \in Int \cup {None} /\ logs[l].retryAt \in Int \cup {None}
  BY DEF TypeOK, LogRow, OptTime
<1>3. SUFFICES ASSUME failedAt[l] # None
               PROVE  Waited(logs[l])
  BY <1>1 DEF Waited
<1>4. logs[l].status = "failed" /\ logs[l].retryAt = failedAt[l] + HalfHour
  BY <1>3 DEF RowWaits, OneChecker
<1>5. failedAt[l] + HalfHour \in Int
  BY <1>2, <1>3, RemindersAssumption
<1>6. logs[l].retryAt # None
  BY <1>4, <1>5, PlanAssumption
<1>7. QED
  BY <1>1, <1>4, <1>6 DEF Waited

\* A row and its last failure stay, and so does what the checker is about to
\* record of it.
LEMMA StaysRowWaits ==
  ASSUME OneChecker, NEW l \in LogIds, RowWaits(l),
         logs'[l] = logs[l] \/ logs'[l].status = "absent",
         failedAt'[l] = failedAt[l],
         \A c \in Checkers : run[c].pc = "record" /\ run[c].mail.id = l =>
                               run'[c] = run[c]
  PROVE  RowWaits(l)'
<1>1. SUFFICES ASSUME logs'[l].status # "absent", logs'[l].kind = "reminder",
                      failedAt'[l] # None
               PROVE  \/ \E c \in Checkers : run'[c].pc = "record" /\ run'[c].mail.id = l
                      \/ logs'[l].status = "sent"
                      \/ /\ logs'[l].status = "failed"
                         /\ logs'[l].retryAt = failedAt'[l] + HalfHour
  BY Zenon DEF RowWaits
<1>2. logs'[l] = logs[l]
  BY <1>1
<1>3. CASE \E c \in Checkers : run[c].pc = "record" /\ run[c].mail.id = l
  BY <1>3
<1>4. CASE \/ logs[l].status = "sent"
           \/ logs[l].status = "failed" /\ logs[l].retryAt = failedAt[l] + HalfHour
  BY <1>2, <1>4
<1>5. QED
  BY <1>1, <1>2, <1>3, <1>4 DEF RowWaits

LEMMA MoveWait ==
  ASSUME OneChecker, TypeOK, TypeOK', RecordInv, FinalInv, ClockInv, WaitInv,
         interrupts' = 0,
         \/ Rests \/ Creates \/ Removes \/ Crashes
         \/ \E w \in Workers : Walks(w)
         \/ \E w \in Senders : Asks(w)
         \/ \E w \in Checkers : Scans(w) \/ Misses(w)
  PROVE  WaitInv'
<1>1. interrupts \in Nat /\ now \in Int /\ Checkers \subseteq Workers
      /\ Senders \subseteq Workers /\ Checkers \cap Senders = {}
  BY RemindersAssumption DEF TypeOK, Workers
<1>2. interrupts = 0
  BY <1>1 DEF Rests, Creates, Removes, Crashes, Walks, Asks, Scans, Misses,
              TakesSlot, Alone, TablesRest
<1>3. failedAt' = failedAt /\ now <= now'
  BY <1>1 DEF Rests, Creates, Removes, Crashes, Walks, Asks, Scans, Misses,
              TakesSlot, Alone, TablesRest
<1>4. ASSUME NEW v \in Workers
      PROVE  /\ Holding(v) => run'[v] = run[v]
             /\ \/ run'[v] = run[v]
                \/ run'[v].queue = {} /\ run'[v].pc \notin {"deliver", "record"}
  <2>1. OneHand(v)
    BY DEF FinalInv
  <2>2. CASE Rests \/ Creates \/ Removes
    BY <2>2 DEF Rests, Creates, Removes, Holding, Idle
  <2>3. CASE Crashes
    BY <1>1, <1>2, <2>3 DEF Crashes
  <2>4. ASSUME NEW w \in Workers, Walks(w)
        PROVE  /\ Holding(v) => run'[v] = run[v]
               /\ \/ run'[v] = run[v]
                  \/ run'[v].queue = {} /\ run'[v].pc \notin {"deliver", "record"}
    BY <2>1, <2>4 DEF Walks, Alone, Others, OneHand, Holding
  <2>5. ASSUME NEW w \in Senders, Asks(w)
        PROVE  /\ Holding(v) => run'[v] = run[v]
               /\ \/ run'[v] = run[v]
                  \/ run'[v].queue = {} /\ run'[v].pc \notin {"deliver", "record"}
    BY <1>1, <2>5 DEF Asks, Alone, Others, Holding
  <2>6. ASSUME NEW w \in Checkers, Scans(w) \/ Misses(w)
        PROVE  /\ Holding(v) => run'[v] = run[v]
               /\ \/ run'[v] = run[v]
                  \/ run'[v].queue = {} /\ run'[v].pc \notin {"deliver", "record"}
    BY <1>1, <2>1, <2>6 DEF Scans, Misses, TakesSlot, Alone, Others, OneHand, Holding
  <2>7. QED
    BY <2>2, <2>3, <2>4, <2>5, <2>6
<1>5. ASSUME NEW l \in LogIds
      PROVE  RowWaits(l)'
  <2>1. RowWaits(l)
    BY <1>2 DEF WaitInv
  <2>2. logs'[l] = logs[l] \/ logs'[l].status = "absent"
    BY DEF Rests, Creates, Removes, Crashes, Walks, Asks, Scans, Misses,
           TakesSlot, Alone, TablesRest
  <2>3. \A c \in Checkers : run[c].pc = "record" /\ run[c].mail.id = l =>
                              run'[c] = run[c]
    BY <1>1, <1>4 DEF Holding
  <2>4. QED
    BY <1>3, <2>1, <2>2, <2>3, StaysRowWaits
<1>6. ASSUME NEW w \in Checkers
      PROVE  HandWaits(w)'
  <2>1. HandWaits(w) /\ w \in Workers
    BY <1>1, <1>2 DEF WaitInv
  <2>2. /\ run'[w].queue \subseteq run[w].queue
        /\ \/ run'[w].pc \notin {"deliver", "record"}
           \/ run'[w].pc = run[w].pc /\ run'[w].mail = run[w].mail
    BY <1>4, <2>1
  <2>3. QED
    BY <1>3, <2>1, <2>2, StaysWaiting
<1>7. QED
  BY <1>5, <1>6 DEF WaitInv

LEMMA TakeWait ==
  ASSUME OneChecker, TypeOK, TypeOK', RecordInv, FinalInv, ClockInv, WaitInv,
         interrupts' = 0, NEW w \in Checkers, Resends(w) \/ Lists(w) \/ TakesDue(w)
  PROVE  WaitInv'
<1>1. /\ w \in Workers /\ Others(w) /\ logs' = logs /\ failedAt' = failedAt
      /\ now' = now /\ interrupts = 0
  BY DEF Workers, Resends, Lists, TakesDue, TakesSlot, Alone, TablesRest
<1>2. run[w] \in Process /\ OneHand(w) /\ HandWaits(w)
  BY <1>1 DEF TypeOK, FinalInv, WaitInv
<1>3. ASSUME NEW l \in LogIds
      PROVE  RowWaits(l)'
  <2>1. RowWaits(l) /\ logs'[l] = logs[l] /\ failedAt'[l] = failedAt[l]
    BY <1>1 DEF WaitInv
  <2>2. run[w].pc # "record"
    BY DEF Resends, Lists, TakesDue, TakesSlot
  <2>3. \A c \in Checkers : run[c].pc = "record" => c # w
    BY <2>2
  <2>4. \A c \in Checkers : run[c].pc = "record" /\ run[c].mail.id = l =>
                              run'[c] = run[c]
    BY <2>3 DEF OneChecker
  <2>5. QED
    BY <2>1, <2>4, StaysRowWaits
<1>4. HandWaits(w)'
  <2>1. CASE Resends(w)
    <3>1. PICK l \in LogIds : /\ logs[l].status # "absent"
                              /\ logs[l].kind = "reminder"
                              /\ ~Settled(logs[l], run[w].at)
                              /\ run'[w].mail = logs[l]
      BY <2>1 DEF Resends
    <3>2. /\ run[w].pc = "scan" /\ run'[w].pc = "deliver" /\ run'[w].queue = {}
          /\ RowWaits(l)
      BY <1>1, <1>2, <2>1 DEF Resends, TakesSlot, OneHand, Holding, WaitInv
    <3>3. logs[l].status = "failed" => logs[l].retryAt = None \/ logs[l].retryAt <= now
      <4>1. SUFFICES ASSUME logs[l].status = "failed", logs[l].retryAt # None
                     PROVE  logs[l].retryAt <= now
        OBVIOUS
      <4> DEFINE r == logs[l].retryAt
                 a == run[w].at
      <4>2. r \in Int /\ a \in Int /\ now \in Int /\ ~(r > a) /\ a <= now
        BY <1>1, <1>2, <3>1, <4>1 DEF TypeOK, LogRow, OptTime, Process, Settled, ClockInv
      <4> HIDE DEF r, a
      <4>3. r <= now
        BY <4>2
      <4>4. QED
        BY <4>3 DEF r
    <3>4. logs[l].status # "sent"
      BY <3>1 DEF Settled
    <3>5. Waited(logs[l])
      BY <3>1, <3>2, <3>3, <3>4, TakenWaited
    <3>6. QED
      BY <1>1, <3>1, <3>2, <3>5 DEF HandWaits, Waited
  <2>2. CASE Lists(w)
    <3>1. run[w].pc = "scan" /\ run'[w].pc = "due" /\ run'[w].queue = LogsDue
      BY <2>2 DEF Lists
    <3>2. ASSUME NEW x \in LogsDue, x.kind = "reminder"
          PROVE  Waited(x)
      <4>1. PICK l \in LogIds : x = logs[l] /\ IsDue(logs[l])
        BY DEF LogsDue
      <4>2. RowWaits(l)
        BY <1>1 DEF WaitInv
      <4>3. QED
        BY <3>1, <3>2, <4>1, <4>2, TakenWaited DEF IsDue
    <3>3. QED
      BY <1>1, <3>1, <3>2 DEF HandWaits, Waited
  <2>3. CASE TakesDue(w)
    <3>1. PICK x \in run[w].queue :
            /\ run'[w].queue = run[w].queue \ {x}
            /\ \/ run'[w].pc = "deliver" /\ run'[w].mail = x
               \/ run'[w].pc = "record" /\ run'[w].mail = Dropped(x)
      BY <2>3 DEF TakesDue
    <3>2. x \in LogRow /\ (x.kind = "reminder" => Waited(x))
      BY <1>2 DEF Process, HandWaits
    <3>3. /\ Dropped(x).id = x.id /\ Dropped(x).kind = x.kind
          /\ Dropped(x).retryAt = x.retryAt
      BY <3>2 DEF Dropped, LogRow
    <3>4. \A y \in run'[w].queue : y.kind = "reminder" => Waited(y)
      BY <1>2, <3>1 DEF HandWaits
    <3>5. CASE run'[w].pc = "deliver" /\ run'[w].mail = x
      BY <1>1, <3>2, <3>4, <3>5 DEF HandWaits, Waited
    <3>6. CASE run'[w].pc = "record" /\ run'[w].mail = Dropped(x)
      BY <1>1, <3>2, <3>3, <3>4, <3>6 DEF HandWaits, Waited
    <3>7. QED
      BY <3>1, <3>5, <3>6
  <2>4. QED
    BY <2>1, <2>2, <2>3
<1>5. \A v \in Checkers : HandWaits(v)'
  <2>1. \A v \in Checkers : v = w
    BY DEF OneChecker
  <2>2. QED
    BY <1>4, <2>1
<1>6. QED
  BY <1>3, <1>5 DEF WaitInv

LEMMA SendWait ==
  ASSUME OneChecker, TypeOK, TypeOK', RecordInv, FinalInv, ClockInv, ApartInv,
         WaitInv, interrupts' = 0, NEW w \in Checkers \cup Senders,
         \/ Inserts(w) \/ Accepts(w) \/ Refuses(w) \/ Records(w)
         \/ Abandons(w) \/ Forgets(w)
  PROVE  WaitInv'
<1>1. /\ w \in Workers /\ Others(w) /\ now' = now /\ now \in Int
      /\ Checkers \subseteq Workers /\ Checkers \cap Senders = {}
  BY RemindersAssumption
     DEF Workers, Inserts, Accepts, Refuses, Answered, Records, Returns, Abandons, Forgets, TypeOK
<1>2. ~Abandons(w) /\ ~Forgets(w) /\ interrupts = 0
  <2>1. interrupts \in Nat
    BY DEF TypeOK
  <2>2. interrupts' # interrupts + 1
    BY <2>1
  <2>3. ~Abandons(w) /\ ~Forgets(w)
    BY <2>2 DEF Abandons, Forgets
  <2>4. QED
    BY <2>3 DEF Inserts, Accepts, Refuses, Answered, Records
<1>3. /\ OneHand(w) /\ Faithful(w) /\ run[w] \in Process
      /\ run[w].mail \in LogRow
      /\ \A l \in LogIds : RowWaits(l)
      /\ \A v \in Checkers : HandWaits(v)
  BY <1>1, <1>2 DEF TypeOK, Process, FinalInv, RecordInv, WaitInv
<1>4. w \in Checkers => \A v \in Checkers : v = w
  BY DEF OneChecker
<1>5. ASSUME NEW v \in Checkers, v # w,
             \A x \in run[v].queue :
               x.kind = "reminder" => failedAt'[x.id] = failedAt[x.id],
             Holding(v) /\ run[v].mail.kind = "reminder" =>
               failedAt'[run[v].mail.id] = failedAt[run[v].mail.id]
      PROVE  HandWaits(v)'
  <2>1. run'[v] = run[v] /\ v \in Workers /\ HandWaits(v) /\ now <= now'
    BY <1>1, <1>3, <1>5 DEF Others
  <2>2. QED
    BY <1>5, <2>1, StaysWaiting
<1>6. CASE Inserts(w)
  <2>1. /\ run[w].pc = "insert" /\ run'[w].pc = "deliver" /\ failedAt' = failedAt
        /\ run'[w].queue = run[w].queue /\ nextLog \in LogIds
        /\ run'[w].mail = [run[w].mail EXCEPT !.id = nextLog]
        /\ \A l \in LogIds : l # nextLog => logs'[l] = logs[l]
    BY <1>6 DEF Inserts, Keeps
  <2>2. run'[w].mail.id = nextLog /\ failedAt[nextLog] = None
    <3>1. nextLog >= nextLog
      BY DEF TypeOK
    <3>2. failedAt[nextLog] = None
      BY <2>1, <3>1 DEF ApartInv
    <3>3. QED
      BY <1>3, <2>1, <3>2 DEF LogRow
  <2>3. ASSUME NEW l \in LogIds
        PROVE  RowWaits(l)'
    <3>1. CASE l = nextLog
      BY <2>1, <2>2, <3>1 DEF RowWaits
    <3>2. CASE l # nextLog
      <4>1. \A c \in Checkers : run[c].pc = "record" => run'[c] = run[c]
        BY <1>1, <2>1 DEF Others
      <4>2. QED
        BY <1>3, <2>1, <3>2, <4>1, StaysRowWaits
    <3>3. QED
      BY <3>1, <3>2
  <2>4. w \in Checkers => HandWaits(w)'
    <3>1. w \in Checkers => run'[w].queue = {}
      BY <1>3, <2>1 DEF OneHand, Holding
    <3>2. QED
      BY <2>1, <2>2, <3>1 DEF HandWaits, Waited
  <2>5. \A v \in Checkers : HandWaits(v)'
    BY <1>5, <2>1, <2>4
  <2>6. QED
    BY <2>3, <2>5 DEF WaitInv
<1>7. CASE Accepts(w)
  <2>1. /\ run[w].pc = "deliver" /\ run'[w].pc = "record" /\ failedAt' = failedAt
        /\ logs' = logs /\ run'[w].queue = run[w].queue
        /\ run'[w].mail.status = "sent"
    BY <1>7 DEF Accepts, Answered, Keeps
  <2>2. ASSUME NEW l \in LogIds
        PROVE  RowWaits(l)'
    <3>1. \A c \in Checkers : run[c].pc = "record" => run'[c] = run[c]
      BY <1>1, <2>1 DEF Others
    <3>2. QED
      BY <1>3, <2>1, <3>1, StaysRowWaits
  <2>3. w \in Checkers => HandWaits(w)'
    BY <1>1, <1>3, <2>1 DEF HandWaits, Waited
  <2>4. \A v \in Checkers : HandWaits(v)'
    BY <1>5, <2>1, <2>3
  <2>5. QED
    BY <2>2, <2>4 DEF WaitInv
<1>8. CASE Refuses(w)
  <2> DEFINE m == run[w].mail
  <2>1. /\ run[w].pc = "deliver" /\ run'[w].pc = "record" /\ logs' = logs
        /\ run'[w].queue = run[w].queue
        /\ run'[w].mail.id = m.id /\ run'[w].mail.status = "failed"
        /\ run'[w].mail.retryAt = run[w].at + HalfHour
        /\ failedAt' = [l \in LogIds |-> IF l = m.id THEN run[w].at ELSE failedAt[l]]
    BY <1>8 DEF Refuses, Answered, Keeps
  <2>2. MatchesRow(m) /\ m.id \in LogIds
    BY <1>3, <2>1 DEF Faithful, MatchesRow
  <2>3. ASSUME NEW l \in LogIds
        PROVE  RowWaits(l)'
    <3>1. CASE l # m.id
      <4>1. \A c \in Checkers : run[c].pc = "record" => run'[c] = run[c]
        BY <1>1, <2>1 DEF Others
      <4>2. failedAt'[l] = failedAt[l]
        BY <2>1, <3>1
      <4>3. QED
        BY <1>3, <2>1, <4>1, <4>2, StaysRowWaits
    <3>2. CASE l = m.id /\ w \in Checkers
      BY <2>1, <3>2 DEF RowWaits
    <3>3. CASE l = m.id /\ w \notin Checkers
      <4>1. m.kind = "manual"
        BY <1>3, <2>1, <3>3 DEF OneHand
      <4>2. logs'[l].status # "absent" => logs'[l].kind = "manual"
        BY <2>1, <2>2, <3>3, <4>1 DEF MatchesRow
      <4>3. QED
        BY <4>2 DEF RowWaits
    <3>4. QED
      BY <3>1, <3>2, <3>3
  <2>4. ASSUME NEW x, x.id \in LogIds, x.id # m.id
        PROVE  failedAt'[x.id] = failedAt[x.id]
    BY <2>1, <2>4
  <2>5. ASSUME w \in Checkers
        PROVE  HandWaits(w)'
    <3>1. \A x \in run[w].queue : x.id \in LogIds /\ x.id # m.id
      BY <1>1, <1>3, <2>1, HeldIds DEF OneHand, Holding
    <3>2. \A x \in run'[w].queue : x.kind = "reminder" => Waited(x)'
      <4>1. \A x \in run[w].queue : failedAt'[x.id] = failedAt[x.id]
        BY <2>4, <3>1
      <4>2. QED
        BY <1>1, <1>3, <2>1, <2>5, <4>1 DEF HandWaits, Waited
    <3>3. failedAt'[m.id] = run[w].at
      BY <2>1, <2>2
    <3>4. QED
      BY <2>1, <3>2, <3>3 DEF HandWaits
  <2>6. ASSUME NEW v \in Checkers, v # w
        PROVE  HandWaits(v)'
    <3>1. w \in Senders
      BY <2>6 DEF OneChecker
    <3>2. Apart(w, v) /\ v \in Workers
      BY <1>1, <3>1 DEF ApartInv
    <3>3. \A x \in run[v].queue : x.kind = "reminder" => failedAt'[x.id] = failedAt[x.id]
      BY <2>1, <2>4, <3>2, HeldIds DEF Apart
    <3>4. Holding(v) /\ run[v].mail.kind = "reminder" =>
            failedAt'[run[v].mail.id] = failedAt[run[v].mail.id]
      BY <2>1, <2>4, <3>2, HeldIds DEF Apart
    <3>5. QED
      BY <1>5, <2>6, <3>3, <3>4
  <2>7. QED
    BY <2>3, <2>5, <2>6 DEF WaitInv
<1>9. CASE Records(w)
  <2> DEFINE m == run[w].mail
  <2>1. /\ run[w].pc = "record" /\ failedAt' = failedAt
        /\ \A l \in LogIds :
             /\ l # m.id => logs'[l] = logs[l]
             /\ logs[l].status = "absent" => logs'[l].status = "absent"
             /\ logs'[l].kind = logs[l].kind
             /\ l = m.id /\ logs[l].status # "absent" =>
                  logs'[l].status = m.status /\ logs'[l].retryAt = m.retryAt
    BY <1>9 DEF Records
  <2>2. MatchesRow(m) /\ m.status \in {"sent", "failed"}
    BY <1>3, <2>1 DEF Faithful, OneHand
  <2>3. ASSUME NEW l \in LogIds
        PROVE  RowWaits(l)'
    <3>1. CASE l # m.id
      <4>1. \A c \in Checkers : run[c].pc = "record" /\ run[c].mail.id = l =>
                                  run'[c] = run[c]
        BY <1>1, <3>1 DEF Others
      <4>2. QED
        BY <1>3, <2>1, <3>1, <4>1, StaysRowWaits
    <3>2. CASE l = m.id /\ logs[l].status = "absent"
      BY <2>1, <3>2 DEF RowWaits
    <3>3. CASE l = m.id /\ logs[l].status # "absent" /\ logs[l].kind = "manual"
      BY <2>1, <3>3 DEF RowWaits
    <3>4. CASE l = m.id /\ logs[l].status # "absent" /\ logs[l].kind = "reminder"
      <4>1. m.kind = "reminder"
        BY <2>2, <3>4 DEF MatchesRow
      <4>2. w \in Checkers
        BY <1>3, <2>1, <4>1 DEF OneHand
      <4>3. m.status = "failed" => \/ failedAt[m.id] = None
                                   \/ m.retryAt = failedAt[m.id] + HalfHour
        BY <1>3, <2>1, <4>1, <4>2 DEF HandWaits
      <4>4. QED
        BY <2>1, <2>2, <3>4, <4>3 DEF RowWaits
    <3>5. logs[l].kind \in {"reminder", "manual"}
      BY DEF TypeOK, LogRow
    <3>6. QED
      BY <3>1, <3>2, <3>3, <3>4, <3>5
  <2>4. w \in Checkers => HandWaits(w)'
    <3>1. /\ run'[w].queue \subseteq run[w].queue
          /\ run'[w].pc \notin {"deliver", "record"}
      BY <1>9 DEF Records, Returns, Keeps, Idle
    <3>2. now <= now'
      BY <1>1
    <3>3. QED
      BY <1>1, <1>3, <2>1, <3>1, <3>2, StaysWaiting
  <2>5. \A v \in Checkers : HandWaits(v)'
    BY <1>5, <2>1, <2>4
  <2>6. QED
    BY <2>3, <2>5 DEF WaitInv
<1>10. QED
  BY <1>2, <1>6, <1>7, <1>8, <1>9

LEMMA NextWait ==
  ASSUME OneChecker, TypeOK, TypeOK', RecordInv, FinalInv, ClockInv, ApartInv,
         WaitInv, Steps
  PROVE  WaitInv'
<1>1. SUFFICES ASSUME interrupts' = 0
               PROVE  WaitInv'
  BY DEF WaitInv
<1>2. QED
  BY <1>1, MoveWait, TakeWait, SendWait DEF Steps

LEMMA WaitAlways ==
  ASSUME OneChecker
  PROVE  Spec => [](ClockInv /\ ApartInv /\ WaitInv)
<1>1. Init => ClockInv /\ ApartInv /\ WaitInv
  BY InitWait
<1>2. /\ TypeOK /\ TypeOK' /\ QuietInv /\ RecordInv /\ FinalInv
      /\ ClockInv /\ ApartInv /\ WaitInv /\ [Next]_vars
      => (ClockInv /\ ApartInv /\ WaitInv)'
  BY NextSteps, NextClock, NextApart, NextWait
<1>3. QED
  BY <1>1, <1>2, TypeCorrect, QuietAlways, RecordAlways, FinalAlways, PTL DEF Spec

\* With one task at a time in run_check, no row of a scheduled reminder is
\* attempted again within half an hour of the run in which it failed, whatever
\* requests, merges and manual reminders come in between, as long as no end of
\* the process loses the record of the failure.
THEOREM FailedWaits ==
  ASSUME OneChecker
  PROVE  Spec => []RetryWaitsHalfHour
<1>1. ASSUME TypeOK, RecordInv, FinalInv, WaitInv
      PROVE  RetryWaitsHalfHour
  <2>1. SUFFICES ASSUME interrupts = 0, NEW w \in Workers, run[w].pc = "deliver",
                        run[w].mail.kind = "reminder", run[w].mail.id \in LogIds,
                        failedAt[run[w].mail.id] # None
                 PROVE  now - failedAt[run[w].mail.id] >= HalfHour
    BY DEF RetryWaitsHalfHour
  <2>2. w \in Checkers
    BY <1>1, <2>1 DEF FinalInv, OneHand
  <2>3. Waited(run[w].mail)
    BY <1>1, <2>1, <2>2 DEF WaitInv, HandWaits
  <2> DEFINE f == failedAt[run[w].mail.id]
  <2>4. f \in Int /\ now \in Int /\ HalfHour \in Int /\ f + HalfHour <= now
    BY <1>1, <2>1, <2>3, RemindersAssumption DEF TypeOK, OptTime, Waited
  <2> HIDE DEF f
  <2>5. now - f >= HalfHour
    BY <2>4
  <2>6. QED
    BY <2>5 DEF f
<1>2. QED
  BY <1>1, TypeCorrect, RecordAlways, FinalAlways, WaitAlways, PTL

-----------------------------------------------------------------------------
(* A slot is delivered once. *)

\* As long as its item exists, the row of a log in hand does, too.
Present(log) == Exists(log.item) => logs[log.id].status # "absent"

\* Whatever a process knows of an item, the item has been created; and where no
\* merge withdraws rows, a log in hand has its row while its item exists.
AtHome(w) ==
  /\ \A r \in run[w].held : r.id < nextItem
  /\ run[w].slots # {} => run[w].cur < nextItem
  /\ run[w].pc \in {"insert", "deliver", "record"} => run[w].mail.item < nextItem
  /\ \A x \in run[w].queue : x.item < nextItem
  /\ Mergers = {} =>
       /\ \A x \in run[w].queue : Present(x)
       /\ Holding(w) => Present(run[w].mail)

HomeInv ==
  /\ \A l \in LogIds : logs[l].status # "absent" => logs[l].item < nextItem
  /\ \A i \in ItemIds : i >= nextItem => acks[i] = <<>>
  /\ \A w \in Workers : AtHome(w)

\* What every step does to items and rows: an item may be created, and a row
\* goes only with its item or, in a merge, unsent.
Frame ==
  /\ nextItem' = nextItem \/ nextItem' = nextItem + 1
  /\ \A i \in ItemIds : Exists(i)' => Exists(i) \/ (i = nextItem /\ acks' = acks)
  /\ Mergers = {} =>
       \A l \in LogIds :
         logs[l].status # "absent" /\ items'[logs[l].item].status # "absent"
           => logs'[l].status # "absent"

LEMMA StepsFrame ==
  ASSUME TypeOK, RecordInv, FinalInv, Steps
  PROVE  Frame
<1>1. Checkers \subseteq Workers /\ Senders \subseteq Workers
  BY DEF Workers
<1>2. CASE Rests
  BY <1>2 DEF Rests, NoneAppear, TablesRest, Frame
<1>3. CASE Creates
  BY <1>3 DEF Creates, TablesRest, Frame
<1>4. CASE Removes
  <2>1. Mergers = {} => \A c \in Workers : run[c].pc # "unsent"
    BY DEF FinalInv, OneHand
  <2>2. QED
    BY <1>4, <2>1 DEF Removes, NoneAppear, Frame
<1>5. CASE Crashes
  BY <1>5 DEF Crashes, NoneAppear, Frame
<1>6. CASE \/ \E w \in Workers : Walks(w)
           \/ \E w \in Senders : Asks(w)
           \/ \E w \in Checkers :
                Scans(w) \/ Resends(w) \/ Misses(w) \/ Lists(w) \/ TakesDue(w)
  <2>1. TablesRest /\ NoneAppear
    BY <1>6 DEF Walks, Asks, Scans, Resends, Misses, Lists, TakesDue, TakesSlot, Alone
  <2>2. QED
    BY <2>1 DEF TablesRest, NoneAppear, Frame
<1>7. ASSUME NEW w \in Checkers \cup Senders, Inserts(w)
      PROVE  Frame
  BY <1>7 DEF Inserts, NoneAppear, Frame
<1>8. ASSUME NEW w \in Checkers \cup Senders,
             Accepts(w) \/ Refuses(w) \/ Abandons(w) \/ Forgets(w)
      PROVE  Frame
  BY <1>8 DEF Accepts, Refuses, Answered, Abandons, Forgets, NoneAppear, Frame
<1>9. ASSUME NEW w \in Checkers \cup Senders, Records(w)
      PROVE  Frame
  <2>1. w \in Workers /\ run[w].pc = "record"
    BY <1>1, <1>9 DEF Records
  <2>2. run[w].mail.status \in {"sent", "failed"}
    BY <2>1 DEF FinalInv, OneHand
  <2>3. QED
    BY <1>9, <2>2 DEF Records, NoneAppear, Frame
<1>10. QED
  BY <1>2, <1>3, <1>4, <1>5, <1>6, <1>7, <1>8, <1>9 DEF Steps

LEMMA InitHome == Init => HomeInv
<1> SUFFICES ASSUME Init PROVE HomeInv
  OBVIOUS
<1>1. \A l \in LogIds : logs[l].status = "absent"
  BY DEF Init, NoLog, NewLog
<1>2. \A w \in Workers : AtHome(w)
  BY DEF Init, AtHome, Idle, Holding
<1>3. QED
  BY <1>1, <1>2 DEF Init, HomeInv

\* A log in hand keeps its row.
LEMMA StaysPresent ==
  ASSUME TypeOK, Frame, Mergers = {}, NEW x \in LogRow, MatchesRow(x), Present(x),
         x.item < nextItem
  PROVE  items'[x.item].status # "absent" => logs'[x.id].status # "absent"
<1>1. SUFFICES ASSUME items'[x.item].status # "absent"
               PROVE  logs'[x.id].status # "absent"
  OBVIOUS
<1>2. x.item \in ItemIds /\ x.id \in LogIds /\ nextItem \in Nat /\ ItemIds \subseteq Nat
  BY DEF LogRow, MatchesRow, TypeOK, ItemIds
<1>3. x.item # nextItem
  <2> DEFINE a == x.item
  <2>1. a \in Nat /\ a < nextItem /\ nextItem \in Nat
    BY <1>2
  <2> HIDE DEF a
  <2>2. a # nextItem
    BY <2>1
  <2>3. QED
    BY <2>2 DEF a
<1>4. Exists(x.item)
  BY <1>1, <1>2, <1>3 DEF Frame, Exists
<1>5. logs[x.id].status # "absent" /\ logs[x.id].item = x.item
  BY <1>4 DEF Present, MatchesRow
<1>6. QED
  BY <1>1, <1>2, <1>5 DEF Frame

LEMMA Younger ==
  ASSUME TypeOK, Frame, NEW a \in Int, a < nextItem
  PROVE  a < nextItem'
BY DEF TypeOK, Frame

\* A step that leaves a process its rows and logs, or takes some away.
LEMMA StaysHome ==
  ASSUME TypeOK, RecordInv, FinalInv, Frame, NEW v \in Workers, AtHome(v),
         run'[v].held \subseteq run[v].held,
         run'[v].slots \subseteq run[v].slots /\ run'[v].cur = run[v].cur,
         run'[v].queue \subseteq run[v].queue,
         \/ run'[v].pc \notin {"insert", "deliver", "record"}
         \/ run'[v].pc = run[v].pc /\ run'[v].mail = run[v].mail
         \/ /\ Holding(v) /\ run'[v].pc \in {"deliver", "record"}
            /\ run'[v].mail.id = run[v].mail.id
            /\ run'[v].mail.item = run[v].mail.item
  PROVE  AtHome(v)'
<1>1. run[v] \in Process /\ Faithful(v)
  BY DEF TypeOK, RecordInv
<1>2. /\ run[v].held \subseteq ItemRow /\ run[v].queue \subseteq LogRow
      /\ run[v].mail \in LogRow /\ run[v].cur \in Int /\ ItemIds \subseteq Int
  BY <1>1 DEF Process, ItemIds
<1>3. /\ \A r \in run'[v].held : r.id < nextItem'
      /\ run'[v].slots # {} => run'[v].cur < nextItem'
      /\ \A x \in run'[v].queue : x.item < nextItem'
  BY <1>2, Younger DEF AtHome, ItemRow, LogRow
<1>4. run'[v].pc \in {"insert", "deliver", "record"} =>
        run'[v].mail.item < nextItem'
  <2>1. run[v].mail.item \in Int
    BY <1>2 DEF LogRow
  <2>2. run[v].mail.item < nextItem => run[v].mail.item < nextItem'
    BY <2>1, Younger
  <2>3. QED
    BY <2>2 DEF AtHome, Holding
<1>5. ASSUME Mergers = {}
      PROVE  /\ \A x \in run'[v].queue : Present(x)'
             /\ Holding(v)' => Present(run[v].mail)'
  <2>1. \A x \in run[v].queue :
          items'[x.item].status # "absent" => logs'[x.id].status # "absent"
    BY <1>1, <1>2, <1>5, StaysPresent DEF AtHome, Faithful
  <2>2. Holding(v) =>
          (items'[run[v].mail.item].status # "absent"
             => logs'[run[v].mail.id].status # "absent")
    BY <1>1, <1>2, <1>5, StaysPresent DEF AtHome, Faithful, Holding
  <2>3. QED
    BY <2>1, <2>2 DEF Present, Exists, Holding
<1>6. QED
  BY <1>3, <1>4, <1>5 DEF AtHome

\* The items of the table have been created.
LEMMA BornItems ==
  ASSUME TypeOK, QuietInv, NEW i \in ItemIds, Exists(i)
  PROVE  i < nextItem
<1>1. i \in Nat /\ nextItem \in Nat /\ ~(i >= nextItem)
  BY DEF TypeOK, ItemIds, QuietInv, RowsInPlace
<1>2. QED
  BY <1>1

LEMMA RowsHome ==
  ASSUME TypeOK, RecordInv, FinalInv, HomeInv, Steps
  PROVE  \A l \in LogIds : logs'[l].status # "absent" => logs'[l].item < nextItem'
<1>1. Frame /\ \A l \in LogIds : logs[l].item \in Int
  BY StepsFrame DEF TypeOK, LogRow, ItemIds
<1>2. ASSUME \A l \in LogIds :
               \/ logs'[l].status = "absent"
               \/ logs[l].status # "absent" /\ logs'[l].item = logs[l].item
      PROVE  \A l \in LogIds : logs'[l].status # "absent" => logs'[l].item < nextItem'
  BY <1>1, <1>2, Younger DEF HomeInv
<1>3. CASE Rests \/ Creates \/ Removes \/ Crashes
  BY <1>2, <1>3 DEF Rests, Creates, Removes, Crashes, TablesRest
<1>4. CASE \/ \E w \in Workers : Walks(w)
           \/ \E w \in Senders : Asks(w)
           \/ \E w \in Checkers :
                Scans(w) \/ Resends(w) \/ Misses(w) \/ Lists(w) \/ TakesDue(w)
  <2>1. logs' = logs
    BY <1>4 DEF Walks, Asks, Scans, Resends, Misses, Lists, TakesDue, TakesSlot,
                Alone, TablesRest
  <2>2. QED
    BY <1>2, <2>1
<1>5. ASSUME NEW w \in Checkers \cup Senders, Inserts(w)
      PROVE  \A l \in LogIds : logs'[l].status # "absent" => logs'[l].item < nextItem'
  <2>1. w \in Workers /\ run[w].mail \in LogRow
    BY DEF Workers, TypeOK, Process
  <2>2. run[w].mail.item < nextItem /\ run[w].mail.item \in Int
    BY <1>5, <2>1 DEF HomeInv, AtHome, Inserts, LogRow, ItemIds
  <2>3. logs'[nextLog].item = run[w].mail.item
    BY <1>5, <2>1 DEF Inserts, LogRow
  <2>4. \A l \in LogIds : l # nextLog => logs'[l] = logs[l]
    BY <1>5 DEF Inserts
  <2>5. QED
    BY <1>1, <2>2, <2>3, <2>4, Younger DEF HomeInv
<1>6. ASSUME NEW w \in Checkers \cup Senders,
             \/ Accepts(w) \/ Refuses(w) \/ Records(w)
             \/ Abandons(w) \/ Forgets(w)
      PROVE  \A l \in LogIds : logs'[l].status # "absent" => logs'[l].item < nextItem'
  BY <1>2, <1>6 DEF Accepts, Refuses, Answered, Records, Returns, Abandons, Forgets
<1>7. QED
  BY <1>3, <1>4, <1>5, <1>6 DEF Steps

LEMMA AcksHome ==
  ASSUME TypeOK, RecordInv, FinalInv, HomeInv, Steps
  PROVE  \A i \in ItemIds : i >= nextItem' => acks'[i] = <<>>
<1>1. Frame /\ nextItem \in Nat /\ ItemIds \subseteq Nat
  BY StepsFrame DEF TypeOK, ItemIds
<1>2. \A i \in ItemIds : i >= nextItem' => i >= nextItem
  BY <1>1 DEF Frame
<1>3. ASSUME acks' = acks
      PROVE  \A i \in ItemIds : i >= nextItem' => acks'[i] = <<>>
  BY <1>2, <1>3 DEF HomeInv
<1>4. ASSUME NEW w \in Checkers \cup Senders, NEW heard \in BOOLEAN,
             run[w].pc = "deliver", acks' = Acknowledged(w, heard)
      PROVE  \A i \in ItemIds : i >= nextItem' => acks'[i] = <<>>
  <2>1. w \in Workers /\ run[w].mail \in LogRow
    BY DEF Workers, TypeOK, Process
  <2>2. run[w].mail.item < nextItem /\ run[w].mail.item \in Nat
    BY <1>1, <1>4, <2>1 DEF HomeInv, AtHome, LogRow
  <2>3. \A i \in ItemIds : i >= nextItem => i # run[w].mail.item
    BY <1>1, <2>2
  <2>4. \A i \in ItemIds : i # run[w].mail.item => acks'[i] = acks[i]
    BY <1>4 DEF Acknowledged, TypeOK
  <2>5. QED
    BY <1>2, <2>3, <2>4 DEF HomeInv
<1>5. CASE Rests \/ Creates \/ Removes \/ Crashes
  BY <1>3, <1>5 DEF Rests, Creates, Removes, Crashes, TablesRest
<1>6. CASE \/ \E w \in Workers : Walks(w)
           \/ \E w \in Senders : Asks(w)
           \/ \E w \in Checkers :
                Scans(w) \/ Resends(w) \/ Misses(w) \/ Lists(w) \/ TakesDue(w)
  BY <1>3, <1>6 DEF Walks, Asks, Scans, Resends, Misses, Lists, TakesDue, TakesSlot,
                    Alone, TablesRest
<1>7. CASE \E w \in Checkers \cup Senders :
             \/ Inserts(w) \/ Accepts(w) \/ Refuses(w) \/ Records(w)
             \/ Abandons(w) \/ Forgets(w)
  BY <1>3, <1>4, <1>7 DEF Inserts, Accepts, Refuses, Answered, Records, Returns, Abandons, Forgets
<1>8. QED
  BY <1>5, <1>6, <1>7 DEF Steps

\* A log taken out of the table stays as it is while its row does.
LEMMA TakenHome ==
  ASSUME TypeOK, RecordInv, HomeInv, Frame, logs' = logs, NoneAppear,
         NEW l \in LogIds, logs[l].status # "absent"
  PROVE  /\ logs[l].item < nextItem'
         /\ items'[logs[l].item].status # "absent" => logs'[logs[l].id].status # "absent"
<1>1. logs[l].id = l /\ logs[l].item \in Int
  BY DEF RecordInv, TableInPlace, TypeOK, LogRow, ItemIds
<1>2. logs[l].item < nextItem
  BY DEF HomeInv
<1>3. QED
  BY <1>1, <1>2, Younger

LEMMA WalkHome ==
  ASSUME TypeOK, TypeOK', QuietInv, QuietInv', RecordInv, FinalInv, HomeInv, Frame,
         NEW w \in Workers, Walks(w)
  PROVE  AtHome(w)'
<1>1. AtHome(w) /\ OneHand(w) /\ NoneAppear
  BY DEF HomeInv, FinalInv, Walks, Alone
<1>2. run[w] \in Process /\ run'[w] \in Process
  BY DEF TypeOK
<1>3. \A r \in run'[w].held : r.id < nextItem'
  <2>1. \A r \in run'[w].held : r.id \in ItemIds
    BY <1>2 DEF Process, ItemRow
  <2>2. nextItem' = nextItem /\ \A r \in run'[w].held : Exists(r.id)
    BY <1>1 DEF Walks, NoneAppear
  <2>3. QED
    BY <2>1, <2>2, BornItems
<1>4. run'[w].slots # {} => run'[w].cur < nextItem'
  <2>1. run[w].cur \in Int
    BY <1>2 DEF Process, ItemIds
  <2>2. run'[w].slots # {} => run[w].slots # {} /\ run'[w].cur = run[w].cur
    BY DEF Walks
  <2>3. QED
    BY <1>1, <2>1, <2>2, Younger DEF AtHome
<1>5. run'[w].queue = {}
  BY <1>1 DEF Walks, OneHand, Holding
<1>6. run'[w].pc \notin {"insert", "deliver", "record"}
  BY DEF Walks
<1>7. QED
  BY <1>3, <1>4, <1>5, <1>6 DEF AtHome, Holding

LEMMA TakeHome ==
  ASSUME TypeOK, TypeOK', QuietInv, RecordInv, FinalInv, HomeInv, Frame,
         NEW w \in Checkers,
         Scans(w) \/ Resends(w) \/ Misses(w) \/ Lists(w) \/ TakesDue(w)
  PROVE  AtHome(w)'
<1>1. w \in Workers /\ AtHome(w) /\ OneHand(w) /\ Faithful(w) /\ run[w] \in Process
  BY DEF Workers, HomeInv, FinalInv, RecordInv, TypeOK
<1>2. logs' = logs /\ NoneAppear /\ nextItem' = nextItem
  BY DEF Scans, Resends, Misses, Lists, TakesDue, TakesSlot, Alone, TablesRest,
         NoneAppear
<1>3. CASE Scans(w)
  <2>1. \A r \in run'[w].held : r.id < nextItem'
    <3>1. run'[w] \in Process
      BY <1>1 DEF TypeOK
    <3>2. \A r \in run'[w].held : r.id \in ItemIds
      BY <3>1 DEF Process, ItemRow
    <3>3. \A r \in run'[w].held : r \in run[w].held \/ Exists(r.id)
      BY <1>3 DEF Scans
    <3>4. QED
      BY <1>1, <1>2, <3>2, <3>3, BornItems DEF AtHome
  <2>2. run'[w].slots # {} => run'[w].cur < nextItem'
    BY <1>1, <1>2, <1>3 DEF Scans, AtHome
  <2>3. run'[w].pc = "scan" /\ run'[w].queue = {}
    BY <1>1, <1>3 DEF Scans, OneHand, Holding
  <2>4. QED
    BY <2>1, <2>2, <2>3 DEF AtHome, Holding
<1>4. CASE Resends(w) \/ Misses(w)
  <2>1. /\ run'[w].held = run[w].held /\ run'[w].cur = run[w].cur
        /\ run[w].slots # {} /\ run'[w].queue = {}
    BY <1>1, <1>4 DEF Resends, Misses, TakesSlot, OneHand, Holding
  <2>2. CASE Resends(w)
    <3>1. PICK l \in LogIds : logs[l].status # "absent" /\ run'[w].mail = logs[l]
      BY <2>2 DEF Resends
    <3>2. QED
      BY <1>1, <1>2, <2>1, <3>1, TakenHome DEF AtHome, Present, Exists
  <2>3. CASE Misses(w)
    <3>1. run'[w].pc = "insert" /\ run'[w].mail.item = run[w].cur
      BY <2>3 DEF Misses, NewLog
    <3>2. QED
      BY <1>1, <1>2, <2>1, <3>1 DEF AtHome, Holding
  <2>4. QED
    BY <1>4, <2>2, <2>3
<1>5. CASE Lists(w)
  <2>1. \A x \in LogsDue : \E l \in LogIds : logs[l].status # "absent" /\ x = logs[l]
    BY DEF LogsDue, IsDue
  <2>2. \A x \in LogsDue : x.item < nextItem' /\ Present(x)'
    BY <1>2, <2>1, TakenHome DEF Present, Exists
  <2>3. QED
    BY <1>5, <2>2 DEF Lists, AtHome, Holding
<1>6. CASE TakesDue(w)
  <2>1. PICK x \in run[w].queue :
          /\ run'[w].queue = run[w].queue \ {x}
          /\ \/ run'[w].pc = "deliver" /\ run'[w].mail = x
             \/ run'[w].pc = "record" /\ run'[w].mail = Dropped(x)
    BY <1>6 DEF TakesDue
  <2>2. x \in LogRow /\ run[w].queue \subseteq LogRow /\ run[w].held \subseteq ItemRow
    BY <1>1 DEF Process
  <2>3. run'[w].mail.id = x.id /\ run'[w].mail.item = x.item
    BY <2>1, <2>2 DEF Dropped, LogRow
  <2>4. Mergers = {} => \A y \in run[w].queue : Present(y)'
    BY <1>1, <2>2, StaysPresent DEF AtHome, Faithful, Present, Exists
  <2>5. /\ \A r \in run'[w].held : r.id < nextItem'
        /\ run'[w].slots # {} => run'[w].cur < nextItem'
        /\ \A y \in run[w].queue : y.item < nextItem'
    BY <1>1, <1>2, <1>6 DEF TakesDue, AtHome
  <2>6. QED
    BY <2>1, <2>3, <2>4, <2>5 DEF AtHome, Present, Exists
<1>7. QED
  BY <1>3, <1>4, <1>5, <1>6

LEMMA SendHome ==
  ASSUME TypeOK, QuietInv, RecordInv, FinalInv, HomeInv, Frame,
         NEW w \in Checkers \cup Senders,
         \/ w \in Senders /\ Asks(w)
         \/ Inserts(w) \/ Accepts(w) \/ Refuses(w) \/ Records(w)
         \/ Abandons(w) \/ Forgets(w)
  PROVE  AtHome(w)'
<1>1. w \in Workers /\ AtHome(w) /\ OneHand(w) /\ Faithful(w) /\ run[w] \in Process
  BY DEF Workers, HomeInv, FinalInv, RecordInv, TypeOK
<1>2. CASE Asks(w)
  <2>1. PICK i \in ItemIds : Exists(i) /\ run'[w].mail = NewLog(i, now, "manual")
    BY <1>2 DEF Asks
  <2>2. i < nextItem' /\ run'[w].mail.item = i
    BY <1>2, <2>1, BornItems DEF Asks, Alone, NoneAppear, NewLog
  <2>3. QED
    BY <1>2, <2>2 DEF Asks, AtHome, Holding
<1>3. CASE Inserts(w)
  <2>1. /\ run[w].mail.status = "pending" /\ run[w].pc = "insert"
        /\ run'[w].mail = [run[w].mail EXCEPT !.id = nextLog]
        /\ logs'[nextLog] = run'[w].mail /\ nextItem' = nextItem
    BY <1>1, <1>3 DEF Inserts, Faithful, NoneAppear
  <2>2. /\ run'[w].mail.id = nextLog /\ run'[w].mail.status = "pending"
        /\ run'[w].mail.item = run[w].mail.item
    BY <1>1, <2>1 DEF Process, LogRow
  <2>3. run'[w].queue = {}
    BY <1>1, <1>3, <2>1 DEF Inserts, Keeps, OneHand, Holding
  <2>4. QED
    BY <1>1, <1>3, <2>1, <2>2, <2>3 DEF Inserts, Keeps, AtHome, Holding, Present
<1>4. CASE Accepts(w) \/ Refuses(w)
  <2>1. Answered(w)
    BY <1>4 DEF Accepts, Refuses
  <2>2. QED
    BY <1>1, <2>1, StaysHome DEF Answered, Keeps, Holding
<1>5. CASE Records(w) \/ Forgets(w)
  <2>1. CASE run'[w] = Idle
    BY <2>1 DEF Idle, AtHome, Holding
  <2>2. CASE Returns(w)
    BY <1>1, <2>2, StaysHome DEF Returns, Keeps
  <2>3. QED
    BY <1>5, <2>1, <2>2 DEF Records, Forgets
<1>6. CASE Abandons(w)
  BY <1>6 DEF Abandons, Idle, AtHome, Holding
<1>7. QED
  BY <1>2, <1>3, <1>4, <1>5, <1>6

LEMMA NextHome ==
  ASSUME TypeOK, TypeOK', QuietInv, QuietInv', RecordInv, FinalInv, HomeInv, Steps
  PROVE  HomeInv'
<1>1. Frame
  BY StepsFrame
<1>2. ASSUME NEW v \in Workers, run'[v] = run[v] \/ run'[v] = Idle
      PROVE  AtHome(v)'
  <2>1. CASE run'[v] = Idle
    BY <2>1 DEF Idle, AtHome, Holding
  <2>2. CASE run'[v] = run[v]
    BY <1>1, <2>2, StaysHome DEF HomeInv
  <2>3. QED
    BY <1>2, <2>1, <2>2
<1>3. ASSUME NEW w \in Workers, Others(w), AtHome(w)'
      PROVE  \A v \in Workers : AtHome(v)'
  BY <1>2, <1>3 DEF Others
<1>4. Checkers \subseteq Workers /\ Senders \subseteq Workers
  BY DEF Workers
<1>5. \A v \in Workers : AtHome(v)'
  <2>1. CASE Rests \/ Creates \/ Removes \/ Crashes
    BY <1>2, <2>1 DEF Rests, Creates, Removes, Crashes
  <2>2. ASSUME NEW w \in Workers, Walks(w)
        PROVE  \A v \in Workers : AtHome(v)'
    <3>1. Others(w)
      BY <2>2 DEF Walks, Alone
    <3>2. QED
      BY <1>1, <1>3, <2>2, <3>1, WalkHome
  <2>3. ASSUME NEW w \in Checkers,
               Scans(w) \/ Resends(w) \/ Misses(w) \/ Lists(w) \/ TakesDue(w)
        PROVE  \A v \in Workers : AtHome(v)'
    <3>1. Others(w)
      BY <2>3 DEF Scans, Resends, Misses, Lists, TakesDue, TakesSlot, Alone
    <3>2. QED
      BY <1>1, <1>3, <1>4, <2>3, <3>1, TakeHome
  <2>4. ASSUME NEW w \in Senders, Asks(w)
        PROVE  \A v \in Workers : AtHome(v)'
    <3>1. Others(w)
      BY <2>4 DEF Asks, Alone
    <3>2. QED
      BY <1>1, <1>3, <1>4, <2>4, <3>1, SendHome
  <2>5. ASSUME NEW w \in Checkers \cup Senders,
               \/ Inserts(w) \/ Accepts(w) \/ Refuses(w) \/ Records(w)
               \/ Abandons(w) \/ Forgets(w)
        PROVE  \A v \in Workers : AtHome(v)'
    <3>1. Others(w)
      BY <2>5 DEF Inserts, Accepts, Refuses, Answered, Records, Returns, Abandons, Forgets
    <3>2. QED
      BY <1>1, <1>3, <1>4, <2>5, <3>1, SendHome
  <2>6. QED
    BY <2>1, <2>2, <2>3, <2>4, <2>5 DEF Steps
<1>6. QED
  BY <1>5, RowsHome, AcksHome DEF HomeInv

LEMMA HomeAlways ==
  ASSUME OneChecker
  PROVE  Spec => []HomeInv
<1>1. Init => HomeInv
  BY InitHome
<1>2. /\ TypeOK /\ TypeOK' /\ QuietInv /\ QuietInv' /\ RecordInv /\ FinalInv
      /\ HomeInv /\ [Next]_vars
      => HomeInv'
  BY NextSteps, NextHome
<1>3. QED
  BY <1>1, <1>2, TypeCorrect, QuietAlways, RecordAlways, FinalAlways, PTL DEF Spec

\* The deliveries of one slot of an item that the program heard of.
HeardAcks(i, t) ==
  {m \in 1 .. Len(acks[i]) :
     /\ acks[i][m].kind = "reminder" /\ acks[i][m].slot = t
     /\ acks[i][m].heard}

\* The slot's delivery is recorded, or about to be.
OnRecord(i, t) ==
  \/ \E l \in KeyRows(i, t) : logs[l].status = "sent"
  \/ \E c \in Checkers :
       /\ run[c].pc = "record" /\ run[c].mail.status = "sent"
       /\ run[c].mail.kind = "reminder"
       /\ run[c].mail.item = i /\ run[c].mail.slot = t

Allowed(i, t) == interrupts + (IF OnRecord(i, t) THEN 1 ELSE 0)

\* What makes SlotDeliveredOnce inductive: a slot has been delivered and
\* heard of no more often than its record and the interruptions account for.
CountInv == Mergers = {} =>
  \A i \in ItemIds : Exists(i) =>
    \A t \in Int : Cardinality(HeardAcks(i, t)) <= Allowed(i, t)

LEMMA HeardAcksFinite ==
  ASSUME TypeOK, NEW i \in ItemIds, NEW t
  PROVE  IsFiniteSet(HeardAcks(i, t)) /\ Cardinality(HeardAcks(i, t)) \in Nat
<1>1. Len(acks[i]) \in Int
  BY DEF TypeOK
<1>2. IsFiniteSet(1 .. Len(acks[i]))
  BY <1>1, FS_Interval
<1>3. HeardAcks(i, t) \subseteq 1 .. Len(acks[i])
  BY DEF HeardAcks
<1>4. IsFiniteSet(HeardAcks(i, t))
  BY <1>2, <1>3, FS_Subset
<1>5. QED
  BY <1>4, FS_CardinalityType

LEMMA NoHeardAcks ==
  ASSUME NEW i, NEW t, acks'[i] = <<>>
  PROVE  Cardinality(HeardAcks(i, t)') = 0
<1>1. HeardAcks(i, t)' = {}
  BY DEF HeardAcks
<1>2. QED
  BY <1>1, FS_EmptySet

\* A message accepted and heard of adds one to its own slot and nothing to the
\* others.
LEMMA HeardAcksGrow ==
  ASSUME TypeOK, NEW w \in Workers, NEW heard \in BOOLEAN,
         acks' = Acknowledged(w, heard), NEW i \in ItemIds, NEW t
  PROVE  /\ Cardinality(HeardAcks(i, t)') <= Cardinality(HeardAcks(i, t)) + 1
         /\ \/ heard /\ run[w].mail.item = i /\ run[w].mail.kind = "reminder"
               /\ run[w].mail.slot = t
            \/ HeardAcks(i, t)' = HeardAcks(i, t)
<1> DEFINE m == run[w].mail
           d == [slot |-> m.slot, kind |-> m.kind, at |-> run[w].at,
                 back |-> run[w].back, heard |-> heard]
           S == HeardAcks(i, t)
           T == HeardAcks(i, t)'
           n == Len(acks[i])
<1>1. m.item \in ItemIds /\ acks[i] \in Seq(Delivery) /\ n \in Nat
  BY DEF TypeOK, Process, LogRow
<1>2. IsFiniteSet(S) /\ Cardinality(S) \in Nat
  BY HeardAcksFinite
<1>3. CASE i # m.item
  <2>1. acks'[i] = acks[i]
    BY <1>1, <1>3 DEF Acknowledged, TypeOK
  <2>2. T = S
    BY <2>1 DEF HeardAcks
  <2>3. QED
    BY <1>2, <2>2
<1>4. CASE i = m.item
  <2>1. acks'[i] = Append(acks[i], d)
    BY <1>1, <1>4 DEF Acknowledged, TypeOK
  <2>2. /\ Len(acks'[i]) = n + 1 /\ acks'[i][n + 1] = d
        /\ \A k \in 1 .. n : acks'[i][k] = acks[i][k]
    <3> HIDE DEF d
    <3>1. QED
      BY <1>1, <2>1 DEF n
  <2>0. d.heard = heard
    OBVIOUS
  <2>3. n + 1 \notin S /\ S \subseteq 1 .. n
    BY <1>1 DEF HeardAcks
  <2>4. 1 .. n + 1 = (1 .. n) \cup {n + 1}
    BY <1>1
  <2>5. CASE d.kind = "reminder" /\ d.slot = t /\ heard
    <3>1. T = S \cup {n + 1}
      <4> HIDE DEF d, n
      <4>1. QED
        BY <2>0, <2>2, <2>4, <2>5 DEF HeardAcks, n
    <3>2. Cardinality(T) = Cardinality(S) + 1
      BY <1>2, <2>3, <3>1, FS_AddElement
    <3>3. QED
      BY <1>2, <1>4, <2>5, <3>2
  <2>6. CASE ~(d.kind = "reminder" /\ d.slot = t /\ heard)
    <3>1. T = S
      <4> HIDE DEF d, n
      <4>1. QED
        BY <2>0, <2>2, <2>4, <2>6 DEF HeardAcks, n
    <3>2. QED
      BY <1>2, <3>1
  <2>7. QED
    BY <2>5, <2>6
<1>5. QED
  BY <1>3, <1>4

LEMMA AllowedRange ==
  ASSUME TypeOK, NEW i, NEW t
  PROVE  /\ Allowed(i, t) \in Nat
         /\ Allowed(i, t) = interrupts \/ Allowed(i, t) = interrupts + 1
         /\ OnRecord(i, t) => Allowed(i, t) = interrupts + 1
         /\ ~OnRecord(i, t) => Allowed(i, t) = interrupts
BY DEF TypeOK, Allowed

\* An accepted reminder that is not recorded yet is recorded next, unless its
\* item goes or the process is interrupted.
LEMMA RecordingStays ==
  ASSUME OneChecker, TypeOK, RecordInv, FinalInv, HomeInv, Steps, Mergers = {},
         interrupts' = interrupts, NEW c \in Checkers, run[c].pc = "record",
         run[c].mail.status = "sent", run[c].mail.kind = "reminder",
         Exists(run[c].mail.item)
  PROVE  \/ run'[c] = run[c]
         \/ \E l \in LogIds :
              /\ logs'[l].status = "sent" /\ logs'[l].kind = "reminder"
              /\ logs'[l].item = run[c].mail.item
              /\ logs'[l].slot = run[c].mail.slot
              /\ logs'[l].sentAt = run[c].mail.sentAt
<1> DEFINE m == run[c].mail
<1>1. c \in Workers /\ interrupts \in Nat
  BY DEF Workers, TypeOK
<1>2. run'[c] = run[c] \/ Records(c)
  <2>1. CASE Rests \/ Creates \/ Removes
    BY <1>1, <2>1 DEF Rests, Creates, Removes
  <2>2. CASE Crashes
    BY <1>1, <2>2 DEF Crashes
  <2>3. ASSUME NEW w \in Workers,
               \/ Walks(w) \/ Scans(w) \/ Resends(w) \/ Misses(w) \/ Lists(w)
               \/ TakesDue(w) \/ Asks(w) \/ Inserts(w) \/ Accepts(w)
               \/ Refuses(w) \/ Records(w)
        PROVE  run'[c] = run[c] \/ Records(c)
    <3>1. Others(w) /\ (run[w].pc # "record" \/ Records(w))
      BY <2>3 DEF Walks, Scans, Resends, Misses, TakesSlot, Lists, TakesDue, Asks,
                  Alone, Inserts, Accepts, Refuses, Answered, Records
    <3>2. QED
      BY <1>1, <3>1 DEF Others
  <2>4. ASSUME NEW w \in Workers, Abandons(w) \/ Forgets(w)
        PROVE  FALSE
    <3>1. interrupts' = interrupts + 1
      BY <2>4 DEF Abandons, Forgets
    <3>2. QED
      BY <1>1, <3>1
  <2>5. QED
    BY <2>1, <2>2, <2>3, <2>4 DEF Steps, Workers
<1>3. CASE Records(c)
  <2>1. MatchesRow(m) /\ Present(m)
    BY <1>1 DEF RecordInv, Faithful, HomeInv, AtHome, Holding
  <2>2. /\ m.id \in LogIds /\ logs[m.id].status # "absent"
        /\ logs[m.id].item = m.item /\ logs[m.id].slot = m.slot
        /\ logs[m.id].kind = "reminder"
    BY <2>1 DEF MatchesRow, Present
  <2>3. /\ logs'[m.id].status = "sent" /\ logs'[m.id].item = m.item
        /\ logs'[m.id].slot = m.slot /\ logs'[m.id].kind = "reminder"
        /\ logs'[m.id].sentAt = m.sentAt
    BY <1>3, <2>2 DEF Records
  <2>4. QED
    BY <2>2, <2>3
<1>4. QED
  BY <1>2, <1>3

\* While its item exists, and nothing is interrupted, a delivery stays on record.
LEMMA StaysOnRecord ==
  ASSUME OneChecker, TypeOK, RecordInv, FinalInv, HomeInv, Steps, Mergers = {},
         interrupts' = interrupts,
         NEW i \in ItemIds, Exists(i), items'[i].status # "absent", NEW t \in Int,
         OnRecord(i, t)
  PROVE  OnRecord(i, t)'
<1>1. CASE \E l \in KeyRows(i, t) : logs[l].status = "sent"
  <2>1. PICK l \in KeyRows(i, t) : logs[l].status = "sent"
    BY <1>1
  <2>2. l \in LogIds /\ logs[l].kind = "reminder" /\ logs[l].item = i
    BY <2>1 DEF KeyRows
  <2>3. logs'[l] = logs[l]
    BY <2>1, <2>2, SentRowsRest
  <2>4. l \in KeyRows(i, t)' /\ logs'[l].status = "sent"
    BY <2>1, <2>3 DEF KeyRows
  <2>5. QED
    BY <2>4 DEF OnRecord
<1>2. CASE \E c \in Checkers :
             /\ run[c].pc = "record" /\ run[c].mail.status = "sent"
             /\ run[c].mail.kind = "reminder"
             /\ run[c].mail.item = i /\ run[c].mail.slot = t
  <2>1. PICK c \in Checkers :
             /\ run[c].pc = "record" /\ run[c].mail.status = "sent"
             /\ run[c].mail.kind = "reminder"
             /\ run[c].mail.item = i /\ run[c].mail.slot = t
    BY <1>2
  <2>2. CASE run'[c] = run[c]
    BY <2>1, <2>2 DEF OnRecord
  <2>3. CASE \E l \in LogIds :
              /\ logs'[l].status = "sent" /\ logs'[l].kind = "reminder"
              /\ logs'[l].item = i /\ logs'[l].slot = t
    BY <2>3 DEF OnRecord, KeyRows
  <2>4. QED
    BY <2>1, <2>2, <2>3, RecordingStays
<1>3. QED
  BY <1>1, <1>2 DEF OnRecord

\* A reminder about to be sent has not been recorded as sent.
LEMMA OffTheRecord ==
  ASSUME OneChecker, TypeOK, RecordInv, FinalInv, HomeInv, Mergers = {},
         NEW w \in Workers, run[w].pc = "deliver", run[w].mail.kind = "reminder",
         Exists(run[w].mail.item)
  PROVE  w \in Checkers /\ ~OnRecord(run[w].mail.item, run[w].mail.slot)
<1> DEFINE m == run[w].mail
<1>1. MatchesRow(m) /\ Present(m) /\ Unsettled(m) /\ w \in Checkers
  BY DEF RecordInv, Faithful, HomeInv, AtHome, Holding, FinalInv, OneHand
<1>2. m.id \in LogIds /\ logs[m.id].status \notin {"absent", "sent"}
      /\ logs[m.id].item = m.item /\ logs[m.id].slot = m.slot
      /\ logs[m.id].kind = "reminder"
  BY <1>1 DEF MatchesRow, Present, Unsettled
<1>3. KeyRows(m.item, m.slot) = {m.id}
  <2>1. m.id \in KeyRows(m.item, m.slot)
    BY <1>2 DEF KeyRows
  <2>2. QED
    BY <1>2, <2>1 DEF RecordInv, TableInPlace
<1>4. \A c \in Checkers : run[c].pc # "record"
  BY <1>1 DEF OneChecker
<1>5. QED
  BY <1>1, <1>2, <1>3, <1>4 DEF OnRecord

\* A step that adds no delivery that is heard of and interrupts nothing.
LEMMA CountStays ==
  ASSUME OneChecker, TypeOK, RecordInv, FinalInv, HomeInv, CountInv, Steps,
         \A i \in ItemIds : \A t : HeardAcks(i, t)' = HeardAcks(i, t),
         interrupts' = interrupts, interrupts' \in Nat
  PROVE  CountInv'
<1>1. Frame
  BY StepsFrame
<1>2. ASSUME Mergers = {}, NEW i \in ItemIds, items'[i].status # "absent",
             NEW t \in Int
      PROVE  Cardinality(HeardAcks(i, t)') <= Allowed(i, t)'
  <2>1. CASE Exists(i)
    <3>1. HeardAcks(i, t)' = HeardAcks(i, t)
      OBVIOUS
    <3>2. Cardinality(HeardAcks(i, t)) <= Allowed(i, t)
      BY <1>2, <2>1 DEF CountInv
    <3>3. OnRecord(i, t) => OnRecord(i, t)'
      BY <1>2, <2>1, StaysOnRecord
    <3>4. Allowed(i, t)' = Allowed(i, t) \/ Allowed(i, t)' = Allowed(i, t) + 1
      BY <3>3 DEF Allowed, TypeOK
    <3> DEFINE a == Allowed(i, t)
               b == Allowed(i, t)'
               k == Cardinality(HeardAcks(i, t))
    <3>5. a \in Nat /\ k \in Nat
      BY AllowedRange, HeardAcksFinite
    <3>6. k <= a /\ (b = a \/ b = a + 1)
      BY <3>2, <3>4
    <3>7. Cardinality(HeardAcks(i, t)') = k
      BY <3>1
    <3> HIDE DEF a, b, k
    <3>8. k <= b
      BY <3>5, <3>6
    <3>9. QED
      BY <3>7, <3>8 DEF b
  <2>2. CASE ~Exists(i)
    <3>1. i = nextItem /\ acks' = acks
      BY <1>1, <1>2, <2>2 DEF Frame, Exists
    <3>2. acks'[i] = <<>>
      BY <3>1 DEF HomeInv, TypeOK
    <3>3. Cardinality(HeardAcks(i, t)') = 0
      BY <3>2, NoHeardAcks
    <3>4. Allowed(i, t)' >= 0
      BY DEF Allowed
    <3>5. QED
      BY <3>3, <3>4
  <2>3. QED
    BY <2>1, <2>2
<1>3. QED
  BY <1>2 DEF CountInv, Exists

\* A message accepted, whether or not its process lives to record it.
LEMMA CountGrows ==
  ASSUME OneChecker, TypeOK, RecordInv, FinalInv, HomeInv, CountInv, Steps,
         NEW w \in Workers, run[w].pc = "deliver", acks' = Acknowledged(w, TRUE),
         NoneAppear, interrupts' \in Nat,
         \/ interrupts' = interrupts + 1
         \/ /\ interrupts' = interrupts /\ run'[w].pc = "record"
            /\ run'[w].mail.status = "sent" /\ run'[w].mail.kind = run[w].mail.kind
            /\ run'[w].mail.item = run[w].mail.item
            /\ run'[w].mail.slot = run[w].mail.slot
  PROVE  CountInv'
<1>1. SUFFICES ASSUME Mergers = {}, NEW i \in ItemIds, items'[i].status # "absent",
                      NEW t \in Int
               PROVE  Cardinality(HeardAcks(i, t)') <= Allowed(i, t)'
  BY DEF CountInv, Exists
<1>2. Exists(i)
  BY <1>1 DEF NoneAppear, Exists
<1> DEFINE k == Cardinality(HeardAcks(i, t))
           l == Cardinality(HeardAcks(i, t)')
           a == Allowed(i, t)
           b == Allowed(i, t)'
           n == interrupts
           m == interrupts'
<1>3. k \in Nat /\ a \in Nat /\ n \in Nat /\ m \in Nat /\ k <= a
      /\ (a = n \/ a = n + 1)
  BY <1>1, <1>2, HeardAcksFinite, AllowedRange DEF CountInv, TypeOK
<1>4. (b = m \/ b = m + 1) /\ (OnRecord(i, t)' => b = m + 1)
  BY DEF Allowed
<1>5. l <= k + 1 /\ (HeardAcks(i, t)' = HeardAcks(i, t) => l = k)
  BY HeardAcksGrow
<1>6. l \in Nat
  <2>1. HeardAcks(i, t)' = HeardAcks(i, t) \/ run[w].mail.item = i
    BY HeardAcksGrow
  <2>2. IsFiniteSet(HeardAcks(i, t)')
    <3>1. acks'[i] \in Seq(Delivery)
      BY AcksType DEF TypeOK
    <3> DEFINE len == Len(acks'[i])
    <3>2. len \in Int
      BY <3>1
    <3> HIDE DEF len
    <3>3. IsFiniteSet(1 .. len)
      BY <3>2, FS_Interval
    <3>4. HeardAcks(i, t)' \subseteq 1 .. len
      BY DEF HeardAcks, len
    <3>5. QED
      BY <3>3, <3>4, FS_Subset
  <2>3. QED
    BY <2>2, FS_CardinalityType
<1>7. CASE /\ run[w].mail.item = i /\ run[w].mail.kind = "reminder"
           /\ run[w].mail.slot = t
  <2>1. w \in Checkers /\ ~OnRecord(i, t)
    BY <1>1, <1>2, <1>7, OffTheRecord
  <2>2. a = n
    BY <2>1, AllowedRange
  <2>3. m = n + 1 \/ (m = n /\ OnRecord(i, t)')
    BY <1>7, <2>1 DEF OnRecord
  <2>4. l <= n + 1 /\ n + 1 <= b
    <3> HIDE DEF k, l, a, b, n, m
    <3>1. QED
      BY <1>3, <1>4, <1>5, <1>6, <2>2, <2>3 DEF m, n
  <2>5. QED
    <3> HIDE DEF k, l, a, b, n, m
    <3>1. b \in Int
      BY <1>3, <1>4
    <3>2. l <= b
      BY <1>3, <1>6, <2>4, <3>1
    <3>3. QED
      BY <3>2 DEF l, b
<1>8. CASE ~(/\ run[w].mail.item = i /\ run[w].mail.kind = "reminder"
             /\ run[w].mail.slot = t)
  <2>1. l = k
    BY <1>5, <1>8, HeardAcksGrow
  <2>2. m = n + 1 \/ (m = n /\ (OnRecord(i, t) => OnRecord(i, t)'))
    BY <1>1, <1>2, StaysOnRecord
  <2>3. a <= b
    <3>1. a = n + 1 => OnRecord(i, t)
      <4>1. ~OnRecord(i, t) => a = n
        BY AllowedRange
      <4> HIDE DEF a, n
      <4>2. QED
        BY <1>3, <4>1
    <3> HIDE DEF a, b, m, n
    <3>2. QED
      BY <1>3, <1>4, <2>2, <3>1
  <2>4. b \in Int
    BY <1>3, <1>4
  <2> HIDE DEF k, l, a, b, n, m
  <2>5. l <= b
    BY <1>3, <2>1, <2>3, <2>4
  <2>6. QED
    BY <2>5 DEF l, b
<1>9. QED
  BY <1>7, <1>8

\* The process ends before it records anything.
LEMMA CountInterrupted ==
  ASSUME TypeOK, CountInv, acks' = acks, NoneAppear, interrupts' = interrupts + 1
  PROVE  CountInv'
<1>1. SUFFICES ASSUME Mergers = {}, NEW i \in ItemIds, items'[i].status # "absent",
                      NEW t \in Int
               PROVE  Cardinality(HeardAcks(i, t)') <= Allowed(i, t)'
  BY DEF CountInv, Exists
<1> DEFINE k == Cardinality(HeardAcks(i, t))
           a == Allowed(i, t)
           b == Allowed(i, t)'
           n == interrupts
<1>2. Exists(i)
  BY <1>1 DEF NoneAppear, Exists
<1>3. k \in Nat /\ a \in Nat /\ n \in Nat /\ k <= a /\ (a = n \/ a = n + 1)
  BY <1>1, <1>2, HeardAcksFinite, AllowedRange DEF CountInv, TypeOK
<1>4. b = n + 1 \/ b = n + 1 + 1
  BY DEF Allowed
<1>5. Cardinality(HeardAcks(i, t)') = k
  BY DEF HeardAcks
<1> HIDE DEF k, a, b, n
<1>6. k <= b
  BY <1>3, <1>4
<1>7. QED
  BY <1>5, <1>6 DEF b

LEMMA NextCount ==
  ASSUME OneChecker, TypeOK, TypeOK', RecordInv, FinalInv, HomeInv, CountInv, Steps
  PROVE  CountInv'
<1>1. interrupts' \in Nat /\ Checkers \subseteq Workers /\ Senders \subseteq Workers
  BY DEF TypeOK, Workers
<1>2. CASE Crashes
  BY <1>2, CountInterrupted DEF Crashes
<1>3. ASSUME NEW w \in Checkers \cup Senders, Abandons(w) \/ Forgets(w)
      PROVE  CountInv'
  <2>1. CASE acks' = acks
    BY <1>3, <2>1, CountInterrupted DEF Abandons, Forgets
  <2>2. CASE Abandons(w) /\ acks' = Acknowledged(w, TRUE)
    BY <1>1, <2>2, CountGrows DEF Abandons
  <2>3. QED
    BY <1>3, <2>1, <2>2 DEF Abandons, Forgets
<1>4. ASSUME NEW w \in Checkers \cup Senders, Accepts(w)
      PROVE  CountInv'
  BY <1>1, <1>4, CountGrows DEF Accepts, Answered
<1>5. CASE acks' = acks /\ interrupts' = interrupts
  BY <1>1, <1>5, CountStays DEF HeardAcks
<1>6. CASE Rests \/ Creates \/ Removes
  BY <1>5, <1>6 DEF Rests, Creates, Removes, TablesRest
<1>7. ASSUME NEW w \in Workers,
             \/ Walks(w) \/ Scans(w) \/ Resends(w) \/ Misses(w) \/ Lists(w)
             \/ TakesDue(w) \/ Asks(w) \/ Inserts(w) \/ Records(w)
      PROVE  CountInv'
  BY <1>5, <1>7 DEF Walks, Scans, Resends, Misses, TakesSlot, Lists, TakesDue, Asks,
                    Alone, TablesRest, Inserts, Records
<1>8. ASSUME NEW w \in Checkers \cup Senders, Refuses(w)
      PROVE  CountInv'
  <2>1. /\ w \in Workers /\ interrupts' = interrupts
        /\ acks' = acks \/ acks' = Acknowledged(w, FALSE)
    BY <1>1, <1>8 DEF Refuses, Answered
  <2>2. CASE acks' = acks
    BY <1>5, <2>1, <2>2
  <2>3. CASE acks' = Acknowledged(w, FALSE)
    <3>1. \A i \in ItemIds : \A t : HeardAcks(i, t)' = HeardAcks(i, t)
      BY <2>1, <2>3, HeardAcksGrow
    <3>2. QED
      BY <1>1, <2>1, <3>1, CountStays
  <2>4. QED
    BY <2>1, <2>2, <2>3
<1>9. QED
  BY <1>1, <1>2, <1>3, <1>4, <1>6, <1>7, <1>8 DEF Steps

LEMMA CountAlways ==
  ASSUME OneChecker
  PROVE  Spec => []CountInv
<1>1. Init => CountInv
  BY DEF Init, CountInv, Exists, NoItem
<1>2. TypeOK /\ TypeOK' /\ QuietInv /\ RecordInv /\ FinalInv /\ HomeInv /\ CountInv
      /\ [Next]_vars => CountInv'
  BY NextSteps, NextCount
<1>3. QED
  BY <1>1, <1>2, TypeCorrect, QuietAlways, RecordAlways, FinalAlways, HomeAlways, PTL
     DEF Spec

\* The deliveries of a slot are those heard of and the others.
LEMMA HeardOrNot ==
  ASSUME TypeOK, NEW i \in ItemIds, NEW t
  PROVE  /\ Cardinality(Unheard(i, t)) \in Nat
         /\ Cardinality(SlotAcks(i, t))
              = Cardinality(HeardAcks(i, t)) + Cardinality(Unheard(i, t))
<1> DEFINE H == HeardAcks(i, t)
           U == Unheard(i, t)
           len == Len(acks[i])
<1>1. IsFiniteSet(H) /\ Cardinality(H) \in Nat
  BY HeardAcksFinite
<1>2. IsFiniteSet(U) /\ Cardinality(U) \in Nat
  <2>1. len \in Int
    BY DEF TypeOK
  <2> HIDE DEF len
  <2>2. IsFiniteSet(1 .. len)
    BY <2>1, FS_Interval
  <2>3. U \subseteq 1 .. len
    BY DEF Unheard, SlotAcks, len
  <2>4. QED
    BY <2>2, <2>3, FS_Subset, FS_CardinalityType
<1>3. SlotAcks(i, t) = H \cup U /\ H \cap U = {}
  BY DEF HeardAcks, Unheard, SlotAcks
<1> HIDE DEF H, U
<1>4. Cardinality(H \cup U) = Cardinality(H) + Cardinality(U) - Cardinality(H \cap U)
  BY <1>1, <1>2, FS_Union
<1>5. Cardinality(H \cap U) = 0
  BY <1>3, FS_EmptySet
<1>6. QED
  BY <1>1, <1>2, <1>3, <1>4, <1>5 DEF H, U

\* With one task at a time in run_check and no merges, a scheduled slot of an
\* item that exists is delivered once, and once more at most for every answer of
\* SMTP that was lost, every crash or dropped request and every record that
\* could not be written, whatever is edited, deleted, completed or sent by hand
\* meanwhile.
THEOREM DeliveredOnce ==
  ASSUME OneChecker
  PROVE  Spec => []SlotDeliveredOnce
<1>1. TypeOK /\ CountInv => SlotDeliveredOnce
  <2>1. SUFFICES ASSUME TypeOK, CountInv, Mergers = {}, NEW i \in ItemIds, Exists(i),
                        NEW n \in 1 .. Len(acks[i])
                 PROVE  Cardinality(SlotAcks(i, acks[i][n].slot))
                          <= 1 + interrupts + Cardinality(Unheard(i, acks[i][n].slot))
    BY DEF SlotDeliveredOnce
  <2> DEFINE t == acks[i][n].slot
  <2>2. t \in Int
    <3>1. acks[i] \in Seq(Delivery)
      BY <2>1 DEF TypeOK
    <3>2. acks[i][n] \in Delivery
      BY <2>1, <3>1
    <3>3. QED
      BY <3>2 DEF Delivery
  <2> HIDE DEF t
  <2> DEFINE k == Cardinality(HeardAcks(i, t))
             a == Allowed(i, t)
             s == Cardinality(SlotAcks(i, t))
             u == Cardinality(Unheard(i, t))
  <2>3. k \in Nat /\ k <= a /\ interrupts \in Nat
        /\ (a = interrupts \/ a = interrupts + 1)
    BY <2>1, <2>2, HeardAcksFinite, AllowedRange DEF CountInv, TypeOK
  <2>4. u \in Nat /\ s = k + u
    BY <2>1, HeardOrNot
  <2> HIDE DEF k, a, s, u
  <2>5. s <= 1 + interrupts + u
    BY <2>3, <2>4
  <2>6. QED
    BY <2>5 DEF s, u, t
<1>2. QED
  BY <1>1, TypeCorrect, CountAlways, PTL

-----------------------------------------------------------------------------
(* The item scan keeps its distance. *)

\* The slots of an item are being handled.
Scanning(w) ==
  \/ run[w].slots # {}
  \/ run[w].pc = "insert"
  \/ Holding(w) /\ run[w].back = "scan"

\* No reminder of item i was recorded less than half an hour before t.
QuietBefore(i, t) ==
  \A l \in LogIds :
    logs[l].status = "sent" /\ logs[l].kind = "reminder" /\ logs[l].item = i =>
      ~(t - logs[l].sentAt < HalfHour)

\* A scan that goes on has no reminder behind it in the last half hour, and
\* what it sends is a reminder of the item it is at.
GapKept(w) ==
  /\ Scanning(w) /\ ~run[w].recent => QuietBefore(run[w].cur, run[w].at)
  /\ run[w].pc = "insert" => run[w].back = "scan"
  /\ run[w].pc = "insert" \/ (Holding(w) /\ run[w].back = "scan") =>
       /\ ~run[w].recent /\ run[w].mail.item = run[w].cur
       /\ run[w].mail.kind = "reminder"

\* The table knows when the reminder was sent, or is about to.
Remembered(i, a) ==
  \/ \E l \in LogIds :
       /\ logs[l].status = "sent" /\ logs[l].kind = "reminder"
       /\ logs[l].item = i /\ logs[l].sentAt = a
  \/ \E c \in Checkers :
       /\ run[c].pc = "record" /\ run[c].mail.status = "sent"
       /\ run[c].mail.kind = "reminder"
       /\ run[c].mail.item = i /\ run[c].mail.sentAt = a

AllRemembered(i) ==
  \A n \in 1 .. Len(acks[i]) :
    acks[i][n].kind = "reminder" /\ acks[i][n].heard => Remembered(i, acks[i][n].at)

\* The deliveries of item i, in their order, keep the gap from those heard of.
Spaced(i) ==
  \A m, n \in 1 .. Len(acks[i]) :
    /\ m < n /\ acks[i][m].kind = "reminder" /\ acks[i][m].heard
    /\ acks[i][n].back = "scan"
    => acks[i][n].at - acks[i][m].at >= HalfHour

\* What makes ScanKeepsTheGap inductive.
GapInv == Mergers = {} /\ interrupts = 0 =>
  /\ \A w \in Checkers : GapKept(w)
  /\ \A i \in ItemIds : Exists(i) => AllRemembered(i) /\ Spaced(i)

\* Every row that says a reminder was sent said so before.
SentRowsOld ==
  \A l \in LogIds :
    logs'[l].status = "sent" /\ logs'[l].kind = "reminder" => logs'[l] = logs[l]

\* A step that leaves the scan where it is, or at fewer slots.
LEMMA StaysGapKept ==
  ASSUME NEW w \in Checkers, GapKept(w), SentRowsOld,
         run'[w].slots \subseteq run[w].slots,
         run'[w].slots # {} \/ Scanning(w)' =>
           run'[w].cur = run[w].cur /\ run'[w].at = run[w].at
           /\ (run'[w].recent = run[w].recent),
         \/ run'[w].pc # "insert" /\ ~(Holding(w)' /\ run'[w].back = "scan")
         \/ /\ run'[w].back = run[w].back
            /\ run[w].pc = "insert" \/ (Holding(w) /\ run'[w].pc # "insert")
            /\ run'[w].mail.item = run[w].mail.item
            /\ run'[w].mail.kind = run[w].mail.kind
         \/ /\ run'[w].back = "scan" /\ run[w].slots # {} /\ ~run[w].recent
            /\ run'[w].mail.item = run[w].cur /\ run'[w].mail.kind = "reminder"
  PROVE  GapKept(w)'
<1>1. Scanning(w)' => Scanning(w)
  BY DEF Scanning, Holding, GapKept
<1>2. ASSUME NEW i, NEW t, QuietBefore(i, t)
      PROVE  QuietBefore(i, t)'
  BY <1>2 DEF QuietBefore, SentRowsOld
<1>3. Scanning(w)' /\ ~run'[w].recent => QuietBefore(run[w].cur, run[w].at)'
  BY <1>1, <1>2 DEF GapKept
<1>4. /\ run'[w].pc = "insert" => run'[w].back = "scan"
      /\ run'[w].pc = "insert" \/ (Holding(w)' /\ run'[w].back = "scan") =>
           /\ ~run'[w].recent /\ run'[w].mail.item = run'[w].cur
           /\ run'[w].mail.kind = "reminder"
  BY DEF GapKept, Scanning, Holding
<1>5. QED
  BY <1>3, <1>4 DEF GapKept

\* Only a checker's record makes a row say that a reminder was sent.
LEMMA NothingNewSent ==
  ASSUME TypeOK, RecordInv, FinalInv, Mergers = {}, Steps
  PROVE  SentRowsOld \/ \E w \in Checkers : Records(w)
<1>1. Checkers \subseteq Workers /\ Senders \subseteq Workers
  BY DEF Workers
<1>2. CASE Rests \/ Creates \/ Removes \/ Crashes
  BY <1>2 DEF Rests, Creates, Removes, Crashes, TablesRest, SentRowsOld
<1>3. ASSUME NEW w \in Workers,
             \/ Walks(w) \/ Scans(w) \/ Resends(w) \/ Misses(w) \/ Lists(w)
             \/ TakesDue(w) \/ Asks(w) \/ Accepts(w) \/ Refuses(w)
             \/ Abandons(w) \/ Forgets(w)
      PROVE  SentRowsOld
  BY <1>3 DEF Walks, Scans, Resends, Misses, TakesSlot, Lists, TakesDue, Asks,
              Alone, TablesRest, Accepts, Refuses, Answered, Abandons, Forgets,
              SentRowsOld
<1>4. ASSUME NEW w \in Workers, Inserts(w)
      PROVE  SentRowsOld
  <2>1. run[w].mail.status = "pending" /\ run[w].mail \in LogRow
    BY <1>4 DEF Inserts, RecordInv, Faithful, TypeOK, Process
  <2>2. logs'[nextLog].status = "pending"
    BY <1>4, <2>1 DEF Inserts, LogRow
  <2>3. QED
    BY <1>4, <2>2 DEF Inserts, SentRowsOld
<1>5. ASSUME NEW w \in Senders, Records(w), w \notin Checkers
      PROVE  SentRowsOld
  <2>1. run[w].mail.kind = "manual" /\ MatchesRow(run[w].mail)
    BY <1>1, <1>5 DEF Records, FinalInv, OneHand, RecordInv, Faithful
  <2>2. \A l \in LogIds : logs'[l].kind = "reminder" /\ logs'[l].status = "sent" =>
          l # run[w].mail.id
    BY <1>5, <2>1 DEF Records, MatchesRow
  <2>3. QED
    BY <1>5, <2>2 DEF Records, SentRowsOld
<1>6. QED
  BY <1>1, <1>2, <1>3, <1>4, <1>5 DEF Steps

\* The checker at work.
LEMMA OwnGapKept ==
  ASSUME TypeOK, RecordInv, FinalInv, Mergers = {}, NEW w \in Checkers, GapKept(w),
         \/ Walks(w) \/ Scans(w) \/ Resends(w) \/ Misses(w) \/ Lists(w)
         \/ TakesDue(w) \/ Inserts(w) \/ Accepts(w) \/ Refuses(w) \/ Records(w),
         SentRowsOld \/ Records(w)
  PROVE  GapKept(w)'
<1>1. w \in Workers /\ OneHand(w) /\ Faithful(w) /\ run[w] \in Process
  BY DEF Workers, FinalInv, RecordInv, TypeOK
<1>2. CASE Records(w)
  <2>1. CASE run'[w] = Idle
    BY <2>1 DEF Idle, GapKept, Scanning, Holding
  <2>2. CASE Returns(w)
    <3>1. run'[w].pc \notin {"insert", "deliver", "record"}
      BY <2>2 DEF Returns
    <3>2. ASSUME run'[w].slots # {}, ~run'[w].recent
          PROVE  /\ run'[w].cur = run[w].cur /\ run'[w].at = run[w].at
                 /\ \A l \in LogIds :
                      logs'[l].status = "sent" /\ logs'[l].kind = "reminder"
                      /\ logs'[l].item = run[w].cur =>
                        ~(run[w].at - logs'[l].sentAt < HalfHour)
      <4>1. /\ run[w].slots # {} /\ ~run[w].recent /\ run[w].mail.status # "sent"
            /\ run'[w].cur = run[w].cur /\ run'[w].at = run[w].at
        BY <2>2, <3>2 DEF Returns, Keeps
      <4>2. QuietBefore(run[w].cur, run[w].at)
        BY <4>1 DEF GapKept, Scanning
      <4>3. \A l \in LogIds : logs'[l].status = "sent" => logs'[l] = logs[l]
        BY <1>2, <4>1 DEF Records
      <4>4. QED
        BY <4>1, <4>2, <4>3 DEF QuietBefore
    <3>3. QED
      BY <3>1, <3>2 DEF GapKept, Scanning, Holding, QuietBefore
  <2>3. QED
    BY <1>2, <2>1, <2>2 DEF Records
<1>3. CASE SentRowsOld
  <2>1. CASE Walks(w)
    <3>1. run'[w].pc \notin {"insert", "deliver", "record"}
      BY <2>1 DEF Walks
    <3>2. run'[w].slots = {} \/
            /\ run'[w].slots = run[w].slots /\ run'[w].cur = run[w].cur
            /\ run'[w].recent = run[w].recent /\ run'[w].at = run[w].at
      BY <2>1 DEF Walks
    <3>3. QED
      BY <1>3, <3>1, <3>2, StaysGapKept DEF Scanning, Holding
  <2>2. CASE Scans(w)
    <3>1. run'[w].pc = "scan" /\ run'[w].at = run[w].at
      BY <2>2 DEF Scans
    <3>2. CASE /\ run'[w].slots \subseteq run[w].slots /\ run'[w].cur = run[w].cur
               /\ run'[w].recent = run[w].recent
      BY <1>3, <3>1, <3>2, StaysGapKept DEF Holding
    <3>3. CASE run'[w].recent \/ ~RecentlySent(run'[w].cur, run[w].at)
      <4>1. ASSUME ~run'[w].recent, NEW l \in LogIds,
                   logs'[l].status = "sent", logs'[l].kind = "reminder",
                   logs'[l].item = run'[w].cur
            PROVE  ~(run'[w].at - logs'[l].sentAt < HalfHour)
        BY <1>3, <3>1, <3>3, <4>1 DEF SentRowsOld, RecentlySent
      <4>2. QED
        BY <3>1, <4>1 DEF GapKept, QuietBefore, Holding
    <3>4. QED
      BY <2>2, <3>2, <3>3 DEF Scans
  <2>3. CASE Resends(w) \/ Misses(w)
    <3>1. TakesSlot(w) /\ run'[w].pc \in {"deliver", "insert"}
      BY <2>3 DEF Resends, Misses
    <3>2. run'[w].mail.item = run[w].cur /\ run'[w].mail.kind = "reminder"
      <4>1. \A t : /\ NewLog(run[w].cur, t, "reminder").item = run[w].cur
                   /\ NewLog(run[w].cur, t, "reminder").kind = "reminder"
        BY DEF NewLog
      <4>2. CASE Resends(w)
        BY <4>2 DEF Resends
      <4>3. CASE Misses(w)
        BY <4>1, <4>3 DEF Misses
      <4>4. QED
        BY <2>3, <4>2, <4>3
    <3>3. QED
      BY <1>3, <3>1, <3>2, StaysGapKept DEF TakesSlot
  <2>4. CASE Lists(w)
    BY <2>4 DEF Lists, GapKept, Scanning, Holding
  <2>5. CASE TakesDue(w)
    <3>1. /\ run'[w].pc \in {"deliver", "record"} /\ run'[w].back = "due"
          /\ run'[w].slots = run[w].slots /\ run'[w].cur = run[w].cur
          /\ run'[w].at = run[w].at /\ run'[w].recent = run[w].recent
      BY <2>5 DEF TakesDue
    <3>2. QED
      BY <1>3, <3>1, StaysGapKept DEF Holding
  <2>6. CASE Inserts(w)
    <3>1. run'[w].mail.item = run[w].mail.item /\ run'[w].mail.kind = run[w].mail.kind
      BY <1>1, <2>6 DEF Inserts, Process, LogRow
    <3>2. QED
      BY <1>3, <2>6, <3>1, StaysGapKept DEF Inserts, Keeps
  <2>7. CASE Accepts(w) \/ Refuses(w)
    <3>1. Answered(w)
      BY <2>7 DEF Accepts, Refuses
    <3>2. QED
      BY <1>3, <3>1, StaysGapKept DEF Answered, Keeps, Holding
  <2>8. CASE Records(w)
    BY <1>2, <2>8
  <2>9. QED
    BY <2>1, <2>2, <2>3, <2>4, <2>5, <2>6, <2>7, <2>8
<1>4. QED
  BY <1>2, <1>3

\* What the table remembers of a delivery it goes on remembering.
LEMMA StaysRemembered ==
  ASSUME OneChecker, TypeOK, RecordInv, FinalInv, HomeInv, Steps, Mergers = {},
         interrupts' = interrupts,
         NEW i \in ItemIds, Exists(i), items'[i].status # "absent", NEW a,
         Remembered(i, a)
  PROVE  Remembered(i, a)'
<1>1. CASE \E l \in LogIds :
             /\ logs[l].status = "sent" /\ logs[l].kind = "reminder"
             /\ logs[l].item = i /\ logs[l].sentAt = a
  BY <1>1, SentRowsRest DEF Remembered
<1>2. CASE \E c \in Checkers :
             /\ run[c].pc = "record" /\ run[c].mail.status = "sent"
             /\ run[c].mail.kind = "reminder"
             /\ run[c].mail.item = i /\ run[c].mail.sentAt = a
  <2>1. PICK c \in Checkers :
             /\ run[c].pc = "record" /\ run[c].mail.status = "sent"
             /\ run[c].mail.kind = "reminder"
             /\ run[c].mail.item = i /\ run[c].mail.sentAt = a
    BY <1>2
  <2>2. CASE run'[c] = run[c]
    BY <2>1, <2>2 DEF Remembered
  <2>3. CASE \E l \in LogIds :
              /\ logs'[l].status = "sent" /\ logs'[l].kind = "reminder"
              /\ logs'[l].item = i /\ logs'[l].sentAt = a
    BY <2>3 DEF Remembered
  <2>4. QED
    BY <2>1, <2>2, <2>3, RecordingStays
<1>3. QED
  BY <1>1, <1>2 DEF Remembered

\* An item to which this step delivers nothing.
LEMMA SpacedStays ==
  ASSUME OneChecker, TypeOK, RecordInv, FinalInv, HomeInv, GapInv, Steps,
         Mergers = {}, interrupts = 0, interrupts' = interrupts,
         NEW i \in ItemIds, items'[i].status # "absent", acks'[i] = acks[i]
  PROVE  AllRemembered(i)' /\ Spaced(i)'
<1>1. CASE Exists(i)
  <2>1. AllRemembered(i) /\ Spaced(i)
    BY <1>1 DEF GapInv
  <2>2. \A a : Remembered(i, a) => Remembered(i, a)'
    BY <1>1, StaysRemembered
  <2>3. QED
    BY <2>1, <2>2 DEF AllRemembered, Spaced
<1>2. CASE ~Exists(i)
  <2>1. i = nextItem
    BY <1>2, StepsFrame DEF Frame, Exists
  <2>2. acks'[i] = <<>>
    BY <2>1 DEF HomeInv, TypeOK
  <2>3. QED
    BY <2>2 DEF AllRemembered, Spaced
<1>3. QED
  BY <1>1, <1>2

\* A message accepted for item i, heard of or not.
LEMMA SpacedGrows ==
  ASSUME OneChecker, TypeOK, RecordInv, FinalInv, HomeInv, GapInv, Steps,
         Mergers = {}, interrupts = 0, interrupts' = interrupts,
         NEW w \in Workers, NEW heard \in BOOLEAN, Answered(w),
         acks' = Acknowledged(w, heard), heard => Accepts(w),
         NEW i \in ItemIds, i = run[w].mail.item, items'[i].status # "absent"
  PROVE  AllRemembered(i)' /\ Spaced(i)'
<1> DEFINE m == run[w].mail
           d == [slot |-> m.slot, kind |-> m.kind, at |-> run[w].at,
                 back |-> run[w].back, heard |-> heard]
           n == Len(acks[i])
<1>1. /\ acks[i] \in Seq(Delivery) /\ n \in Nat /\ run[w].at \in Int
      /\ run[w].pc = "deliver" /\ OneHand(w)
  BY DEF TypeOK, Process, FinalInv, Answered
<1>2. Exists(i) /\ AllRemembered(i) /\ Spaced(i)
  BY DEF Answered, NoneAppear, Exists, GapInv
<1>3. acks'[i] = Append(acks[i], d)
  BY DEF Acknowledged, TypeOK
<1>4. /\ Len(acks'[i]) = n + 1 /\ acks'[i][n + 1] = d
      /\ \A k \in 1 .. n : acks'[i][k] = acks[i][k]
  <2> HIDE DEF d
  <2>1. QED
    BY <1>1, <1>3 DEF n
<1>5. \A k \in 1 .. Len(acks'[i]) : k \in 1 .. n \/ k = n + 1
  BY <1>1, <1>4
<1>6. \A a : Remembered(i, a) => Remembered(i, a)'
  BY <1>2, StaysRemembered
<1>7. ASSUME m.kind = "reminder", heard, NEW a, a = run[w].at
      PROVE  Remembered(i, a)'
  <2>1. w \in Checkers
    BY <1>1, <1>7 DEF OneHand
  <2>2. /\ run'[w].pc = "record" /\ run'[w].mail.status = "sent"
        /\ run'[w].mail.kind = "reminder" /\ run'[w].mail.item = i
        /\ run'[w].mail.sentAt = run[w].at
    BY <1>7 DEF Accepts, Answered
  <2>3. QED
    BY <1>7, <2>1, <2>2 DEF Remembered
<1>8. AllRemembered(i)'
  <2>1. SUFFICES ASSUME NEW k \in 1 .. Len(acks'[i]), acks'[i][k].kind = "reminder",
                        acks'[i][k].heard
                 PROVE  Remembered(i, acks[i][k].at)'
    BY DEF AllRemembered
  <2>2. CASE k \in 1 .. n
    BY <1>2, <1>4, <1>6, <2>1, <2>2 DEF AllRemembered
  <2>3. CASE k = n + 1
    BY <1>4, <1>7, <2>1, <2>3
  <2>4. QED
    BY <1>5, <2>2, <2>3
<1>9. ASSUME d.back = "scan", NEW k \in 1 .. n, acks[i][k].kind = "reminder",
             acks[i][k].heard
      PROVE  d.at - acks[i][k].at >= HalfHour
  <2> DEFINE a == acks[i][k].at
             b == run[w].at
  <2>1. w \in Checkers
    BY <1>1, <1>9 DEF OneHand
  <2>2. ~run[w].recent /\ run[w].cur = i /\ QuietBefore(i, b)
    BY <1>1, <1>9, <2>1 DEF GapInv, GapKept, Scanning, Holding
  <2>3. Remembered(i, a)
    BY <1>2, <1>9 DEF AllRemembered
  <2>4. \A c \in Checkers : run[c].pc # "record"
    BY <1>1, <2>1 DEF OneChecker
  <2>5. PICK l \in LogIds :
          /\ logs[l].status = "sent" /\ logs[l].kind = "reminder"
          /\ logs[l].item = i /\ logs[l].sentAt = a
    BY <2>3, <2>4 DEF Remembered
  <2>6. ~(b - a < HalfHour)
    BY <2>2, <2>5 DEF QuietBefore
  <2>7. a \in Int /\ b \in Int /\ HalfHour \in Int
    <3>1. acks[i][k] \in Delivery
      BY <1>1, <1>9
    <3>2. QED
      BY <1>1, <3>1, RemindersAssumption DEF Delivery
  <2>8. d.at - acks[i][k].at = b - a
    OBVIOUS
  <2> HIDE DEF a, b, d
  <2>9. b - a >= HalfHour
    BY <2>6, <2>7
  <2>10. QED
    BY <2>8, <2>9
<1>10. Spaced(i)'
  <2>1. SUFFICES ASSUME NEW j \in 1 .. Len(acks'[i]), NEW k \in 1 .. Len(acks'[i]),
                        j < k, acks'[i][j].kind = "reminder", acks'[i][j].heard,
                        acks'[i][k].back = "scan"
                 PROVE  acks'[i][k].at - acks'[i][j].at >= HalfHour
    BY DEF Spaced
  <2>2. j \in 1 .. n
    BY <1>1, <1>4, <2>1
  <2>3. acks'[i][j] = acks[i][j]
    BY <1>4, <2>2
  <2>4. CASE k \in 1 .. n
    <3>1. acks'[i][k] = acks[i][k]
      BY <1>4, <2>4
    <3>2. QED
      BY <1>2, <2>1, <2>2, <2>3, <2>4, <3>1 DEF Spaced
  <2>5. CASE k = n + 1
    <3>1. acks'[i][k] = d
      BY <1>4, <2>5
    <3> HIDE DEF d
    <3>2. QED
      BY <1>9, <2>1, <2>2, <2>3, <3>1
  <2>6. QED
    BY <1>5, <2>4, <2>5
<1>11. QED
  BY <1>8, <1>10

LEMMA NextGap ==
  ASSUME OneChecker, TypeOK, TypeOK', RecordInv, FinalInv, HomeInv, GapInv, Steps
  PROVE  GapInv'
<1>1. Checkers \subseteq Workers /\ Senders \subseteq Workers /\ interrupts \in Nat
  BY DEF Workers, TypeOK
<1>2. SUFFICES ASSUME Mergers = {}, interrupts' = 0
               PROVE  /\ \A v \in Checkers : GapKept(v)'
                      /\ \A i \in ItemIds : items'[i].status # "absent" =>
                           AllRemembered(i)' /\ Spaced(i)'
  BY DEF GapInv, Exists
<1>3. interrupts = 0
      /\ ~Crashes /\ \A w \in Checkers \cup Senders : ~Abandons(w) /\ ~Forgets(w)
  <2>1. interrupts' # interrupts + 1
    BY <1>1, <1>2
  <2>2. ~Crashes /\ \A w \in Checkers \cup Senders : ~Abandons(w) /\ ~Forgets(w)
    BY <2>1 DEF Crashes, Abandons, Forgets
  <2>3. interrupts' = interrupts
    BY <2>2 DEF Steps, Rests, Creates, Removes, Walks, Scans, Resends, Misses,
                TakesSlot, Lists, TakesDue, Asks, Alone, TablesRest, Inserts,
                Accepts, Refuses, Answered, Records
  <2>4. QED
    BY <1>2, <2>2, <2>3
<1>4. \A v \in Checkers : GapKept(v)
  BY <1>2, <1>3 DEF GapInv
<1>5. ASSUME NEW v \in Checkers, run'[v] = run[v], SentRowsOld
      PROVE  GapKept(v)'
  BY <1>4, <1>5, StaysGapKept DEF Holding
<1>6. ASSUME NEW w \in Workers, Others(w),
             \/ Walks(w) \/ Scans(w) \/ Resends(w) \/ Misses(w) \/ Lists(w)
             \/ TakesDue(w) \/ Inserts(w) \/ Accepts(w) \/ Refuses(w)
             \/ Records(w) \/ (w \in Senders /\ Asks(w)),
             SentRowsOld \/ (w \in Checkers /\ Records(w)),
             NEW v \in Checkers
      PROVE  GapKept(v)'
  <2>1. CASE w = v
    BY <1>2, <1>4, <1>6, <2>1, OwnGapKept, RemindersAssumption
  <2>2. CASE w # v
    <3>1. run'[v] = run[v] /\ w \notin Checkers
      BY <1>1, <1>6, <2>2 DEF Others, OneChecker
    <3>2. QED
      BY <1>5, <1>6, <3>1
  <2>3. QED
    BY <2>1, <2>2
<1>7. ASSUME NEW v \in Checkers
      PROVE  GapKept(v)'
  <2>1. CASE Rests \/ Creates \/ Removes
    <3>1. run'[v] = run[v]
      BY <1>1, <1>2, <2>1 DEF Rests, Creates, Removes, FinalInv, OneHand
    <3>2. SentRowsOld
      BY <2>1 DEF Rests, Creates, Removes, TablesRest, SentRowsOld
    <3>3. QED
      BY <1>5, <3>1, <3>2
  <2>2. CASE \E w \in Checkers : Records(w)
    <3>1. PICK w \in Checkers : Records(w)
      BY <2>2
    <3>2. Others(w) /\ run[w].pc = "record" /\ w \in Workers
      BY <1>1, <3>1 DEF Records
    <3>3. QED
      BY <1>6, <3>1, <3>2
  <2>3. ASSUME SentRowsOld, NEW w \in Workers,
               \/ Walks(w)
               \/ w \in Checkers /\ (Scans(w) \/ Resends(w) \/ Misses(w)
                                     \/ Lists(w) \/ TakesDue(w))
               \/ w \in Senders /\ Asks(w)
               \/ Inserts(w) \/ Accepts(w) \/ Refuses(w) \/ Records(w)
        PROVE  GapKept(v)'
    <3>1. Others(w)
      BY <2>3 DEF Walks, Scans, Resends, Misses, TakesSlot, Lists, TakesDue, Asks,
                  Alone, Inserts, Accepts, Refuses, Answered, Records
    <3>2. QED
      BY <1>6, <2>3, <3>1
  <2>4. SentRowsOld \/ \E w \in Checkers : Records(w)
    BY <1>2, NothingNewSent
  <2>5. QED
    BY <1>1, <1>3, <2>1, <2>2, <2>3, <2>4 DEF Steps
<1>8. ASSUME NEW i \in ItemIds, items'[i].status # "absent"
      PROVE  AllRemembered(i)' /\ Spaced(i)'
  <2>1. CASE acks'[i] = acks[i]
    BY <1>2, <1>3, <1>8, <2>1, SpacedStays
  <2>2. ASSUME NEW w \in Workers, NEW heard \in BOOLEAN, Answered(w),
               acks' = Acknowledged(w, heard), heard => Accepts(w)
        PROVE  AllRemembered(i)' /\ Spaced(i)'
    <3>1. CASE i = run[w].mail.item
      BY <1>2, <1>3, <1>8, <2>2, <3>1, SpacedGrows
    <3>2. CASE i # run[w].mail.item
      <4>1. acks'[i] = acks[i]
        BY <2>2, <3>2 DEF Acknowledged, TypeOK
      <4>2. QED
        BY <2>1, <4>1
    <3>3. QED
      BY <3>1, <3>2
  <2>3. acks' = acks \/ \E w \in Workers : Accepts(w) \/ Refuses(w)
    BY <1>1, <1>3 DEF Steps, Rests, Creates, Removes, Walks, Scans, Resends, Misses,
                TakesSlot, Lists, TakesDue, Asks, Alone, TablesRest, Inserts,
                Records
  <2>4. CASE \E w \in Workers : Accepts(w)
    BY <2>2, <2>4 DEF Accepts
  <2>5. CASE \E w \in Workers : Refuses(w)
    BY <2>1, <2>2, <2>5 DEF Refuses
  <2>6. QED
    BY <2>1, <2>3, <2>4, <2>5
<1>9. QED
  BY <1>7, <1>8

LEMMA GapAlways ==
  ASSUME OneChecker
  PROVE  Spec => []GapInv
<1>1. Init => GapInv
  <2>1. SUFFICES ASSUME Init PROVE GapInv
    OBVIOUS
  <2>2. \A i \in ItemIds : ~Exists(i)
    BY <2>1 DEF Init, Exists, NoItem
  <2>3. \A w \in Checkers : run[w].pc = "idle" /\ run[w].slots = {}
    BY <2>1 DEF Init, Idle, Workers
  <2>4. \A w \in Checkers : GapKept(w)
    BY <2>3 DEF GapKept, Scanning, Holding
  <2>5. QED
    BY <2>2, <2>4 DEF GapInv
<1>2. TypeOK /\ TypeOK' /\ QuietInv /\ RecordInv /\ FinalInv /\ HomeInv /\ GapInv
      /\ [Next]_vars => GapInv'
  BY NextSteps, NextGap
<1>3. QED
  BY <1>1, <1>2, TypeCorrect, QuietAlways, RecordAlways, FinalAlways, HomeAlways, PTL
     DEF Spec

\* With one task at a time in run_check, no merges, no interruption and no record
\* that failed, what the item scan sends comes half an hour or more after every
\* scheduled reminder of that item that was accepted before it and whose answer
\* arrived, by whichever half of the check, and however the item is edited,
\* completed, reactivated or reminded by hand.
THEOREM ScanKeepsItsDistance ==
  ASSUME OneChecker
  PROVE  Spec => []ScanKeepsTheGap
<1>1. GapInv => ScanKeepsTheGap
  BY DEF GapInv, Spaced, ScanKeepsTheGap
<1>2. QED
  BY <1>1, GapAlways, PTL
=============================================================================
