-------------------------- MODULE RemindersProofs --------------------------
(***************************************************************************)
(* Theorems about Reminders, for any number of checkers, requests, items,   *)
(* logs and interrupts: types, items at rest, and what is recorded.         *)
(***************************************************************************)
EXTENDS Reminders, TLAPS

-----------------------------------------------------------------------------
(* Type correctness *)

LEMMA OneIsAnItem == 1 \in ItemIds
BY RemindersAssumption DEF ItemIds

LEMMA NewLogType ==
  ASSUME NEW i \in ItemIds, NEW t \in Int, NEW k \in {"reminder", "manual"}
  PROVE  NewLog(i, t, k) \in LogRow
BY DEF NewLog, LogRow, OptTime

LEMMA NoLogType ==
  ASSUME NEW l \in LogIds
  PROVE  NoLog(l) \in LogRow
<1>1. NewLog(1, 0, "reminder") \in LogRow
  BY OneIsAnItem, NewLogType
<1>2. l \in Nat
  BY RemindersAssumption DEF LogIds
<1>3. QED
  BY <1>1, <1>2 DEF NoLog, LogRow

LEMMA NoItemType == \A i \in ItemIds : NoItem(i) \in ItemRow
BY DEF NoItem, ItemRow, OptTime, Policies

LEMMA IdleType == Idle \in Process
BY OneIsAnItem, NewLogType DEF Idle, Process

LEMMA GoType ==
  ASSUME NEW w \in Workers, NEW p \in Process,
         run \in [Workers -> Process], Go(w, p)
  PROVE  run' \in [Workers -> Process]
BY DEF Go

\* ReminderTimes yields integers.
LEMMA ReminderTimesType ==
  ASSUME NEW r \in ItemRow
  PROVE  ReminderTimes(r) \subseteq Int
<1>1. CASE r.deadline = None
  BY <1>1 DEF ReminderTimes
<1>2. CASE r.deadline # None
  <2>1. r.deadline \in Int /\ r.created \in Int
    BY <1>2 DEF ItemRow, OptTime
  <2>2. ComputeHoursBefore(r.deadline) \in Int
    BY <2>1, PlanAssumption DEF ComputeHoursBefore
  <2>3. ComputeRemindAt(r.deadline) \in Int
    <3>1. r.deadline \div Day \in Int
      BY <2>1, PlanAssumption
    <3>2. QED
      BY <3>1, PlanAssumption DEF ComputeRemindAt
  <2>4. QED
    BY <1>2, <2>1, <2>2, <2>3 DEF ReminderTimes
<1>3. QED
  BY <1>1, <1>2

LEMMA PolicyType ==
  ASSUME NEW d, NEW b, NEW t
  PROVE  DecideRemindPolicy(d, b, t) \in Policies
BY DEF DecideRemindPolicy, Policies

LEMMA InitType == Init => TypeOK
<1> SUFFICES ASSUME Init PROVE TypeOK
  OBVIOUS
<1>1. items \in [ItemIds -> ItemRow]
  BY NoItemType DEF Init
<1>2. logs \in [LogIds -> LogRow]
  BY NoLogType DEF Init
<1>3. run \in [Workers -> Process]
  BY IdleType DEF Init
<1>4. acks \in [ItemIds -> Seq(Delivery)]
  BY DEF Init
<1>5. QED
  BY <1>1, <1>2, <1>3, <1>4 DEF Init, TypeOK, OptTime

\* The steps of run_check before anything is sent.
LEMMA CheckType ==
  ASSUME TypeOK, NEW w \in Workers,
         \/ CheckBegin(w) \/ CheckExpire(w) \/ CheckSnapshot(w) \/ OpenItem(w)
         \/ SkipSlot(w) \/ ResendSlot(w) \/ MissingSlot(w)
  PROVE  TypeOK'
<1> USE DEF TypeOK, db, history
<1>1. run[w] \in Process
  OBVIOUS
<1>2. ActiveRows \subseteq ItemRow
  BY DEF ActiveRows
<1>3. CASE CheckBegin(w)
  <2>1. [Idle EXCEPT !.pc = "expire", !.at = now,
                     !.held = {r \in ActiveRows : Overdue(r, now)}] \in Process
    BY <1>2, IdleType DEF Process
  <2>2. run' \in [Workers -> Process]
    BY <1>3, <2>1, GoType DEF CheckBegin
  <2>3. QED
    BY <1>3, <2>2 DEF CheckBegin
<1>4. CASE CheckExpire(w)
  <2>1. [run[w] EXCEPT !.pc = "snapshot", !.held = {}] \in Process
    BY <1>1 DEF Process
  <2>2. run' \in [Workers -> Process]
    BY <1>4, <2>1, GoType DEF CheckExpire
  <2>3. items' \in [ItemIds -> ItemRow]
    BY <1>4 DEF CheckExpire, ItemRow, Resting
  <2>4. QED
    BY <1>4, <2>2, <2>3 DEF CheckExpire
<1>5. CASE CheckSnapshot(w)
  <2>1. [run[w] EXCEPT !.pc = "scan",
           !.held = {r \in ActiveRows : /\ r.deadline # None
                                        /\ ~Overdue(r, run[w].at)}] \in Process
    BY <1>1, <1>2 DEF Process
  <2>2. run' \in [Workers -> Process]
    BY <1>5, <2>1, GoType DEF CheckSnapshot
  <2>3. QED
    BY <1>5, <2>2 DEF CheckSnapshot
<1>6. CASE OpenItem(w)
  <2>1. PICK r \in run[w].held :
          Go(w, [run[w] EXCEPT
                   !.held = @ \ {r}, !.cur = r.id,
                   !.slots = DueSlots(r, run[w].at),
                   !.recent = RecentlySent(r.id, run[w].at)])
    BY <1>6 DEF OpenItem
  <2>2. r \in ItemRow /\ r.id \in ItemIds
    BY <1>1 DEF Process, ItemRow
  <2>3. RecentlySent(r.id, run[w].at) \in BOOLEAN
    BY DEF RecentlySent
  <2>4. DueSlots(r, run[w].at) \subseteq Int
    BY <2>2, ReminderTimesType DEF DueSlots
  <2>5. [run[w] EXCEPT
           !.held = @ \ {r}, !.cur = r.id,
           !.slots = DueSlots(r, run[w].at),
           !.recent = RecentlySent(r.id, run[w].at)] \in Process
    BY <1>1, <2>2, <2>3, <2>4 DEF Process
  <2>6. run' \in [Workers -> Process]
    BY <2>1, <2>5, GoType
  <2>7. QED
    BY <1>6, <2>6 DEF OpenItem
<1>7. CASE SkipSlot(w)
  <2>1. PICK t \in run[w].slots : Go(w, [run[w] EXCEPT !.slots = @ \ {t}])
    BY <1>7 DEF SkipSlot
  <2>2. [run[w] EXCEPT !.slots = @ \ {t}] \in Process
    BY <1>1 DEF Process
  <2>3. run' \in [Workers -> Process]
    BY <2>1, <2>2, GoType
  <2>4. QED
    BY <1>7, <2>3 DEF SkipSlot
<1>8. CASE ResendSlot(w)
  <2>1. PICK t \in run[w].slots, l \in LogIds :
          Go(w, [run[w] EXCEPT !.pc = "deliver", !.slots = @ \ {t},
                               !.mail = logs[l], !.back = "scan"])
    BY <1>8 DEF ResendSlot, KeyRows
  <2>2. [run[w] EXCEPT !.pc = "deliver", !.slots = @ \ {t},
                       !.mail = logs[l], !.back = "scan"] \in Process
    BY <1>1 DEF Process
  <2>3. run' \in [Workers -> Process]
    BY <2>1, <2>2, GoType
  <2>4. QED
    BY <1>8, <2>3 DEF ResendSlot
<1>9. CASE MissingSlot(w)
  <2>1. PICK t \in run[w].slots :
          Go(w, [run[w] EXCEPT !.pc = "insert", !.slots = @ \ {t},
                               !.mail = NewLog(run[w].cur, t, "reminder"),
                               !.back = "scan"])
    BY <1>9 DEF MissingSlot
  <2>2. NewLog(run[w].cur, t, "reminder") \in LogRow
    BY <1>1, NewLogType DEF Process
  <2>3. [run[w] EXCEPT !.pc = "insert", !.slots = @ \ {t},
                       !.mail = NewLog(run[w].cur, t, "reminder"),
                       !.back = "scan"] \in Process
    BY <1>1, <2>2 DEF Process
  <2>4. run' \in [Workers -> Process]
    BY <2>1, <2>3, GoType
  <2>5. QED
    BY <1>9, <2>4 DEF MissingSlot
<1>10. QED
  BY <1>3, <1>4, <1>5, <1>6, <1>7, <1>8, <1>9

\* The second phase of run_check.
LEMMA DueType ==
  ASSUME TypeOK, NEW w \in Workers,
         ListDue(w) \/ CancelDue(w) \/ SendDue(w) \/ CheckEnd(w)
  PROVE  TypeOK'
<1> USE DEF TypeOK, db, history
<1>1. run[w] \in Process
  OBVIOUS
<1>2. CASE ListDue(w)
  <2>1. LogsDue \subseteq LogRow
    BY DEF LogsDue
  <2>2. [Idle EXCEPT !.pc = "due", !.at = run[w].at, !.queue = LogsDue]
          \in Process
    BY <1>1, <2>1, IdleType DEF Process
  <2>3. run' \in [Workers -> Process]
    BY <1>2, <2>2, GoType DEF ListDue
  <2>4. QED
    BY <1>2, <2>3 DEF ListDue
<1>3. CASE CancelDue(w)
  <2>1. PICK log \in run[w].queue :
          Go(w, [run[w] EXCEPT !.pc = "record", !.queue = @ \ {log},
                               !.mail = Dropped(log),
                               !.back = "due"])
    BY <1>3 DEF CancelDue
  <2>2. Dropped(log) \in LogRow
    <3>1. log \in LogRow
      BY <1>1, <2>1 DEF Process
    <3>2. QED
      BY <3>1 DEF LogRow, Dropped
  <2>3. [run[w] EXCEPT !.pc = "record", !.queue = @ \ {log},
                       !.mail = Dropped(log),
                       !.back = "due"] \in Process
    BY <1>1, <2>2 DEF Process
  <2>4. run' \in [Workers -> Process]
    BY <2>1, <2>3, GoType
  <2>5. QED
    BY <1>3, <2>4 DEF CancelDue
<1>4. CASE SendDue(w)
  <2>1. PICK log \in run[w].queue :
          Go(w, [run[w] EXCEPT !.pc = "deliver", !.queue = @ \ {log},
                               !.mail = log, !.back = "due"])
    BY <1>4 DEF SendDue
  <2>2. [run[w] EXCEPT !.pc = "deliver", !.queue = @ \ {log},
                       !.mail = log, !.back = "due"] \in Process
    BY <1>1 DEF Process
  <2>3. run' \in [Workers -> Process]
    BY <2>1, <2>2, GoType
  <2>4. QED
    BY <1>4, <2>3 DEF SendDue
<1>5. CASE CheckEnd(w)
  <2>1. run' \in [Workers -> Process]
    BY <1>5, IdleType, GoType DEF CheckEnd, End
  <2>2. quiet' \in [Workers -> SUBSET ItemIds]
    BY <1>5 DEF CheckEnd, End
  <2>3. QED
    BY <1>5, <2>1, <2>2 DEF CheckEnd
<1>6. QED
  BY <1>2, <1>3, <1>4, <1>5

LEMMA AcksType ==
  ASSUME TypeOK, NEW w \in Workers, NEW heard \in BOOLEAN
  PROVE  Acknowledged(w, heard) \in [ItemIds -> Seq(Delivery)]
<1> DEFINE m == run[w].mail
           d == [slot |-> m.slot, kind |-> m.kind, at |-> run[w].at,
                 back |-> run[w].back, heard |-> heard]
<1>1. run[w] \in Process /\ m \in LogRow
  BY DEF TypeOK, Process
<1>2. m.item \in ItemIds /\ d \in Delivery
  BY <1>1 DEF LogRow, Process, Delivery
<1>3. Append(acks[m.item], d) \in Seq(Delivery)
  BY <1>2 DEF TypeOK
<1>4. QED
  BY <1>2, <1>3 DEF TypeOK, Acknowledged

\* A log is done with: the request ends or the run goes on.
LEMMA OnwardMoves ==
  ASSUME TypeOK, NEW w \in Workers, Onward(w)
  PROVE  \/ run[w].back = "idle" /\ End(w)
         \/ \E p \in Process :
              /\ Go(w, p) /\ UNCHANGED quiet
              /\ run[w].back \in {"scan", "due"} /\ p.pc = run[w].back
              /\ p.back = run[w].back /\ p.at = run[w].at /\ p.held = run[w].held
              /\ p.slots = run[w].slots /\ p.cur = run[w].cur
              /\ p.queue = run[w].queue
              /\ p.recent = (run[w].recent \/ run[w].mail.status = "sent")
<1>1. run[w] \in Process /\ Idle \in Process
  BY IdleType DEF TypeOK
<1>2. CASE run[w].back = "idle"
  BY <1>2 DEF Onward
<1>3. CASE run[w].back # "idle"
  <2> DEFINE p == [run[w] EXCEPT !.pc = run[w].back, !.mail = Idle.mail,
                     !.recent = @ \/ run[w].mail.status = "sent"]
  <2>1. Go(w, p) /\ UNCHANGED quiet
    BY <1>3 DEF Onward
  <2>2. (run[w].recent \/ run[w].mail.status = "sent") \in BOOLEAN
    OBVIOUS
  <2>3. Idle.mail \in LogRow
    BY <1>1 DEF Process
  <2>4. p \in Process /\ run[w].back \in {"scan", "due"}
    BY <1>1, <1>3, <2>2, <2>3 DEF Process
  <2>5. /\ p.pc = run[w].back /\ p.back = run[w].back /\ p.at = run[w].at
        /\ p.held = run[w].held /\ p.slots = run[w].slots
        /\ p.cur = run[w].cur /\ p.queue = run[w].queue
        /\ p.recent = (run[w].recent \/ run[w].mail.status = "sent")
    BY <1>1 DEF Process
  <2> HIDE DEF p
  <2>6. QED
    BY <2>1, <2>4, <2>5
<1>4. QED
  BY <1>2, <1>3

LEMMA OnwardGoes ==
  ASSUME TypeOK, NEW w \in Workers, Onward(w) \/ End(w)
  PROVE  \E p : /\ Go(w, p) /\ p.pc \in {"idle", "scan", "due"}
                /\ p.queue = {} \/ p.queue = run[w].queue
<1>1. Idle.pc = "idle" /\ Idle.queue = {}
  BY DEF Idle
<1>2. CASE End(w)
  BY <1>1, <1>2 DEF End
<1>3. CASE \E p \in Process :
             /\ Go(w, p) /\ p.pc \in {"scan", "due"} /\ p.queue = run[w].queue
  BY <1>3
<1>4. QED
  BY <1>2, <1>3, OnwardMoves

LEMMA OnwardType ==
  ASSUME TypeOK, NEW w \in Workers, Onward(w) \/ End(w)
  PROVE  run' \in [Workers -> Process] /\ quiet' \in [Workers -> SUBSET ItemIds]
<1>1. CASE End(w)
  BY <1>1, IdleType, GoType DEF End, TypeOK
<1>2. ASSUME NEW p \in Process, Go(w, p), UNCHANGED quiet
      PROVE  run' \in [Workers -> Process] /\ quiet' \in [Workers -> SUBSET ItemIds]
  BY <1>2, GoType DEF TypeOK
<1>3. QED
  BY <1>1, <1>2, OnwardMoves

\* insert_send_log and send_log.
LEMMA SendingType ==
  ASSUME TypeOK, NEW w \in Workers, Sending(w)
  PROVE  TypeOK'
<1> USE DEF TypeOK, db, history
<1>1. run[w] \in Process /\ run[w].mail \in LogRow /\ run[w].at \in Int
  BY DEF Process
<1>3. CASE InsertLog(w)
  <2>1. [run[w].mail EXCEPT !.id = nextLog] \in LogRow
    BY <1>1 DEF LogRow
  <2>2. [run[w] EXCEPT !.pc = "deliver", !.mail.id = nextLog] \in Process
    BY <1>1, <2>1 DEF Process
  <2>3. run' \in [Workers -> Process]
    BY <1>3, <2>2, GoType DEF InsertLog, InsertedId
  <2>4. logs' \in [LogIds -> LogRow]
    BY <1>3, <2>1 DEF InsertLog
  <2>5. QED
    BY <1>3, <2>3, <2>4 DEF InsertLog
<1>4. CASE InsertIgnored(w)
  <2>1. [run[w].mail EXCEPT !.id = lastRowid] \in LogRow
    BY <1>1 DEF LogRow
  <2>2. [run[w] EXCEPT !.pc = "deliver", !.mail.id = lastRowid] \in Process
    BY <1>1, <2>1 DEF Process
  <2>3. run' \in [Workers -> Process]
    BY <1>4, <2>2, GoType DEF InsertIgnored
  <2>4. QED
    BY <1>4, <2>3 DEF InsertIgnored
<1>5. CASE DeliverOk(w)
  <2> DEFINE m == run[w].mail
  <2>1. [m EXCEPT !.status = "sent", !.sentAt = run[w].at, !.retryAt = None]
          \in LogRow
    BY <1>1 DEF LogRow, OptTime
  <2>2. [run[w] EXCEPT !.pc = "record",
           !.mail = [m EXCEPT !.status = "sent", !.sentAt = run[w].at,
                              !.retryAt = None]] \in Process
    BY <1>1, <2>1 DEF Process
  <2>3. run' \in [Workers -> Process]
    BY <1>5, <2>2, GoType DEF DeliverOk
  <2>4. acks' \in [ItemIds -> Seq(Delivery)]
    BY <1>5, AcksType DEF DeliverOk
  <2>5. QED
    BY <1>5, <2>3, <2>4 DEF DeliverOk
<1>6. CASE DeliverFail(w)
  <2> DEFINE m == run[w].mail
  <2>1. run[w].at + HalfHour \in Int
    BY <1>1, RemindersAssumption
  <2>2. [m EXCEPT !.status = "failed", !.retryAt = run[w].at + HalfHour]
          \in LogRow
    BY <1>1, <2>1 DEF LogRow, OptTime
  <2>3. [run[w] EXCEPT !.pc = "record",
           !.mail = [m EXCEPT !.status = "failed",
                              !.retryAt = run[w].at + HalfHour]] \in Process
    BY <1>1, <2>2 DEF Process
  <2>4. run' \in [Workers -> Process]
    BY <1>6, <2>3, GoType DEF DeliverFail
  <2>5. failedAt' \in [LogIds -> OptTime]
    BY <1>1, <1>6 DEF DeliverFail, OptTime
  <2>6. acks' \in [ItemIds -> Seq(Delivery)]
    BY <1>6, AcksType DEF DeliverFail
  <2>7. QED
    BY <1>6, <2>4, <2>5, <2>6 DEF DeliverFail
<1>7. CASE Record(w)
  <2> DEFINE m == run[w].mail
  <2>1. logs' \in [LogIds -> LogRow]
    <3>1. \A l \in LogIds :
            [logs[l] EXCEPT !.status = m.status, !.sentAt = m.sentAt,
                            !.retryAt = m.retryAt] \in LogRow
      BY <1>1 DEF LogRow
    <3>2. QED
      BY <1>7, <3>1 DEF Record
  <2>2. run' \in [Workers -> Process] /\ quiet' \in [Workers -> SUBSET ItemIds]
    BY <1>7, OnwardType DEF Record
  <2>3. QED
    BY <1>7, <2>1, <2>2 DEF Record
<1>8. QED
  BY <1>3, <1>4, <1>5, <1>6, <1>7 DEF Sending

\* The steps of a merge.
LEMMA MergeType ==
  ASSUME TypeOK, NEW c \in Editors,
         \/ \E i \in ItemIds : \E d \in Deadlines \cup {None} : \E link \in BOOLEAN :
              MergeRead(c, i, d, link)
         \/ MergeWrite(c) \/ DropUnsent(c)
  PROVE  TypeOK'
<1> USE DEF TypeOK, db, history
<1> c \in Workers
  BY DEF Workers
<1>1. ASSUME NEW i \in ItemIds, NEW d \in Deadlines \cup {None}, NEW link \in BOOLEAN,
             MergeRead(c, i, d, link)
      PROVE  TypeOK'
  <2> DEFINE row == IF d = None THEN items[i]
                    ELSE [items[i] EXCEPT
                            !.deadline = d,
                            !.policy = DecideRemindPolicy(d, link, now)]
             p == [Idle EXCEPT !.pc = IF d = items[i].deadline THEN "edit" ELSE "merge",
                               !.held = {row}]
  <2>1. d \in OptTime
    BY RemindersAssumption DEF OptTime
  <2>2. DecideRemindPolicy(d, link, now) \in Policies
    BY PolicyType
  <2>3. items[i] \in ItemRow
    BY <1>1
  <2>4. row \in ItemRow
    BY <2>1, <2>2, <2>3 DEF ItemRow
  <2>5. Go(c, p) /\ UNCHANGED <<now, db, interrupts, history>> /\ ops' = ops + 1
    BY <1>1 DEF MergeRead, Request
  <2> HIDE DEF row
  <2>6. p \in Process
    BY <2>4, IdleType DEF Process
  <2> HIDE DEF p
  <2>7. run' \in [Workers -> Process]
    BY <2>5, <2>6, GoType
  <2>8. QED
    BY <2>5, <2>7
<1>2. ASSUME MergeWrite(c)
      PROVE  TypeOK'
  <2>1. PICK row \in run[c].held :
          /\ items' = [items EXCEPT ![row.id] = IF Exists(row.id) THEN row ELSE @]
          /\ Go(c, [Idle EXCEPT !.pc = "unsent", !.cur = row.id])
    BY <1>2 DEF MergeWrite
  <2>2. row \in ItemRow
    BY DEF Process
  <2>3. items' \in [ItemIds -> ItemRow]
    BY <2>1, <2>2
  <2>4. row.id \in ItemIds
    BY <2>2 DEF ItemRow
  <2>5. [Idle EXCEPT !.pc = "unsent", !.cur = row.id] \in Process
    BY <2>4, IdleType DEF Process
  <2>6. run' \in [Workers -> Process]
    BY <2>1, <2>5, GoType
  <2>7. QED
    BY <1>2, <2>3, <2>6 DEF MergeWrite, StillQuiet
<1>3. ASSUME DropUnsent(c)
      PROVE  TypeOK'
  <2>1. logs' \in [LogIds -> LogRow]
    BY <1>3, NoLogType DEF DropUnsent
  <2>2. QED
    BY <1>3, <2>1, IdleType, GoType DEF DropUnsent
<1>4. QED
  BY <1>1, <1>2, <1>3

\* The requests that change items, and remind_now.
LEMMA RequestType ==
  ASSUME TypeOK, OneCall \/ (\E c \in Senders : \E i \in ItemIds : RemindNow(c, i))
                         \/ (\E c \in Editors : Edit(c))
  PROVE  TypeOK'
<1> USE DEF TypeOK, db, history
<1> Senders \subseteq Workers /\ Editors \subseteq Workers
  BY DEF Workers
<1>1. ASSUME NEW d \in Deadlines, CreateItem(d)
      PROVE  TypeOK'
  <2>1. d \in OptTime
    BY RemindersAssumption DEF OptTime
  <2>2. DecideRemindPolicy(d, FALSE, now) \in Policies
    BY PolicyType
  <2>3. nextItem \in ItemIds
    BY <1>1, RemindersAssumption DEF CreateItem, ItemIds
  <2>4. [id |-> nextItem, status |-> "active", deadline |-> d,
         policy |-> DecideRemindPolicy(d, FALSE, now), created |-> now]
          \in ItemRow
    BY <2>1, <2>2, <2>3 DEF ItemRow
  <2>5. items' \in [ItemIds -> ItemRow]
    BY <1>1, <2>4 DEF CreateItem
  <2>6. QED
    BY <1>1, <2>5 DEF CreateItem
<1>2. ASSUME NEW i \in ItemIds, DeleteItem(i)
      PROVE  TypeOK'
  <2>1. items' \in [ItemIds -> ItemRow]
    BY <1>2, NoItemType DEF DeleteItem
  <2>2. logs' \in [LogIds -> LogRow]
    BY <1>2, NoLogType DEF DeleteItem
  <2>3. QED
    BY <1>2, <2>1, <2>2 DEF DeleteItem, Request, StillQuiet
<1>3. ASSUME NEW i \in ItemIds, NEW s \in {"active", "completed", "silent"},
             SetItemStatus(i, s)
      PROVE  TypeOK'
  <2>1. [items[i] EXCEPT !.status = s] \in ItemRow
    <3>1. items[i] \in ItemRow
      BY <1>3
    <3>2. QED
      BY <1>3, <3>1 DEF ItemRow, Resting
  <2>2. items' \in [ItemIds -> ItemRow]
    BY <1>3, <2>1 DEF SetItemStatus
  <2>3. QED
    BY <1>3, <2>2 DEF SetItemStatus, Request, StillQuiet
<1>4. ASSUME NEW c \in Senders, NEW i \in ItemIds, RemindNow(c, i)
      PROVE  TypeOK'
  <2>1. NewLog(i, now, "manual") \in LogRow
    BY <1>4, NewLogType
  <2>2. [Idle EXCEPT !.pc = "insert", !.at = now,
                     !.mail = NewLog(i, now, "manual")] \in Process
    BY <2>1, IdleType DEF Process
  <2>3. run' \in [Workers -> Process]
    BY <1>4, <2>2, GoType DEF RemindNow
  <2>4. quiet' \in [Workers -> SUBSET ItemIds]
    BY <1>4 DEF RemindNow
  <2>5. UNCHANGED <<now, db, interrupts, acks, failedAt>> /\ ops' = ops + 1
    BY <1>4 DEF RemindNow, Request
  <2>6. QED
    BY <2>3, <2>4, <2>5
<1>5. ASSUME NEW c \in Editors, NEW i \in ItemIds, NEW d \in Deadlines,
             EditRead(c, i, d)
      PROVE  TypeOK'
  <2>1. d \in OptTime
    BY <1>5, RemindersAssumption DEF OptTime
  <2>2. DecideRemindPolicy(d, FALSE, now) \in Policies
    BY PolicyType
  <2>3. [items[i] EXCEPT !.deadline = d,
                         !.policy = DecideRemindPolicy(d, FALSE, now)] \in ItemRow
    <3>1. items[i] \in ItemRow
      BY <1>5
    <3>2. QED
      BY <2>1, <2>2, <3>1 DEF ItemRow
  <2>4. [Idle EXCEPT !.pc = "edit",
           !.held = {[items[i] EXCEPT
                        !.deadline = d,
                        !.policy = DecideRemindPolicy(d, FALSE, now)]}]
          \in Process
    BY <2>3, IdleType DEF Process
  <2>5. run' \in [Workers -> Process]
    BY <1>5, <2>4, GoType DEF EditRead
  <2>6. QED
    BY <1>5, <2>5 DEF EditRead, Request
<1>6. ASSUME NEW c \in Editors, EditWrite(c)
      PROVE  TypeOK'
  <2>1. PICK row \in run[c].held :
          items' = [items EXCEPT ![row.id] = IF Exists(row.id) THEN row ELSE @]
    BY <1>6 DEF EditWrite
  <2>2. row \in ItemRow
    BY DEF Process
  <2>3. items' \in [ItemIds -> ItemRow]
    BY <2>1, <2>2
  <2>4. QED
    BY <1>6, <2>3, IdleType, GoType DEF EditWrite, StillQuiet
<1>7. QED
  BY <1>1, <1>2, <1>3, <1>4, <1>5, <1>6, MergeType DEF OneCall, Edit, Commit

LEMMA EnvironmentType ==
  ASSUME TypeOK,
         Tick \/ Crash \/ \E w \in Checkers \cup Senders : Abandon(w) \/ RecordFails(w)
  PROVE  TypeOK'
<1>1. CASE Tick \/ Crash
  BY <1>1, IdleType DEF TypeOK, Tick, Crash, db, history
<1>2. ASSUME NEW w \in Checkers \cup Senders, Abandon(w)
      PROVE  TypeOK'
  <2>1. w \in Workers
    BY <1>2 DEF Workers
  <2>2. acks' \in [ItemIds -> Seq(Delivery)]
    BY <1>2, <2>1, AcksType DEF TypeOK, Abandon
  <2>3. run' \in [Workers -> Process]
    BY <1>2, <2>1, IdleType, GoType DEF TypeOK, Abandon, End
  <2>4. quiet' \in [Workers -> SUBSET ItemIds]
    BY <1>2, <2>1 DEF TypeOK, Abandon, End
  <2>5. UNCHANGED <<now, db, ops, failedAt>> /\ interrupts' = interrupts + 1
    BY <1>2 DEF Abandon
  <2>6. QED
    BY <2>2, <2>3, <2>4, <2>5 DEF TypeOK, db
<1>3. ASSUME NEW w \in Checkers \cup Senders, RecordFails(w)
      PROVE  TypeOK'
  <2>1. w \in Workers
    BY <1>3 DEF Workers
  <2>2. run' \in [Workers -> Process] /\ quiet' \in [Workers -> SUBSET ItemIds]
    BY <1>3, <2>1, OnwardType DEF RecordFails
  <2>3. UNCHANGED <<now, db, ops, acks, failedAt>> /\ interrupts' = interrupts + 1
    BY <1>3 DEF RecordFails
  <2>4. QED
    BY <2>2, <2>3 DEF TypeOK, db
<1>4. QED
  BY <1>1, <1>2, <1>3

LEMMA NextType ==
  ASSUME TypeOK, [Next]_vars
  PROVE  TypeOK'
<1>1. CASE UNCHANGED vars
  BY <1>1 DEF TypeOK, vars, db, history
<1>2. ASSUME NEW w \in Checkers, RunCheck(w)
      PROVE  TypeOK'
  <2>1. w \in Workers
    BY DEF Workers
  <2>2. QED
    BY <1>2, <2>1, CheckType, DueType, SendingType DEF RunCheck
<1>3. ASSUME NEW c \in Senders, Send(c)
      PROVE  TypeOK'
  <2>1. c \in Workers
    BY DEF Workers
  <2>2. QED
    BY <1>3, <2>1, SendingType, RequestType DEF Send
<1>4. QED
  BY <1>1, <1>2, <1>3, RequestType, EnvironmentType DEF Next

\* Every reachable state is well typed: in particular every process holds
\* rows and logs of the shape the tables have.
THEOREM TypeCorrect == Spec => []TypeOK
<1>1. Init => TypeOK
  BY InitType
<1>2. TypeOK /\ [Next]_vars => TypeOK'
  BY NextType
<1>3. QED
  BY <1>1, <1>2, PTL DEF Spec

-----------------------------------------------------------------------------
(* Items at rest are not reminded *)

LEMMA InitQuiet == Init => QuietInv
BY DEF Init, QuietInv, RowsInPlace, Considerate, NoItem, Exists, Idle

\* What a process knows stays true while the process itself does nothing.
LEMMA Undisturbed ==
  ASSUME NEW w \in Workers, Considerate(w), run'[w] = run[w],
         quiet'[w] \subseteq quiet[w],
         \A i \in quiet'[w] : items'[i].status \in Resting
  PROVE  Considerate(w)'
BY DEF Considerate

\* A step of one process that leaves items and quiet alone need only be
\* checked at that process.
LEMMA OwnStep ==
  ASSUME TypeOK, QuietInv, NEW w \in Workers, NEW p, Go(w, p),
         UNCHANGED <<items, nextItem, quiet>>,
         run'[w] = p => Considerate(w)'
  PROVE  QuietInv'
<1>1. RowsInPlace'
  BY DEF QuietInv, RowsInPlace, Exists
<1>2. ASSUME NEW v \in Workers, v # w
      PROVE  Considerate(v)'
  <2>1. Considerate(v)
    BY <1>2 DEF QuietInv
  <2>2. run'[v] = run[v]
    BY <1>2 DEF TypeOK, Go
  <2>3. QED
    BY <1>2, <2>1, <2>2, Undisturbed DEF Considerate
<1>3. run'[w] = p
  BY DEF TypeOK, Go
<1>4. QED
  BY <1>1, <1>2, <1>3 DEF QuietInv

LEMMA CheckQuiet ==
  ASSUME TypeOK, QuietInv, NEW w \in Workers,
         \/ CheckBegin(w) \/ CheckExpire(w) \/ CheckSnapshot(w) \/ OpenItem(w)
         \/ SkipSlot(w) \/ ResendSlot(w) \/ MissingSlot(w)
  PROVE  QuietInv'
<1> USE DEF db, history
<1>1. run[w] \in Process /\ run \in [Workers -> Process]
      /\ quiet \in [Workers -> SUBSET ItemIds]
  BY DEF TypeOK
<1>2. RowsInPlace /\ \A v \in Workers : Considerate(v)
  BY DEF QuietInv
<1>3. CASE CheckBegin(w)
  <2>1. RowsInPlace'
    BY <1>2, <1>3 DEF CheckBegin, RowsInPlace, Exists
  <2>2. ASSUME NEW v \in Workers, v # w
        PROVE  Considerate(v)'
    <3>1. run'[v] = run[v] /\ quiet'[v] = quiet[v] /\ items' = items
      BY <1>1, <1>3, <2>2 DEF CheckBegin, Go
    <3>2. QED
      BY <1>2, <2>2, <3>1 DEF Considerate
  <2>3. Considerate(w)'
    <3>1. run'[w].pc = "expire" /\ run'[w].slots = {}
      BY <1>1, <1>3 DEF CheckBegin, Go, Idle
    <3>2. quiet'[w] = {i \in ItemIds : items[i].status \in Resting}
          /\ items' = items
      BY <1>1, <1>3 DEF CheckBegin
    <3>3. QED
      BY <3>1, <3>2 DEF Considerate
  <2>4. QED
    BY <2>1, <2>2, <2>3 DEF QuietInv
<1>4. CASE CheckExpire(w)
  <2>1. /\ quiet' = quiet /\ nextItem' = nextItem
        /\ \A i \in ItemIds : \/ items'[i] = items[i]
                              \/ /\ Exists(i)
                                 /\ items'[i].id = items[i].id
                                 /\ items'[i].status = "expired"
    <3>1. \A i \in ItemIds :
            LET r == [items[i] EXCEPT !.status = "expired"]
            IN  r.id = items[i].id /\ r.status = "expired"
      BY DEF TypeOK, ItemRow
    <3>2. QED
      BY <1>4, <3>1 DEF CheckExpire
  <2>2. RowsInPlace'
    BY <1>2, <2>1 DEF RowsInPlace, Exists
  <2>3. \A v \in Workers : \A i \in quiet'[v] : items'[i].status \in Resting
    BY <1>1, <1>2, <2>1 DEF Considerate, Resting
  <2>4. ASSUME NEW v \in Workers, v # w
        PROVE  Considerate(v)'
    <3>1. run'[v] = run[v]
      BY <1>1, <1>4, <2>4 DEF CheckExpire, Go
    <3>2. QED
      BY <1>2, <2>1, <2>3, <2>4, <3>1, Undisturbed
  <2>5. Considerate(w)'
    <3>1. /\ run'[w].pc = "snapshot" /\ run'[w].slots = run[w].slots
          /\ run'[w].cur = run[w].cur
      BY <1>1, <1>4 DEF CheckExpire, Go, Process
    <3>2. QED
      BY <1>2, <2>1, <2>3, <3>1 DEF Considerate
  <2>6. QED
    BY <2>2, <2>4, <2>5 DEF QuietInv
<1>5. CASE CheckSnapshot(w)
  <2> DEFINE rows == {r \in ActiveRows : /\ r.deadline # None
                                         /\ ~Overdue(r, run[w].at)}
             p == [run[w] EXCEPT !.pc = "scan", !.held = rows]
  <2>1. Go(w, p) /\ UNCHANGED <<items, nextItem, quiet>>
    BY <1>5 DEF CheckSnapshot
  <2>2. \A r \in rows : r.id \in ItemIds /\ items[r.id].status = "active"
    BY <1>2 DEF ActiveRows, RowsInPlace
  <2>3. \A r \in rows : r.id \notin quiet[w]
    BY <1>2, <2>2 DEF Considerate, Resting
  <2>4. p.pc = "scan" /\ p.held = rows /\ p.slots = run[w].slots
        /\ p.cur = run[w].cur
    BY <1>1 DEF Process
  <2> HIDE DEF rows, p
  <2>5. run'[w] = p => Considerate(w)'
    BY <1>2, <2>1, <2>3, <2>4 DEF Considerate
  <2>6. QED
    BY <2>1, <2>5, OwnStep
<1>6. CASE OpenItem(w)
  <2>1. PICK r \in run[w].held :
          Go(w, [run[w] EXCEPT
                   !.held = @ \ {r}, !.cur = r.id,
                   !.slots = DueSlots(r, run[w].at),
                   !.recent = RecentlySent(r.id, run[w].at)])
    BY <1>6 DEF OpenItem
  <2> DEFINE p == [run[w] EXCEPT
                     !.held = @ \ {r}, !.cur = r.id,
                     !.slots = DueSlots(r, run[w].at),
                     !.recent = RecentlySent(r.id, run[w].at)]
  <2>2. UNCHANGED <<items, nextItem, quiet>> /\ run[w].pc = "scan"
    BY <1>6 DEF OpenItem
  <2>3. r.id \notin quiet[w]
    BY <1>2, <2>1, <2>2 DEF Considerate
  <2>4. p.pc = "scan" /\ p.held = run[w].held \ {r} /\ p.cur = r.id
    BY <1>1, <2>2 DEF Process
  <2> HIDE DEF p
  <2>5. run'[w] = p => Considerate(w)'
    BY <1>2, <2>2, <2>3, <2>4 DEF Considerate
  <2>6. QED
    BY <2>1, <2>2, <2>5, OwnStep DEF p
<1>7. CASE SkipSlot(w)
  <2>1. PICK t \in run[w].slots : Go(w, [run[w] EXCEPT !.slots = @ \ {t}])
    BY <1>7 DEF SkipSlot
  <2> DEFINE p == [run[w] EXCEPT !.slots = @ \ {t}]
  <2>2. UNCHANGED <<items, nextItem, quiet>>
    BY <1>7 DEF SkipSlot
  <2>3. /\ p.pc = run[w].pc /\ p.held = run[w].held /\ p.cur = run[w].cur
        /\ p.mail = run[w].mail /\ (p.slots # {} => run[w].slots # {})
    BY <1>1 DEF Process
  <2> HIDE DEF p
  <2>4. run'[w] = p => Considerate(w)'
    BY <1>2, <2>2, <2>3 DEF Considerate
  <2>5. QED
    BY <2>1, <2>2, <2>4, OwnStep DEF p
<1>8. CASE ResendSlot(w)
  <2>1. PICK t \in run[w].slots, l \in LogIds :
          /\ l \in KeyRows(run[w].cur, t)
          /\ Go(w, [run[w] EXCEPT !.pc = "deliver", !.slots = @ \ {t},
                                  !.mail = logs[l], !.back = "scan"])
    BY <1>8 DEF ResendSlot, KeyRows
  <2> DEFINE p == [run[w] EXCEPT !.pc = "deliver", !.slots = @ \ {t},
                                 !.mail = logs[l], !.back = "scan"]
  <2>2. UNCHANGED <<items, nextItem, quiet>> /\ run[w].pc = "scan"
    BY <1>8 DEF ResendSlot, IsNextSlot
  <2>3. logs[l].item = run[w].cur
    BY <2>1 DEF KeyRows
  <2>4. /\ p.pc = "deliver" /\ p.held = run[w].held /\ p.cur = run[w].cur
        /\ p.mail.item = run[w].cur /\ run[w].slots # {}
    BY <1>1, <2>1, <2>3 DEF Process
  <2> HIDE DEF p
  <2>5. run'[w] = p => Considerate(w)'
    BY <1>2, <2>2, <2>4 DEF Considerate
  <2>6. QED
    BY <2>1, <2>2, <2>5, OwnStep DEF p
<1>9. CASE MissingSlot(w)
  <2>1. PICK t \in run[w].slots :
          Go(w, [run[w] EXCEPT !.pc = "insert", !.slots = @ \ {t},
                               !.mail = NewLog(run[w].cur, t, "reminder"),
                               !.back = "scan"])
    BY <1>9 DEF MissingSlot
  <2> DEFINE p == [run[w] EXCEPT !.pc = "insert", !.slots = @ \ {t},
                                 !.mail = NewLog(run[w].cur, t, "reminder"),
                                 !.back = "scan"]
  <2>2. UNCHANGED <<items, nextItem, quiet>> /\ run[w].pc = "scan"
    BY <1>9 DEF MissingSlot, IsNextSlot
  <2>3. /\ p.pc = "insert" /\ p.held = run[w].held /\ p.cur = run[w].cur
        /\ p.mail.item = run[w].cur /\ run[w].slots # {}
    BY <1>1, <2>1 DEF Process, NewLog
  <2> HIDE DEF p
  <2>4. run'[w] = p => Considerate(w)'
    BY <1>2, <2>2, <2>3 DEF Considerate
  <2>5. QED
    BY <2>1, <2>2, <2>4, OwnStep DEF p
<1>10. QED
  BY <1>3, <1>4, <1>5, <1>6, <1>7, <1>8, <1>9

LEMMA EndQuiet ==
  ASSUME TypeOK, QuietInv, NEW w \in Workers, End(w),
         UNCHANGED <<items, nextItem>>
  PROVE  QuietInv'
<1>1. RowsInPlace'
  BY DEF QuietInv, RowsInPlace, Exists
<1>2. ASSUME NEW v \in Workers, v # w
      PROVE  Considerate(v)'
  BY <1>2 DEF TypeOK, QuietInv, End, Go, Considerate
<1>3. Considerate(w)'
  BY DEF TypeOK, End, Go, Idle, Considerate
<1>4. QED
  BY <1>1, <1>2, <1>3 DEF QuietInv

LEMMA DueQuiet ==
  ASSUME TypeOK, QuietInv, NEW w \in Workers,
         ListDue(w) \/ CancelDue(w) \/ SendDue(w) \/ CheckEnd(w)
  PROVE  QuietInv'
<1> USE DEF db, history
<1>1. run[w] \in Process /\ run \in [Workers -> Process]
  BY DEF TypeOK
<1>2. \A v \in Workers : Considerate(v)
  BY DEF QuietInv
<1>3. CASE ListDue(w)
  <2> DEFINE p == [Idle EXCEPT !.pc = "due", !.at = run[w].at, !.queue = LogsDue]
  <2>1. Go(w, p) /\ UNCHANGED <<items, nextItem, quiet>>
    BY <1>3 DEF ListDue
  <2>2. p.pc = "due" /\ p.held = {} /\ p.slots = {}
    BY DEF Idle
  <2> HIDE DEF p
  <2>3. run'[w] = p => Considerate(w)'
    BY <1>2, <2>1, <2>2 DEF Considerate
  <2>4. QED
    BY <2>1, <2>3, OwnStep
<1>4. CASE CancelDue(w)
  <2>1. PICK log \in run[w].queue :
          Go(w, [run[w] EXCEPT !.pc = "record", !.queue = @ \ {log},
                               !.mail = Dropped(log),
                               !.back = "due"])
    BY <1>4 DEF CancelDue
  <2> DEFINE p == [run[w] EXCEPT !.pc = "record", !.queue = @ \ {log},
                                 !.mail = Dropped(log),
                                 !.back = "due"]
  <2>2. UNCHANGED <<items, nextItem, quiet>> /\ run[w].pc = "due"
    BY <1>4 DEF CancelDue, IsNextDue
  <2>3. /\ p.pc = "record" /\ p.held = run[w].held /\ p.cur = run[w].cur
        /\ p.slots = run[w].slots
    BY <1>1 DEF Process
  <2> HIDE DEF p
  <2>4. run'[w] = p => Considerate(w)'
    BY <1>2, <2>2, <2>3 DEF Considerate
  <2>5. QED
    BY <2>1, <2>2, <2>4, OwnStep DEF p
<1>5. CASE SendDue(w)
  <2>1. PICK log \in run[w].queue :
          /\ ~Cancelled(log, run[w].at)
          /\ Go(w, [run[w] EXCEPT !.pc = "deliver", !.queue = @ \ {log},
                                  !.mail = log, !.back = "due"])
    BY <1>5 DEF SendDue
  <2> DEFINE p == [run[w] EXCEPT !.pc = "deliver", !.queue = @ \ {log},
                                 !.mail = log, !.back = "due"]
  <2>2. UNCHANGED <<items, nextItem, quiet>> /\ run[w].pc = "due"
    BY <1>5 DEF SendDue, IsNextDue
  <2>3. items[log.item].status \notin Resting
    BY <2>1 DEF Cancelled, Exists, Resting
  <2>4. log.item \notin quiet[w]
    BY <1>2, <2>3 DEF Considerate
  <2>5. /\ p.pc = "deliver" /\ p.held = run[w].held /\ p.cur = run[w].cur
        /\ p.slots = run[w].slots /\ p.mail = log
    BY <1>1 DEF Process
  <2> HIDE DEF p
  <2>6. run'[w] = p => Considerate(w)'
    BY <1>2, <2>2, <2>4, <2>5 DEF Considerate
  <2>7. QED
    BY <2>1, <2>2, <2>6, OwnStep DEF p
<1>6. CASE CheckEnd(w)
  BY <1>6, EndQuiet DEF CheckEnd
<1>7. QED
  BY <1>3, <1>4, <1>5, <1>6

\* What comes after a log is recorded, or could not be.
LEMMA OnwardQuiet ==
  ASSUME TypeOK, QuietInv, NEW w \in Workers, run[w].pc = "record",
         Onward(w) \/ End(w), UNCHANGED <<items, nextItem>>
  PROVE  QuietInv'
<1>1. run[w] \in Process /\ Considerate(w)
  BY DEF TypeOK, QuietInv
<1>2. CASE End(w)
  BY <1>2, EndQuiet
<1>3. ASSUME NEW p \in Process, Go(w, p), UNCHANGED quiet, p.pc \in {"scan", "due"},
             p.held = run[w].held, p.cur = run[w].cur, p.slots = run[w].slots
      PROVE  QuietInv'
  <2>1. run'[w] = p => Considerate(w)'
    BY <1>1, <1>3 DEF Considerate
  <2>2. QED
    BY <1>3, <2>1, OwnStep
<1>4. QED
  BY <1>2, <1>3, OnwardMoves

LEMMA SendingQuiet ==
  ASSUME TypeOK, QuietInv, NEW w \in Workers, Sending(w)
  PROVE  QuietInv'
<1> USE DEF db, history
<1>1. run[w] \in Process /\ run[w].mail \in LogRow
  BY DEF TypeOK, Process
<1>2. Considerate(w)
  BY DEF QuietInv
<1>3. CASE InsertLog(w) \/ InsertIgnored(w)
  <2>1. PICK id : Go(w, [run[w] EXCEPT !.pc = "deliver", !.mail.id = id])
    BY <1>3 DEF InsertLog, InsertIgnored
  <2> DEFINE p == [run[w] EXCEPT !.pc = "deliver", !.mail.id = id]
  <2>2. UNCHANGED <<items, nextItem, quiet>> /\ run[w].pc = "insert"
    BY <1>3 DEF InsertLog, InsertIgnored
  <2>3. /\ p.pc = "deliver" /\ p.held = run[w].held /\ p.cur = run[w].cur
        /\ p.slots = run[w].slots /\ p.mail.item = run[w].mail.item
    BY <1>1 DEF Process, LogRow
  <2> HIDE DEF p
  <2>4. run'[w] = p => Considerate(w)'
    BY <1>2, <2>2, <2>3 DEF Considerate
  <2>5. QED
    BY <2>1, <2>2, <2>4, OwnStep DEF p
<1>4. CASE DeliverOk(w) \/ DeliverFail(w)
  <2>1. PICK m : Go(w, [run[w] EXCEPT !.pc = "record", !.mail = m])
    BY <1>4 DEF DeliverOk, DeliverFail
  <2> DEFINE p == [run[w] EXCEPT !.pc = "record", !.mail = m]
  <2>2. UNCHANGED <<items, nextItem, quiet>> /\ run[w].pc = "deliver"
    BY <1>4 DEF DeliverOk, DeliverFail
  <2>3. /\ p.pc = "record" /\ p.held = run[w].held /\ p.cur = run[w].cur
        /\ p.slots = run[w].slots
    BY <1>1 DEF Process
  <2> HIDE DEF p
  <2>4. run'[w] = p => Considerate(w)'
    BY <1>2, <2>2, <2>3 DEF Considerate
  <2>5. QED
    BY <2>1, <2>2, <2>4, OwnStep DEF p
<1>5. CASE Record(w)
  BY <1>5, OnwardQuiet DEF Record
<1>6. QED
  BY <1>3, <1>4, <1>5 DEF Sending

\* A merge may wake an item with the row it read before.
LEMMA MergeQuiet ==
  ASSUME TypeOK, QuietInv, NEW c \in Editors,
         \/ \E i \in ItemIds : \E d \in Deadlines \cup {None} : \E link \in BOOLEAN :
              MergeRead(c, i, d, link)
         \/ MergeWrite(c) \/ DropUnsent(c)
  PROVE  QuietInv'
<1> USE DEF db, history
<1> c \in Workers
  BY DEF Workers
<1>1. /\ run \in [Workers -> Process] /\ quiet \in [Workers -> SUBSET ItemIds]
      /\ items \in [ItemIds -> ItemRow] /\ nextItem \in Nat \ {0}
  BY DEF TypeOK
<1>2. RowsInPlace /\ \A w \in Workers : Considerate(w)
  BY DEF QuietInv
<1>3. ASSUME NEW i \in ItemIds, NEW d \in Deadlines \cup {None}, NEW link \in BOOLEAN,
             MergeRead(c, i, d, link)
      PROVE  QuietInv'
  <2> DEFINE row == IF d = None THEN items[i]
                    ELSE [items[i] EXCEPT
                            !.deadline = d,
                            !.policy = DecideRemindPolicy(d, link, now)]
             p == [Idle EXCEPT !.pc = IF d = items[i].deadline THEN "edit" ELSE "merge",
                               !.held = {row}]
  <2>1. Go(c, p)
    BY <1>3 DEF MergeRead
  <2>2. UNCHANGED <<items, nextItem, quiet>>
    BY <1>3 DEF MergeRead
  <2>3. p.pc \in {"edit", "merge"} /\ p.slots = {}
    BY DEF Idle
  <2> HIDE DEF p
  <2>4. run'[c] = p => Considerate(c)'
    BY <1>2, <2>2, <2>3 DEF Considerate
  <2>5. QED
    BY <2>1, <2>2, <2>4, OwnStep
<1>4. ASSUME MergeWrite(c)
      PROVE  QuietInv'
  <2>1. PICK row \in run[c].held :
          /\ items' = [items EXCEPT ![row.id] = IF Exists(row.id) THEN row ELSE @]
          /\ Go(c, [Idle EXCEPT !.pc = "unsent", !.cur = row.id])
    BY <1>4 DEF MergeWrite
  <2>2. nextItem' = nextItem /\ StillQuiet
    BY <1>4 DEF MergeWrite
  <2>3. row.id \in ItemIds
    BY <1>1, <1>4, <2>1 DEF Process, ItemRow
  <2>4. RowsInPlace'
    BY <1>1, <1>2, <2>1, <2>2, <2>3 DEF RowsInPlace, Exists
  <2>5. \A w \in Workers : /\ quiet'[w] \subseteq quiet[w]
                           /\ \A i \in quiet'[w] : items'[i].status \in Resting
    BY <1>1, <2>2 DEF StillQuiet
  <2>6. ASSUME NEW v \in Workers, v # c
        PROVE  Considerate(v)'
    BY <1>1, <1>2, <2>1, <2>2, <2>5, <2>6, Undisturbed DEF Go
  <2>7. Considerate(c)'
    BY <1>1, <1>4, <2>1, <2>2, <2>5 DEF Go, Idle, Considerate
  <2>8. QED
    BY <2>4, <2>6, <2>7 DEF QuietInv
<1>5. ASSUME DropUnsent(c)
      PROVE  QuietInv'
  <2>1. Go(c, Idle) /\ UNCHANGED <<items, nextItem, quiet>>
    BY <1>5 DEF DropUnsent
  <2>2. run'[c] = Idle => Considerate(c)'
    BY <1>2, <2>1 DEF Considerate, Idle
  <2>3. QED
    BY <2>1, <2>2, OwnStep
<1>6. QED
  BY <1>3, <1>4, <1>5

\* Requests change the status of items; StillQuiet forgets those that wake up.
LEMMA RequestQuiet ==
  ASSUME TypeOK, QuietInv,
         OneCall \/ (\E c \in Senders : \E i \in ItemIds : RemindNow(c, i))
                 \/ (\E c \in Editors : Edit(c))
  PROVE  QuietInv'
<1> USE DEF db, history
<1> Senders \subseteq Workers /\ Editors \subseteq Workers
  BY DEF Workers
<1>1. /\ run \in [Workers -> Process] /\ quiet \in [Workers -> SUBSET ItemIds]
      /\ items \in [ItemIds -> ItemRow] /\ nextItem \in Nat \ {0}
  BY DEF TypeOK
<1>2. RowsInPlace /\ \A w \in Workers : Considerate(w)
  BY DEF QuietInv
<1>3. ASSUME NEW d \in Deadlines, CreateItem(d)
      PROVE  QuietInv'
  <2>1. nextItem \in ItemIds
    BY <1>1, <1>3, RemindersAssumption DEF CreateItem, ItemIds
  <2>2. /\ nextItem' = nextItem + 1 /\ run' = run /\ quiet' = quiet
        /\ items'[nextItem].id = nextItem
        /\ \A i \in ItemIds : i # nextItem => items'[i] = items[i]
    BY <1>1, <1>3, <2>1 DEF CreateItem
  <2>3. RowsInPlace'
    BY <1>1, <1>2, <2>1, <2>2 DEF RowsInPlace, Exists, ItemIds
  <2>4. \A w \in Workers : nextItem \notin quiet[w]
    BY <1>1, <1>2, <2>1 DEF RowsInPlace, Considerate, Exists, Resting
  <2>5. \A w \in Workers : \A i \in quiet'[w] : items'[i].status \in Resting
    BY <1>1, <1>2, <2>2, <2>4 DEF Considerate
  <2>6. QED
    BY <1>2, <2>2, <2>3, <2>5 DEF QuietInv, Considerate
<1>4. ASSUME NEW i \in ItemIds, DeleteItem(i)
      PROVE  QuietInv'
  <2>1. items' = [items EXCEPT ![i] = NoItem(i)] /\ nextItem' = nextItem
        /\ run' = run
    BY <1>4 DEF DeleteItem
  <2>2. RowsInPlace'
    BY <1>1, <1>2, <2>1 DEF RowsInPlace, Exists, NoItem
  <2>3. QED
    BY <1>1, <1>2, <1>4, <2>1, <2>2, Undisturbed
       DEF QuietInv, DeleteItem, StillQuiet
<1>5. ASSUME NEW i \in ItemIds, NEW s \in {"active", "completed", "silent"},
             SetItemStatus(i, s)
      PROVE  QuietInv'
  <2>1. /\ Exists(i) /\ items' = [items EXCEPT ![i].status = s]
        /\ nextItem' = nextItem /\ run' = run
    BY <1>5 DEF SetItemStatus
  <2>2. RowsInPlace'
    <3>1. \A j \in ItemIds : items'[j].id = items[j].id
                             /\ (j # i => items'[j] = items[j])
      BY <1>1, <1>5, <2>1 DEF ItemRow
    <3>2. QED
      BY <1>2, <1>5, <2>1, <3>1 DEF RowsInPlace, Exists
  <2>3. QED
    BY <1>1, <1>2, <1>5, <2>1, <2>2, Undisturbed
       DEF QuietInv, SetItemStatus, StillQuiet
<1>6. ASSUME NEW c \in Senders, NEW i \in ItemIds, RemindNow(c, i)
      PROVE  QuietInv'
  <2>1. /\ items' = items /\ nextItem' = nextItem
        /\ items[i].status = "active"
        /\ quiet' = [quiet EXCEPT
                       ![c] = {j \in ItemIds : items[j].status \in Resting}]
        /\ Go(c, [Idle EXCEPT !.pc = "insert", !.at = now,
                              !.mail = NewLog(i, now, "manual")])
    BY <1>6 DEF RemindNow
  <2>2. RowsInPlace'
    BY <1>2, <2>1 DEF RowsInPlace, Exists
  <2>3. ASSUME NEW v \in Workers, v # c
        PROVE  Considerate(v)'
    <3>1. run'[v] = run[v] /\ quiet'[v] = quiet[v]
      BY <1>1, <2>1, <2>3 DEF Go
    <3>2. QED
      BY <1>2, <2>1, <2>3, <3>1 DEF Considerate
  <2>4. Considerate(c)'
    <3>1. /\ run'[c].pc = "insert" /\ run'[c].held = {}
          /\ run'[c].slots = {} /\ run'[c].mail.item = i
      BY <1>1, <1>6, <2>1 DEF Go, Idle, NewLog
    <3>2. quiet'[c] = {j \in ItemIds : items[j].status \in Resting}
      BY <1>1, <1>6, <2>1
    <3>3. QED
      BY <2>1, <3>1, <3>2 DEF Considerate, Resting
  <2>5. QED
    BY <2>2, <2>3, <2>4 DEF QuietInv
<1>7. ASSUME NEW c \in Editors, NEW i \in ItemIds, NEW d \in Deadlines,
             EditRead(c, i, d)
      PROVE  QuietInv'
  <2> DEFINE p == [Idle EXCEPT !.pc = "edit",
                     !.held = {[items[i] EXCEPT
                                  !.deadline = d,
                                  !.policy = DecideRemindPolicy(d, FALSE, now)]}]
  <2>1. Go(c, p) /\ UNCHANGED <<items, nextItem, quiet>>
    BY <1>7 DEF EditRead
  <2>2. p.pc = "edit" /\ p.slots = {}
    BY DEF Idle
  <2> HIDE DEF p
  <2>3. c \in Workers /\ Considerate(c)
    BY <1>2, <1>7
  <2>4. run'[c] = p => Considerate(c)'
    BY <2>1, <2>2, <2>3 DEF Considerate
  <2>5. QED
    BY <2>1, <2>3, <2>4, OwnStep
<1>8. ASSUME NEW c \in Editors, EditWrite(c)
      PROVE  QuietInv'
  <2>1. PICK row \in run[c].held :
          items' = [items EXCEPT ![row.id] = IF Exists(row.id) THEN row ELSE @]
    BY <1>8 DEF EditWrite
  <2>2. nextItem' = nextItem /\ Go(c, Idle) /\ StillQuiet
    BY <1>8 DEF EditWrite
  <2>3. row.id \in ItemIds
    BY <1>1, <1>8, <2>1 DEF Process, ItemRow
  <2>4. RowsInPlace'
    BY <1>1, <1>2, <2>1, <2>2, <2>3 DEF RowsInPlace, Exists
  <2>5. \A w \in Workers : /\ quiet'[w] \subseteq quiet[w]
                           /\ \A i \in quiet'[w] : items'[i].status \in Resting
    BY <1>1, <2>2 DEF StillQuiet
  <2>6. ASSUME NEW v \in Workers, v # c
        PROVE  Considerate(v)'
    BY <1>1, <1>2, <2>2, <2>5, <2>6, Undisturbed DEF Go
  <2>7. Considerate(c)'
    BY <1>1, <1>8, <2>2, <2>5 DEF Go, Idle, Considerate
  <2>8. QED
    BY <2>4, <2>6, <2>7 DEF QuietInv
<1>9. QED
  BY <1>3, <1>4, <1>5, <1>6, <1>7, <1>8, MergeQuiet DEF OneCall, Edit, Commit

LEMMA EnvironmentQuiet ==
  ASSUME TypeOK, QuietInv,
         Tick \/ Crash \/ \E w \in Checkers \cup Senders : Abandon(w) \/ RecordFails(w)
  PROVE  QuietInv'
<1>1. CASE Tick
  BY <1>1 DEF Tick, QuietInv, RowsInPlace, Considerate, Exists, db, history
<1>2. CASE Crash
  BY <1>2 DEF Crash, QuietInv, RowsInPlace, Considerate, Exists, Idle
<1>3. ASSUME NEW w \in Checkers \cup Senders, Abandon(w)
      PROVE  QuietInv'
  <2>1. w \in Workers
    BY <1>3 DEF Workers
  <2>2. QED
    BY <1>3, <2>1, EndQuiet DEF Abandon, db
<1>4. ASSUME NEW w \in Checkers \cup Senders, RecordFails(w)
      PROVE  QuietInv'
  <2>1. w \in Workers
    BY <1>4 DEF Workers
  <2>2. QED
    BY <1>4, <2>1, OnwardQuiet DEF RecordFails, db
<1>5. QED
  BY <1>1, <1>2, <1>3, <1>4

LEMMA NextQuiet ==
  ASSUME TypeOK, QuietInv, [Next]_vars
  PROVE  QuietInv'
<1>1. CASE UNCHANGED vars
  BY <1>1 DEF QuietInv, RowsInPlace, Considerate, Exists, vars, db, history
<1>2. ASSUME NEW w \in Checkers, RunCheck(w)
      PROVE  QuietInv'
  <2>1. w \in Workers
    BY <1>2 DEF Workers
  <2>2. QED
    BY <1>2, <2>1, CheckQuiet, DueQuiet, SendingQuiet DEF RunCheck
<1>3. ASSUME NEW c \in Senders, Send(c)
      PROVE  QuietInv'
  <2>1. c \in Workers
    BY <1>3 DEF Workers
  <2>2. QED
    BY <1>3, <2>1, SendingQuiet, RequestQuiet DEF Send
<1>4. QED
  BY <1>1, <1>2, <1>3, RequestQuiet, EnvironmentQuiet DEF Next

\* No run sends a message about an item that was completed, silent or expired
\* when the run began and has been so ever since, with any number of checks,
\* requests and interrupts interleaved.
THEOREM RestingItemsLeftAlone == Spec => []QuietNotReminded
<1>1. Init => QuietInv
  BY InitQuiet
<1>2. TypeOK /\ QuietInv /\ [Next]_vars => QuietInv'
  BY NextQuiet
<1>3. QuietInv => QuietNotReminded
  BY DEF QuietInv, Considerate, QuietNotReminded
<1>4. QED
  BY <1>1, <1>2, <1>3, TypeCorrect, PTL DEF Spec

-----------------------------------------------------------------------------
(* What one checker at a time guarantees about the send log, whatever the
   requests, crashes and dropped requests: a result is recorded on the row of
   the message it belongs to, and a row that says sent was delivered.  With two
   checkers neither holds: run v_row shows a result that goes to the row of
   another message, which may then say sent without a delivery. *)

OneChecker == \A c, d \in Checkers : c = d

\* No present row changes its key, and no unused id below nextLog is filled.
RowsKept ==
  \A l \in LogIds : l < nextLog =>
    \/ logs'[l].status = "absent"
    \/ /\ logs[l].status # "absent"
       /\ logs'[l].item = logs[l].item /\ logs'[l].slot = logs[l].slot
       /\ logs'[l].kind = logs[l].kind

\* Deliveries are only ever added.
AcksKept ==
  \A i \in ItemIds : \A n \in 1 .. Len(acks[i]) :
    n \in 1 .. Len(acks'[i]) /\ acks'[i][n] = acks[i][n]

LEMMA InitRecord == Init => RecordInv
<1> SUFFICES ASSUME Init PROVE RecordInv
  OBVIOUS
<1>1. \A l \in LogIds : logs[l].id = l /\ logs[l].status = "absent"
  <2>1. ASSUME NEW l \in LogIds
        PROVE  NoLog(l).id = l /\ NoLog(l).status = "absent"
    BY DEF NoLog, NewLog
  <2>2. QED
    BY <2>1 DEF Init
<1>2. TableInPlace
  BY <1>1 DEF TableInPlace, KeyRows
<1>3. SentMeansDelivered
  BY <1>1 DEF SentMeansDelivered
<1>4. \A w \in Workers : Faithful(w)
  BY DEF Init, Idle, Faithful
<1>5. QED
  BY <1>2, <1>3, <1>4 DEF RecordInv

\* What a process holds stays faithful while it does nothing itself.
LEMMA StaysFaithful ==
  ASSUME TypeOK, NEW w \in Workers, Faithful(w), run'[w] = run[w],
         nextLog' \in Nat, nextLog <= nextLog', RowsKept, AcksKept,
         run[w].pc = "insert" /\ run[w].mail.kind = "reminder" =>
           KeyRows(run[w].mail.item, run[w].mail.slot)' = {}
  PROVE  Faithful(w)'
<1>1. run[w] \in Process /\ nextLog \in Nat /\ LogIds \subseteq Nat
  BY RemindersAssumption DEF TypeOK, LogIds
<1> DEFINE Fits(x) == /\ x.id \in LogIds /\ x.id < nextLog'
                      /\ logs'[x.id].status # "absent" =>
                           /\ logs'[x.id].item = x.item
                           /\ logs'[x.id].slot = x.slot
                           /\ logs'[x.id].kind = x.kind
<1>2. ASSUME NEW x, MatchesRow(x)
      PROVE  Fits(x)
  <2>1. x.id \in LogIds /\ x.id < nextLog
    BY <1>2 DEF MatchesRow
  <2>2. x.id < nextLog'
    <3> DEFINE a == x.id
               c == nextLog'
    <3>1. a \in Nat /\ a < nextLog /\ nextLog \in Nat /\ c \in Nat /\ nextLog <= c
      BY <1>1, <2>1
    <3> HIDE DEF a, c
    <3>2. a < c
      BY <3>1
    <3>3. QED
      BY <3>2 DEF a, c
  <2>3. QED
    BY <1>2, <2>1, <2>2 DEF MatchesRow, RowsKept
<1>3. /\ \A x \in run'[w].queue : MatchesRow(x)'
      /\ run'[w].pc \in {"deliver", "record"} => MatchesRow(run[w].mail)'
  <2>1. /\ \A x \in run[w].queue : Fits(x)
        /\ run[w].pc \in {"deliver", "record"} => Fits(run[w].mail)
    BY <1>2 DEF Faithful
  <2>2. QED
    BY <2>1 DEF MatchesRow
<1>4. run[w].pc = "record" /\ run[w].mail.status = "sent" =>
        Confirmed(run[w].mail)'
  <2>1. run[w].mail.item \in ItemIds
    BY <1>1 DEF Process, LogRow
  <2>2. QED
    BY <2>1 DEF Faithful, Confirmed, AcksKept
<1>5. QED
  BY <1>3, <1>4 DEF Faithful

LEMMA SameTables ==
  ASSUME TypeOK, RecordInv, UNCHANGED <<logs, nextLog, acks>>
  PROVE  /\ TableInPlace' /\ SentMeansDelivered' /\ RowsKept /\ AcksKept
         /\ nextLog' \in Nat /\ nextLog <= nextLog'
         /\ \A i, t : KeyRows(i, t)' = KeyRows(i, t)
<1>1. \A i, t : KeyRows(i, t)' = KeyRows(i, t)
  BY DEF KeyRows
<1>2. TableInPlace'
  BY DEF RecordInv, TableInPlace, KeyRows
<1>3. SentMeansDelivered'
  BY DEF RecordInv, SentMeansDelivered, Confirmed
<1>4. RowsKept
  <2>1. \A l \in LogIds : l < nextLog =>
          logs[l].status = "absent" \/ logs[l].status # "absent"
    OBVIOUS
  <2>2. QED
    BY <2>1 DEF RowsKept
<1>5. AcksKept
  BY DEF AcksKept
<1>6. QED
  BY <1>1, <1>2, <1>3, <1>4, <1>5 DEF TypeOK

\* A step of one process that changes neither logs nor acks need only be
\* checked at that process.
LEMMA OwnRecordStep ==
  ASSUME TypeOK, RecordInv, NEW w \in Workers, NEW p, Go(w, p),
         UNCHANGED <<logs, nextLog, acks>>,
         run'[w] = p => Faithful(w)'
  PROVE  RecordInv'
<1>1. ASSUME NEW v \in Workers, v # w
      PROVE  Faithful(v)'
  <2>1. run'[v] = run[v] /\ Faithful(v)
    BY <1>1 DEF TypeOK, Go, RecordInv
  <2>2. run[v].pc = "insert" /\ run[v].mail.kind = "reminder" =>
          KeyRows(run[v].mail.item, run[v].mail.slot)' = {}
    BY <2>1 DEF Faithful, KeyRows
  <2>3. QED
    BY <1>1, <2>1, <2>2, SameTables, StaysFaithful
<1>2. run'[w] = p
  BY DEF TypeOK, Go
<1>3. QED
  BY <1>1, <1>2, SameTables DEF RecordInv

\* Rows read from the table match it.
LEMMA RowMatches ==
  ASSUME TypeOK, RecordInv, NEW l \in LogIds, logs[l].status # "absent"
  PROVE  MatchesRow(logs[l])
<1>1. logs[l].id = l /\ ~(l >= nextLog)
  BY DEF RecordInv, TableInPlace
<1>2. l \in Nat /\ nextLog \in Nat
  BY RemindersAssumption DEF LogIds, TypeOK
<1>3. QED
  BY <1>1, <1>2 DEF MatchesRow

LEMMA CheckRecord ==
  ASSUME OneChecker, TypeOK, RecordInv, NEW w \in Checkers,
         \/ CheckBegin(w) \/ CheckExpire(w) \/ CheckSnapshot(w) \/ OpenItem(w)
         \/ SkipSlot(w) \/ ResendSlot(w) \/ MissingSlot(w)
  PROVE  RecordInv'
<1> USE DEF db, history
<1>1. w \in Workers /\ run[w] \in Process
  BY DEF TypeOK, Workers
<1>2. Faithful(w)
  BY <1>1 DEF RecordInv
<1>3. ASSUME NEW p, Go(w, p), UNCHANGED <<logs, nextLog, acks>>,
             p.queue = {} \/ p.queue = run[w].queue,
             p.pc \notin {"insert", "deliver", "record"}
      PROVE  RecordInv'
  <2>1. run'[w] = p => Faithful(w)'
    BY <1>2, <1>3 DEF Faithful, MatchesRow
  <2>2. QED
    BY <1>1, <1>3, <2>1, OwnRecordStep
<1>4. CASE CheckBegin(w)
  <2> DEFINE p == [Idle EXCEPT !.pc = "expire", !.at = now,
                               !.held = {r \in ActiveRows : Overdue(r, now)}]
  <2>1. p.pc = "expire" /\ p.queue = {}
    BY DEF Idle
  <2>2. Go(w, p) /\ UNCHANGED <<logs, nextLog, acks>>
    BY <1>4 DEF CheckBegin
  <2> HIDE DEF p
  <2>3. QED
    BY <1>3, <2>1, <2>2
<1>5. CASE CheckExpire(w)
  <2> DEFINE p == [run[w] EXCEPT !.pc = "snapshot", !.held = {}]
  <2>1. p.pc = "snapshot" /\ p.queue = run[w].queue
    BY <1>1 DEF Process
  <2>2. Go(w, p) /\ UNCHANGED <<logs, nextLog, acks>>
    BY <1>5 DEF CheckExpire
  <2> HIDE DEF p
  <2>3. QED
    BY <1>3, <2>1, <2>2
<1>6. CASE CheckSnapshot(w)
  <2> DEFINE p == [run[w] EXCEPT !.pc = "scan",
                     !.held = {r \in ActiveRows :
                                 /\ r.deadline # None
                                 /\ ~Overdue(r, run[w].at)}]
  <2>1. p.pc = "scan" /\ p.queue = run[w].queue
    BY <1>1 DEF Process
  <2>2. Go(w, p) /\ UNCHANGED <<logs, nextLog, acks>>
    BY <1>6 DEF CheckSnapshot
  <2> HIDE DEF p
  <2>3. QED
    BY <1>3, <2>1, <2>2
<1>7. CASE OpenItem(w)
  <2>1. PICK r \in run[w].held :
          Go(w, [run[w] EXCEPT
                   !.held = @ \ {r}, !.cur = r.id,
                   !.slots = DueSlots(r, run[w].at),
                   !.recent = RecentlySent(r.id, run[w].at)])
    BY <1>7 DEF OpenItem
  <2> DEFINE p == [run[w] EXCEPT
                     !.held = @ \ {r}, !.cur = r.id,
                     !.slots = DueSlots(r, run[w].at),
                     !.recent = RecentlySent(r.id, run[w].at)]
  <2>2. run[w].pc = "scan" /\ UNCHANGED <<logs, nextLog, acks>>
    BY <1>7 DEF OpenItem
  <2>3. p.pc = "scan" /\ p.queue = run[w].queue
    BY <1>1, <2>2 DEF Process
  <2>4. Go(w, p)
    BY <2>1
  <2> HIDE DEF p
  <2>5. QED
    BY <1>3, <2>2, <2>3, <2>4
<1>8. CASE SkipSlot(w)
  <2>1. PICK t \in run[w].slots : Go(w, [run[w] EXCEPT !.slots = @ \ {t}])
    BY <1>8 DEF SkipSlot
  <2> DEFINE p == [run[w] EXCEPT !.slots = @ \ {t}]
  <2>2. run[w].pc = "scan" /\ UNCHANGED <<logs, nextLog, acks>>
    BY <1>8 DEF SkipSlot, IsNextSlot
  <2>3. p.pc = "scan" /\ p.queue = run[w].queue
    BY <1>1, <2>2 DEF Process
  <2>4. Go(w, p)
    BY <2>1
  <2> HIDE DEF p
  <2>5. QED
    BY <1>3, <2>2, <2>3, <2>4
<1>9. CASE ResendSlot(w)
  <2>1. PICK t \in run[w].slots, l \in LogIds :
          /\ l \in KeyRows(run[w].cur, t)
          /\ Go(w, [run[w] EXCEPT !.pc = "deliver", !.slots = @ \ {t},
                                  !.mail = logs[l], !.back = "scan"])
    BY <1>9 DEF ResendSlot, KeyRows
  <2> DEFINE p == [run[w] EXCEPT !.pc = "deliver", !.slots = @ \ {t},
                                 !.mail = logs[l], !.back = "scan"]
  <2>2. UNCHANGED <<logs, nextLog, acks>>
    BY <1>9 DEF ResendSlot
  <2>3. MatchesRow(logs[l])
    BY <2>1, RowMatches DEF KeyRows
  <2>4. p.pc = "deliver" /\ p.mail = logs[l] /\ p.queue = run[w].queue
    BY <1>1 DEF Process
  <2>5. Go(w, p)
    BY <2>1
  <2> HIDE DEF p
  <2>6. run'[w] = p => Faithful(w)'
    BY <1>2, <2>2, <2>3, <2>4 DEF Faithful, MatchesRow
  <2>7. QED
    BY <1>1, <2>2, <2>5, <2>6, OwnRecordStep
<1>10. CASE MissingSlot(w)
  <2>1. PICK t \in run[w].slots :
          /\ KeyRows(run[w].cur, t) = {}
          /\ Go(w, [run[w] EXCEPT !.pc = "insert", !.slots = @ \ {t},
                                  !.mail = NewLog(run[w].cur, t, "reminder"),
                                  !.back = "scan"])
    BY <1>10 DEF MissingSlot
  <2> DEFINE p == [run[w] EXCEPT !.pc = "insert", !.slots = @ \ {t},
                                 !.mail = NewLog(run[w].cur, t, "reminder"),
                                 !.back = "scan"]
  <2>2. UNCHANGED <<logs, nextLog, acks>>
    BY <1>10 DEF MissingSlot
  <2>3. /\ p.pc = "insert" /\ p.queue = run[w].queue
        /\ p.mail.item = run[w].cur /\ p.mail.slot = t
        /\ p.mail.status = "pending"
    BY <1>1 DEF Process, NewLog
  <2>4. Go(w, p)
    BY <2>1
  <2> HIDE DEF p
  <2>5. run'[w] = p => Faithful(w)'
    BY <1>2, <2>1, <2>2, <2>3 DEF Faithful, MatchesRow, KeyRows
  <2>6. QED
    BY <1>1, <2>2, <2>4, <2>5, OwnRecordStep
<1>11. QED
  BY <1>4, <1>5, <1>6, <1>7, <1>8, <1>9, <1>10

LEMMA DueRecord ==
  ASSUME TypeOK, RecordInv, NEW w \in Workers,
         ListDue(w) \/ CancelDue(w) \/ SendDue(w) \/ CheckEnd(w)
  PROVE  RecordInv'
<1> USE DEF db, history
<1>1. run[w] \in Process
  BY DEF TypeOK
<1>2. Faithful(w)
  BY DEF RecordInv
<1>3. CASE ListDue(w)
  <2> DEFINE p == [Idle EXCEPT !.pc = "due", !.at = run[w].at, !.queue = LogsDue]
  <2>1. Go(w, p) /\ UNCHANGED <<logs, nextLog, acks>>
    BY <1>3 DEF ListDue
  <2>2. \A x \in LogsDue : MatchesRow(x)
    BY RowMatches DEF LogsDue, IsDue
  <2>3. p.pc = "due" /\ p.queue = LogsDue
    BY DEF Idle
  <2> HIDE DEF p
  <2>4. run'[w] = p => Faithful(w)'
    BY <2>1, <2>2, <2>3 DEF Faithful, MatchesRow
  <2>5. QED
    BY <2>1, <2>4, OwnRecordStep
<1>4. CASE CancelDue(w)
  <2>1. PICK log \in run[w].queue :
          Go(w, [run[w] EXCEPT !.pc = "record", !.queue = @ \ {log},
                               !.mail = Dropped(log), !.back = "due"])
    BY <1>4 DEF CancelDue
  <2> DEFINE p == [run[w] EXCEPT !.pc = "record", !.queue = @ \ {log},
                                 !.mail = Dropped(log), !.back = "due"]
  <2>2. UNCHANGED <<logs, nextLog, acks>>
    BY <1>4 DEF CancelDue
  <2>3. log \in LogRow /\ MatchesRow(log)
    BY <1>1, <1>2, <2>1 DEF Process, Faithful
  <2>4. /\ Dropped(log).id = log.id /\ Dropped(log).item = log.item
        /\ Dropped(log).slot = log.slot /\ Dropped(log).kind = log.kind
        /\ Dropped(log).status = "failed"
    BY <2>3 DEF Dropped, LogRow
  <2>5. /\ p.pc = "record" /\ p.mail = Dropped(log)
        /\ p.queue = run[w].queue \ {log}
    BY <1>1 DEF Process
  <2>6. Go(w, p)
    BY <2>1
  <2> HIDE DEF p
  <2>7. run'[w] = p => Faithful(w)'
    BY <1>2, <2>2, <2>3, <2>4, <2>5 DEF Faithful, MatchesRow
  <2>8. QED
    BY <2>2, <2>6, <2>7, OwnRecordStep
<1>5. CASE SendDue(w)
  <2>1. PICK log \in run[w].queue :
          Go(w, [run[w] EXCEPT !.pc = "deliver", !.queue = @ \ {log},
                               !.mail = log, !.back = "due"])
    BY <1>5 DEF SendDue
  <2> DEFINE p == [run[w] EXCEPT !.pc = "deliver", !.queue = @ \ {log},
                                 !.mail = log, !.back = "due"]
  <2>2. UNCHANGED <<logs, nextLog, acks>>
    BY <1>5 DEF SendDue
  <2>3. p.pc = "deliver" /\ p.mail = log /\ p.queue = run[w].queue \ {log}
    BY <1>1 DEF Process
  <2>4. Go(w, p)
    BY <2>1
  <2> HIDE DEF p
  <2>5. run'[w] = p => Faithful(w)'
    BY <1>2, <2>1, <2>2, <2>3 DEF Faithful, MatchesRow
  <2>6. QED
    BY <2>2, <2>4, <2>5, OwnRecordStep
<1>6. CASE CheckEnd(w)
  <2>1. Go(w, Idle) /\ UNCHANGED <<logs, nextLog, acks>>
    BY <1>6 DEF CheckEnd, End
  <2>2. run'[w] = Idle => Faithful(w)'
    BY DEF Faithful, Idle
  <2>3. QED
    BY <2>1, <2>2, OwnRecordStep
<1>7. QED
  BY <1>3, <1>4, <1>5, <1>6

\* A new delivery confirms its message and takes nothing away.
LEMMA AcknowledgedKeeps ==
  ASSUME TypeOK, RecordInv, NEW w \in Workers,
         NEW heard \in BOOLEAN, acks' = acks \/ acks' = Acknowledged(w, heard)
  PROVE  AcksKept
<1>1. CASE acks' = acks
  BY <1>1 DEF AcksKept
<1>2. CASE acks' = Acknowledged(w, heard)
  <2> DEFINE m == run[w].mail
             d == [slot |-> m.slot, kind |-> m.kind, at |-> run[w].at,
                   back |-> run[w].back, heard |-> heard]
  <2>1. m.item \in ItemIds /\ d \in Delivery /\ acks \in [ItemIds -> Seq(Delivery)]
    BY DEF TypeOK, Process, LogRow, Delivery
  <2>2. acks' = [acks EXCEPT ![m.item] = Append(@, d)]
    BY <1>2 DEF Acknowledged
  <2> HIDE DEF m, d
  <2>3. ASSUME NEW i \in ItemIds, NEW n \in 1 .. Len(acks[i])
        PROVE  n \in 1 .. Len(acks'[i]) /\ acks'[i][n] = acks[i][n]
    <3>1. CASE i = m.item
      <4>1. acks'[i] = Append(acks[i], d) /\ acks[i] \in Seq(Delivery)
        BY <2>1, <2>2, <3>1
      <4>2. QED
        BY <2>1, <2>3, <4>1
    <3>2. CASE i # m.item
      BY <2>1, <2>2, <2>3, <3>2
    <3>3. QED
      BY <3>1, <3>2
  <2>4. QED
    BY <2>3 DEF AcksKept
<1>3. QED
  BY <1>1, <1>2

LEMMA AcknowledgedConfirms ==
  ASSUME TypeOK, NEW w \in Workers
  PROVE  \E n \in 1 .. Len(Acknowledged(w, TRUE)[run[w].mail.item]) :
           /\ Acknowledged(w, TRUE)[run[w].mail.item][n].heard
           /\ Acknowledged(w, TRUE)[run[w].mail.item][n].slot = run[w].mail.slot
           /\ Acknowledged(w, TRUE)[run[w].mail.item][n].kind = run[w].mail.kind
<1> DEFINE m == run[w].mail
           d == [slot |-> m.slot, kind |-> m.kind, at |-> run[w].at,
                 back |-> run[w].back, heard |-> TRUE]
<1>1. m.item \in ItemIds /\ d \in Delivery /\ acks \in [ItemIds -> Seq(Delivery)]
  BY DEF TypeOK, Process, LogRow, Delivery
<1>2. Acknowledged(w, TRUE)[m.item] = Append(acks[m.item], d)
  BY <1>1 DEF Acknowledged
<1>3. d.heard /\ d.slot = m.slot /\ d.kind = m.kind
  OBVIOUS
<1> HIDE DEF m, d
<1>4. /\ Len(acks[m.item]) + 1 \in 1 .. Len(Append(acks[m.item], d))
      /\ Append(acks[m.item], d)[Len(acks[m.item]) + 1] = d
  BY <1>1
<1>5. QED
  BY <1>2, <1>3, <1>4 DEF m

\* A log that matches its row goes on matching it.
LEMMA MatchesStill ==
  ASSUME TypeOK, NEW x, MatchesRow(x),
         nextLog' \in Nat, nextLog <= nextLog', RowsKept
  PROVE  MatchesRow(x)'
<1>1. nextLog \in Nat /\ LogIds \subseteq Nat
  BY RemindersAssumption DEF TypeOK, LogIds
<1>2. x.id \in LogIds /\ x.id < nextLog
  BY DEF MatchesRow
<1>3. x.id < nextLog'
  <2> DEFINE a == x.id
             c == nextLog'
  <2>1. a \in Nat /\ a < nextLog /\ nextLog \in Nat /\ c \in Nat /\ nextLog <= c
    BY <1>1, <1>2
  <2> HIDE DEF a, c
  <2>2. a < c
    BY <2>1
  <2>3. QED
    BY <2>2 DEF a, c
<1>4. logs'[x.id].status # "absent" =>
        /\ logs[x.id].status # "absent"
        /\ logs'[x.id].item = logs[x.id].item
        /\ logs'[x.id].slot = logs[x.id].slot
        /\ logs'[x.id].kind = logs[x.id].kind
  BY <1>2 DEF RowsKept
<1>5. QED
  BY <1>2, <1>3, <1>4 DEF MatchesRow

\* Rows that say sent, and already said so, stay confirmed.
LEMMA StillConfirmed ==
  ASSUME TypeOK, AcksKept, NEW x \in LogRow, Confirmed(x)
  PROVE  Confirmed(x)'
<1>1. x.item \in ItemIds
  BY DEF LogRow
<1>2. QED
  BY <1>1 DEF Confirmed, AcksKept

\* A step of one process that leaves the table alone and may be delivering.
LEMMA DeliveryStep ==
  ASSUME TypeOK, RecordInv, NEW w \in Workers, NEW p, Go(w, p),
         UNCHANGED <<logs, nextLog>>,
         NEW heard \in BOOLEAN, acks' = acks \/ acks' = Acknowledged(w, heard),
         run'[w] = p => Faithful(w)'
  PROVE  RecordInv'
<1>1. AcksKept
  BY AcknowledgedKeeps
<1>2. RowsKept /\ nextLog' \in Nat /\ nextLog <= nextLog'
  <2>1. \A l \in LogIds : logs[l].status = "absent" \/ logs[l].status # "absent"
    OBVIOUS
  <2>2. QED
    BY <2>1 DEF RowsKept, TypeOK
<1>3. TableInPlace'
  BY DEF RecordInv, TableInPlace, KeyRows
<1>4. SentMeansDelivered'
  <2>1. ASSUME NEW l \in LogIds, logs[l].status = "sent"
        PROVE  \E n \in 1 .. Len(acks'[logs[l].item]) :
                 /\ acks'[logs[l].item][n].heard
                 /\ acks'[logs[l].item][n].slot = logs[l].slot
                 /\ acks'[logs[l].item][n].kind = logs[l].kind
    <3>1. logs[l].item \in ItemIds
      BY DEF TypeOK, LogRow
    <3>2. Confirmed(logs[l])
      BY <2>1 DEF RecordInv, SentMeansDelivered
    <3>3. QED
      BY <1>1, <3>1, <3>2 DEF Confirmed, AcksKept
  <2>2. QED
    BY <2>1 DEF SentMeansDelivered, Confirmed
<1>5. ASSUME NEW v \in Workers, v # w
      PROVE  Faithful(v)'
  <2>1. run'[v] = run[v] /\ Faithful(v)
    BY <1>5 DEF TypeOK, Go, RecordInv
  <2>2. run[v].pc = "insert" /\ run[v].mail.kind = "reminder" =>
          KeyRows(run[v].mail.item, run[v].mail.slot)' = {}
    BY <2>1 DEF Faithful, KeyRows
  <2>3. QED
    BY <1>1, <1>2, <2>1, <2>2, StaysFaithful
<1>6. run'[w] = p
  BY DEF TypeOK, Go
<1>7. QED
  BY <1>3, <1>4, <1>5, <1>6 DEF RecordInv

LEMMA InsertRecord ==
  ASSUME OneChecker, TypeOK, RecordInv, NEW w \in Workers, InsertLog(w)
  PROVE  RecordInv'
<1> DEFINE m == run[w].mail
           r == [m EXCEPT !.id = nextLog]
           p == [run[w] EXCEPT !.pc = "deliver", !.mail.id = InsertedId]
<1>1. /\ run[w] \in Process /\ Faithful(w) /\ run[w].pc = "insert"
      /\ logs \in [LogIds -> LogRow] /\ nextLog \in Nat /\ LogIds \subseteq Nat
  BY RemindersAssumption DEF TypeOK, RecordInv, InsertLog, LogIds
<1>2. m \in LogRow /\ m.status = "pending"
  BY <1>1 DEF Process, Faithful
<1>3. /\ r.id = nextLog /\ r.item = m.item /\ r.slot = m.slot
      /\ r.kind = m.kind /\ r.status = "pending"
  BY <1>2 DEF LogRow
<1>4. /\ p.pc = "deliver" /\ p.mail = r /\ p.queue = run[w].queue
  BY <1>1 DEF Process, InsertedId
<1>5. /\ nextLog \in LogIds
      /\ logs' = [logs EXCEPT ![nextLog] = r] /\ nextLog' = nextLog + 1
      /\ acks' = acks /\ run' = [run EXCEPT ![w] = p]
  BY <1>1, RemindersAssumption DEF InsertLog, Go, LogIds, history, TypeOK
<1>6. m.kind = "reminder" => w \in Checkers /\ KeyRows(m.item, m.slot) = {}
  BY <1>1 DEF Faithful
<1>7. logs[nextLog].status = "absent"
  BY <1>1, <1>5 DEF RecordInv, TableInPlace
<1> HIDE DEF m, r, p
<1>8. /\ logs'[nextLog] = r
      /\ \A l \in LogIds : l # nextLog => logs'[l] = logs[l]
  BY <1>1, <1>5
<1>9. \A i, t : KeyRows(i, t)' =
        KeyRows(i, t) \cup (IF m.kind = "reminder" /\ i = m.item /\ t = m.slot
                              THEN {nextLog} ELSE {})
  BY <1>3, <1>5, <1>7, <1>8 DEF KeyRows
<1>10. TableInPlace'
  <2>1. ASSUME NEW l \in LogIds
        PROVE  logs'[l].id = l /\ (l >= nextLog' => logs'[l].status = "absent")
    <3>1. logs[l].id = l /\ (l >= nextLog => logs[l].status = "absent")
      BY DEF RecordInv, TableInPlace
    <3>2. CASE l = nextLog
      BY <1>1, <1>3, <1>5, <1>8, <3>2
    <3>3. CASE l # nextLog
      <4>1. l >= nextLog' => l >= nextLog
        BY <1>1, <1>5
      <4>2. QED
        BY <1>8, <3>1, <3>3, <4>1
    <3>4. QED
      BY <3>2, <3>3
  <2>2. ASSUME NEW l \in LogIds, NEW j \in LogIds,
               logs'[l].status # "absent", logs'[j].status # "absent",
               logs'[l].kind = "reminder", logs'[j].kind = "reminder",
               logs'[l].item = logs'[j].item, logs'[l].slot = logs'[j].slot
        PROVE  l = j
    <3>1. ASSUME NEW k \in LogIds, k # nextLog, logs[k].status # "absent",
                 logs[k].kind = "reminder", m.kind = "reminder"
          PROVE  ~(logs[k].item = m.item /\ logs[k].slot = m.slot)
      BY <1>6, <3>1 DEF KeyRows
    <3>2. CASE l # nextLog /\ j # nextLog
      <4>1. logs'[l] = logs[l] /\ logs'[j] = logs[j]
        BY <1>8, <3>2
      <4>2. l \in KeyRows(logs[l].item, logs[l].slot)
        BY <2>2, <4>1 DEF KeyRows
      <4>3. j \in KeyRows(logs[l].item, logs[l].slot)
        BY <2>2, <4>1 DEF KeyRows
      <4>4. QED
        BY <4>2, <4>3 DEF RecordInv, TableInPlace
    <3>3. CASE l = nextLog /\ j # nextLog
      BY <1>3, <1>8, <2>2, <3>1, <3>3
    <3>4. CASE l # nextLog /\ j = nextLog
      BY <1>3, <1>8, <2>2, <3>1, <3>4
    <3>5. QED
      BY <3>2, <3>3, <3>4
  <2>3. QED
    BY <2>1, <2>2 DEF TableInPlace, KeyRows
<1>11. RowsKept /\ AcksKept /\ nextLog' \in Nat /\ nextLog <= nextLog'
  <2>1. \A l \in LogIds : l < nextLog => logs'[l] = logs[l]
    BY <1>1, <1>8
  <2>2. RowsKept
    BY <2>1 DEF RowsKept
  <2>3. QED
    BY <1>1, <1>5, <2>2 DEF AcksKept
<1>12. SentMeansDelivered'
  BY <1>3, <1>5, <1>8 DEF RecordInv, SentMeansDelivered, Confirmed
<1>13. ASSUME NEW v \in Workers, v # w
       PROVE  Faithful(v)'
  <2>1. run'[v] = run[v] /\ Faithful(v)
    BY <1>5, <1>13 DEF TypeOK, RecordInv
  <2>2. run[v].pc = "insert" /\ run[v].mail.kind = "reminder" =>
          KeyRows(run[v].mail.item, run[v].mail.slot)' = {}
    <3>1. SUFFICES ASSUME run[v].pc = "insert", run[v].mail.kind = "reminder"
                   PROVE  KeyRows(run[v].mail.item, run[v].mail.slot)' = {}
      OBVIOUS
    <3>2. v \in Checkers /\ KeyRows(run[v].mail.item, run[v].mail.slot) = {}
      BY <2>1, <3>1 DEF Faithful
    <3>3. m.kind # "reminder"
      BY <1>6, <1>13, <3>2 DEF OneChecker
    <3>4. QED
      BY <1>9, <2>1, <3>2, <3>3
  <2>3. QED
    BY <1>11, <2>1, <2>2, StaysFaithful
<1>14. Faithful(w)'
  <2>1. run'[w] = p
    BY <1>5 DEF TypeOK
  <2>2. \A x \in run[w].queue : MatchesRow(x)'
    BY <1>1, <1>11, MatchesStill DEF Faithful
  <2>3. /\ run'[w].mail.id \in LogIds /\ run'[w].mail.id < nextLog'
        /\ logs'[run'[w].mail.id] = run'[w].mail
    BY <1>1, <1>3, <1>4, <1>5, <1>8, <2>1
  <2>4. MatchesRow(run[w].mail)'
    BY <2>3 DEF MatchesRow
  <2>5. QED
    BY <1>4, <2>1, <2>2, <2>4 DEF Faithful
<1>15. QED
  BY <1>10, <1>12, <1>13, <1>14 DEF RecordInv

LEMMA RecordRecord ==
  ASSUME TypeOK, RecordInv, NEW w \in Workers, Record(w)
  PROVE  RecordInv'
<1> DEFINE m == run[w].mail
<1>1. /\ run[w] \in Process /\ Faithful(w) /\ run[w].pc = "record"
      /\ logs \in [LogIds -> LogRow] /\ nextLog \in Nat
  BY DEF TypeOK, RecordInv, Record
<1>2. /\ m \in LogRow /\ MatchesRow(m) /\ run[w].back \in {"idle", "scan", "due"}
      /\ m.status = "sent" => Confirmed(m)
  BY <1>1 DEF Process, Faithful
<1>3. logs' = [l \in LogIds |->
                 IF l = m.id /\ logs[l].status # "absent"
                   THEN [logs[l] EXCEPT !.status = m.status,
                                        !.sentAt = m.sentAt,
                                        !.retryAt = m.retryAt]
                   ELSE logs[l]]
  BY DEF Record
<1>4. nextLog' = nextLog /\ acks' = acks
  BY DEF Record, db, history
<1> HIDE DEF m
<1>5. ASSUME NEW l \in LogIds
      PROVE  /\ logs'[l].id = logs[l].id /\ logs'[l].item = logs[l].item
             /\ logs'[l].slot = logs[l].slot /\ logs'[l].kind = logs[l].kind
             /\ \/ logs'[l].status = logs[l].status
                \/ /\ l = m.id /\ logs[l].status # "absent"
                   /\ logs'[l].status = m.status
  <2>1. logs[l] \in LogRow
    BY <1>1
  <2>2. QED
    BY <1>3, <2>1 DEF LogRow
<1>6. \A i, t : KeyRows(i, t)' \subseteq KeyRows(i, t)
  BY <1>5 DEF KeyRows
<1>7. TableInPlace'
  <2>1. ASSUME NEW l \in LogIds
        PROVE  logs'[l].id = l /\ (l >= nextLog' => logs'[l].status = "absent")
    BY <1>4, <1>5 DEF RecordInv, TableInPlace
  <2>2. ASSUME NEW l \in LogIds, NEW j \in LogIds,
               logs'[l].status # "absent", logs'[j].status # "absent",
               logs'[l].kind = "reminder", logs'[j].kind = "reminder",
               logs'[l].item = logs'[j].item, logs'[l].slot = logs'[j].slot
        PROVE  l = j
    <3>1. logs[l].status # "absent" /\ logs[j].status # "absent"
      BY <1>5, <2>2
    <3>2. l \in KeyRows(logs[l].item, logs[l].slot)
      BY <1>5, <2>2, <3>1 DEF KeyRows
    <3>3. j \in KeyRows(logs[l].item, logs[l].slot)
      BY <1>5, <2>2, <3>1 DEF KeyRows
    <3>4. QED
      BY <3>2, <3>3 DEF RecordInv, TableInPlace
  <2>3. QED
    BY <2>1, <2>2 DEF TableInPlace, KeyRows
<1>8. SentMeansDelivered'
  <2>1. ASSUME NEW l \in LogIds, logs'[l].status = "sent"
        PROVE  \E n \in 1 .. Len(acks'[logs'[l].item]) :
                 /\ acks'[logs'[l].item][n].heard
                 /\ acks'[logs'[l].item][n].slot = logs'[l].slot
                 /\ acks'[logs'[l].item][n].kind = logs'[l].kind
    <3>1. CASE logs[l].status = "sent"
      <4>1. Confirmed(logs[l])
        BY <3>1 DEF RecordInv, SentMeansDelivered
      <4>2. QED
        BY <1>4, <1>5, <4>1 DEF Confirmed
    <3>2. CASE logs[l].status # "sent"
      <4>1. l = m.id /\ logs[l].status # "absent" /\ m.status = "sent"
        BY <1>5, <2>1, <3>2
      <4>2. /\ logs[l].item = m.item /\ logs[l].slot = m.slot
            /\ logs[l].kind = m.kind
        BY <1>2, <4>1 DEF MatchesRow
      <4>3. QED
        BY <1>2, <1>4, <1>5, <4>1, <4>2 DEF Confirmed
    <3>3. QED
      BY <3>1, <3>2
  <2>2. QED
    BY <2>1 DEF SentMeansDelivered, Confirmed
<1>9. RowsKept /\ AcksKept /\ nextLog' \in Nat /\ nextLog <= nextLog'
  <2>1. RowsKept
    BY <1>5 DEF RowsKept
  <2>2. AcksKept
    BY <1>4 DEF AcksKept
  <2>3. nextLog' \in Nat /\ nextLog <= nextLog'
    BY <1>1, <1>4
  <2>4. QED
    BY <2>1, <2>2, <2>3
<1>10. ASSUME NEW v \in Workers, v # w
      PROVE  Faithful(v)'
  <2>1. run'[v] = run[v] /\ Faithful(v)
    <3>1. \E p : Go(w, p)
      BY OnwardGoes DEF Record
    <3>2. QED
      BY <1>10, <3>1 DEF TypeOK, RecordInv, Go
  <2>2. run[v].pc = "insert" /\ run[v].mail.kind = "reminder" =>
          KeyRows(run[v].mail.item, run[v].mail.slot)' = {}
    BY <1>6, <2>1 DEF Faithful
  <2>3. QED
    BY <1>9, <2>1, <2>2, StaysFaithful
<1>11. Faithful(w)'
  <2>1. \A x \in run[w].queue : MatchesRow(x)'
    BY <1>1, <1>9, MatchesStill DEF Faithful
  <2>2. /\ run'[w].queue = {} \/ run'[w].queue = run[w].queue
        /\ run'[w].pc \in {"idle", "scan", "due"}
    <3>1. PICK p : Go(w, p) /\ p.pc \in {"idle", "scan", "due"}
                   /\ (p.queue = {} \/ p.queue = run[w].queue)
      BY OnwardGoes DEF Record
    <3>2. QED
      BY <3>1 DEF Go, TypeOK
  <2>3. QED
    BY <2>1, <2>2 DEF Faithful
<1>12. QED
  BY <1>7, <1>8, <1>10, <1>11 DEF RecordInv

LEMMA SendingRecord ==
  ASSUME OneChecker, TypeOK, RecordInv, NEW w \in Checkers \cup Senders, Sending(w)
  PROVE  RecordInv'
<1> USE DEF db, history
<1> DEFINE m == run[w].mail
<1>1. w \in Workers /\ run[w] \in Process /\ m \in LogRow
  BY DEF TypeOK, Workers, Process
<1>2. Faithful(w)
  BY <1>1 DEF RecordInv
<1>3. CASE InsertLog(w)
  BY <1>1, <1>3, InsertRecord
<1>4. CASE InsertIgnored(w)
  BY <1>2, <1>4 DEF InsertIgnored, Faithful
<1>5. CASE DeliverOk(w)
  <2> DEFINE p == [run[w] EXCEPT !.pc = "record",
                     !.mail = [m EXCEPT !.status = "sent", !.sentAt = run[w].at,
                                        !.retryAt = None]]
  <2>1. /\ Go(w, p) /\ UNCHANGED <<logs, nextLog>> /\ acks' = Acknowledged(w, TRUE)
        /\ run[w].pc = "deliver"
    BY <1>5 DEF DeliverOk
  <2>2. /\ p.pc = "record" /\ p.queue = run[w].queue /\ p.mail.id = m.id
        /\ p.mail.item = m.item /\ p.mail.slot = m.slot /\ p.mail.kind = m.kind
    BY <1>1 DEF Process, LogRow
  <2> HIDE DEF p
  <2>3. MatchesRow(m)
    BY <1>2, <2>1 DEF Faithful
  <2>4. \E n \in 1 .. Len(Acknowledged(w, TRUE)[m.item]) :
          /\ Acknowledged(w, TRUE)[m.item][n].heard
          /\ Acknowledged(w, TRUE)[m.item][n].slot = m.slot
          /\ Acknowledged(w, TRUE)[m.item][n].kind = m.kind
    BY <1>1, AcknowledgedConfirms
  <2> HIDE DEF m
  <2>5. run'[w] = p => Faithful(w)'
    <3>1. SUFFICES ASSUME run'[w] = p PROVE Faithful(w)'
      OBVIOUS
    <3>2. \A x \in run'[w].queue : MatchesRow(x)'
      BY <1>2, <2>1, <2>2, <3>1 DEF Faithful, MatchesRow
    <3>3. MatchesRow(run[w].mail)'
      BY <2>1, <2>2, <2>3, <3>1 DEF MatchesRow
    <3>4. Confirmed(run[w].mail)'
      BY <2>1, <2>2, <2>4, <3>1 DEF Confirmed
    <3>5. QED
      BY <2>2, <3>1, <3>2, <3>3, <3>4 DEF Faithful
  <2>6. QED
    BY <1>1, <2>1, <2>5, DeliveryStep
<1>6. CASE DeliverFail(w)
  <2> DEFINE p == [run[w] EXCEPT !.pc = "record",
                     !.mail = [m EXCEPT !.status = "failed",
                                        !.retryAt = run[w].at + HalfHour]]
  <2>1. /\ Go(w, p) /\ UNCHANGED <<logs, nextLog>> /\ run[w].pc = "deliver"
        /\ acks' = acks \/ acks' = Acknowledged(w, FALSE)
    BY <1>6 DEF DeliverFail
  <2>2. /\ p.pc = "record" /\ p.queue = run[w].queue /\ p.mail.id = m.id
        /\ p.mail.item = m.item /\ p.mail.slot = m.slot /\ p.mail.kind = m.kind
        /\ p.mail.status = "failed"
    BY <1>1 DEF Process, LogRow
  <2> HIDE DEF p
  <2>3. MatchesRow(m)
    BY <1>2, <2>1 DEF Faithful
  <2> HIDE DEF m
  <2>4. run'[w] = p => Faithful(w)'
    BY <1>2, <2>1, <2>2, <2>3 DEF Faithful, MatchesRow
  <2>5. QED
    BY <1>1, <2>1, <2>4, DeliveryStep
<1>7. CASE Record(w)
  BY <1>1, <1>7, RecordRecord
<1>8. QED
  BY <1>3, <1>4, <1>5, <1>6, <1>7 DEF Sending

\* A step in which every process rests or ends, and neither logs nor acks change.
LEMMA RestingRecord ==
  ASSUME TypeOK, RecordInv, UNCHANGED <<logs, nextLog, acks>>,
         run' = run \/ run' = [w \in Workers |-> Idle]
  PROVE  RecordInv'
<1>1. ASSUME NEW w \in Workers
      PROVE  Faithful(w)'
  <2>1. Faithful(w)
    BY DEF RecordInv
  <2>2. CASE run' = run
    <3>1. run[w].pc = "insert" /\ run[w].mail.kind = "reminder" =>
            KeyRows(run[w].mail.item, run[w].mail.slot)' = {}
      BY <2>1, <2>2 DEF Faithful, KeyRows
    <3>2. QED
      BY <2>1, <2>2, <3>1, SameTables, StaysFaithful
  <2>3. CASE run' = [v \in Workers |-> Idle]
    BY <2>3 DEF Faithful, Idle
  <2>4. QED
    BY <2>2, <2>3
<1>2. QED
  BY <1>1, SameTables DEF RecordInv

\* A step that only removes rows, in which every process rests or ends.
LEMMA RemovalRecord ==
  ASSUME TypeOK, RecordInv, UNCHANGED <<nextLog, acks>>,
         \A l \in LogIds : \/ logs'[l] = logs[l]
                           \/ logs'[l].id = l /\ logs'[l].status = "absent",
         \A v \in Workers : run'[v] = run[v] \/ run'[v] = Idle
  PROVE  RecordInv'
<1>2. nextLog' = nextLog /\ acks' = acks /\ nextLog \in Nat
  BY DEF TypeOK
<1>3. ASSUME NEW l \in LogIds
      PROVE  \/ logs'[l] = logs[l]
             \/ logs'[l].id = l /\ logs'[l].status = "absent"
  OBVIOUS
<1>4. \A j, t : KeyRows(j, t)' \subseteq KeyRows(j, t)
  BY <1>3 DEF KeyRows
<1>5. TableInPlace'
  <2>1. ASSUME NEW l \in LogIds
        PROVE  logs'[l].id = l /\ (l >= nextLog' => logs'[l].status = "absent")
    BY <1>2, <1>3 DEF RecordInv, TableInPlace
  <2>2. ASSUME NEW l \in LogIds, NEW j \in LogIds,
               logs'[l].status # "absent", logs'[j].status # "absent",
               logs'[l].kind = "reminder", logs'[j].kind = "reminder",
               logs'[l].item = logs'[j].item, logs'[l].slot = logs'[j].slot
        PROVE  l = j
    <3>1. logs'[l] = logs[l] /\ logs'[j] = logs[j]
      BY <1>3, <2>2
    <3>2. l \in KeyRows(logs[l].item, logs[l].slot)
      BY <2>2, <3>1 DEF KeyRows
    <3>3. j \in KeyRows(logs[l].item, logs[l].slot)
      BY <2>2, <3>1 DEF KeyRows
    <3>4. QED
      BY <3>2, <3>3 DEF RecordInv, TableInPlace
  <2>3. QED
    BY <2>1, <2>2 DEF TableInPlace, KeyRows
<1>6. SentMeansDelivered'
  BY <1>2, <1>3 DEF RecordInv, SentMeansDelivered, Confirmed
<1>7. RowsKept /\ AcksKept
  BY <1>2, <1>3 DEF RowsKept, AcksKept
<1>8. ASSUME NEW v \in Workers
      PROVE  Faithful(v)'
  <2>1. CASE run'[v] = run[v]
    <3>1. Faithful(v)
      BY DEF RecordInv
    <3>2. run[v].pc = "insert" /\ run[v].mail.kind = "reminder" =>
            KeyRows(run[v].mail.item, run[v].mail.slot)' = {}
      BY <1>4, <2>1, <3>1 DEF Faithful
    <3>3. QED
      BY <1>2, <1>7, <2>1, <3>1, <3>2, StaysFaithful
  <2>2. CASE run'[v] = Idle
    BY <2>2 DEF Faithful, Idle
  <2>3. QED
    BY <2>1, <2>2
<1>9. QED
  BY <1>5, <1>6, <1>8 DEF RecordInv

LEMMA DeleteRecord ==
  ASSUME TypeOK, RecordInv, NEW i \in ItemIds, DeleteItem(i)
  PROVE  RecordInv'
<1>1. /\ logs' = [l \in LogIds |-> IF logs[l].item = i THEN NoLog(l) ELSE logs[l]]
      /\ run' = run /\ UNCHANGED <<nextLog, acks>>
  BY DEF DeleteItem
<1>2. \A l \in LogIds : \/ logs'[l] = logs[l]
                        \/ logs'[l].id = l /\ logs'[l].status = "absent"
  BY <1>1 DEF NoLog, NewLog
<1>3. QED
  BY <1>1, <1>2, RemovalRecord

\* A merge writes an item, then withdraws the unsent rows of that item.
LEMMA MergeRecord ==
  ASSUME TypeOK, RecordInv, NEW c \in Editors,
         \/ \E i \in ItemIds : \E d \in Deadlines \cup {None} : \E link \in BOOLEAN :
              MergeRead(c, i, d, link)
         \/ MergeWrite(c) \/ DropUnsent(c)
  PROVE  RecordInv'
<1> c \in Workers /\ run \in [Workers -> Process]
  BY DEF Workers, TypeOK
<1>1. ASSUME NEW p, Go(c, p), p.pc \in {"edit", "merge", "unsent"}, p.queue = {},
             UNCHANGED <<logs, nextLog, acks>>
      PROVE  RecordInv'
  <2>1. run'[c] = p => Faithful(c)'
    BY <1>1 DEF Faithful
  <2>2. QED
    BY <1>1, <2>1, OwnRecordStep
<1>2. ASSUME NEW i \in ItemIds, NEW d \in Deadlines \cup {None}, NEW link \in BOOLEAN,
             MergeRead(c, i, d, link)
      PROVE  RecordInv'
  <2> DEFINE row == IF d = None THEN items[i]
                    ELSE [items[i] EXCEPT
                            !.deadline = d,
                            !.policy = DecideRemindPolicy(d, link, now)]
             p == [Idle EXCEPT !.pc = IF d = items[i].deadline THEN "edit" ELSE "merge",
                               !.held = {row}]
  <2>1. Go(c, p) /\ UNCHANGED <<logs, nextLog, acks>>
    BY <1>2 DEF MergeRead, db, history
  <2>2. p.pc \in {"edit", "merge"} /\ p.queue = {}
    BY DEF Idle
  <2> HIDE DEF p
  <2>3. QED
    BY <1>1, <2>1, <2>2
<1>3. ASSUME MergeWrite(c)
      PROVE  RecordInv'
  <2>1. PICK i : Go(c, [Idle EXCEPT !.pc = "unsent", !.cur = i])
    BY <1>3 DEF MergeWrite
  <2> DEFINE p == [Idle EXCEPT !.pc = "unsent", !.cur = i]
  <2>2. p.pc = "unsent" /\ p.queue = {} /\ Go(c, p)
    BY <2>1 DEF Idle
  <2>3. UNCHANGED <<logs, nextLog, acks>>
    BY <1>3 DEF MergeWrite
  <2> HIDE DEF p
  <2>4. QED
    BY <1>1, <2>2, <2>3
<1>4. ASSUME DropUnsent(c)
      PROVE  RecordInv'
  <2>1. \A l \in LogIds : \/ logs'[l] = logs[l]
                          \/ logs'[l].id = l /\ logs'[l].status = "absent"
    BY <1>4 DEF DropUnsent, NoLog, NewLog
  <2>2. \A v \in Workers : run'[v] = run[v] \/ run'[v] = Idle
    BY <1>4 DEF DropUnsent, Go
  <2>3. UNCHANGED <<nextLog, acks>>
    BY <1>4 DEF DropUnsent, history
  <2>4. QED
    BY <2>1, <2>2, <2>3, RemovalRecord
<1>5. QED
  BY <1>2, <1>3, <1>4

LEMMA RequestRecord ==
  ASSUME TypeOK, RecordInv,
         \/ OneCall
         \/ \E c \in Senders : \E i \in ItemIds : RemindNow(c, i)
         \/ \E c \in Editors : Edit(c)
  PROVE  RecordInv'
<1> USE DEF db, history
<1>1. ASSUME NEW d \in Deadlines, CreateItem(d)
      PROVE  RecordInv'
  <2>1. UNCHANGED <<logs, nextLog, acks, run>>
    BY <1>1 DEF CreateItem
  <2>2. QED
    BY <2>1, RestingRecord
<1>2. ASSUME NEW i \in ItemIds, NEW s \in {"active", "completed", "silent"},
             SetItemStatus(i, s)
      PROVE  RecordInv'
  <2>1. UNCHANGED <<logs, nextLog, acks, run>>
    BY <1>2 DEF SetItemStatus
  <2>2. QED
    BY <2>1, RestingRecord
<1>3. ASSUME NEW c \in Senders, NEW i \in ItemIds, RemindNow(c, i)
      PROVE  RecordInv'
  <2> DEFINE p == [Idle EXCEPT !.pc = "insert", !.at = now,
                               !.mail = NewLog(i, now, "manual")]
  <2>1. Go(c, p) /\ UNCHANGED <<logs, nextLog, acks>> /\ c \in Workers
    BY <1>3 DEF RemindNow, Workers
  <2>2. /\ p.pc = "insert" /\ p.queue = {} /\ p.mail.status = "pending"
        /\ p.mail.kind = "manual"
    BY DEF Idle, NewLog
  <2> HIDE DEF p
  <2>3. run'[c] = p => Faithful(c)'
    BY <2>2 DEF Faithful
  <2>4. QED
    BY <2>1, <2>3, OwnRecordStep
<1>4. ASSUME NEW c \in Editors, NEW i \in ItemIds, NEW d \in Deadlines,
             EditRead(c, i, d)
      PROVE  RecordInv'
  <2> DEFINE p == [Idle EXCEPT !.pc = "edit",
                     !.held = {[items[i] EXCEPT
                                  !.deadline = d,
                                  !.policy = DecideRemindPolicy(d, FALSE, now)]}]
  <2>1. Go(c, p) /\ UNCHANGED <<logs, nextLog, acks>> /\ c \in Workers
    BY <1>4 DEF EditRead, Workers
  <2>2. p.pc = "edit" /\ p.queue = {}
    BY DEF Idle
  <2> HIDE DEF p
  <2>3. run'[c] = p => Faithful(c)'
    BY <2>2 DEF Faithful
  <2>4. QED
    BY <2>1, <2>3, OwnRecordStep
<1>5. ASSUME NEW c \in Editors, EditWrite(c)
      PROVE  RecordInv'
  <2>1. Go(c, Idle) /\ UNCHANGED <<logs, nextLog, acks>> /\ c \in Workers
    BY <1>5 DEF EditWrite, Workers
  <2>2. run'[c] = Idle => Faithful(c)'
    BY DEF Faithful, Idle
  <2>3. QED
    BY <2>1, <2>2, OwnRecordStep
<1>6. QED
  BY <1>1, <1>2, <1>3, <1>4, <1>5, DeleteRecord, MergeRecord DEF OneCall, Edit, Commit

LEMMA EnvironmentRecord ==
  ASSUME TypeOK, RecordInv,
         Tick \/ Crash \/ \E w \in Checkers \cup Senders : Abandon(w) \/ RecordFails(w)
  PROVE  RecordInv'
<1> USE DEF db, history
<1>1. CASE Tick
  <2>1. UNCHANGED <<logs, nextLog, acks, run>>
    BY <1>1 DEF Tick
  <2>2. QED
    BY <2>1, RestingRecord
<1>2. CASE Crash
  <2>1. UNCHANGED <<logs, nextLog, acks>> /\ run' = [w \in Workers |-> Idle]
    BY <1>2 DEF Crash
  <2>2. QED
    BY <2>1, RestingRecord
<1>3. ASSUME NEW w \in Checkers \cup Senders, Abandon(w)
      PROVE  RecordInv'
  <2>1. /\ w \in Workers /\ Go(w, Idle) /\ UNCHANGED <<logs, nextLog>>
        /\ acks' = acks \/ acks' = Acknowledged(w, TRUE)
    BY <1>3 DEF Abandon, End, Workers
  <2>2. run'[w] = Idle => Faithful(w)'
    BY DEF Faithful, Idle
  <2>3. QED
    BY <2>1, <2>2, DeliveryStep
<1>4. ASSUME NEW w \in Checkers \cup Senders, RecordFails(w)
      PROVE  RecordInv'
  <2>1. /\ w \in Workers /\ UNCHANGED <<logs, nextLog, acks>>
        /\ Onward(w) \/ End(w)
    BY <1>4 DEF RecordFails, Workers
  <2>2. PICK p : Go(w, p) /\ p.pc \in {"idle", "scan", "due"}
                 /\ (p.queue = {} \/ p.queue = run[w].queue)
    BY <2>1, OnwardGoes
  <2>3. Faithful(w)
    BY <2>1 DEF RecordInv
  <2>4. run'[w] = p => Faithful(w)'
    BY <2>1, <2>2, <2>3 DEF Faithful, MatchesRow
  <2>5. QED
    BY <2>1, <2>2, <2>4, OwnRecordStep
<1>5. QED
  BY <1>1, <1>2, <1>3, <1>4

LEMMA NextRecord ==
  ASSUME OneChecker, TypeOK, RecordInv, [Next]_vars
  PROVE  RecordInv'
<1>1. CASE UNCHANGED vars
  <2>1. UNCHANGED <<logs, nextLog, acks, run>>
    BY <1>1 DEF vars, db, history
  <2>2. QED
    BY <2>1, RestingRecord
<1>2. ASSUME NEW w \in Checkers, RunCheck(w)
      PROVE  RecordInv'
  <2>1. w \in Workers /\ w \in Checkers \cup Senders
    BY <1>2 DEF Workers
  <2>2. QED
    BY <1>2, <2>1, CheckRecord, DueRecord, SendingRecord DEF RunCheck
<1>3. ASSUME NEW c \in Senders, Send(c)
      PROVE  RecordInv'
  BY <1>3, SendingRecord, RequestRecord DEF Send
<1>4. QED
  BY <1>1, <1>2, <1>3, RequestRecord, EnvironmentRecord DEF Next

LEMMA RecordAlways ==
  ASSUME OneChecker
  PROVE  Spec => []RecordInv
<1>1. Init => RecordInv
  BY InitRecord
<1>2. TypeOK /\ RecordInv /\ [Next]_vars => RecordInv'
  BY NextRecord
<1>3. QED
  BY <1>1, <1>2, TypeCorrect, PTL DEF Spec

\* With one task at a time in run_check, whatever log a process sends and
\* records is the row of that item and slot, or that row is gone.
THEOREM OwnRowRecorded ==
  ASSUME OneChecker
  PROVE  Spec => []HoldsItsOwnRow
<1>1. RecordInv => HoldsItsOwnRow
  BY DEF RecordInv, Faithful, HoldsItsOwnRow
<1>2. QED
  BY <1>1, RecordAlways, PTL

\* With one task at a time in run_check, a row that says sent was accepted by
\* SMTP for that very item and slot, in spite of crashes, dropped requests and
\* any number of manual reminders in between.
THEOREM SentWasDelivered ==
  ASSUME OneChecker
  PROVE  Spec => []SentMeansDelivered
<1>1. RecordInv => SentMeansDelivered
  BY DEF RecordInv
<1>2. QED
  BY <1>1, RecordAlways, PTL
=============================================================================
