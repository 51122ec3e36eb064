----------------------------- MODULE Reminders -----------------------------
(***************************************************************************)
(* The reminder engine: checker.rs (run_check), the sending half of         *)
(* notifier.rs, the items and send_log tables of db.rs, and the API         *)
(* handlers of api.rs that change items or send a reminder by hand.         *)
(*                                                                          *)
(* Db takes its one lock for the duration of a single method, so an action  *)
(* here is one Db call together with the local computation that follows it; *)
(* everything else interleaves: the scheduler, the poll loop and            *)
(* POST /checker/run each run run_check (Checkers), API requests that make  *)
(* several Db calls are processes too (Senders for remind_now, Editors for  *)
(* update_item and for the pipeline's merge of a new mail into an item),    *)
(* and requests that are one Db call in effect are single actions.          *)
(*                                                                          *)
(*   now        wall clock                                                  *)
(*   items      todo.db items, by id                                        *)
(*   nextItem   AUTOINCREMENT counter of items                              *)
(*   logs       todo.db send_log, by id                                     *)
(*   nextLog    AUTOINCREMENT counter of send_log                           *)
(*   lastRowid  sqlite3_last_insert_rowid() of the todo.db connection       *)
(*   run        the local state of every process                            *)
(*   ops        API requests so far      (bounds the model)                 *)
(*   interrupts process crashes, abandoned requests and records that could  *)
(*              not be written so far    (bounds the model)                 *)
(*   acks       history: the deliveries SMTP accepted, per item, the ones   *)
(*              whose answer was lost included                              *)
(*   quiet      history: per process, the items that have been at rest      *)
(*              (completed, silent or expired) ever since its run began     *)
(*   failedAt   history: per log row, the start of the run that failed last  *)
(***************************************************************************)
EXTENDS ReminderPlan, Sequences, FiniteSets

CONSTANTS
  Checkers,     \* tasks that may be inside run_check at the same time
  Senders,      \* remind_now requests that may be in progress together
  Editors,      \* tasks that write back an item they read before
  Mergers,      \* those of them that are merges; the others are update_item
  HalfHour,     \* retry delay and minimum gap: both 30 minutes in the code
  DueLimit,     \* LIMIT of logs_due (100 in the code)
  Deadlines,    \* deadlines a user may give; may contain None
  PromptRuns,   \* TRUE: no run or request is in progress across a clock unit
  MaxItems, MaxLogs, MaxNow, MaxOps, MaxInterrupts,    \* bounds of the model
  MaxLost       \* bound of the answers lost, per item

Workers == Checkers \cup Senders \cup Editors
ItemIds == 1 .. MaxItems
LogIds  == 1 .. MaxLogs

ASSUME RemindersAssumption ==
  /\ HalfHour \in Nat \ {0}
  /\ DueLimit \in Nat \ {0}
  /\ Deadlines \subseteq Int \cup {None}
  /\ Checkers \cap Senders = {} /\ Checkers \cap Editors = {}
  /\ Senders \cap Editors = {} /\ Mergers \subseteq Editors
  /\ PromptRuns \in BOOLEAN
  /\ MaxItems \in Nat \ {0} /\ MaxLogs \in Nat /\ MaxNow \in Nat
  /\ MaxOps \in Nat /\ MaxInterrupts \in Nat /\ MaxLost \in Nat

VARIABLES now, items, nextItem, logs, nextLog, lastRowid, run, ops, interrupts,
          acks, quiet, failedAt

db      == <<items, nextItem, logs, nextLog, lastRowid>>
history == <<acks, quiet, failedAt>>
vars    == <<now, db, run, ops, interrupts, history>>

-----------------------------------------------------------------------------
Resting == {"completed", "silent", "expired"}
OptTime == Int \cup {None}

ItemRow ==
  [id : ItemIds, status : {"absent", "active"} \cup Resting,
   deadline : OptTime, policy : Policies, created : Int]

NoItem(i) == [id |-> i, status |-> "absent", deadline |-> None,
              policy |-> "normal", created |-> 0]

LogRow ==
  [id : Nat, item : ItemIds, slot : Int, kind : {"reminder", "manual"},
   status : {"absent", "pending", "sent", "failed"},
   sentAt : OptTime, retryAt : OptTime]

\* A log not yet inserted (id 0), as built by ensure_reminder_log, remind_now.
NewLog(i, slot, kind) ==
  [id |-> 0, item |-> i, slot |-> slot, kind |-> kind, status |-> "pending",
   sentAt |-> None, retryAt |-> None]

NoLog(l) == [NewLog(1, 0, "reminder") EXCEPT !.id = l, !.status = "absent"]

(***************************************************************************)
(* A process: where it is, the `now` it read when it began, the item rows   *)
(* of its last listing still to visit, the item it is at with that item's   *)
(* due slots still to handle, whether the item was reminded less than half  *)
(* an hour ago, the due logs still to handle, the log in its hand and the   *)
(* place to return to once that log is sent and recorded.                   *)
(***************************************************************************)
Process ==
  [pc : {"idle", "expire", "snapshot", "scan", "insert", "deliver", "record",
         "due", "edit", "merge", "unsent"},
   at : Int, held : SUBSET ItemRow, cur : ItemIds, slots : SUBSET Int,
   recent : BOOLEAN, queue : SUBSET LogRow, mail : LogRow,
   back : {"idle", "scan", "due"}]

Idle ==
  [pc |-> "idle", at |-> 0, held |-> {}, cur |-> 1,
   slots |-> {}, recent |-> FALSE, queue |-> {},
   mail |-> NewLog(1, 0, "reminder"),
   back |-> "idle"]

\* heard: SMTP's answer reached the thread that sent the message.
Delivery == [slot : Int, kind : {"reminder", "manual"}, at : Int,
             back : {"idle", "scan", "due"}, heard : BOOLEAN]

-----------------------------------------------------------------------------
Init ==
  /\ now = 0
  /\ items = [i \in ItemIds |-> NoItem(i)] /\ nextItem = 1
  /\ logs = [l \in LogIds |-> NoLog(l)]    /\ nextLog = 1
  /\ lastRowid = 0
  /\ run = [w \in Workers |-> Idle]
  /\ ops = 0 /\ interrupts = 0
  /\ acks = [i \in ItemIds |-> <<>>]
  /\ quiet = [w \in Workers |-> {}]
  /\ failedAt = [l \in LogIds |-> None]

Exists(i)  == items[i].status # "absent"
\* Mutant of ActiveRows: the listing forgets its status filter.
RowsOfAnyStatus == {items[i] : i \in {j \in ItemIds : Exists(j)}}

ActiveRows == {items[i] : i \in {j \in ItemIds : items[j].status = "active"}}

\* The parsed deadline lies before t.
Overdue(row, t) == row.deadline # None /\ row.deadline < t

\* Mutant of DueSlots: a slot counts only at its own instant.
SlotsOfTheInstant(row, t) == {u \in ReminderTimes(row) : u = t}

\* The slots of an item that are not in the future at t.
DueSlots(row, t) == {u \in ReminderTimes(row) : u <= t}

\* Mutant of KeyRows: rows already sent are not found.
UnsentKeyRows(i, slot) ==
  {l \in LogIds : /\ logs[l].status \in {"pending", "failed"}
                  /\ logs[l].kind = "reminder"
                  /\ logs[l].item = i /\ logs[l].slot = slot}

\* idx_sendlog_item_sched.  A manual log is scheduled at the wall clock's
\* nanosecond and so never meets another row.
KeyRows(i, slot) ==
  {l \in LogIds : /\ logs[l].status # "absent" /\ logs[l].kind = "reminder"
                  /\ logs[l].item = i /\ logs[l].slot = slot}

\* Mutants of IsDue: rows without a retry time are due whatever their status;
\* a failed row is due at once.
IsDueIfNotDelayed(log) ==
  log.status # "absent" /\ (log.retryAt = None \/ log.retryAt <= now)
IsDueAtOnce(log) == log.status \in {"pending", "failed"}

\* logs_due: what the query selects ...
IsDue(log) ==
  \/ log.status = "pending"
  \/ log.status = "failed" /\ log.retryAt # None /\ log.retryAt <= now

\* Mutant of LogsDue: logs made by hand are not listed.
ScheduledLogsDue ==
  {logs[l] : l \in {k \in LogIds : IsDue(logs[k]) /\ logs[k].kind = "reminder"}}

\* ... and the DueLimit rows of smallest id.
LogsDue ==
  LET due == {l \in LogIds : IsDue(logs[l])}
  IN  {logs[l] : l \in {k \in due :
                          Cardinality({j \in due : j < k}) < DueLimit}}

\* Mutant of RecentlySent: the gap counted from the slot, not the sending.
SlotIsRecent(i, t) ==
  \E l \in LogIds : /\ logs[l].status = "sent" /\ logs[l].item = i
                    /\ t - logs[l].slot < HalfHour

\* The item was reminded successfully less than 30 minutes before t.
RecentlySent(i, t) ==
  \E l \in LogIds : /\ logs[l].status = "sent" /\ logs[l].item = i
                    /\ t - logs[l].sentAt < HalfHour

Go(w, p) == run' = [run EXCEPT ![w] = p]

\* The process is done and its local state is gone.
End(w) == Go(w, Idle) /\ quiet' = [quiet EXCEPT ![w] = {}]

StillQuiet ==
  quiet' = [w \in Workers |-> {i \in quiet[w] : items'[i].status \in Resting}]

-----------------------------------------------------------------------------
(* run_check *)

\* `now` is read once; mark_expired lists the active items.
CheckBegin(w) ==
  /\ run[w].pc = "idle"
  /\ Go(w, [Idle EXCEPT !.pc = "expire", !.at = now,
                        !.held = {r \in ActiveRows : Overdue(r, now)}])
  /\ quiet' = [quiet EXCEPT ![w] = {i \in ItemIds : items[i].status \in Resting}]
  /\ UNCHANGED <<now, db, ops, interrupts, acks, failedAt>>

\* mark_expired updates, by id alone, the rows it listed.
CheckExpire(w) ==
  /\ run[w].pc = "expire"
  /\ items' = [i \in ItemIds |->
                 IF Exists(i) /\ (\E r \in run[w].held : r.id = i)
                   THEN [items[i] EXCEPT !.status = "expired"]
                   ELSE items[i]]
  /\ Go(w, [run[w] EXCEPT !.pc = "snapshot", !.held = {}])
  /\ UNCHANGED <<now, nextItem, logs, nextLog, lastRowid, ops, interrupts, history>>

\* Items without a deadline or past it are skipped.
CheckSnapshot(w) ==
  /\ run[w].pc = "snapshot"
  /\ Go(w, [run[w] EXCEPT !.pc = "scan",
              !.held = {r \in ActiveRows : /\ r.deadline # None
                                           /\ ~Overdue(r, run[w].at)}])
  /\ UNCHANGED <<now, db, ops, interrupts, history>>

\* The next item of the listing; its order, by the time its e-mail was
\* received, is arbitrary here.  Slots still in the future are skipped.
OpenItem(w) ==
  /\ run[w].pc = "scan" /\ run[w].slots = {}
  /\ \E r \in run[w].held :
       Go(w, [run[w] EXCEPT
                !.held = @ \ {r}, !.cur = r.id,
                !.slots = DueSlots(r, run[w].at),
                !.recent = RecentlySent(r.id, run[w].at)])
  /\ UNCHANGED <<now, db, ops, interrupts, history>>

\* The earliest due slot of the current item that is still to be handled.
IsNextSlot(w, t) ==
  /\ run[w].pc = "scan" /\ t \in run[w].slots
  /\ \A u \in run[w].slots : t <= u

\* Sent already, or failed and not yet up for another attempt.
Settled(log, t) ==
  \/ log.status = "sent"
  \/ log.status = "failed" /\ log.retryAt # None /\ log.retryAt > t

SkipSlot(w) ==
  /\ \E t \in run[w].slots :
       /\ IsNextSlot(w, t)
       /\ \/ run[w].recent
          \/ \E l \in KeyRows(run[w].cur, t) : Settled(logs[l], run[w].at)
       /\ Go(w, [run[w] EXCEPT !.slots = @ \ {t}])
  /\ UNCHANGED <<now, db, ops, interrupts, history>>

\* ensure_reminder_log found the row: it is sent (again).
ResendSlot(w) ==
  /\ \E t \in run[w].slots :
       /\ IsNextSlot(w, t)
       /\ ~run[w].recent
       /\ \E l \in KeyRows(run[w].cur, t) :
            /\ ~Settled(logs[l], run[w].at)
            /\ Go(w, [run[w] EXCEPT !.pc = "deliver", !.slots = @ \ {t},
                                    !.mail = logs[l], !.back = "scan"])
  /\ UNCHANGED <<now, db, ops, interrupts, history>>

\* ensure_reminder_log found no row: one is to be inserted.
MissingSlot(w) ==
  /\ \E t \in run[w].slots :
       /\ IsNextSlot(w, t)
       /\ ~run[w].recent
       /\ KeyRows(run[w].cur, t) = {}
       /\ Go(w, [run[w] EXCEPT !.pc = "insert", !.slots = @ \ {t},
                               !.mail = NewLog(run[w].cur, t, "reminder"),
                               !.back = "scan"])
  /\ UNCHANGED <<now, db, ops, interrupts, history>>

\* logs_due is read once all items of the snapshot are done.  It reads the
\* wall clock itself.
ListDue(w) ==
  /\ run[w].pc = "scan" /\ run[w].slots = {} /\ run[w].held = {}
  /\ Go(w, [Idle EXCEPT !.pc = "due", !.at = run[w].at, !.queue = LogsDue])
  /\ UNCHANGED <<now, db, ops, interrupts, history>>

IsNextDue(w, log) ==
  /\ run[w].pc = "due" /\ log \in run[w].queue
  /\ \A k \in run[w].queue : log.id <= k.id

\* Mutant of Cancelled: an item at rest does not cancel the log.
OnlyOverdueCancels(log, t) == Exists(log.item) /\ Overdue(items[log.item], t)

\* The item of a due log is read again; a deleted item does not count.
Cancelled(log, t) ==
  /\ Exists(log.item)
  /\ items[log.item].status # "active" \/ Overdue(items[log.item], t)

\* Mutant of Dropped: a cancelled log is closed as if it were done.
ClosedAsSent(log) == [log EXCEPT !.status = "sent"]

\* A cancelled log becomes failed; its next_retry_at stays as it is.
Dropped(log) == [log EXCEPT !.status = "failed"]

CancelDue(w) ==
  /\ \E log \in run[w].queue :
       /\ IsNextDue(w, log)
       /\ Cancelled(log, run[w].at)
       /\ Go(w, [run[w] EXCEPT !.pc = "record", !.queue = @ \ {log},
                               !.mail = Dropped(log),
                               !.back = "due"])
  /\ UNCHANGED <<now, db, ops, interrupts, history>>

SendDue(w) ==
  /\ \E log \in run[w].queue :
       /\ IsNextDue(w, log)
       /\ ~Cancelled(log, run[w].at)
       /\ Go(w, [run[w] EXCEPT !.pc = "deliver", !.queue = @ \ {log},
                               !.mail = log, !.back = "due"])
  /\ UNCHANGED <<now, db, ops, interrupts, history>>

CheckEnd(w) ==
  /\ run[w].pc = "due" /\ run[w].queue = {}
  /\ End(w)
  /\ UNCHANGED <<now, db, ops, interrupts, acks, failedAt>>

-----------------------------------------------------------------------------
(* insert_send_log and send_log, shared by run_check and remind_now *)

\* Mutant of InsertedId: last_insert_rowid() is asked before the insert.
IdBeforeInsert == lastRowid

\* The id insert_send_log returns when it has inserted the row.
InsertedId == nextLog

InsertLog(w) ==
  /\ run[w].pc = "insert"
  /\ \/ run[w].mail.kind = "manual"
     \/ KeyRows(run[w].mail.item, run[w].mail.slot) = {}
  /\ nextLog <= MaxLogs
  /\ logs' = [logs EXCEPT ![nextLog] = [run[w].mail EXCEPT !.id = nextLog]]
  /\ nextLog' = nextLog + 1
  /\ lastRowid' = nextLog
  /\ Go(w, [run[w] EXCEPT !.pc = "deliver", !.mail.id = InsertedId])
  /\ UNCHANGED <<now, items, nextItem, ops, interrupts, history>>

\* INSERT OR IGNORE meets a row of the same key: nothing is inserted, and
\* last_insert_rowid() is that of the connection's latest insert, whatever
\* its table.
InsertIgnored(w) ==
  /\ run[w].pc = "insert"
  /\ run[w].mail.kind = "reminder"
  /\ KeyRows(run[w].mail.item, run[w].mail.slot) # {}
  /\ Go(w, [run[w] EXCEPT !.pc = "deliver", !.mail.id = lastRowid])
  /\ UNCHANGED <<now, db, ops, interrupts, history>>

\* acks once the message in the process's hand has been accepted.
Acknowledged(w, heard) ==
  LET m == run[w].mail IN
  [acks EXCEPT ![m.item] =
     Append(@, [slot |-> m.slot, kind |-> m.kind, at |-> run[w].at,
                back |-> run[w].back, heard |-> heard])]

\* Another answer may be lost.
MayBeLost(i) ==
  Cardinality({n \in 1 .. Len(acks[i]) : ~acks[i][n].heard}) < MaxLost

\* SMTP accepted the message and said so.
DeliverOk(w) ==
  LET m == run[w].mail IN
  /\ run[w].pc = "deliver"
  /\ Go(w, [run[w] EXCEPT !.pc = "record",
              !.mail = [m EXCEPT !.status = "sent", !.sentAt = run[w].at,
                                 !.retryAt = None]])
  /\ acks' = Acknowledged(w, TRUE)
  /\ UNCHANGED <<now, db, ops, interrupts, quiet, failedAt>>

\* SMTP refused it, or accepted it and the answer was lost: the log is failed
\* either way.
DeliverFail(w) ==
  LET m == run[w].mail IN
  /\ run[w].pc = "deliver"
  /\ Go(w, [run[w] EXCEPT !.pc = "record",
              !.mail = [m EXCEPT !.status = "failed",
                                 !.retryAt = run[w].at + HalfHour]])
  /\ \/ acks' = acks
     \/ MayBeLost(m.item) /\ acks' = Acknowledged(w, FALSE)
  /\ failedAt' = [l \in LogIds |-> IF l = m.id THEN run[w].at ELSE failedAt[l]]
  /\ UNCHANGED <<now, db, ops, interrupts, quiet>>

\* The log in hand is done with.
Onward(w) ==
  IF run[w].back = "idle"
    THEN End(w)
    ELSE /\ Go(w, [run[w] EXCEPT !.pc = run[w].back, !.mail = Idle.mail,
                                 !.recent = @ \/ run[w].mail.status = "sent"])
         /\ UNCHANGED quiet

\* update_send_log writes status, sent_at and next_retry_at of the row whose
\* id the process holds, if there is one.
Record(w) ==
  LET m == run[w].mail IN
  /\ run[w].pc = "record"
  /\ logs' = [l \in LogIds |->
                IF l = m.id /\ logs[l].status # "absent"
                  THEN [logs[l] EXCEPT !.status = m.status, !.sentAt = m.sentAt,
                                       !.retryAt = m.retryAt]
                  ELSE logs[l]]
  /\ Onward(w)
  /\ UNCHANGED <<now, items, nextItem, nextLog, lastRowid, ops, interrupts, acks,
                 failedAt>>

-----------------------------------------------------------------------------
(* API requests *)

Request == ops < MaxOps /\ ops' = ops + 1

CreateItem(d) ==
  /\ nextItem <= MaxItems
  /\ items' = [items EXCEPT ![nextItem] =
                 [id |-> nextItem, status |-> "active", deadline |-> d,
                  policy |-> DecideRemindPolicy(d, FALSE, now), created |-> now]]
  /\ nextItem' = nextItem + 1
  /\ lastRowid' = nextItem
  /\ UNCHANGED <<now, logs, nextLog, run, ops, interrupts, history>>

\* complete, silent, activate: a status the item has not is no request here.
SetItemStatus(i, s) ==
  /\ Request
  /\ Exists(i) /\ items[i].status # s
  /\ items' = [items EXCEPT ![i].status = s]
  /\ StillQuiet
  /\ UNCHANGED <<now, nextItem, logs, nextLog, lastRowid, run, interrupts, acks,
                 failedAt>>

\* delete_item removes the item and its logs under one lock.
DeleteItem(i) ==
  /\ Request
  /\ Exists(i)
  /\ items' = [items EXCEPT ![i] = NoItem(i)]
  /\ logs' = [l \in LogIds |-> IF logs[l].item = i THEN NoLog(l) ELSE logs[l]]
  /\ StillQuiet
  /\ UNCHANGED <<now, nextItem, nextLog, lastRowid, run, interrupts, acks, failedAt>>

\* update_item reads the row, rebuilds it from the payload with the status
\* it read, and writes it back in a second call.
EditRead(c, i, d) ==
  /\ run[c].pc = "idle"
  /\ Request
  /\ Exists(i)
  /\ Go(c, [Idle EXCEPT !.pc = "edit",
              !.held = {[items[i] EXCEPT
                           !.deadline = d,
                           !.policy = DecideRemindPolicy(d, FALSE, now)]}])
  /\ UNCHANGED <<now, db, interrupts, history>>

EditWrite(c) ==
  /\ run[c].pc = "edit"
  /\ \E row \in run[c].held :
       items' = [items EXCEPT ![row.id] = IF Exists(row.id) THEN row ELSE @]
  /\ Go(c, Idle)
  /\ StillQuiet
  /\ UNCHANGED <<now, nextItem, logs, nextLog, lastRowid, ops, interrupts, acks,
                 failedAt>>

\* A merge keeps an item it read and gives it the deadline and the plan of the
\* new mail's item, if that has one.
MergeRead(c, i, d, link) ==
  /\ run[c].pc = "idle"
  /\ Request
  /\ items[i].status = "active"
  /\ Go(c, [Idle EXCEPT !.pc = IF d = items[i].deadline THEN "edit" ELSE "merge",
              !.held = {IF d = None THEN items[i]
                        ELSE [items[i] EXCEPT
                                !.deadline = d,
                                !.policy = DecideRemindPolicy(d, link, now)]}])
  /\ UNCHANGED <<now, db, interrupts, history>>

MergeWrite(c) ==
  /\ run[c].pc = "merge"
  /\ \E row \in run[c].held :
       /\ items' = [items EXCEPT ![row.id] = IF Exists(row.id) THEN row ELSE @]
       /\ Go(c, [Idle EXCEPT !.pc = "unsent", !.cur = row.id])
  /\ StillQuiet
  /\ UNCHANGED <<now, nextItem, logs, nextLog, lastRowid, ops, interrupts, acks,
                 failedAt>>

\* Mutant of Unsent: whatever their status.
LogsOf(i) == {l \in LogIds : logs[l].item = i}

\* The rows delete_unsent_send_logs removes.
Unsent(i) == {l \in LogIds : logs[l].item = i /\ logs[l].status # "sent"}

\* The deadlines differed: what was planned and not sent is withdrawn, a log
\* that a check has in its hand included.
DropUnsent(c) ==
  /\ run[c].pc = "unsent"
  /\ logs' = [l \in LogIds |-> IF l \in Unsent(run[c].cur) THEN NoLog(l) ELSE logs[l]]
  /\ Go(c, Idle)
  /\ UNCHANGED <<now, items, nextItem, nextLog, lastRowid, ops, interrupts, history>>

\* remind_now: refused unless the item is active.
RemindNow(c, i) ==
  /\ run[c].pc = "idle"
  /\ Request
  /\ items[i].status = "active"
  /\ Go(c, [Idle EXCEPT !.pc = "insert", !.at = now,
                        !.mail = NewLog(i, now, "manual")])
  /\ quiet' = [quiet EXCEPT ![c] = {j \in ItemIds : items[j].status \in Resting}]
  /\ UNCHANGED <<now, db, interrupts, acks, failedAt>>

-----------------------------------------------------------------------------
(* The environment *)

Tick ==
  /\ now < MaxNow
  /\ PromptRuns => \A w \in Workers : run[w].pc = "idle"
  /\ now' = now + 1
  /\ UNCHANGED <<db, run, ops, interrupts, history>>

\* The process dies and starts again: the tables survive, nothing else does.
Crash ==
  /\ interrupts < MaxInterrupts
  /\ \E w \in Workers : run[w].pc # "idle"
  /\ interrupts' = interrupts + 1
  /\ run' = [w \in Workers |-> Idle]
  /\ quiet' = [w \in Workers |-> {}]
  /\ lastRowid' = 0
  /\ UNCHANGED <<now, items, nextItem, logs, nextLog, ops, acks, failedAt>>

\* The caller of POST /checker/run or remind_now hangs up: axum drops the
\* handler at its only await, the one for the sending thread, which finishes
\* its SMTP exchange all the same.
Abandon(w) ==
  /\ run[w].pc = "deliver"
  /\ interrupts < MaxInterrupts
  /\ interrupts' = interrupts + 1
  /\ acks' \in {acks, Acknowledged(w, TRUE)}
  /\ End(w)
  /\ UNCHANGED <<now, db, ops, failedAt>>

\* update_send_log fails.  After a sending that is only logged and the run goes
\* on with the row as it was; for a cancelled log it ends the run.  (A failed
\* log of the due pass may be either here: the run may end after both.)
RecordFails(w) ==
  /\ run[w].pc = "record"
  /\ interrupts < MaxInterrupts
  /\ interrupts' = interrupts + 1
  /\ \/ Onward(w)
     \/ run[w].back = "due" /\ run[w].mail.status = "failed" /\ End(w)
  /\ UNCHANGED <<now, db, ops, acks, failedAt>>

Sending(w) ==
  InsertLog(w) \/ InsertIgnored(w) \/ DeliverOk(w) \/ DeliverFail(w) \/ Record(w)

RunCheck(w) ==
  \/ CheckBegin(w) \/ CheckExpire(w) \/ CheckSnapshot(w) \/ OpenItem(w)
  \/ SkipSlot(w) \/ ResendSlot(w) \/ MissingSlot(w)
  \/ ListDue(w) \/ CancelDue(w) \/ SendDue(w) \/ CheckEnd(w)
  \/ Sending(w)

Send(c) == (\E i \in ItemIds : RemindNow(c, i)) \/ Sending(c)

Commit(c) == EditWrite(c) \/ MergeWrite(c) \/ DropUnsent(c)

Edit(c) ==
  \/ /\ c \notin Mergers
     /\ \E i \in ItemIds : \E d \in Deadlines : EditRead(c, i, d)
  \/ /\ c \in Mergers
     /\ \E i \in ItemIds : \E d \in Deadlines \cup {None} : \E link \in BOOLEAN :
          MergeRead(c, i, d, link)
  \/ Commit(c)

OneCall ==
  \/ \E d \in Deadlines : CreateItem(d)
  \/ \E i \in ItemIds :
       \/ DeleteItem(i)
       \/ \E s \in {"active", "completed", "silent"} : SetItemStatus(i, s)

Next ==
  \/ \E w \in Checkers : RunCheck(w)
  \/ \E c \in Senders : Send(c)
  \/ \E c \in Editors : Edit(c)
  \/ OneCall
  \/ Tick
  \/ Crash
  \/ \E w \in Checkers \cup Senders : Abandon(w) \/ RecordFails(w)

Spec == Init /\ [][Next]_vars

-----------------------------------------------------------------------------
(* Properties *)

TypeOK ==
  /\ now \in Int
  /\ items \in [ItemIds -> ItemRow] /\ nextItem \in Nat \ {0}
  /\ logs \in [LogIds -> LogRow]    /\ nextLog \in Nat \ {0}
  /\ lastRowid \in Nat
  /\ run \in [Workers -> Process]
  /\ ops \in Nat /\ interrupts \in Nat
  /\ acks \in [ItemIds -> Seq(Delivery)]
  /\ quiet \in [Workers -> SUBSET ItemIds]
  /\ failedAt \in [LogIds -> OptTime]

\* Whatever else happens meanwhile, a run sends nothing about an item that
\* was completed, silenced or expired when the run began and has been so
\* ever since (checker.rs:7).
QuietNotReminded ==
  \A w \in Workers :
    run[w].pc = "deliver" => run[w].mail.item \notin quiet[w]

\* What makes QuietNotReminded inductive: the items of quiet[w] are at rest,
\* and neither the rows a scan has still to visit, nor the item whose slots it
\* handles, nor the message in hand is about one of them.
RowsInPlace ==
  \A i \in ItemIds : items[i].id = i /\ (i >= nextItem => ~Exists(i))

Considerate(w) ==
  /\ \A i \in quiet[w] : items[i].status \in Resting
  /\ run[w].pc \in {"scan", "insert", "deliver", "record", "due"} =>
       \A r \in run[w].held : r.id \notin quiet[w]
  /\ run[w].slots # {} => run[w].cur \notin quiet[w]
  /\ run[w].pc \in {"insert", "deliver"} => run[w].mail.item \notin quiet[w]

QuietInv == RowsInPlace /\ \A w \in Workers : Considerate(w)

\* The log has an id, and the row of that id is its own or gone.
MatchesRow(log) ==
  /\ log.id \in LogIds /\ log.id < nextLog
  /\ logs[log.id].status # "absent" =>
       /\ logs[log.id].item = log.item /\ logs[log.id].slot = log.slot
       /\ logs[log.id].kind = log.kind

\* The log a process sends and records is the row of that item and slot, or
\* the row is gone (notifier.rs:196: ensure_reminder_log returns the log it
\* found or made).
HoldsItsOwnRow ==
  \A w \in Workers :
    run[w].pc \in {"deliver", "record"} => MatchesRow(run[w].mail)

\* SMTP has accepted a message for the item and slot of this log, and said so.
Confirmed(log) ==
  \E n \in 1 .. Len(acks[log.item]) :
    /\ acks[log.item][n].heard
    /\ acks[log.item][n].slot = log.slot
    /\ acks[log.item][n].kind = log.kind

\* A row says `sent` only if SMTP accepted a message for that very item and
\* slot: no reminder is lost behind a row that claims it was sent.
SentMeansDelivered ==
  \A l \in LogIds : logs[l].status = "sent" => Confirmed(logs[l])

\* What makes HoldsItsOwnRow and SentMeansDelivered inductive when one task
\* at a time runs the checker: rows sit at their own id and no two have the
\* same key; every log that a process holds belongs to its row; a row about to be
\* inserted is pending and its slot has no row yet; and what is about to be
\* recorded as sent has been accepted.
TableInPlace ==
  \A l \in LogIds :
    /\ logs[l].id = l
    /\ l >= nextLog => logs[l].status = "absent"
    /\ l \in KeyRows(logs[l].item, logs[l].slot) =>
         KeyRows(logs[l].item, logs[l].slot) = {l}

Faithful(w) ==
  /\ \A log \in run[w].queue : MatchesRow(log)
  /\ run[w].pc \in {"deliver", "record"} => MatchesRow(run[w].mail)
  /\ run[w].pc = "insert" =>
       /\ run[w].mail.status = "pending"
       /\ run[w].mail.kind = "reminder" =>
            w \in Checkers /\ KeyRows(run[w].mail.item, run[w].mail.slot) = {}
  /\ run[w].pc = "record" /\ run[w].mail.status = "sent" =>
       Confirmed(run[w].mail)

RecordInv ==
  TableInPlace /\ SentMeansDelivered /\ \A w \in Workers : Faithful(w)

\* The accepted deliveries of one slot of an item, and those of them of which
\* the program never heard.
SlotAcks(i, t) ==
  {m \in 1 .. Len(acks[i]) : acks[i][m].kind = "reminder" /\ acks[i][m].slot = t}
Unheard(i, t) == {m \in SlotAcks(i, t) : ~acks[i][m].heard}

\* While the item exists, a scheduled slot is delivered once, but for one time
\* more for every answer of SMTP that was lost on the way, every crash or
\* dropped request between the delivery and its record, and every record that
\* could not be written (scheduler.rs:48 calls the checker idempotent): a
\* delivery the program heard of is never repeated by later runs, retries and
\* edits, as long as no merge withdraws its row.
SlotDeliveredOnce == Mergers = {} =>
  \A i \in {j \in ItemIds : Exists(j)} : \A n \in 1 .. Len(acks[i]) :
    acks[i][n].kind = "reminder" =>
      Cardinality(SlotAcks(i, acks[i][n].slot))
        <= 1 + interrupts + Cardinality(Unheard(i, acks[i][n].slot))

\* A reminder the item scan sends comes half an hour or more after every
\* earlier scheduled reminder of the item that SMTP accepted and said so
\* (checker.rs:63), as long as that one is recorded: no merge withdraws its row,
\* no end of the process comes before the record.  Of a message whose answer
\* was lost the program knows nothing, so the gap is not kept from it; one sent
\* by hand while the scan is at the item is seen only by the next run.
ScanKeepsTheGap == Mergers = {} /\ interrupts = 0 =>
  \A i \in {j \in ItemIds : Exists(j)} : \A m, n \in 1 .. Len(acks[i]) :
    /\ m < n /\ acks[i][m].kind = "reminder" /\ acks[i][m].heard
    /\ acks[i][n].back = "scan"
    => acks[i][n].at - acks[i][m].at >= HalfHour

\* The row of a scheduled reminder is not attempted again before half an hour
\* has passed since the beginning of the run that failed with it (README.md:41),
\* unless an end of the process kept the failure from being recorded.  A row
\* made by hand may be in two hands, its request's and a check's.
RetryWaitsHalfHour == interrupts = 0 =>
  \A w \in Workers :
    run[w].pc = "deliver" /\ run[w].mail.kind = "reminder"
    /\ run[w].mail.id \in LogIds =>
      \/ failedAt[run[w].mail.id] = None
      \/ now - failedAt[run[w].mail.id] >= HalfHour

\* What is recorded of a reminder that was sent stays so until its item is
\* deleted: later runs, a late failure and merges leave it alone, and the slot
\* and the gap go on being judged by it (db.rs:499).
SentIsFinal ==
  [][\A l \in LogIds :
       logs[l].status = "sent" /\ logs[l].kind = "reminder" =>
         logs'[l] = logs[l] \/ items'[logs[l].item].status = "absent"]_vars

-----------------------------------------------------------------------------
(***************************************************************************)
(* Fairness.  The scheduler loop starts a check every 30 seconds for ever   *)
(* and awaits it, an SMTP call ends by its timeout, a request that has been *)
(* accepted runs on, and time passes.  No fairness is assumed of users, of  *)
(* new requests or of SMTP's answer.                                        *)
(***************************************************************************)
FairSpec ==
  /\ Spec
  /\ WF_vars(Tick)
  /\ \A w \in Checkers : WF_vars(RunCheck(w))
  /\ \A c \in Senders : WF_vars(Sending(c))
  /\ \A c \in Editors : WF_vars(Commit(c))

\* A slot that is due while its item is active is attempted, unless the item
\* is reminded of something else within the half hour, leaves the active
\* state, or is given another deadline (checker.rs:4, missed reminders).
DueSlotAttempted ==
  \A i \in ItemIds : \A t \in 0 .. MaxNow :
    LET wanted == /\ items[i].status = "active"
                  /\ t \in ReminderTimes(items[i]) /\ t <= now
    IN  wanted ~> \/ ~wanted
                  \/ RecentlySent(i, now)
                  \/ \E l \in KeyRows(i, t) : logs[l].status \in {"sent", "failed"}

\* A pending log, and a failed one whose half hour is over, is attempted
\* unless its item stops wanting it (README.md:41).
DueLogAttempted ==
  \A l \in LogIds :
    LET waiting == IsDue(logs[l]) /\ ~Cancelled(logs[l], now)
    IN  waiting ~> ~waiting
=============================================================================
