# Verification of mail2

mail2 fetches mail over IMAP, lets a language model classify it, keeps to-do
items with deadlines, reminds their owner by mail, and offers all of it through
a REST API. This directory holds TLA+ modules translated from the Rust sources
in `src/`, the TLC configurations that check them on small instances, and
proofs checked by TLAPS.

    tlc -workers 2 -config MailPipeline_pair.cfg MCMailPipeline.tla
    tlapm PipelineProofs.tla

Line numbers below are those of `src/src/*.rs` (the crate's `src/` directory)
and of the repository's `README.md` and `docs/`.

## 1. The system

### Processes

`main.rs` (`serve`, 138-244) opens and seeds the databases and starts three
kinds of concurrent tasks on a multi-threaded tokio runtime:

* the **scheduler loop** (`scheduler.rs` 59-74): every 30 seconds one `tick`,
  which runs the checker (once more at the fixed check times);
* the **poll loop** (`main.rs` 157-224): for every enabled account fetch and
  process new mail, then run the checker if there was any;
* the **API handlers** (`api.rs`): any number at once. A handler whose client
  hangs up is dropped by axum at its next `await`.

They share one `Db`: a mutex over two SQLite connections, `mail.db` (emails,
accounts, agent runs, kv) and `todo.db` (items, send_log, approvals,
categories). The mutex is taken **for one method call**, and no transaction
spans two calls, so whatever a task read may have changed by its next call.
The processes otherwise communicate only through SMTP and IMAP.

### Components

| component | state | operations | hard part | what makes it correct |
|---|---|---|---|---|
| checker (`checker.rs`) | none of its own | `run_check`: expiry sweep, item scan, due-log pass | several runs at once; rows read long before use; edges of the half-hour rules | each slot delivered once, the gap kept, items at rest left alone, nothing due forgotten |
| notifier (`notifier.rs`) | none | reminder plan and policy, `ensure_reminder_log`, `send_log` | result of SMTP known before it is recorded | a result is recorded on the row of the message sent |
| todo database (`db.rs`) | items, send_log, approvals | one method per statement group | ignored inserts, two-call sweeps, whole rows written back | one row per item and slot; `sent` implies delivered |
| mail database (`db.rs`) | emails, accounts, kv | one method per statement group | deduplication by message id | one row per mail |
| item requests (`api.rs` 324-482, 1351-1407) | none | create, update, delete, set status, batches, remind now | read-modify-write in `update_item`; concurrent checks | no request makes a run misbehave |
| mail requests (`api.rs` 614-940) | none | reclassify, delete, batches, manual fetch | item and link are two databases and two calls | the mail leads to its item, or has none |
| scheduler (`scheduler.rs`) | kv marks of fired check times | `tick`, loop | late ticks, errors between check and mark | marked means checked; checked once |
| approvals (`agent/tools.rs`, `api.rs` 1280-1343) | approvals table | request, approve (re-validates and applies), reject | two decisions at once; objects gone since | a decision is final, rejected means untouched |
| agent loop (`agent/`) | messages of one mail, agent_runs | rounds of model call and tool calls | repeated tool calls, bounded rounds | at most one item per mail |
| mail pipeline (`pipeline.rs`) | emails, UID cursor in kv | fetch, de-duplicate, classify, guard, create, merge, detect replies | failure between storing and processing, overlapping fetches, stale rows in a merge | no mail passed over, none taken twice, links lead somewhere |
| deadline inference (`deadline.rs`) | none | recognise dates and validity hints | precedence among candidates, turn of the year | the same at a later reading, small corrections, never backwards |
| accounts (`db.rs` 921-1051, `api.rs` 1013-1119) | accounts table | create, update, delete, make default | check and change in separate calls | at least one account, one default |
| opening (`db.rs` 114-330, `main.rs`) | the database files | split a legacy database, seed | the process ends in the middle | legacy accounts are copied into an empty table only |
| IMAP, SMTP, LLM clients | - | - | answers late, wrong or never | modelled by their answers |
| MIME parsing, web interface | - | - | stateless, or in the browser | not modelled (section 7) |

`PROJECT.json` lists under `hazards` what in this code is hard to test, at the
line where it bites, with the properties that cover it.

## 2. Modules

| module | models | extends |
|---|---|---|
| `ReminderPlan` | when an item is reminded (`notifier.rs`, `model.rs`) | |
| `Reminders` | checker, sending, items and send_log, item requests | `ReminderPlan` |
| `DeadlineInference` | `deadline.rs`: the deadline read out of a mail | |
| `MailRules` | the stateless decisions of `pipeline.rs` | `DeadlineInference` |
| `RuleCases` | the rules asked one question at a time, and what is promised of the answers | `MailRules` |
| `MailIntake` | abstract: what is promised about a mailbox | |
| `MailPipeline` | fetches, agent, guards, items, merging, mail operations; implements `MailIntake` | `MailRules` |
| `Requests` | approvals, reclassification, direct operations and batches | `MailRules` |
| `LegacySplit` | opening the databases, with the split of the legacy one | |
| `Accounts` | accounts and their requests | |
| `Server` | the process: opening, accounts, poll loop and scheduler together | `LegacySplit`, `Accounts` |
| `MCReminders`, `MCRuleCases`, `MCMailPipeline` | instances for TLC | |
| `RemindersProofs`, `DeliveryProofs` | proofs about `Reminders` (section 5) | `Reminders`; `RemindersProofs` |
| `RuleProofs`, `RuleCasesProofs` | proofs about the rules | `MailRules`; `RuleCases`, `RuleProofs` |
| `IntakeProofs`, `PipelineProofs` | proofs about `MailPipeline` | `MailPipeline`; `IntakeProofs`, `RuleProofs` |
| `RequestsProofs`, `ServerProofs` | proofs about `Requests` and `Server` | `Requests`; `Server` |

In every module one action is one database call with the local computation
that follows it, because that is the grain at which tasks interleave. A step
that only reads is joined to the step that uses what it read, unless a later
step *writes* something that depends on the read; then the read is a step of
its own and what it read is held in the record of the call (`run[w]`,
`fetcher[f]`, `call[c]`, `request[r]`).

### ReminderPlan

Pure definitions. Time is an integer number of units; `Day`, `LeadTime`,
`DaysBefore` and `TwoHours` are the code's day, `reminder.lead_time`,
`reminder.days_before` and two hours in that unit. The code's sorted list of
slots is a set here. `link_expiry` is chosen by the mail pipeline only, so the
item requests call `DecideRemindPolicy` with `FALSE`, as `build_item` does.

### Reminders

One action is one database call with the local computation that follows it,
because that is the grain at which tasks interleave.

| code | action |
|---|---|
| `run_check` 28-32, `mark_expired` 846-862 (listing) | `CheckBegin` |
| `mark_expired` 863-875 (update by id) | `CheckExpire` |
| `list_items` call, lines 39-56 | `CheckSnapshot` |
| next item: plan, `list_send_logs`, lines 57-79 | `OpenItem` |
| next slot: gap test, `ensure_reminder_log`'s lookup, lines 80-107 | `SkipSlot`, `ResendSlot`, `MissingSlot` |
| `insert_send_log` | `InsertLog`, `InsertIgnored` |
| `send_log`: SMTP's answer | `DeliverOk`, `DeliverFail` |
| `update_send_log`; its failure | `Record`; `RecordFails` |
| `logs_due` | `ListDue` |
| next due log: `get_item` and the cancel tests | `CancelDue`, `SendDue` |
| end of the run | `CheckEnd` |
| `create_item`, `change_status`, `delete_item` | `CreateItem`, `SetItemStatus`, `DeleteItem` |
| `update_item`: read, write | `EditRead`, `EditWrite` |
| `merge_item_into`: the kept item's row, `delete_unsent_send_logs` | `MergeRead`, `MergeWrite`, `DropUnsent` |
| `remind_now`: up to its insert (then the sending actions) | `RemindNow` |
| the clock; a killed process; a dropped handler | `Tick`, `Crash`, `Abandon` |

`run[w]` is the local state of process `w`. `Checkers`, `Senders` and `Editors`
are the tasks that may be in progress together in `run_check`, `remind_now` and
`update_item`; `Mergers` are the editors that are merges of the mail pipeline
instead, as far as they touch what the checker reads (the new item a merge
deletes is a `CreateItem` and a `DeleteItem`). `lastRowid` is SQLite's
`last_insert_rowid()`: an `INSERT OR IGNORE` that ignores leaves it alone, and
it may be the id of a row of another table (items and send_log share the
connection). It is used only after an earlier insert on the same connection, so
its value after a restart does not matter.

`acks`, `quiet` and `failedAt` are history variables: no guard of the code's
steps reads them (`MayBeLost` bounds the lost answers with `acks`). `acks` holds
every message SMTP accepted. `DeliverFail` covers both meanings of an error: the
message was refused, or it was accepted and the answer was lost, in which case
it enters `acks` with `heard = FALSE` while the log is marked failed all the same.

Abstractions: mail texts, addresses, attempt counters, the run report and the
webhook are left out (none is read back by this code); a manual log's slot is
a nanosecond clock reading in the code and therefore never equal to another
row's slot; the order in which the scan visits items is arbitrary; the listing
limits of 2000 and 10000 items and of the last 20 sent rows of an item are
taken to be large enough. Of database errors, that of `update_send_log` is
modelled, because `send_log` drops it and goes on (275-277). Any other ends its run
or request at that step: to the tables that is what `Crash` does, which ends the
other tasks as well.

### DeadlineInference and MailRules

A regular expression is abstracted to what it captures: a text is a record of
the numbers, units and dates its patterns find. Everything the code decides
among these captures is kept: order of precedence, limits (720 hours, 90 days),
the half-span correction of the model's deadline in whole minutes
(`NumMinutes`), the year of a yearless date, afternoon hours. A time is a number
of seconds in the configured zone, taken to have no clock changes; a calendar
day is its number in a leap year, so that 29 February exists and is missing from
other years. The three core categories are one (`"core"`).

### MailPipeline

| code | action |
|---|---|
| the call and its cursor, or the legacy one (`pipeline.rs` 76-90) | `Ask`, with `LastUid` |
| `fetch_new`'s result and the limit (90-110, `imap.rs` 98-164); its error | `Answer`; `NoAnswer` |
| a mail that is not stored: parse error, range, own echo, duplicate | `Skip` |
| `insert_email` | `InsertEmail` |
| `detect_reply` and the status it sets | `Reply` |
| `run_agent`: tool call `create_item`, its link, the final answer | `AgentCreatesItem`, `AgentLinks`, `AgentEnds` |
| feedback guard and the item it takes back | `FeedbackGuard`, `FeedbackUndo` |
| promotion guard | `PromoGuard`, `PromoUndo`, `PromoUnlink` |
| `update_email_category`, `ensure_item` | `File`, `Extract`, `InsertItem`, `LinkItem` |
| `fill_missing_deadline` | `Fill`, `FillWrite` |
| `merge_duplicate_items`, `merge_item_into` | `Merge`, `MergeWrite`, `MergeLink`, `MergeDrop` |
| end of a mail, end of the batch and cursor | `MailDone`, `Finish` |
| an error or the end of the process; an error in the merge | `Interrupt`, `MergeFails` |
| errors dropped with `let _` or `if let Ok(Some(..))`: `create_item`'s link and look-ups (`agent/tools.rs` 374-375, 425) | `LinkUnset`, `AgentCreatesBlindly` |
| the same in the guards and before `fill_missing_deadline` (`pipeline.rs` 258-262, 278-281, 291) | `FeedbackKept`, `PromoUnseen`, `PromoUndeleted`, `PromoStaysLinked`, `FillMissed` |
| the IMAP server (external) | `Arrive`, `Expunge` |
| the user: delete a mail, delete an item, set a status | `DropEmail`, `DropItem`, `ChangeStatus` |

A fetcher is one call of `process_new_mails_opts`. `Pollers` advance the
cursor (poll loop and command line), the others are manual fetches. Between `Ask`
and `Answer` the call waits for the IMAP server.

The module has one mail account. Accounts meet in four places. An account
without a cursor of its own starts at `last_uid`, the cursor of a version with
one mailbox (`pipeline.rs` 84-87): that is `legacy`, a number that has nothing to
do with the uids of this account. `emails.message_id` is unique over all
accounts, so a mail sent to two of them is stored by the first that reads it and
a duplicate for the other: to this module it is a mail that is stored already,
as after a fetch of another task. The search for a mail with the same subject and
sender, and the candidates of a merge, do not filter by account: a second account's
items would be more items to merge with, made by more fetchers.

`finished`, `binned`, `forgotten` and `strays` are history variables. `strays`
are the items that a dropped error has lost sight of: the properties of items
except exactly those.

Things the module keeps because the code does them:

* the server reads `uid+1:*` as a range that always contains its newest mail,
  which is therefore fetched again by every poll; only the deduplication by
  message id stops it. A deleted mail that is the newest comes back;
* a mail is stored before it is handled, so a mail that was interrupted stays
  stored and is not handled again;
* the feedback guard takes an undated item back and leaves the mail's link;
* `update_item` writes a whole row read before, so a status set in between is
  undone, and does not write `source_email_id`;
* a mail deleted while it is handled leaves its item without a mail, and one
  fetched again then gets a second item.

### MailIntake

The abstract specification of the pipeline, in terms of uids only: a mail
waits from its arrival until it is taken, all copies at once, and the mark
moves only over mails that no longer wait. The refinement mapping is

    waiting <- uids of readable mails that are owed, neither stored nor deleted by the user
    seen <- DOMAIN box    last <- nextUid - 1    mark <- cursor

`Arrive` maps to `Arrive`, `Expunge` to `Leave`, `InsertEmail` to `Take`,
`Finish` to `Advance`, and every other step stutters. A mail is *owed* (`Owed`)
unless its uid is at or below a legacy cursor: such a mail never waits, because
the account may start above it.

### Requests

| code | action |
|---|---|
| a modifying tool of the agent (`agent/tools.rs`) | `AgentAsks` |
| `approve`: read, `apply`'s validation, its write, `decide_approval` | `ApproveBegin`, `ApproveCheck`, `ApproveWrite`, `ApproveEnd` |
| `reject` | `RejectBegin`, `ApproveEnd` |
| `reclassify`: read, category, then taking the item back, or extraction and update, or insertion and link | `FileBegin`, `FileWrite`, `FileUndo`, `FileUnlink`, `FileExtract`, `FileUpdate`, `FileInsert`, `FileLink`, `FileEnd` |
| direct operations and batches | `CreateItem`, `ChangeStatuses`, `DeleteItems`, `CategorizeEmails`, `DeleteEmails` |
| an end of the process | `Crash` |

`written` and `filed` are history variables. The reclassification of a mail
whose link dangles updates nothing and answers that the item was updated; two
reclassifications of one mail may insert two items. Both follow from the model
and are why `MadeItemIsLinked` and `FiledAway` are stated for one filer.

### Server, with LegacySplit and Accounts

`Open` is one step of the opening: `Start`, `Check` (is a split due?),
`CreateMail`, `CreateTodo`, `Copy` of one table, `Rename`, `OpenFiles`, `Seed`.
`Stop` ends the process at any point and may part the two statements of
`set_default_account`. `PollRound`, `PollAccount` and `PollDone` are the poll
loop; `Tick`, `FullCheck`, `Mark`, `MarkFails` and `Scan` the scheduler;
`Request` is one step of an account request. The accounts are listed by id: the
account listed at a place is the one with that many before it (`Rank`). What a
poll or a check does to mails and logs is `MailPipeline`'s and `Reminders`'. Two
facts of the code stand out in the model: a split that was cut short is never
tried again (the new files exist; `CopiedIntoEmpty` says what that is good for),
and a default account may be missing after a crash inside `set_default_account`.
A handler that reads an account back which another request has deleted since
ends in a panic of that request, and changes nothing; it is the answer of that
request here.

## 3. What is checked

| run | instance | shows |
|---|---|---|
| `edits` | 1 checker, 1 editor, deadlines 3 and 4, 3 requests, half hour = 2, clock to 2, one interruption, one lost answer | `TypeOK`, `QuietNotReminded`, `SlotDeliveredOnce`, `ScanKeepsTheGap`, `RetryWaitsHalfHour`, `SentIsFinal` while the plan moves |
| `manual` | 1 checker, 1 `remind_now`, 1 merge, 2 requests, one interruption | `HoldsItsOwnRow`, `SentMeansDelivered`, `SentIsFinal` |
| `parallel` | 2 checkers (symmetric), 2 requests | `QuietNotReminded` |
| `live` | 1 checker, 1 `remind_now` or 1 merge, one interruption, fair | `DueSlotAttempted`, `DueLogAttempted` |
| `rules` | every question over the edges listed in `MCRuleCases` | `LaterReadingAgrees`, `CorrectionIsSmall`, `YearlessDatesAhead`, `PlanFollowsTheHint`, `BestTargetPicked` |
| `pipeline` | the poll loop, seven kinds of mail, two deliveries, two tool calls, one user operation, one interruption or dropped error | `TypeOK`, `OneItemPerMail`, `LinkLeadsToItem`, `PromoNotKept`, `UndatedIsMarked` |
| `pair` | poll loop and manual fetch at once, two mails, a legacy cursor or none, one interruption or dropped error, fair | `CursorCovered`, `OneItemPerMail`, refinement of `MailIntake` (`IntakeSpec`), `MailTaken` |
| `requests` | one decider, one reclassification, one mail, two direct operations, one crash | `TypeOK`, `RejectedUntouched`, `DecisionsAreFinal`, `ApprovedDeletionHolds`, `MadeItemIsLinked`, `FiledAway` |
| `server` | two accounts, three requests, one check time, two minutes, one fault, fair | `TypeOK`, `CopiedIntoEmpty`, `OneDefault`, `MarkedIsChecked`, `OncePerCheckTime`, `EnabledIsPolled`, `DisabledFallsSilent`, `ScansGoOn` |
| `v_row`, `v_merge`, `v_source` | two checkers; two fetches; one fetch | violated, see section 4 |

**Bounds.** `MaxItems`, `MaxLogs`, `MaxNow`, `MaxUid`, `MaxApprovals`,
`MaxAccounts`, `MaxClock`, `MaxRequests`, `MaxOps` and `MaxInterrupts`
(`MaxCrashes`, `MaxFaults`) end the counters; `MaxLost` bounds the answers of
SMTP lost for one item.

*Reminders.* A day has three units (six in `live`) so that an item created now
with a deadline a day away is urgent (two slots) and one further away is normal
(one slot) and turns urgent when it is edited later. In `edits` the half hour is
two units, longer than the distance of two slots, so that the gap is there to be
kept, and the clock goes to two: a slot that failed at 0 is retried at 2, in the
due-log pass of the same run or by a later one. `MaxLogs` is above the number of
rows any behaviour can insert. One item is enough: the rules speak of the slots
of one item, and a row that is confused with another is shown by two slots of
the same item. Two checkers show every interference of runs, which is pairwise:
on one row or on the rowid.

*MailPipeline.* Two deliveries are two mails, or one mail twice; two mails are
what a merge needs, and an interruption of the first leaves the second in the
batch. The seven mails are the cases the guards and rules tell apart: two of
one company that merge, a mail shot with a date, a survey, a reply to a
reminder, one that does not parse and one that is old and undated. Two
fetchers show the interference of fetches, which is through one cursor, one
row or one pair of items. `pair` leaves the agent's tool calls out to stay
small enough for liveness; `pipeline` has two, as many as it takes to make a
second item of one mail. `LegacyUids` is "none" or uid 1 in `pair`, with two
deliveries: one mail that the account may pass over and one that it may not.

*RuleCases.* The questions lie on the edges: the largest hint and one more, the
minute at which a correction begins and the last second of the minute at which
it ends, the last evening of a year before a leap year, both sides of 29
February, afternoon hours, and deadlines 24 hours, 24 hours and a second, a
second less than 25 hours and 25 hours apart.

*Requests.* One approval and one mail: approvals do not read each other, and a
reclassification touches one mail and one item. Four item ids let two be
created next to the one at the start. Deadlock is not checked there: when the
bounds of operations and ids are used up the system may stop.

*Server.* Two accounts are a default and another, or the last and the one
before it; three requests can create, delete and change a default. One check
time and two minutes let a check end in a minute that is not its own.

**Fairness.** Time passes. The scheduler starts a check every 30 seconds for
ever and awaits it, and every step of a check ends, SMTP's by its timeout
(`Reminders`: `RunCheck` for each checker; `Server`: `Schedule`). The poll loop
runs for ever, an error of a round is logged and the next round comes; the
language model has a timeout (`llm.rs` 117). The IMAP client has none
(`imap.rs`), so no fairness is assumed of an exchange with a mail server:
`Answer` and `NoAnswer` of `MailPipeline` and `PollDone` of `Server` may be
awaited for ever. What the liveness properties need of the servers is written as
their premise: `MailTaken` says "as long as the server goes on answering the poll
loop", `EnabledIsPolled` and `DisabledFallsSilent` say `ServersAnswer`. A request
that was accepted goes on until its end (`Reminders`: `Sending`, `Commit`).
Nothing is assumed of users, of new requests, or of the answers of SMTP and the
model: `DeliverFail` may happen for ever, so the liveness properties speak of
attempts, not of deliveries.

**Faults.** An interruption is the end of the process or a database error that
ends a call at any step. Where an error is only logged or dropped and the code
goes on, that is an action of its own: the record of a sending
(`RecordFails`), the merge (`MergeFails`), the link, the look-ups and the guards
of a mail (`LinkUnset`, `AgentCreatesBlindly`, `FeedbackKept`, `PromoUnseen`,
`PromoUndeleted`, `PromoStaysLinked`, `FillMissed`), a poll (`PollDone`), a tick
(`FullCheck`, `MarkFails`). A lost answer of SMTP is the second case of
`DeliverFail`. Not modelled: the error of `get_item` that a reclassification
drops (`api.rs` 742), after which the to-do of a mail filed away stays.

**Mutants.** Next to the definitions stand small mutated copies, marked
`Mutant of ...`: one plausible bug each, which TLC must catch when it replaces
the original. The module itself never uses them.

## 4. Where the code does not keep a promise

Three runs expect a violation; `PROJECT.json` quotes the documentation under
`findings`.

| run | violated | shortest story |
|---|---|---|
| `v_row` | `HoldsItsOwnRow` | the loser of two inserts takes `last_insert_rowid()` of somebody else's row as its own |
| `v_merge` | `LinkLeadsToItem` | two fetches each merge their new item into the other's; both items are deleted |
| `v_source` | `MergedNamesNewest` | a merged item goes on naming its oldest mail, because `update_item` does not write the source |

Other limits of what the properties say, each visible in the model:

* when SMTP accepts a message and its answer is lost, the log is marked failed
  and the message is sent again after half an hour: `SlotDeliveredOnce` counts
  one delivery more for each such answer. The gap is kept from what the program
  has heard of only, so another slot may follow the unheard message at once;
* two checks at once find the same slot unsent and both send it: the four
  properties of deliveries are proved for one checker at a time;
* a merge withdraws the unsent rows of the kept item, also one whose message is
  on its way: the result is recorded nowhere and the slot may be delivered
  again, at once. `SlotDeliveredOnce` and `ScanKeepsTheGap` are stated without
  merges, and the gap also without an interruption between a delivery and its
  record. `SentIsFinal` needs neither restriction: what *was* recorded stays;
* the scan looks at the rows once for every item: a message sent by hand while
  it is at the item is seen by the next run, so the gap is measured from
  scheduled reminders;
* the half-hour gap is tested by the item scan only: two failed slots that come
  due together are resent by the scan and by the due-log pass of one run;
* an item completed between a listing and its turn in that run is reminded, or
  expired, once more: `QuietNotReminded` speaks of items at rest when the run
  began;
* after an upgrade every account without a cursor of its own starts at the one
  the single mailbox had: its mails at or below that uid are never fetched by
  the poll loop. `CursorCovered`, `IntakeSpec` and `MailTaken` speak of the
  mails above it (`Owed`);
* an error that is dropped leaves a stray: an item the agent made and could not
  link, after which the pipeline makes a second one; a promotion's to-do that
  its guard could not find or delete; an undated to-do that was not found again
  and stays unmarked. The properties except these items and no others;
* deadlines up to a second below 25 hours apart are merged, because `num_hours()`
  cuts off, while `README.md` 29 and the comments at `pipeline.rs` 653 and 714 say
  24 hours. `BestTargetPicked` demands that nothing within the documented
  distance is passed over and allows the item picked up to the counted one;
* the correction of the model's deadline counts whole minutes: it replaces a
  deadline that is almost a minute further away than half the span, and keeps one
  that is almost two minutes away (`CorrectionIsSmall`);
* 29 February without a year is no date in the year before a leap year, so the
  same mail read again after New Year may give a deadline it did not give before:
  `LaterReadingAgrees` excepts it;
* a mail server that keeps silent stops the poll loop for every account, as the
  loop awaits one exchange after the other and none has a timeout;
* a split of the legacy database that was cut short is not taken up again: the
  program serves without the rows that were not copied, which stay in the legacy
  file, and says nothing of it;
* cancelled rows keep a past `next_retry_at`: a hundred of them fill the
  limited list of due logs and starve the rest. `DueLogAttempted` is checked
  below the limit;
* a check may pick up the row of a `remind_now` that is about to send it;
* `RetryWaitsHalfHour` counts from the start of the run that failed, as
  `next_retry_at` does: after the attempt itself a retry can come early by as
  long as that run had lasted. An interruption may keep the failure from being
  recorded at all, so it is stated without one, and of scheduled reminders, as
  a row made by hand may be in the hands of its request and of a check;
* two decisions about one approval at once may end in either status whatever
  was written, and a crash between the change and its record leaves the
  approval pending: `RejectedUntouched` and `DecisionsAreFinal` are stated for
  one decider, the first without a crash;
* a merge holds the item it keeps in memory while another fetch merges and
  deletes it: `LinkLeadsToItem` is proved for one fetch at a time;
* a decision that read an item as a to-do before it was filed away writes every
  column back and makes it one again: `FiledAway` is stated for one filer and
  one decider;
* two account requests at once may leave no account, no default or two:
  `OneDefault` is stated for one request at a time.

## 5. What is proved

Each theorem holds for all values of the constants that satisfy the named
assumptions of the modules (`PlanAssumption`, `RemindersAssumption`,
`InferenceAssumption`, `CasesAssumption`, `PipelineAssumption`,
`TraitAssumption`, `RequestsAssumption`, `AccountsAssumption`,
`ServerAssumption`; TLC evaluates them on the runs): any number of tasks,
mails, items, accounts, operations and interruptions. Two assumptions are made
by theorems and not by modules: `OneChecker`, that no two tasks are in
`run_check` together, and `OneFetcher`, the same of
`process_new_mails_opts`. The scheduler and the poll loop do not exclude each
other, so they describe a quiet hour, not the code's promise; runs `v_row` and
`v_merge` show that the theorems are false without them.

| module | theorem | property |
|---|---|---|
| `RemindersProofs` | `TypeCorrect` | `TypeOK` of `Reminders` |
| | `RestingItemsLeftAlone` | `QuietNotReminded`, any number of checkers |
| | `OwnRowRecorded`, `SentWasDelivered` | `HoldsItsOwnRow`, `SentMeansDelivered`, one checker |
| `DeliveryProofs` | `SentStaysSent` | `SentIsFinal`, an action property, one checker |
| | `DeliveredOnce` | `SlotDeliveredOnce`, one checker |
| | `FailedWaits` | `RetryWaitsHalfHour`, one checker |
| | `ScanKeepsItsDistance` | `ScanKeepsTheGap`, one checker |
| `IntakeProofs` | `NoMailPassedOver` | `CursorCovered`, any fetches at once |
| | `PipelineImplementsIntake` | `IntakeSpec`: the refinement |
| `PipelineProofs` | `PipelineTypes` | `TypeOK` of `MailPipeline` |
| | `OneItemEach` | `OneItemPerMail`, any fetches at once |
| | `PromotionsLeaveNothing`, `UndatedAreMarked` | `PromoNotKept`, `UndatedIsMarked`, any fetches at once |
| | `LinksLead` | `LinkLeadsToItem`, one fetcher |
| `RuleCasesProofs` | `ReadAgainAgrees`, `CorrectedByLittle` | `LaterReadingAgrees`, `CorrectionIsSmall`, every mail, answer and instant |
| | `PlanAndDeadlineAgree`, `YearIsGuessedAhead` | `PlanFollowsTheHint`, `YearlessDatesAhead`, every text and instant |
| | `BestIsPicked` | `BestTargetPicked`, every finite set of candidates |
| `RequestsProofs` | `RequestTypes` | `TypeOK` of `Requests` |
| | `DeletedStaysDeleted` | `ApprovedDeletionHolds`, any deciders and filers |
| | `DecidedOnce`, `RejectedChangedNothing` | `DecisionsAreFinal`, `RejectedUntouched` |
| | `MadeItemsAreLinked`, `FiledAwayHasNoTodo` | `MadeItemIsLinked`, `FiledAway` |
| `ServerProofs` | `ServerTypes` | `TypeOK` of `Server` |
| | `CopyMeetsNoRows` | `CopiedIntoEmpty` |
| | `MarksFollowChecks`, `CheckedOnce` | `MarkedIsChecked`, `OncePerCheckTime` |
| | `OneSender` | `OneDefault` |

**Reminders.** `QuietNotReminded` alone is not inductive: a message about a
resting item could come from the rows the scan still holds, from the item whose
slots are being handled, or from a due log. `QuietInv` adds that none of these
is about an item of `quiet[w]` (`Considerate`), and that rows sit at their own
id and unused ids are absent (`RowsInPlace`). `RecordInv`, under `OneChecker`,
adds that no two rows of a slot exist, that every log a process holds belongs
to its row or the row is gone, that a row about to be inserted has no row yet
for its slot, and that a log about to be recorded as sent has been accepted
(`Faithful`).

**Deliveries.** `DeliveryProofs` first says of every action what it does to the
process that takes it and to the tables of rows and deliveries (`Alone`,
`Rests`, `Creates` and their like), so that each invariant is proved of a few
shapes of step instead of thirty actions. Then, each on top of the ones before
and of `RecordInv`:

* `FinalInv`: what a checker has in its queue or its hand is not recorded as
  sent yet (`Unsettled`). With one checker nobody else may settle it, which is
  all that `SentIsFinal` needs.
* `WaitInv`: a row that failed carries the retry time of that failure, or its
  checker is about to record it, and a log is picked up only when that time
  has come. `ApartInv` keeps a manual message and a checker's reminders on
  different rows, or a manual failure would count as theirs.
* `CountInv`: the deliveries of a slot are at most the interruptions so far, the
  deliveries among them whose answer was lost (`Unheard`), and one more if the
  table, or a process about to record, knows of a delivery. Only an interruption
  can make a delivery that was heard of unknown; `HomeInv` says that
  rows belong to items given out and that a log in a hand has its row, which
  no merge has withdrawn.
* `GapInv`: as long as the scan has not seen a recent reminder of the item it
  is at, the table has none in the last half hour (`GapKept`); the table
  remembers every delivery that was heard of (`AllRemembered`); so deliveries by the scan keep
  the distance (`Spaced`).

**Intake.** `IntakeInv` is `Shape /\ CursorCovered` and, for every poller,
`BatchCovers`: in a batch in progress each readable mail of the server up to
the greatest uid fetched that is owed is stored, deleted by the user, or still in
the batch.
It is needed because the cursor moves only at the end and by that uid; what
makes it hold at the start of a batch is that everything up to the old cursor
is covered already, or is not owed when the batch starts at a legacy cursor
(`FetchCovers`). `Shape` keeps the batch and its greatest
uid below `nextUid`, so that a mail arriving later is above it. Every step of a
mail's handling leaves mailbox, rows and batch as they are for this purpose
(`Handles`), so that the two dozen actions reduce to one lemma. The refinement
theorem then reads off each action which abstract step it is: the only one
that needs the invariant is `Finish`, whose mark may pass over no waiting mail.

**Pipeline.** `Sound` joins `IntakeInv` with the types, in which a call's fields
are constrained only where its step uses them. `RowInv`: a mail is one row; the
row a busy fetch handles is its own and not finished. `SoleInv`: the items of
the mail in hand are the linked one, or the one about to be linked, or none
where the next step inserts; with it `Single` holds of every row and
`OneItemPerMail` follows. Strays are left out of all of it (`Own`): a step that
loses sight of an item adds it to `strays` as it goes on (`Loses`). `PromoInv`
and `MarkInv` follow a promotion and an undated to-do along the guards to the
end of their mail, over `SoleInv`. They hold with any number of fetches because
what a fetch writes to items of other mails (the status a reply sets, the target
of a merge) keeps their mail and their mark. `LinkInv` says where each step's
item is linked (`Leads`), and that before a merge drops an item nobody links to
it.

**Rules.** `Asked` says what a question is, and each theorem then takes an
arbitrary one. `ReadAgainAgrees` goes over the forms of a date: what a form gives
at one instant it gives at every later one up to the answer (`OccursAgain` for a
day without a year, `ClockAgain` for a time without a day, `HumanAgain` for all
of them). `BestIsPicked` compares two rankings, the documented and the counted;
`CountedSuitsBetter` says that the wider one ranks nobody worse. The turn of the
year is arithmetic over the length of years
(`NextYear`); that a set of candidates has a least one (`LeastExists`, from the
well-foundedness of the numbers) is a lemma of `RuleProofs`, which also gives
the types of the answers that `PipelineProofs` uses.

**Requests.** `Gone`: what an approval with a written deletion named is no
longer there. It is kept because ids are never given twice (`Named`: every id
an approval names is below `nextItem`, or a mail's) and because `Rewrite`
never inserts. `Decision` relates a decision in progress to `written`. With one
decider, an approval in the middle of its decision is
pending and a decided one is out of everybody's hands, which gives the two
theorems about decisions. For the reclassification `LinkKnown` and `Making`
say that what its beginning read is still so when it is used, and
`ItemsLinked` that an item of a stored mail is its link but for the one just
made; `FiledTo` that a mail filed away has no to-do unless it is being filed.

**Server.** `CopyMeetsNoRows` rests on `FilesInv`: a split begins only where
there is no mail database, so that every row of an account is younger than its
file; `TallyInv` keeps the counts of tables and faults in their ranges.
`TickInv` says that a tick about to make its mark has its check counted; `Once`
counts the checks of a time without a mark against the faults. `AccountsInv`
says, for one request at a time, that the table is empty only before it is
seeded, and that a deletion under way leaves another account. `DefaultInv` adds
that what the request read of its account is still so (`HeldInv`) and that only
a request about to mark another account finds none marked (`MarkedInv`); that an
account is listed at every place is a count of the accounts before it
(`RankBelow`, `ListedIsAccount`).

**Only model-checked**: the liveness properties (`DueSlotAttempted`,
`DueLogAttempted`, `MailTaken`, `EnabledIsPolled`, `DisabledFallsSilent`,
`ScansGoOn`) and the fairness they need, which are out of the prover's reach, as
are `ENABLED` and induction over data; and the three disagreements of section 4,
which are counterexamples.

**Reading the proofs.** Lemmas follow the actions, one per action or group of
actions, each with one step per disjunct; a lemma whose name ends in `Keeps`
or begins with `Next` combines them. Definitions of a frame (`Handles`,
`Still`, `Aside`, `NoReturn`, `Rests`, `Tame`) say what a whole class of
actions has in common, so that the invariant is proved once for the class.

## 6. Plan

Every safety property that a passing run checks is proved. What is left, in
this order:

1. A `ReminderService`: the abstract promise about a slot (open, attempted,
   delivered once), implemented by `Reminders` with one checker; `CountInv` and
   `FinalInv` are the invariants its proof needs.
2. For any number of checkers, that an item and slot have one row.
3. `Reminders` and `MailPipeline` composed over one table of items, where they
   now meet in `MergeRead`, `MergeWrite` and `DropUnsent` alone.

## 7. Not modelled

The wording of mails, MIME parsing, the IMAP and SMTP protocols, prompts of
the language model, the run traces of the agent, configuration files, logging,
listings, and the web interface: stateless conversions or pure I/O. Categories
are a table of what the seeded ones create; those added later are written by
single calls. Labels, notes and handled marks of mails are columns nothing else
reads. What a deleted item's remaining logs should do is said nowhere in the
repository; the model lets them be sent, as the code does.
