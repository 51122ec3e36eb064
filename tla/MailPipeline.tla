---------------------------- MODULE MailPipeline ----------------------------
(***************************************************************************)
(* pipeline.rs: from the mails of one account on the IMAP server to rows of *)
(* the mail database (emails) and of the todo database (items).             *)
(*                                                                         *)
(* A fetcher is one call of process_new_mails_opts.  The poll loop and the  *)
(* command line are Pollers: they advance the cursor last_uid.  Any other   *)
(* fetcher is a manual fetch of the web interface, which does not.  Every   *)
(* database call is a step of its own: the connections are locked for one   *)
(* call only.  A step that only reads is joined to the next one, and what   *)
(* it read is kept where a later write uses it.                             *)
(*                                                                         *)
(* Trait[m] is what the rules see of mail m: the flags of MailRules and     *)
(*   ok, own       parses; an echo of a reminder of our own                 *)
(*   topic, party  subject with sender; company named by its item           *)
(*   reply         the status a recognised reply asks for, or None          *)
(*   answers       the categories a language model may give it              *)
(*   told          the deadline [rfc, at] a language model reads, or None   *)
(*   force         speaks of a change of an earlier appointment             *)
(***************************************************************************)
EXTENDS MailRules, SequencesExt

CONSTANTS
  Fetchers, Pollers,
  Mails,                    \* message ids
  Trait,                    \* mail -> what the rules see of it
  Since,                    \* start of the range of a ranged manual fetch
  Now,
  LegacyUids,               \* what kv last_uid of a time with one mailbox may be
  MaxRounds,                \* max_tool_rounds of the agent
  MaxUid,                   \* bound of the uids
  MaxOps, MaxInterrupts     \* bounds of user operations and interruptions

ASSUME PipelineAssumption ==
  /\ Pollers \subseteq Fetchers
  /\ LegacyUids \subseteq {None} \cup Nat
  /\ {MaxRounds, MaxUid, MaxOps, MaxInterrupts} \subseteq Nat

\* What the rules may see: instants are numbers, and the model answers with
\* categories there are and with instants (agent/tools.rs reads an RFC 3339
\* date, llm.rs a name of the list).
ASSUME TraitAssumption ==
  /\ Now \in Nat
  /\ \A m \in Mails :
       /\ Trait[m].answers \subseteq Categories
       /\ Trait[m].told \in {None} \cup [rfc : {TRUE}, at : Int]
       /\ Trait[m].reply \in {None, "completed", "silent"}
       /\ Trait[m].sent \in Int \cup {None}
       /\ LET text == Trait[m].text
          IN  /\ text.full \in Int \cup {None}
              /\ text.date # None => text.date.year \in Int \cup {None}
              /\ text.clock # None => text.clock.h \in Int /\ text.clock.min \in Int

VARIABLES
  box,        \* uid -> mail on the server
  nextUid,
  cursor,     \* kv last_uid:<account>
  legacy,     \* kv last_uid: left by a version with one mailbox, of any account
  emails,     \* row id -> [mail, cat, item]
  nextRow,
  items,      \* item id -> row
  nextItem,
  fetcher,    \* the calls in progress; todo: uid -> mail, the batch still to do
  finished,   \* rows whose mail went through every step
  binned,     \* items deleted by the user or by a guard of the pipeline
  forgotten,  \* mails whose row the user deleted
  strays,     \* items an error that was passed over has lost sight of
  ops, interrupts

vars == <<box, nextUid, cursor, legacy, emails, nextRow, items, nextItem, fetcher,
          finished, binned, forgotten, strays, ops, interrupts>>

Idle == [pc |-> "idle", from |-> None, limit |-> None, todo |-> <<>>, top |-> None,
         ranged |-> FALSE, row |-> None, round |-> 0, cat |-> None, given |-> FALSE,
         made |-> None, held |-> None]

NewEmail(m) == [mail |-> m, cat |-> None, item |-> None]
NewItem(kind, src, party, cat, deadline, review) ==
  [kind |-> kind, status |-> "active", src |-> src, party |-> party, cat |-> cat,
   deadline |-> deadline, review |-> review]

Stored   == {emails[r].mail : r \in DOMAIN emails}
Readable(m) == Trait[m].ok /\ ~Trait[m].own

\* item_for_email: the link of a row, None also when the row is gone.
Linked(r) == IF r \in DOMAIN emails THEN emails[r].item ELSE None

\* The UPDATE and DELETE statements, by id: nothing happens to a row that is
\* not there.
SetLink(r, i) == IF r \in DOMAIN emails THEN [emails EXCEPT ![r].item = i] ELSE emails
SetCat(r, c)  == IF r \in DOMAIN emails THEN [emails EXCEPT ![r].cat = c] ELSE emails
SetStatus(i, s) == IF i \in DOMAIN items THEN [items EXCEPT ![i].status = s] ELSE items
\* update_item writes every column but source_email_id (and the account).
Rewrite(i, row) ==
  IF i \in DOMAIN items THEN [items EXCEPT ![i] = [row EXCEPT !.src = items[i].src]]
  ELSE items
Without(f, k) == [x \in DOMAIN f \ {k} |-> f[x]]
With(f, k, v) == [x \in DOMAIN f \cup {k} |-> IF x = k THEN v ELSE f[x]]
Insert(row) ==
  /\ items' = With(items, nextItem, row)
  /\ nextItem' = nextItem + 1

Init ==
  /\ box = <<>> /\ nextUid = 1 /\ cursor = None /\ legacy \in LegacyUids
  /\ emails = <<>> /\ nextRow = 1 /\ items = <<>> /\ nextItem = 1
  /\ fetcher = [f \in Fetchers |-> Idle]
  /\ finished = {} /\ binned = {} /\ forgotten = {} /\ strays = {}
  /\ ops = 0 /\ interrupts = 0

Is(f, pc) == fetcher[f].pc = pc
Goto(f, pc) == fetcher' = [fetcher EXCEPT ![f].pc = pc]
\* The mail of the step: the first of the batch, by the order of the uids.
First(f) ==
  CHOOSE u \in DOMAIN fetcher[f].todo : \A v \in DOMAIN fetcher[f].todo : u <= v
Mail(f) == fetcher[f].todo[First(f)]
This(f) == Trait[Mail(f)]

keepMail == UNCHANGED <<box, nextUid, cursor, legacy, forgotten, strays, ops, interrupts>>
keepRows == UNCHANGED <<emails, nextRow>>
keepItems == UNCHANGED <<items, nextItem>>

-----------------------------------------------------------------------------
(* Fetching *)

\* The uids of a FETCH from uid on: the server reads "uid:*" as a range that
\* always contains its newest mail.
Range_(uid) ==
  LET from == {u \in DOMAIN box : u >= uid}
  IN  IF from = {} /\ DOMAIN box # {} THEN {Max(DOMAIN box)} ELSE from

\* fetch_new(since_uid)
FetchedFrom(last) == IF last = None THEN DOMAIN box ELSE Range_(last + 1)

\* The mails of the newest n of the uids, or of all of them.
Newest(uids, n) ==
  LET kept == IF n = None THEN uids ELSE {u \in uids : Cardinality({v \in uids : v > u}) < n}
  IN  [u \in kept |-> box[u]]

\* What a call is asked for: the poll loop wants all new mails, a manual fetch
\* perhaps a range of days instead, and perhaps only the newest mails.
Requested(f) ==
  IF f \in Pollers THEN [ranged : {FALSE}, limit : {None}]
  ELSE [ranged : BOOLEAN, limit : 1 .. MaxUid]

\* An account without a cursor of its own starts at the legacy one.
LastUid == IF cursor # None THEN cursor ELSE legacy

Ask(f) ==
  /\ Is(f, "idle")
  /\ \E q \in Requested(f) :
       fetcher' = [fetcher EXCEPT ![f] =
         [Idle EXCEPT !.pc = "fetch", !.ranged = q.ranged, !.limit = q.limit,
                      !.from = IF q.ranged THEN None ELSE LastUid]]
  /\ keepMail /\ keepRows /\ keepItems /\ UNCHANGED <<finished, binned>>

Answer(f) ==
  /\ Is(f, "fetch")
  /\ LET uids == FetchedFrom(fetcher[f].from)
     IN  fetcher' = [fetcher EXCEPT ![f] =
           [Idle EXCEPT !.pc = "next", !.todo = Newest(uids, fetcher[f].limit),
                        !.ranged = fetcher[f].ranged,
                        !.top = IF uids = {} THEN None ELSE Max(uids)]]
  /\ keepMail /\ keepRows /\ keepItems /\ UNCHANGED <<finished, binned>>

\* A fetch that fails is skipped.
NoAnswer(f) ==
  /\ Is(f, "fetch")
  /\ fetcher' = [fetcher EXCEPT ![f] = Idle]
  /\ keepMail /\ keepRows /\ keepItems /\ UNCHANGED <<finished, binned>>

TooOld(f) == fetcher[f].ranged /\ This(f).sent # None /\ This(f).sent < Since

\* The rest of the batch, the record of the mail just handled cleared.
Rest(f) == [Idle EXCEPT !.pc = "next", !.todo = Without(fetcher[f].todo, First(f)),
                        !.top = fetcher[f].top, !.ranged = fetcher[f].ranged]

\* A mail that is not stored: unreadable, before the range, our own, or there
\* already.
Skip(f) ==
  /\ Is(f, "next") /\ DOMAIN fetcher[f].todo # {}
  /\ ~This(f).ok \/ TooOld(f) \/ This(f).own \/ Mail(f) \in Stored
  /\ fetcher' = [fetcher EXCEPT ![f] = Rest(f)]
  /\ keepMail /\ keepRows /\ keepItems /\ UNCHANGED <<finished, binned>>

\* Mutant of InsertEmail: the uniqueness of the message id is not looked at.
InsertAgain(f) ==
  /\ Is(f, "next") /\ DOMAIN fetcher[f].todo # {}
  /\ This(f).ok /\ ~TooOld(f) /\ ~This(f).own /\ nextRow <= MaxUid + 1
  /\ emails' = With(emails, nextRow, NewEmail(Mail(f)))
  /\ nextRow' = nextRow + 1
  /\ fetcher' = [fetcher EXCEPT ![f].pc = "reply", ![f].row = nextRow]
  /\ keepMail /\ keepItems /\ UNCHANGED <<finished, binned>>

InsertEmail(f) ==
  /\ Is(f, "next") /\ DOMAIN fetcher[f].todo # {}
  /\ This(f).ok /\ ~TooOld(f) /\ ~This(f).own
  /\ Mail(f) \notin Stored
  /\ emails' = With(emails, nextRow, NewEmail(Mail(f)))
  /\ nextRow' = nextRow + 1
  /\ fetcher' = [fetcher EXCEPT ![f].pc = "reply", ![f].row = nextRow]
  /\ keepMail /\ keepItems /\ UNCHANGED <<finished, binned>>

\* A reply to a reminder sets the status of the reminder's item, which may be
\* gone.  A reply that is not recognised changes nothing.
Reply(f) ==
  /\ Is(f, "reply")
  /\ \/ This(f).reply # None
          /\ \E i \in 1 .. nextItem - 1 : items' = SetStatus(i, This(f).reply)
     \/ UNCHANGED items
  /\ Goto(f, "agent")
  /\ keepMail /\ keepRows /\ UNCHANGED <<nextItem, finished, binned>>

-----------------------------------------------------------------------------
(* The agent: rounds of tool calls, then a final answer.  Of its tools only
   create_item touches the state modelled here. *)

\* The row create_item makes for a category and the deadline it is told.
ToolItem(f, c, d) ==
  NewItem(IF KindIsTodo(c) THEN "todo" ELSE "notification",
          fetcher[f].row, This(f).party, c, d, FALSE)

ToldDeadline(f) == IF This(f).told = None THEN None ELSE This(f).told.at

\* Mutant of AgentCreatesItem: the item the mail has is not looked for.
AgentCreatesAgain(f) ==
  /\ Is(f, "agent") /\ fetcher[f].round < MaxRounds
  /\ \E c \in This(f).answers, d \in {None, ToldDeadline(f)} : Insert(ToolItem(f, c, d))
  /\ fetcher' = [fetcher EXCEPT ![f].pc = "toolLink", ![f].made = nextItem,
                                ![f].round = @ + 1]
  /\ keepMail /\ keepRows /\ UNCHANGED <<finished, binned>>

\* create_item is idempotent: it returns the item the mail has, if the link
\* leads to one.
AgentCreatesItem(f) ==
  /\ Is(f, "agent") /\ fetcher[f].round < MaxRounds
  /\ Linked(fetcher[f].row) \notin DOMAIN items
  /\ \E c \in This(f).answers, d \in {None, ToldDeadline(f)} : Insert(ToolItem(f, c, d))
  /\ fetcher' = [fetcher EXCEPT ![f].pc = "toolLink", ![f].made = nextItem,
                                ![f].round = @ + 1]
  /\ keepMail /\ keepRows /\ UNCHANGED <<finished, binned>>

AgentLinks(f) ==
  /\ Is(f, "toolLink")
  /\ emails' = SetLink(fetcher[f].row, fetcher[f].made)
  /\ fetcher' = [fetcher EXCEPT ![f].pc = "agent", ![f].made = None]
  /\ keepMail /\ keepItems /\ UNCHANGED <<nextRow, finished, binned>>

\* What classify() may come to, its second attempt included; misc stands for
\* its failure too.
Classified(f) == This(f).answers \cup {"misc"}

\* The final answer: a category and perhaps the fields of an item.  Without a
\* known category, or when the agent fails, the mail is classified by one call
\* more.
AgentEnds(f) ==
  /\ Is(f, "agent")
  /\ \E c \in Classified(f), given \in BOOLEAN :
       fetcher' = [fetcher EXCEPT ![f].pc = "feedback", ![f].cat = c, ![f].given = given]
  /\ keepMail /\ keepRows /\ keepItems /\ UNCHANGED <<finished, binned>>

-----------------------------------------------------------------------------
(* The guards *)

IsNotice(f) ==
  /\ IsFeedback(This(f)) /\ ~SubjectHasTime(This(f), Now)
  /\ IsCore(fetcher[f].cat) \/ fetcher[f].cat = "todo"

\* A feedback mail is made a notification, and an item without a deadline that
\* the agent made for it is taken back (its link stays).
FeedbackGuard(f) ==
  /\ Is(f, "feedback")
  /\ IF IsNotice(f)
     THEN /\ emails' = SetCat(fetcher[f].row, "notification")
          /\ fetcher' = [fetcher EXCEPT ![f].pc = "unfeed", ![f].cat = "notification"]
     ELSE Goto(f, "promo") /\ UNCHANGED emails
  /\ keepMail /\ keepItems /\ UNCHANGED <<nextRow, finished, binned>>

FeedbackUndo(f) ==
  /\ Is(f, "unfeed") /\ Goto(f, "promo")
  /\ LET i == Linked(fetcher[f].row)
     IN  IF i \in DOMAIN items /\ items[i].kind = "todo" /\ items[i].deadline = None
         THEN items' = Without(items, i) /\ binned' = binned \cup {i}
         ELSE UNCHANGED <<items, binned>>
  /\ keepMail /\ keepRows /\ UNCHANGED <<nextItem, finished>>

PromoGuard(f) ==
  /\ Is(f, "promo")
  /\ IF IsPromo(This(f))
     THEN /\ emails' = SetCat(fetcher[f].row, "career_promo")
          /\ fetcher' = [fetcher EXCEPT ![f].pc = "unpromo", ![f].cat = "career_promo"]
     ELSE Goto(f, "file") /\ UNCHANGED emails
  /\ keepMail /\ keepItems /\ UNCHANGED <<nextRow, finished, binned>>

\* Mutant of PromoUndo: only a todo without a deadline is taken back.
PromoUndoUndated(f) ==
  /\ Is(f, "unpromo")
  /\ LET i == Linked(fetcher[f].row)
     IN  IF i \in DOMAIN items /\ items[i].deadline = None
         THEN /\ items' = Without(items, i) /\ binned' = binned \cup {i}
              /\ Goto(f, "unlink")
         ELSE UNCHANGED <<items, binned>> /\ Goto(f, "file")
  /\ keepMail /\ keepRows /\ UNCHANGED <<nextItem, finished>>

PromoUndo(f) ==
  /\ Is(f, "unpromo")
  /\ LET i == Linked(fetcher[f].row)
     IN  IF i # None
         THEN /\ items' = Without(items, i) /\ binned' = binned \cup {i}
              /\ Goto(f, "unlink")
         ELSE UNCHANGED <<items, binned>> /\ Goto(f, "file")
  /\ keepMail /\ keepRows /\ UNCHANGED <<nextItem, finished>>

PromoUnlink(f) ==
  /\ Is(f, "unlink") /\ Goto(f, "file")
  /\ emails' = SetLink(fetcher[f].row, None)
  /\ keepMail /\ keepItems /\ UNCHANGED <<nextRow, finished, binned>>

-----------------------------------------------------------------------------
(* ensure_item, fill_missing_deadline *)

\* The category is stored; an item is made unless the mail has a link, even
\* one that leads nowhere.
File(f) ==
  /\ Is(f, "file")
  /\ emails' = SetCat(fetcher[f].row, fetcher[f].cat)
  /\ Goto(f, IF Linked(fetcher[f].row) # None THEN "fill"
             ELSE IF CreatesItem(fetcher[f].cat) /\ KindIsTodo(fetcher[f].cat) THEN "extract"
             ELSE "done")
  /\ keepMail /\ keepItems /\ UNCHANGED <<nextRow, finished, binned>>

\* infer_deadline on the mail of the step, received now.
Inferred(f, told) ==
  InferDeadline(told, [text |-> This(f).text, sent |-> This(f).sent, received |-> Now], Now)

\* What extract_todo() may read: the deadline or none, and perhaps a category
\* of its own.  What the agent has given names no category.
Extracted(f) ==
  [told : {None, This(f).told},
   cat : {fetcher[f].cat} \cup (IF fetcher[f].given THEN {} ELSE This(f).answers)]

\* Extraction fails, or its deadline is taken or inferred: no item for an
\* undated mail of a category that is not core.
Extract(f) ==
  /\ Is(f, "extract")
  /\ \/ /\ ~fetcher[f].given
        /\ Goto(f, "done")
     \/ \E ex \in Extracted(f) :
          LET d == Inferred(f, ex.told)
          IN  IF d = None /\ ~IsCore(fetcher[f].cat) THEN Goto(f, "done")
              ELSE fetcher' = [fetcher EXCEPT ![f].pc = "insert", ![f].held =
                     NewItem("todo", fetcher[f].row, This(f).party, ex.cat, d, d = None)]
  /\ keepMail /\ keepRows /\ keepItems /\ UNCHANGED <<finished, binned>>

InsertItem(f) ==
  /\ Is(f, "insert") /\ Insert(fetcher[f].held)
  /\ fetcher' = [fetcher EXCEPT ![f].pc = "link", ![f].made = nextItem, ![f].held = None]
  /\ keepMail /\ keepRows /\ UNCHANGED <<finished, binned>>

\* Mutant of LinkItem: the id after the last one.
LinkNextItem(f) ==
  /\ Is(f, "link")
  /\ emails' = SetLink(fetcher[f].row, nextItem)
  /\ fetcher' = [fetcher EXCEPT ![f].pc = "fill", ![f].made = None]
  /\ keepMail /\ keepItems /\ UNCHANGED <<nextRow, finished, binned>>

LinkItem(f) ==
  /\ Is(f, "link")
  /\ emails' = SetLink(fetcher[f].row, fetcher[f].made)
  /\ fetcher' = [fetcher EXCEPT ![f].pc = "fill", ![f].made = None]
  /\ keepMail /\ keepItems /\ UNCHANGED <<nextRow, finished, binned>>

\* Mutant of Fill: a deadline that cannot be inferred is left without its mark.
FillOnlyDated(f) ==
  /\ Is(f, "fill")
  /\ LET i == Linked(fetcher[f].row)
         d == Inferred(f, None)
     IN  IF i \in DOMAIN items /\ items[i].kind = "todo" /\ items[i].deadline = None
              /\ d # None
         THEN fetcher' = [fetcher EXCEPT ![f].pc = "fillWrite", ![f].made = i,
                ![f].held = [items[i] EXCEPT !.deadline = d, !.review = FALSE]]
         ELSE Goto(f, "merge")
  /\ keepMail /\ keepRows /\ keepItems /\ UNCHANGED <<finished, binned>>

\* fill_missing_deadline reads the item; what it writes is this row, its
\* deadline filled in or marked as missing.
Fill(f) ==
  /\ Is(f, "fill")
  /\ LET i == Linked(fetcher[f].row)
         d == Inferred(f, None)
     IN  IF i \in DOMAIN items /\ items[i].kind = "todo" /\ items[i].deadline = None
              /\ (d # None \/ ~items[i].review)
         THEN fetcher' = [fetcher EXCEPT ![f].pc = "fillWrite", ![f].made = i,
                ![f].held = [items[i] EXCEPT !.deadline = d, !.review = d = None]]
         ELSE Goto(f, "merge")
  /\ keepMail /\ keepRows /\ keepItems /\ UNCHANGED <<finished, binned>>

FillWrite(f) ==
  /\ Is(f, "fillWrite")
  /\ items' = Rewrite(fetcher[f].made, fetcher[f].held)
  /\ fetcher' = [fetcher EXCEPT ![f].pc = "merge", ![f].made = None, ![f].held = None]
  /\ keepMail /\ keepRows /\ UNCHANGED <<nextItem, finished, binned>>

-----------------------------------------------------------------------------
(* merge_duplicate_items *)

LiveTodo(i) == i \in DOMAIN items /\ items[i].kind = "todo" /\ items[i].status = "active"

\* The item of the newest other mail with the same subject and sender.
RepeatedItem(f) ==
  LET r == fetcher[f].row
      same == {q \in DOMAIN emails \ {r} : Trait[emails[q].mail].topic = This(f).topic}
  IN  IF same = {} THEN None ELSE emails[Max(same)].item

\* The item of the same company and category that the new one is about.
SameParty(f, new) ==
  LET row == items[new]
      alike == {i \in DOMAIN items \ {new} : LiveTodo(i) /\ items[i].cat = row.cat
                                              /\ items[i].party = row.party}
      found == PickMergeTarget({[id |-> i, deadline |-> items[i].deadline] : i \in alike},
                               row.deadline, This(f).force, Now)
  IN  IF row.party = None \/ found = None THEN None ELSE found.id

MergeInto(f, new) ==
  LET prev == RepeatedItem(f)
  IN  IF prev # None /\ prev # new /\ LiveTodo(prev) THEN prev ELSE SameParty(f, new)

\* keep, with what the newest mail says of it.
Merged(keep, new, row) ==
  LET d == IF items[new].deadline # None THEN items[new].deadline ELSE items[keep].deadline
  IN  [items[keep] EXCEPT !.deadline = d, !.review = d = None, !.src = row]

Merge(f) ==
  /\ Is(f, "merge")
  /\ LET new  == Linked(fetcher[f].row)
         keep == IF new \in DOMAIN items /\ items[new].kind = "todo"
                 THEN MergeInto(f, new) ELSE None
     IN  IF keep = None THEN Goto(f, "done")
         ELSE fetcher' = [fetcher EXCEPT ![f].pc = "mergeWrite",
                ![f].made = [keep |-> keep, new |-> new],
                ![f].held = Merged(keep, new, fetcher[f].row)]
  /\ keepMail /\ keepRows /\ keepItems /\ UNCHANGED <<finished, binned>>

\* merge_item_into: the kept row is written, the mail linked to it, the new
\* item deleted.
MergeWrite(f) ==
  /\ Is(f, "mergeWrite")
  /\ items' = Rewrite(fetcher[f].made.keep, fetcher[f].held)
  /\ fetcher' = [fetcher EXCEPT ![f].pc = "mergeLink", ![f].held = None]
  /\ keepMail /\ keepRows /\ UNCHANGED <<nextItem, finished, binned>>

\* Mutant of MergeLink: the mail keeps its link to the item that goes.
MergeKeepsLink(f) ==
  /\ Is(f, "mergeLink") /\ Goto(f, "mergeDrop") /\ UNCHANGED emails
  /\ keepMail /\ keepItems /\ UNCHANGED <<nextRow, finished, binned>>

MergeLink(f) ==
  /\ Is(f, "mergeLink") /\ Goto(f, "mergeDrop")
  /\ emails' = SetLink(fetcher[f].row, fetcher[f].made.keep)
  /\ keepMail /\ keepItems /\ UNCHANGED <<nextRow, finished, binned>>

MergeDrop(f) ==
  /\ Is(f, "mergeDrop")
  /\ items' = Without(items, fetcher[f].made.new)
  /\ fetcher' = [fetcher EXCEPT ![f].pc = "done", ![f].made = None]
  /\ keepMail /\ keepRows /\ UNCHANGED <<nextItem, finished, binned>>

-----------------------------------------------------------------------------
(* The ends of a mail and of a batch *)

MailDone(f) ==
  /\ Is(f, "done")
  /\ finished' = finished \cup {fetcher[f].row}
  /\ fetcher' = [fetcher EXCEPT ![f] = Rest(f)]
  /\ keepMail /\ keepRows /\ keepItems /\ UNCHANGED binned

BatchOver(f) == Is(f, "next") /\ DOMAIN fetcher[f].todo = {}

\* Mutant of Finish: the cursor goes to the newest mail there is.
FinishAtNewest(f) ==
  /\ BatchOver(f)
  /\ cursor' = IF f \in Pollers /\ DOMAIN box # {} THEN Max(DOMAIN box) ELSE cursor
  /\ fetcher' = [fetcher EXCEPT ![f] = Idle]
  /\ keepRows /\ keepItems
  /\ UNCHANGED <<box, nextUid, legacy, finished, binned, forgotten, strays, ops, interrupts>>

\* The cursor moves to the greatest uid that was fetched.  (A check of the
\* reminders may follow: module Reminders.)
Finish(f) ==
  /\ BatchOver(f)
  /\ cursor' = IF f \in Pollers /\ fetcher[f].top # None THEN fetcher[f].top ELSE cursor
  /\ fetcher' = [fetcher EXCEPT ![f] = Idle]
  /\ keepRows /\ keepItems
  /\ UNCHANGED <<box, nextUid, legacy, finished, binned, forgotten, strays, ops, interrupts>>

\* Mutant of Interrupt: the batch counts as read all the same.
InterruptAdvances(f) ==
  /\ interrupts < MaxInterrupts /\ interrupts' = interrupts + 1
  /\ ~Is(f, "idle")
  /\ cursor' = IF f \in Pollers /\ fetcher[f].top # None THEN fetcher[f].top ELSE cursor
  /\ fetcher' = [fetcher EXCEPT ![f] = Idle]
  /\ keepRows /\ keepItems
  /\ UNCHANGED <<box, nextUid, legacy, finished, binned, forgotten, strays, ops>>

\* A database error or the end of the process: the rest of the batch and the
\* step of the cursor are not done.  (An error in the merge is only logged and
\* the batch goes on: MergeFails.)
Interrupt(f) ==
  /\ interrupts < MaxInterrupts /\ interrupts' = interrupts + 1
  /\ ~Is(f, "idle")
  /\ fetcher' = [fetcher EXCEPT ![f] = Idle]
  /\ keepRows /\ keepItems
  /\ UNCHANGED <<box, nextUid, cursor, legacy, finished, binned, forgotten, strays, ops>>

MergeFails(f) ==
  /\ interrupts < MaxInterrupts /\ interrupts' = interrupts + 1
  /\ fetcher[f].pc \in {"merge", "mergeWrite", "mergeLink", "mergeDrop"}
  /\ fetcher' = [fetcher EXCEPT ![f].pc = "done", ![f].made = None, ![f].held = None]
  /\ keepRows /\ keepItems
  /\ UNCHANGED <<box, nextUid, cursor, legacy, finished, binned, forgotten, strays, ops>>

-----------------------------------------------------------------------------
(* Errors the code drops and goes on from *)

\* The database call of the step fails and the next step follows; what the mail
\* had, the call has lost sight of.
Dropped(f, from, to, lost) ==
  /\ interrupts < MaxInterrupts /\ interrupts' = interrupts + 1
  /\ Is(f, from) /\ fetcher' = [fetcher EXCEPT ![f].pc = to, ![f].made = None]
  /\ strays' = strays \cup lost
  /\ keepRows /\ keepItems
  /\ UNCHANGED <<box, nextUid, cursor, legacy, finished, binned, forgotten, ops>>

\* The item of the mail, for a call that looks it up.
OwnItem(f) == {Linked(fetcher[f].row)} \ {None}

\* The item the agent made is not linked.
LinkUnset(f) == Dropped(f, "toolLink", "agent", {fetcher[f].made})

\* The guards find no item or cannot delete it, or leave the link.
FeedbackKept(f) == Dropped(f, "unfeed", "promo", {})
PromoUnseen(f) == Dropped(f, "unpromo", "file", OwnItem(f))
PromoUndeleted(f) == OwnItem(f) # {} /\ Dropped(f, "unpromo", "unlink", OwnItem(f))
PromoStaysLinked(f) == Dropped(f, "unlink", "file", {})

\* The item that may lack its deadline is not found.
FillMissed(f) == Dropped(f, "fill", "merge", OwnItem(f))

\* create_item does not see the item the mail has and makes another one.
AgentCreatesBlindly(f) ==
  /\ interrupts < MaxInterrupts /\ interrupts' = interrupts + 1
  /\ Is(f, "agent") /\ fetcher[f].round < MaxRounds
  /\ \E c \in This(f).answers, d \in {None, ToldDeadline(f)} : Insert(ToolItem(f, c, d))
  /\ fetcher' = [fetcher EXCEPT ![f].pc = "toolLink", ![f].made = nextItem,
                                ![f].round = @ + 1]
  /\ strays' = strays \cup OwnItem(f)
  /\ keepRows
  /\ UNCHANGED <<box, nextUid, cursor, legacy, finished, binned, forgotten, ops>>

PassOver(f) ==
  \/ LinkUnset(f) \/ FeedbackKept(f) \/ PromoUnseen(f) \/ PromoUndeleted(f)
  \/ PromoStaysLinked(f) \/ FillMissed(f) \/ AgentCreatesBlindly(f)

-----------------------------------------------------------------------------
(* The server, and the user at the web interface *)

Arrive(m) ==
  /\ nextUid <= MaxUid
  /\ box' = With(box, nextUid, m) /\ nextUid' = nextUid + 1
  /\ keepRows /\ keepItems
  /\ UNCHANGED <<cursor, legacy, fetcher, finished, binned, forgotten, strays, ops, interrupts>>

Expunge(u) ==
  /\ ops < MaxOps /\ ops' = ops + 1
  /\ box' = Without(box, u)
  /\ keepRows /\ keepItems
  /\ UNCHANGED <<nextUid, cursor, legacy, fetcher, finished, binned, forgotten, strays,
                 interrupts>>

DropEmail(r) ==
  /\ ops < MaxOps /\ ops' = ops + 1
  /\ emails' = Without(emails, r) /\ forgotten' = forgotten \cup {emails[r].mail}
  /\ keepItems
  /\ UNCHANGED <<box, nextUid, cursor, legacy, nextRow, fetcher, finished, binned, strays,
                 interrupts>>

DropItem(i) ==
  /\ ops < MaxOps /\ ops' = ops + 1
  /\ items' = Without(items, i) /\ binned' = binned \cup {i}
  /\ keepRows
  /\ UNCHANGED <<box, nextUid, cursor, legacy, nextItem, fetcher, finished, forgotten, strays,
                 interrupts>>

ChangeStatus(i, s) ==
  /\ ops < MaxOps /\ ops' = ops + 1
  /\ items' = SetStatus(i, s)
  /\ keepRows
  /\ UNCHANGED <<box, nextUid, cursor, legacy, nextItem, fetcher, finished, binned, forgotten,
                 strays, interrupts>>

-----------------------------------------------------------------------------
RunAgent(f) == AgentCreatesItem(f) \/ AgentLinks(f) \/ AgentEnds(f)

EnsureItem(f) == File(f) \/ Extract(f) \/ InsertItem(f) \/ LinkItem(f)

MergeDuplicates(f) == Merge(f) \/ MergeWrite(f) \/ MergeLink(f) \/ MergeDrop(f)

Handle(f) ==
  \/ Reply(f) \/ RunAgent(f)
  \/ FeedbackGuard(f) \/ FeedbackUndo(f) \/ PromoGuard(f) \/ PromoUndo(f) \/ PromoUnlink(f)
  \/ EnsureItem(f) \/ Fill(f) \/ FillWrite(f) \/ MergeDuplicates(f) \/ MailDone(f)

Step(f) == Ask(f) \/ Skip(f) \/ InsertEmail(f) \/ Handle(f) \/ Finish(f)

World ==
  \/ \E m \in Mails : Arrive(m)
  \/ \E u \in DOMAIN box : Expunge(u)
  \/ \E r \in DOMAIN emails : DropEmail(r)
  \/ \E i \in DOMAIN items, s \in {"completed", "silent"} : ChangeStatus(i, s)
  \/ \E i \in DOMAIN items : DropItem(i)

Next ==
  \/ \E f \in Fetchers :
       Step(f) \/ Answer(f) \/ NoAnswer(f) \/ Interrupt(f) \/ MergeFails(f) \/ PassOver(f)
  \/ World

Spec == Init /\ [][Next]_vars

\* The poll loop runs for ever.  The IMAP client waits without a timeout: nothing
\* says that the mail server answers.  (The calls of the models end.)
FairSpec == Spec /\ \A f \in Pollers : WF_vars(Step(f))

-----------------------------------------------------------------------------
(* Properties *)

Row == [kind : {"todo", "notification"}, status : {"active", "completed", "silent"},
        src : Nat, party : {Trait[m].party : m \in Mails}, cat : Categories,
        deadline : Int \cup {None}, review : BOOLEAN]

\* The shape of the state: ids below the counters, mails of Mails.
TypeOK ==
  /\ DOMAIN box \subseteq 1 .. nextUid - 1 /\ \A u \in DOMAIN box : box[u] \in Mails
  /\ cursor \in {None} \cup 1 .. MaxUid /\ legacy \in LegacyUids
  /\ DOMAIN emails \subseteq 1 .. nextRow - 1
  /\ \A r \in DOMAIN emails :
       emails[r] \in [mail : Mails, cat : Categories \cup {None},
                      item : {None} \cup 1 .. nextItem - 1]
  /\ DOMAIN items \subseteq 1 .. nextItem - 1 /\ \A i \in DOMAIN items : items[i] \in Row
  /\ strays \subseteq 1 .. nextItem - 1
  /\ \A f \in Fetchers : DOMAIN fetcher[f] = DOMAIN Idle

\* The mails a first reading that starts at the legacy cursor does not pass over.
Owed(u) == legacy = None \/ u > legacy

\* The cursor never passes over a mail that is owed: what the server holds up to
\* last_uid is in the mail database, or was and the user deleted it
\* (pipeline.rs:303-308: the cursor moves only after the whole batch).  Where a
\* version with one mailbox has left its cursor, an account without one of its
\* own starts there, and what its mailbox holds up to it may be passed over
\* (pipeline.rs:84-87).
CursorCovered ==
  \A u \in DOMAIN box :
    cursor # None /\ u <= cursor /\ Owed(u) /\ Readable(box[u]) => box[u] \in Stored \cup forgotten

\* However often a mail is delivered and fetched, by whomever, and wherever a
\* batch or a merge is cut short, it is one row and, while that row is kept, at
\* most one item (pipeline.rs:174 deduplicates by message id, create_item is
\* idempotent, a merge deletes the new item).  Only errors the code drops leave
\* more: an item that was not linked or not looked up (agent/tools.rs:374, :425).
OneItemPerMail ==
  /\ \A q, r \in DOMAIN emails : emails[q].mail = emails[r].mail => q = r
  /\ \A r \in DOMAIN emails :
       Cardinality({i \in DOMAIN items \ strays : items[i].src = r}) <= 1

\* A mail's link leads to an item, unless the user or a guard deleted that item:
\* a merge moves the link to the kept item before it deletes the other one, and
\* a crash between the two does no harm (pipeline.rs:794-795).
LinkLeadsToItem ==
  \A r \in DOMAIN emails : emails[r].item # None => emails[r].item \in DOMAIN items \cup binned

\* A promotion leaves no todo behind, whatever the models answered and the
\* agent created, but for one that the guard could not find or delete: those
\* errors are dropped (pipeline.rs:268-283).
PromoNotKept ==
  \A i \in DOMAIN items \ strays :
    /\ items[i].kind = "todo" /\ items[i].src \in finished \cap DOMAIN emails
    => ~IsPromo(Trait[emails[items[i].src].mail])

\* An active todo without a deadline that the pipeline has handled and did not
\* lose sight of is marked for review, so that the web interface asks for it
\* (pipeline.rs:608-612).
UndatedIsMarked ==
  \A i \in DOMAIN items \ strays :
    /\ items[i].kind = "todo" /\ items[i].deadline = None
    /\ items[i].src \in finished \cap DOMAIN emails
    => items[i].review

\* One todo for the mails about one matter, the newest mail deciding
\* (README.md:28): the item a mail was merged into has that mail as its source,
\* the one the web interface opens, or a later one (pipeline.rs:783).
MergedNamesNewest ==
  \A r \in finished \cap DOMAIN emails :
    emails[r].item \in DOMAIN items => items[emails[r].item].src >= r

\* As long as the mail server goes on answering the poll loop, every mail that
\* is owed is sooner or later in the mail database or gone from the server,
\* through fetches that fail, batches cut short and crashes (the poll loop
\* comes back to it, main.rs:168-196).
MailTaken ==
  (\A f \in Pollers : []<><<Answer(f)>>_vars) =>
    \A u \in 1 .. MaxUid :
      (u \in DOMAIN box /\ Owed(u) /\ Readable(box[u])) ~>
        (u \notin DOMAIN box \/ box[u] \in Stored \cup forgotten)

Intake == INSTANCE MailIntake WITH
  waiting <- {u \in DOMAIN box : Owed(u) /\ Readable(box[u])
                                  /\ box[u] \notin Stored \cup forgotten},
  seen <- DOMAIN box, last <- nextUid - 1, mark <- cursor

\* The pipeline implements the intake of mails it promises.
IntakeSpec == Intake!Spec
=============================================================================
