------------------------------ MODULE Requests ------------------------------
(***************************************************************************)
(* What a person decides at the web interface about the mails and items     *)
(* the pipeline has stored: the approvals the agent asks for (agent/        *)
(* tools.rs, the approval handlers of api.rs) and reclassifying a mail,     *)
(* next to the direct operations.  A handler's database calls are separate  *)
(* steps; a read is joined to the step that uses it unless a later step     *)
(* writes what it read.                                                     *)
(***************************************************************************)
EXTENDS MailRules, FiniteSetsExt, Sequences

CONSTANTS
  Deciders,      \* requests that approve or reject, one at a time each
  Filers,        \* requests that reclassify a mail
  Mails,         \* row ids of the mails, all stored at the start
  Deadlines,     \* deadlines a patch or an extraction may give
  Chosen,        \* categories and statuses that are asked for
  MaxApprovals, MaxItems, MaxOps, MaxCrashes       \* bounds

ASSUME RequestsAssumption ==
  /\ Deciders \cap Filers = {} /\ IsFiniteSet(Deciders) /\ IsFiniteSet(Filers)
  /\ Mails \subseteq 1 .. MaxItems /\ IsFiniteSet(Mails)
  /\ Deadlines \subseteq Int
  /\ Chosen \subseteq Categories \cup {"active", "completed", "silent", "expired"}
  /\ {MaxApprovals, MaxItems, MaxOps, MaxCrashes} \subseteq Nat

VARIABLES
  emails,      \* row id -> [cat, item], the rows that exist
  items,       \* item id -> [kind, status, deadline, src]
  nextItem,
  approvals,   \* approval id -> [tool, id, arg, status]; none is ever deleted
  call,        \* the requests in progress
  written,     \* approvals whose change was written
  filed,       \* mail -> category of the last reclassification that ended well
  ops, crashes

vars == <<emails, items, nextItem, approvals, call, written, filed, ops, crashes>>

Tools == {"update_item", "set_item_status", "delete_item",
          "update_email_category", "delete_email"}
OnMails  == {"update_email_category", "delete_email"}
Statuses == {"active", "completed", "silent", "expired"}

\* A patch names at least one of the fields told apart here.
Patches ==
  LET deadline == Deadlines \cup {None}
      status   == Chosen \cap Statuses
  IN  [deadline : deadline] \cup [status : status] \cup [deadline : deadline, status : status]

\* What a request of the tool may carry.
Args(tool) ==
  CASE tool = "update_item" -> Patches
    [] tool = "set_item_status" -> Chosen \cap Statuses
    [] tool = "update_email_category" -> Chosen \cap Categories
    [] OTHER -> {None}

Idle == [pc |-> "idle", id |-> None, cat |-> None, link |-> None, held |-> None, ok |-> FALSE]

NewTodo(src, deadline) ==
  [kind |-> "todo", status |-> "active", deadline |-> deadline, src |-> src,
   review |-> deadline = None]

\* Some mails have the item the pipeline made for them.
Init ==
  /\ \E with \in SUBSET Mails, kind \in {"todo", "notification"} :
       /\ items = [m \in with |-> [NewTodo(m, None) EXCEPT !.kind = kind,
                                                         !.review = kind = "todo"]]
       /\ emails = [m \in Mails |->
            [cat |-> IF m \in with THEN "core" ELSE "misc",
             item |-> IF m \in with THEN m ELSE None]]
  /\ nextItem = Max(Mails \cup {0}) + 1
  /\ approvals = <<>>
  /\ call = [c \in Deciders \cup Filers |-> Idle]
  /\ written = {} /\ filed = [m \in Mails |-> None]
  /\ ops = 0 /\ crashes = 0

-----------------------------------------------------------------------------
Without(f, k) == [x \in DOMAIN f \ {k} |-> f[x]]
With(f, k, v) == [x \in DOMAIN f \cup {k} |-> IF x = k THEN v ELSE f[x]]

\* Mutant of Rewrite: an upsert.
Upsert(i, row) == [j \in DOMAIN items \cup {i} |-> IF j = i THEN row ELSE items[j]]

\* UPDATE ... WHERE id: all columns but the source; nothing for a missing row.
Rewrite(i, row) ==
  IF i \in DOMAIN items THEN [items EXCEPT ![i] = [row EXCEPT !.src = items[i].src]]
  ELSE items

SetStatus(i, s) == IF i \in DOMAIN items THEN [items EXCEPT ![i].status = s] ELSE items
SetCat(m, c)  == IF m \in DOMAIN emails THEN [emails EXCEPT ![m].cat = c] ELSE emails

\* Mutant of SetLink: the id is taken from the counter, after the insertion.
SetLinkNext(m, i) ==
  IF m \in DOMAIN emails THEN [emails EXCEPT ![m].item = nextItem] ELSE emails

SetLink(m, i) == IF m \in DOMAIN emails THEN [emails EXCEPT ![m].item = i] ELSE emails

Is(c, pc) == call[c].pc = pc
Go(c, pc) == call' = [call EXCEPT ![c].pc = pc]
End(c)    == call' = [call EXCEPT ![c] = Idle]

Exists(tool, id) == IF tool \in OnMails THEN id \in DOMAIN emails ELSE id \in DOMAIN items

keepRows == UNCHANGED <<emails, items, nextItem>>
keepHistory == UNCHANGED <<written, filed>>
keepBounds == UNCHANGED <<ops, crashes>>

-----------------------------------------------------------------------------
(* Approvals *)

\* A modifying tool of the agent: it checks that the object is there and that
\* the arguments are well formed, and only files a request.
AgentAsks(tool, id, arg) ==
  /\ Len(approvals) < MaxApprovals
  /\ Exists(tool, id)
  /\ approvals' = Append(approvals, [tool |-> tool, id |-> id, arg |-> arg, status |-> "pending"])
  /\ keepRows /\ keepHistory /\ keepBounds /\ UNCHANGED call

\* Mutant of ReadPending: any request may be decided.
ReadAny(a) == a \in DOMAIN approvals

\* Only a pending request may be decided; any other answers 400.
ReadPending(a) == a \in DOMAIN approvals /\ approvals[a].status = "pending"

ApproveBegin(c, a) ==
  /\ Is(c, "idle") /\ ReadPending(a)
  /\ call' = [call EXCEPT ![c].pc = "check", ![c].id = a]
  /\ keepRows /\ keepHistory /\ keepBounds /\ UNCHANGED approvals

Asked(c) == approvals[call[c].id]

\* update_item's patch of the row just read; the flag is only kept, never set.
Patched(row, patch) ==
  LET new == [x \in DOMAIN row |-> IF x \in DOMAIN patch THEN patch[x] ELSE row[x]]
  IN  [new EXCEPT !.review = row.kind = "todo" /\ new.deadline = None /\ row.review]

\* apply() looks at the object again: without it the request is rejected.
ApproveCheck(c) ==
  /\ Is(c, "check")
  /\ LET a == Asked(c)
     IN  IF Exists(a.tool, a.id)
         THEN call' = [call EXCEPT ![c].pc = "write", ![c].held =
                IF a.tool = "update_item" THEN Patched(items[a.id], a.arg) ELSE None]
         ELSE Go(c, "decide")
  /\ keepRows /\ keepHistory /\ keepBounds /\ UNCHANGED approvals

ApproveWrite(c) ==
  /\ Is(c, "write")
  /\ LET a == Asked(c)
     IN  /\ items' = CASE a.tool = "update_item" -> Rewrite(a.id, call[c].held)
                       [] a.tool = "set_item_status" -> SetStatus(a.id, a.arg)
                       [] a.tool = "delete_item" -> Without(items, a.id)
                       [] OTHER -> items
         /\ emails' = CASE a.tool = "update_email_category" -> SetCat(a.id, a.arg)
                        [] a.tool = "delete_email" -> Without(emails, a.id)
                        [] OTHER -> emails
         /\ written' = written \cup {call[c].id}
  /\ call' = [call EXCEPT ![c].pc = "decide", ![c].held = None, ![c].ok = TRUE]
  /\ keepBounds /\ UNCHANGED <<nextItem, approvals, filed>>

\* Mutant of Verdict: the change counts as refused when its object has gone
\* by now, although it was written.
VerdictByObject(c) ==
  IF call[c].ok /\ Exists(Asked(c).tool, Asked(c).id) THEN "approved" ELSE "rejected"

Verdict(c) == IF call[c].ok THEN "approved" ELSE "rejected"

\* decide_approval updates by id alone, whatever the status is by now.
ApproveEnd(c) ==
  /\ Is(c, "decide")
  /\ approvals' = [approvals EXCEPT ![call[c].id].status = Verdict(c)]
  /\ End(c) /\ keepRows /\ keepHistory /\ keepBounds

RejectBegin(c, a) ==
  /\ Is(c, "idle") /\ ReadPending(a)
  /\ call' = [call EXCEPT ![c].pc = "decide", ![c].id = a]
  /\ keepRows /\ keepHistory /\ keepBounds /\ UNCHANGED approvals

-----------------------------------------------------------------------------
(* Reclassifying a mail *)

\* Mutant of MakesTodo: every category but misc.
AllButMisc(cat) == cat # "misc"

MakesTodo(cat) == CreatesItem(cat) /\ KindIsTodo(cat)

FileBegin(c, m, cat) ==
  /\ Is(c, "idle") /\ m \in DOMAIN emails
  /\ call' = [call EXCEPT ![c] = [Idle EXCEPT !.pc = "file", !.id = m, !.cat = cat,
                                              !.link = emails[m].item]]
  /\ filed' = [filed EXCEPT ![m] = None]
  /\ keepRows /\ keepBounds /\ UNCHANGED <<approvals, written>>

\* The category is set; then a todo is taken back, or extracted again.
FileWrite(c) ==
  /\ Is(c, "file")
  /\ emails' = SetCat(call[c].id, call[c].cat)
  /\ Go(c, IF MakesTodo(call[c].cat) THEN "extract"
           ELSE IF call[c].link \in DOMAIN items /\ items[call[c].link].kind = "todo"
           THEN "undo" ELSE "filed")
  /\ keepHistory /\ keepBounds /\ UNCHANGED <<items, nextItem, approvals>>

FileUndo(c) ==
  /\ Is(c, "undo") /\ Go(c, "unlink")
  /\ items' = Without(items, call[c].link)
  /\ keepHistory /\ keepBounds /\ UNCHANGED <<emails, nextItem, approvals>>

FileUnlink(c) ==
  /\ Is(c, "unlink") /\ Go(c, "filed")
  /\ emails' = SetLink(call[c].id, None)
  /\ keepHistory /\ keepBounds /\ UNCHANGED <<items, nextItem, approvals>>

\* The language model's extraction fails (502; the category stays) or gives
\* what the item becomes.
FileExtract(c) ==
  /\ Is(c, "extract")
  /\ \/ End(c)
     \/ \E d \in Deadlines \cup {None} :
          call' = [call EXCEPT ![c].pc = IF call[c].link = None THEN "insert" ELSE "update",
                               ![c].held = NewTodo(call[c].id, d)]
  /\ keepRows /\ keepHistory /\ keepBounds /\ UNCHANGED approvals

\* The item the mail was linked to when the request was read, even one that
\* has gone: then nothing is written, and the answer is the same.
FileUpdate(c) ==
  /\ Is(c, "update") /\ Go(c, "filed")
  /\ items' = Rewrite(call[c].link, call[c].held)
  /\ keepBounds /\ UNCHANGED <<emails, nextItem, approvals, written, filed>>

FileInsert(c) ==
  /\ Is(c, "insert") /\ nextItem <= MaxItems
  /\ items' = With(items, nextItem, call[c].held) /\ nextItem' = nextItem + 1
  /\ call' = [call EXCEPT ![c].pc = "link", ![c].link = nextItem]
  /\ keepHistory /\ keepBounds /\ UNCHANGED <<emails, approvals>>

\* Mutant of FileLink: the link is set only where there was none before.
FileKeepsLink(c) ==
  /\ Is(c, "link") /\ Go(c, "filed")
  /\ keepBounds /\ UNCHANGED <<emails, items, nextItem, approvals, written, filed>>

FileLink(c) ==
  /\ Is(c, "link") /\ Go(c, "filed")
  /\ emails' = SetLink(call[c].id, call[c].link)
  /\ keepBounds /\ UNCHANGED <<items, nextItem, approvals, written, filed>>

\* The answer.
FileEnd(c) ==
  /\ Is(c, "filed") /\ End(c)
  /\ filed' = [filed EXCEPT ![call[c].id] = call[c].cat]
  /\ keepRows /\ keepBounds /\ UNCHANGED <<approvals, written>>

-----------------------------------------------------------------------------
(* Direct operations; a list of ids is handled within one locked call *)

Operation == ops < MaxOps /\ ops' = ops + 1 /\ UNCHANGED <<approvals, call, crashes>>

CreateItem(d) ==
  /\ nextItem <= MaxItems
  /\ items' = With(items, nextItem, NewTodo(None, d)) /\ nextItem' = nextItem + 1
  /\ Operation /\ keepHistory /\ UNCHANGED emails

ChangeStatuses(ids, s) ==
  /\ items' = [i \in DOMAIN items |->
       IF i \in ids THEN [items[i] EXCEPT !.status = s] ELSE items[i]]
  /\ Operation /\ keepHistory /\ UNCHANGED <<emails, nextItem>>

DeleteItems(ids) ==
  /\ items' = [i \in DOMAIN items \ ids |-> items[i]]
  /\ Operation /\ keepHistory /\ UNCHANGED <<emails, nextItem>>

\* In a batch mails are given a category and nothing else is done.
CategorizeEmails(ids, c) ==
  /\ emails' = [m \in DOMAIN emails |->
       IF m \in ids THEN [emails[m] EXCEPT !.cat = c] ELSE emails[m]]
  /\ Operation /\ keepHistory /\ UNCHANGED <<items, nextItem>>

DeleteEmails(ids) ==
  /\ emails' = [m \in DOMAIN emails \ ids |-> emails[m]]
  /\ Operation /\ keepHistory /\ UNCHANGED <<items, nextItem>>

\* The process ends in the middle of its requests, or a call fails.
Crash ==
  /\ crashes < MaxCrashes /\ crashes' = crashes + 1
  /\ call' = [c \in DOMAIN call |-> Idle]
  /\ keepRows /\ keepHistory /\ UNCHANGED <<approvals, ops>>

-----------------------------------------------------------------------------
Approve(c) ==
  \/ \E a \in DOMAIN approvals : ApproveBegin(c, a) \/ RejectBegin(c, a)
  \/ ApproveCheck(c) \/ ApproveWrite(c) \/ ApproveEnd(c)

Reclassify(c) ==
  \/ \E m \in DOMAIN emails, cat \in Chosen \cap Categories : FileBegin(c, m, cat)
  \/ FileWrite(c) \/ FileUndo(c) \/ FileUnlink(c) \/ FileExtract(c)
  \/ FileUpdate(c) \/ FileInsert(c) \/ FileLink(c) \/ FileEnd(c)

Direct ==
  \/ \E d \in Deadlines \cup {None} : CreateItem(d)
  \/ \E ids \in SUBSET DOMAIN items, s \in Chosen \cap Statuses : ChangeStatuses(ids, s)
  \/ \E ids \in SUBSET DOMAIN items : DeleteItems(ids)
  \/ \E ids \in SUBSET DOMAIN emails, c \in Chosen \cap Categories : CategorizeEmails(ids, c)
  \/ \E ids \in SUBSET DOMAIN emails : DeleteEmails(ids)

Next ==
  \/ \E tool \in Tools : \E id \in DOMAIN items \cup DOMAIN emails, arg \in Args(tool) :
       AgentAsks(tool, id, arg)
  \/ \E c \in Deciders : Approve(c)
  \/ \E c \in Filers : Reclassify(c)
  \/ Direct
  \/ Crash

Spec == Init /\ [][Next]_vars

-----------------------------------------------------------------------------
(* Properties *)

Row == [kind : {"todo", "notification"}, status : Statuses, deadline : Deadlines \cup {None},
        src : Mails \cup {None}, review : BOOLEAN]

\* The shape of the tables.
TypeOK ==
  /\ DOMAIN emails \subseteq Mails
  /\ \A m \in DOMAIN emails : emails[m] \in [cat : Categories, item : {None} \cup 1 .. nextItem - 1]
  /\ DOMAIN items \subseteq 1 .. nextItem - 1
  /\ \A i \in DOMAIN items : items[i] \in Row
  /\ \A a \in DOMAIN approvals :
       /\ approvals[a].tool \in Tools /\ approvals[a].arg \in Args(approvals[a].tool)
       /\ approvals[a].status \in {"pending", "approved", "rejected"}

\* A rejected request has changed nothing (docs/toolcall-skill.md:82), when one
\* person decides at a time and no crash parts the change from its record.
RejectedUntouched ==
  crashes = 0 /\ Cardinality(Deciders) = 1 =>
    \A a \in DOMAIN approvals : approvals[a].status = "rejected" => a \notin written

\* A decision is made once: what was approved or rejected stays so
\* (api.rs:1289, 1335).
DecisionsAreFinal ==
  [][Cardinality(Deciders) = 1 =>
       \A a \in DOMAIN approvals :
         approvals[a].status # "pending" => approvals'[a] = approvals[a]]_vars

\* What an approved request deleted is not brought back by a write that was
\* under way with a row read before (db.rs:672-697: update_item never inserts).
ApprovedDeletionHolds ==
  \A a \in DOMAIN approvals :
    LET q == approvals[a]
    IN  q.tool \in {"delete_item", "delete_email"} /\ q.status = "approved" =>
          ~Exists(q.tool, q.id)

Filing(m) == \E c \in Filers : call[c].pc # "idle" /\ call[c].id = m

\* A stored mail leads to every todo that was made of it, so that the todo can
\* be taken back (api.rs:817-818).
MadeItemIsLinked ==
  crashes = 0 /\ Cardinality(Filers) = 1 =>
    \A i \in DOMAIN items :
      LET m == items[i].src
      IN  m \in DOMAIN emails /\ ~Filing(m) => emails[m].item = i

\* A mail filed under a category without todos has none left
\* (api.rs:740-749), when one person files and one decides at a time: of two
\* updates under way together the one that read the item as a todo may come
\* last and make it one again, as update_item writes every column.
FiledAway ==
  Cardinality(Filers) = 1 /\ Cardinality(Deciders) = 1 =>
    \A m \in DOMAIN emails :
      filed[m] \notin {None, "core", "todo"} /\ ~Filing(m) =>
        ~\E i \in DOMAIN items : i = emails[m].item /\ items[i].kind = "todo"
=============================================================================
