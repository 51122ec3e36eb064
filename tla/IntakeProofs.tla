---------------------------- MODULE IntakeProofs ----------------------------
(***************************************************************************)
(* The mail pipeline implements the intake of mails of module MailIntake,   *)
(* for any number of fetches at once, any mails, and any number of errors,  *)
(* ends of the process and user operations between their steps.             *)
(***************************************************************************)
EXTENDS MailPipeline, TLAPS, WellFoundedInduction

-----------------------------------------------------------------------------
(* The inductive invariant *)

IsCall(c) ==
  c = [pc |-> c.pc, from |-> c.from, limit |-> c.limit, todo |-> c.todo, top |-> c.top,
       ranged |-> c.ranged, row |-> c.row, round |-> c.round, cat |-> c.cat,
       given |-> c.given, made |-> c.made, held |-> c.held]

IsRow(row) == row = [mail |-> row.mail, cat |-> row.cat, item |-> row.item]

\* The tables have room at their counters, rows and calls have their fields.
Shape ==
  /\ nextUid \in Nat \ {0} /\ DOMAIN box \subseteq 1 .. nextUid - 1
  /\ nextRow \in Nat \ {0} /\ DOMAIN emails \subseteq 1 .. nextRow - 1
  /\ \A r \in DOMAIN emails : IsRow(emails[r])
  /\ DOMAIN fetcher = Fetchers
  /\ \A f \in Fetchers : IsCall(fetcher[f])
  /\ cursor \in {None} \cup 1 .. nextUid - 1
  /\ legacy \in LegacyUids

\* A mail that needs to be taken is stored, or was and the user deleted it.
Taken(m) == Readable(m) => m \in Stored \cup forgotten

\* Every mail up to a uid that is owed is taken.
CoveredTo(last) ==
  last # None => \A u \in DOMAIN box : u <= last /\ Owed(u) => Taken(box[u])

\* The poller has asked for all mails behind a uid, and owes none of those before.
AskCovers(f) ==
  LET c == fetcher[f]
  IN  c.pc = "fetch" =>
        /\ ~c.ranged /\ c.limit = None
        /\ c.from \in {None, legacy} \cup 1 .. nextUid - 1
        /\ CoveredTo(c.from)

\* What the batch of a poller promises when it will move the cursor: each mail
\* up to its greatest uid that is owed is taken or still to come, and the mail in
\* hand is taken once the call has passed its insertion.
BatchCovers(f) ==
  LET c == fetcher[f]
  IN  c.pc \notin {"idle", "fetch"} =>
        /\ ~c.ranged
        /\ c.top \in {None} \cup 1 .. nextUid - 1
        /\ c.top # None => \A u \in DOMAIN box :
             u <= c.top /\ Owed(u)
             => Taken(box[u]) \/ \E v \in DOMAIN c.todo : c.todo[v] = box[u]
        /\ c.pc # "next" => Taken(Mail(f))

CallCovers(f) == AskCovers(f) /\ BatchCovers(f)

IntakeInv == Shape /\ CursorCovered /\ \A f \in Pollers : CallCovers(f)

-----------------------------------------------------------------------------
(* Steps that handle a mail leave everything the intake is about alone *)

SameRows ==
  /\ DOMAIN emails' = DOMAIN emails
  /\ \A r \in DOMAIN emails :
       emails'[r].mail = emails[r].mail /\ IsRow(emails'[r])

SameMailbox == UNCHANGED <<box, nextUid, cursor, legacy, forgotten, nextRow>>

\* A call whose batch is that of another.
Keeps(c, d) == IsCall(d) /\ d.todo = c.todo /\ d.top = c.top /\ d.ranged = c.ranged

Busy(pc) == pc \notin {"idle", "fetch", "next"}

SameBatch(f) ==
  /\ DOMAIN fetcher' = Fetchers
  /\ \A g \in Fetchers \ {f} : fetcher'[g] = fetcher[g]
  /\ Keeps(fetcher[f], fetcher'[f])
  /\ Busy(fetcher[f].pc) /\ Busy(fetcher'[f].pc)

Handles(f) == SameRows /\ SameMailbox /\ SameBatch(f)

LEMMA LinkSameRows ==
  ASSUME Shape, NEW r, NEW i, emails' = SetLink(r, i)
  PROVE  SameRows
BY DEF Shape, IsRow, SetLink, SameRows

LEMMA CatSameRows ==
  ASSUME Shape, NEW r, NEW c, emails' = SetCat(r, c)
  PROVE  SameRows
BY DEF Shape, IsRow, SetCat, SameRows

LEMMA KeptSameRows ==
  ASSUME Shape, UNCHANGED emails
  PROVE  SameRows
BY DEF Shape, SameRows

LEMMA CallReplaced ==
  ASSUME Shape, NEW f \in Fetchers, NEW d, fetcher' = [fetcher EXCEPT ![f] = d],
         Keeps(fetcher[f], d), Busy(fetcher[f].pc), Busy(d.pc)
  PROVE  SameBatch(f)
BY DEF Shape, SameBatch

LEMMA GotoSameBatch ==
  ASSUME Shape, NEW f \in Fetchers, NEW pc, Busy(fetcher[f].pc), Busy(pc),
         Goto(f, pc)
  PROVE  SameBatch(f)
<1>1. PICK c : c = fetcher[f]
  OBVIOUS
<1>2. PICK d : d = [c EXCEPT !.pc = pc]
  OBVIOUS
<1>3. fetcher' = [fetcher EXCEPT ![f] = d]
  BY <1>1, <1>2 DEF Goto
<1>4. IsCall(c)
  BY <1>1 DEF Shape
<1>5. Keeps(c, d) /\ d.pc = pc
  BY <1>2, <1>4 DEF IsCall, Keeps
<1>6. QED
  BY <1>1, <1>3, <1>5, CallReplaced

LEMMA MadeSameBatch ==
  ASSUME Shape, NEW f \in Fetchers, NEW pc, NEW i, Busy(fetcher[f].pc), Busy(pc),
         fetcher' = [fetcher EXCEPT ![f].pc = pc, ![f].made = i]
  PROVE  SameBatch(f)
<1>1. PICK c : c = fetcher[f]
  OBVIOUS
<1>2. PICK d : d = [c EXCEPT !.pc = pc, !.made = i]
  OBVIOUS
<1>3. fetcher' = [fetcher EXCEPT ![f] = d]
  BY <1>1, <1>2
<1>4. IsCall(c)
  BY <1>1 DEF Shape
<1>5. Keeps(c, d) /\ d.pc = pc
  BY <1>2, <1>4 DEF IsCall, Keeps
<1>6. QED
  BY <1>1, <1>3, <1>5, CallReplaced

LEMMA HeldSameBatch ==
  ASSUME Shape, NEW f \in Fetchers, NEW pc, NEW h, Busy(fetcher[f].pc), Busy(pc),
         fetcher' = [fetcher EXCEPT ![f].pc = pc, ![f].held = h]
  PROVE  SameBatch(f)
<1>1. PICK c : c = fetcher[f]
  OBVIOUS
<1>2. PICK d : d = [c EXCEPT !.pc = pc, !.held = h]
  OBVIOUS
<1>3. fetcher' = [fetcher EXCEPT ![f] = d]
  BY <1>1, <1>2
<1>4. IsCall(c)
  BY <1>1 DEF Shape
<1>5. Keeps(c, d) /\ d.pc = pc
  BY <1>2, <1>4 DEF IsCall, Keeps
<1>6. QED
  BY <1>1, <1>3, <1>5, CallReplaced

LEMMA BothSameBatch ==
  ASSUME Shape, NEW f \in Fetchers, NEW pc, NEW i, NEW h, Busy(fetcher[f].pc), Busy(pc),
         fetcher' = [fetcher EXCEPT ![f].pc = pc, ![f].made = i, ![f].held = h]
  PROVE  SameBatch(f)
<1>1. PICK c : c = fetcher[f]
  OBVIOUS
<1>2. PICK d : d = [c EXCEPT !.pc = pc, !.made = i, !.held = h]
  OBVIOUS
<1>3. fetcher' = [fetcher EXCEPT ![f] = d]
  BY <1>1, <1>2
<1>4. IsCall(c)
  BY <1>1 DEF Shape
<1>5. Keeps(c, d) /\ d.pc = pc
  BY <1>2, <1>4 DEF IsCall, Keeps
<1>6. QED
  BY <1>1, <1>3, <1>5, CallReplaced

LEMMA RoundSameBatch ==
  ASSUME Shape, NEW f \in Fetchers, NEW pc, NEW i, NEW n, Busy(fetcher[f].pc), Busy(pc),
         fetcher' = [fetcher EXCEPT ![f].pc = pc, ![f].made = i, ![f].round = n]
  PROVE  SameBatch(f)
<1>1. PICK c : c = fetcher[f]
  OBVIOUS
<1>2. PICK d : d = [c EXCEPT !.pc = pc, !.made = i, !.round = n]
  OBVIOUS
<1>3. fetcher' = [fetcher EXCEPT ![f] = d]
  BY <1>1, <1>2
<1>4. IsCall(c)
  BY <1>1 DEF Shape
<1>5. Keeps(c, d) /\ d.pc = pc
  BY <1>2, <1>4 DEF IsCall, Keeps
<1>6. QED
  BY <1>1, <1>3, <1>5, CallReplaced

LEMMA CatSameBatch ==
  ASSUME Shape, NEW f \in Fetchers, NEW pc, NEW cat, Busy(fetcher[f].pc), Busy(pc),
         fetcher' = [fetcher EXCEPT ![f].pc = pc, ![f].cat = cat]
  PROVE  SameBatch(f)
<1>1. PICK c : c = fetcher[f]
  OBVIOUS
<1>2. PICK d : d = [c EXCEPT !.pc = pc, !.cat = cat]
  OBVIOUS
<1>3. fetcher' = [fetcher EXCEPT ![f] = d]
  BY <1>1, <1>2
<1>4. IsCall(c)
  BY <1>1 DEF Shape
<1>5. Keeps(c, d) /\ d.pc = pc
  BY <1>2, <1>4 DEF IsCall, Keeps
<1>6. QED
  BY <1>1, <1>3, <1>5, CallReplaced

LEMMA AnswerSameBatch ==
  ASSUME Shape, NEW f \in Fetchers, NEW pc, NEW cat, NEW b, Busy(fetcher[f].pc), Busy(pc),
         fetcher' = [fetcher EXCEPT ![f].pc = pc, ![f].cat = cat, ![f].given = b]
  PROVE  SameBatch(f)
<1>1. PICK c : c = fetcher[f]
  OBVIOUS
<1>2. PICK d : d = [c EXCEPT !.pc = pc, !.cat = cat, !.given = b]
  OBVIOUS
<1>3. fetcher' = [fetcher EXCEPT ![f] = d]
  BY <1>1, <1>2
<1>4. IsCall(c)
  BY <1>1 DEF Shape
<1>5. Keeps(c, d) /\ d.pc = pc
  BY <1>2, <1>4 DEF IsCall, Keeps
<1>6. QED
  BY <1>1, <1>3, <1>5, CallReplaced

LEMMA HandleHandles ==
  ASSUME Shape, NEW f \in Fetchers,
         Handle(f), ~MailDone(f)
  PROVE  Handles(f)
<1>1. CASE Reply(f)
  <2>1. SameBatch(f)
    BY <1>1, GotoSameBatch DEF Reply, Is, Busy
  <2>2. QED
    BY <1>1, <2>1, KeptSameRows DEF Reply, Handles, SameMailbox, keepMail, keepRows
<1>2. CASE RunAgent(f)
  <2>1. SameRows
    BY <1>2, LinkSameRows, KeptSameRows
    DEF RunAgent, AgentCreatesItem, AgentLinks, AgentEnds, keepRows
  <2>2. ASSUME AgentCreatesItem(f) PROVE SameBatch(f)
    <3>1. PICK n : n = fetcher[f].round + 1
      OBVIOUS
    <3>2. fetcher' = [fetcher EXCEPT ![f].pc = "toolLink", ![f].made = nextItem, ![f].round = n]
      BY <2>2, <3>1 DEF AgentCreatesItem
    <3>3. Busy(fetcher[f].pc) /\ Busy("toolLink")
      BY <2>2 DEF AgentCreatesItem, Is, Busy
    <3>4. QED
      BY <3>2, <3>3, RoundSameBatch
  <2>3. ASSUME AgentLinks(f) PROVE SameBatch(f)
    <3>1. fetcher' = [fetcher EXCEPT ![f].pc = "agent", ![f].made = None]
      BY <2>3 DEF AgentLinks
    <3>2. Busy(fetcher[f].pc) /\ Busy("agent")
      BY <2>3 DEF AgentLinks, Is, Busy
    <3>3. QED
      BY <3>1, <3>2, MadeSameBatch
  <2>4. ASSUME AgentEnds(f) PROVE SameBatch(f)
    BY <2>4, AnswerSameBatch DEF AgentEnds, Is, Busy
  <2>5. SameBatch(f)
    BY <1>2, <2>2, <2>3, <2>4 DEF RunAgent
  <2>6. QED
    BY <1>2, <2>1, <2>5
    DEF RunAgent, AgentCreatesItem, AgentLinks, AgentEnds, Handles, SameMailbox, keepMail, keepRows
<1>3. CASE FeedbackGuard(f) \/ PromoGuard(f)
  <2>1. SameRows
    BY <1>3, CatSameRows, KeptSameRows DEF FeedbackGuard, PromoGuard
  <2>2. SameBatch(f)
    BY <1>3, GotoSameBatch, CatSameBatch DEF FeedbackGuard, PromoGuard, Busy, Is
  <2>3. QED
    BY <1>3, <2>1, <2>2 DEF FeedbackGuard, PromoGuard, Handles, SameMailbox, keepMail
<1>4. CASE FeedbackUndo(f) \/ PromoUndo(f) \/ PromoUnlink(f)
  <2>1. SameRows
    BY <1>4, LinkSameRows, KeptSameRows DEF FeedbackUndo, PromoUndo, PromoUnlink, keepRows
  <2>2. SameBatch(f)
    BY <1>4, GotoSameBatch DEF FeedbackUndo, PromoUndo, PromoUnlink, Is, Busy
  <2>3. QED
    BY <1>4, <2>1, <2>2
    DEF FeedbackUndo, PromoUndo, PromoUnlink, Handles, SameMailbox, keepMail, keepRows
<1>5. CASE EnsureItem(f)
  <2>1. SameRows
    BY <1>5, CatSameRows, LinkSameRows, KeptSameRows
    DEF EnsureItem, File, Extract, InsertItem, LinkItem, keepRows
  <2>2. ASSUME File(f) PROVE SameBatch(f)
    BY <2>2, GotoSameBatch DEF File, Is, Busy
  <2>3. ASSUME Extract(f) PROVE SameBatch(f)
    BY <2>3, GotoSameBatch, HeldSameBatch DEF Extract, Is, Busy
  <2>4. ASSUME InsertItem(f) PROVE SameBatch(f)
    <3>1. fetcher' = [fetcher EXCEPT ![f].pc = "link", ![f].made = nextItem, ![f].held = None]
      BY <2>4 DEF InsertItem
    <3>2. Busy(fetcher[f].pc) /\ Busy("link")
      BY <2>4 DEF InsertItem, Is, Busy
    <3>3. QED
      BY <3>1, <3>2, BothSameBatch
  <2>5. ASSUME LinkItem(f) PROVE SameBatch(f)
    <3>1. fetcher' = [fetcher EXCEPT ![f].pc = "fill", ![f].made = None]
      BY <2>5 DEF LinkItem
    <3>2. Busy(fetcher[f].pc) /\ Busy("fill")
      BY <2>5 DEF LinkItem, Is, Busy
    <3>3. QED
      BY <3>1, <3>2, MadeSameBatch
  <2>6. SameBatch(f)
    BY <1>5, <2>2, <2>3, <2>4, <2>5 DEF EnsureItem
  <2>7. SameMailbox
    BY <1>5
    DEF EnsureItem, File, Extract, InsertItem, LinkItem, keepRows, keepMail, SameMailbox
  <2>8. QED
    BY <2>1, <2>6, <2>7 DEF Handles
<1>6. CASE Fill(f) \/ FillWrite(f)
  <2> DEFINE Wrote(pc) == \E i, h : fetcher' = [fetcher EXCEPT ![f].pc = pc, ![f].made = i,
                                                              ![f].held = h]
  <2>1. SameBatch(f)
    <3>1. /\ Busy(fetcher[f].pc)
          /\ Busy("merge") /\ Busy("fillWrite")
      BY <1>6 DEF Fill, FillWrite, Is, Busy
    <3>2. Goto(f, "merge") \/ Wrote("fillWrite") \/ Wrote("merge")
      BY <1>6, Zenon DEF Fill, FillWrite
    <3>3. QED
      BY <3>1, <3>2, GotoSameBatch, BothSameBatch
  <2>2. QED
    BY <1>6, <2>1, KeptSameRows
    DEF Fill, FillWrite, Handles, SameMailbox, keepMail, keepRows
<1>7. CASE MergeDuplicates(f)
  <2>1. SameRows
    BY <1>7, LinkSameRows, KeptSameRows
    DEF MergeDuplicates, Merge, MergeWrite, MergeLink, MergeDrop, keepRows
  <2>2. ASSUME Merge(f) PROVE SameBatch(f)
    <3>1. Busy(fetcher[f].pc) /\ Busy("done") /\ Busy("mergeWrite")
      BY <2>2 DEF Merge, Is, Busy
    <3>2. \/ Goto(f, "done")
          \/ \E i, h : fetcher' = [fetcher EXCEPT ![f].pc = "mergeWrite", ![f].made = i,
                                                  ![f].held = h]
      BY <2>2, Zenon DEF Merge
    <3>3. QED
      BY <3>1, <3>2, GotoSameBatch, BothSameBatch
  <2>3. ASSUME MergeWrite(f) PROVE SameBatch(f)
    <3>1. fetcher' = [fetcher EXCEPT ![f].pc = "mergeLink", ![f].held = None]
      BY <2>3 DEF MergeWrite
    <3>2. Busy(fetcher[f].pc) /\ Busy("mergeLink")
      BY <2>3 DEF MergeWrite, Is, Busy
    <3>3. QED
      BY <3>1, <3>2, HeldSameBatch
  <2>4. ASSUME MergeLink(f) PROVE SameBatch(f)
    BY <2>4, GotoSameBatch DEF MergeLink, Is, Busy
  <2>5. ASSUME MergeDrop(f) PROVE SameBatch(f)
    <3>1. fetcher' = [fetcher EXCEPT ![f].pc = "done", ![f].made = None]
      BY <2>5 DEF MergeDrop
    <3>2. Busy(fetcher[f].pc) /\ Busy("done")
      BY <2>5 DEF MergeDrop, Is, Busy
    <3>3. QED
      BY <3>1, <3>2, MadeSameBatch
  <2>6. SameBatch(f)
    BY <1>7, <2>2, <2>3, <2>4, <2>5 DEF MergeDuplicates
  <2>7. QED
    BY <1>7, <2>1, <2>6
    DEF MergeDuplicates, Merge, MergeWrite, MergeLink, MergeDrop, Handles, SameMailbox,
        keepMail, keepRows
<1>8. QED
  BY <1>1, <1>2, <1>3, <1>4, <1>5, <1>6, <1>7 DEF Handle

-----------------------------------------------------------------------------
(* What a step may do to the mailbox and the mails taken, and a call not
   touched by it keeps its promise *)

Grows ==
  /\ UNCHANGED legacy
  /\ nextUid' \in Nat \ {0} /\ nextUid' >= nextUid /\ DOMAIN box' \subseteq 1 .. nextUid' - 1
  /\ \A u \in DOMAIN box' : u >= nextUid \/ (u \in DOMAIN box /\ box'[u] = box[u])
  /\ \A m : Taken(m) => Taken(m)'

\* What was there before and is still there, is the same mail.
LEMMA OldMail ==
  ASSUME Shape, Grows, NEW n \in 1 .. nextUid - 1, NEW u \in DOMAIN box', u <= n
  PROVE  u \in DOMAIN box /\ box'[u] = box[u]
<1>1. ~(u >= nextUid)
  BY DEF Shape, Grows
<1>2. QED
  BY <1>1 DEF Grows

LEMMA OwedKept ==
  ASSUME Grows, NEW u
  PROVE  Owed(u)' = Owed(u)
BY DEF Grows, Owed

LEMMA CoverKept ==
  ASSUME Shape, Grows, NEW last \in {None, legacy} \cup 1 .. nextUid - 1, CoveredTo(last)
  PROVE  CoveredTo(last)'
<1>1. SUFFICES ASSUME last # None, NEW u \in DOMAIN box', u <= last, Owed(u)'
               PROVE  Taken(box[u])'
  BY DEF CoveredTo
<1>2. Owed(u)
  BY <1>1, OwedKept
<1>3. last \in 1 .. nextUid - 1
  <2>1. ASSUME last = legacy PROVE FALSE
    <3>1. legacy \in Nat /\ u \in Nat
      BY <1>1, <2>1, PipelineAssumption DEF Shape, Grows
    <3>2. QED
      BY <1>1, <1>2, <2>1, <3>1 DEF Owed
  <2>2. QED
    BY <1>1, <2>1
<1>4. u \in DOMAIN box /\ box'[u] = box[u]
  BY <1>1, <1>3, OldMail
<1>5. Taken(box[u])
  BY <1>1, <1>2, <1>4 DEF CoveredTo
<1>6. QED
  BY <1>4, <1>5 DEF Grows, Taken

LEMMA AskKept ==
  ASSUME Shape, Grows, NEW g, AskCovers(g), fetcher'[g] = fetcher[g]
  PROVE  AskCovers(g)'
<1> DEFINE c == fetcher[g]
<1>1. SUFFICES ASSUME c.pc = "fetch" PROVE AskCovers(g)'
  BY DEF AskCovers
<1>2. /\ ~c.ranged /\ c.limit = None
      /\ c.from \in {None, legacy} \cup 1 .. nextUid - 1
      /\ CoveredTo(c.from)
  BY <1>1 DEF AskCovers
<1>3. c.from \in {None, legacy'} \cup 1 .. nextUid' - 1
  BY <1>2 DEF Grows, Shape
<1>4. PICK last : last = c.from
  OBVIOUS
<1>5. CoveredTo(last)'
  BY <1>2, <1>4, CoverKept
<1>6. fetcher'[g].from = last
  BY <1>4
<1>7. CoveredTo(fetcher[g].from)'
  BY <1>5, <1>6 DEF CoveredTo
<1>8. QED
  BY <1>2, <1>3, <1>7 DEF AskCovers

LEMMA BatchKept ==
  ASSUME Shape, Grows, NEW g, BatchCovers(g), fetcher'[g] = fetcher[g]
  PROVE  BatchCovers(g)'
<1> DEFINE c == fetcher[g]
<1>1. SUFFICES ASSUME c.pc \notin {"idle", "fetch"} PROVE BatchCovers(g)'
  BY DEF BatchCovers
<1>2. /\ ~c.ranged
      /\ c.top \in {None} \cup 1 .. nextUid' - 1
  BY <1>1 DEF BatchCovers, Shape, Grows
<1>3. ASSUME c.top # None, NEW u \in DOMAIN box', u <= c.top, Owed(u)'
      PROVE  Taken(box[u])' \/ \E v \in DOMAIN c.todo : c.todo[v] = box'[u]
  <2>1. u \in DOMAIN box /\ box'[u] = box[u]
    <3>1. c.top \in 1 .. nextUid - 1
      BY <1>1, <1>3 DEF BatchCovers
    <3>2. QED
      BY <1>3, <3>1, OldMail
  <2>2. Taken(box[u]) \/ \E v \in DOMAIN c.todo : c.todo[v] = box[u]
    BY <1>1, <1>3, <2>1, OwedKept DEF BatchCovers
  <2>3. QED
    BY <2>1, <2>2 DEF Grows, Taken
<1>4. c.pc # "next" => Taken(Mail(g))'
  <2>1. Mail(g)' = Mail(g)
    BY DEF Mail, First
  <2>2. c.pc # "next" => Taken(Mail(g))
    BY <1>1 DEF BatchCovers
  <2>3. QED
    BY <2>1, <2>2 DEF Grows
<1>5. QED
  BY <1>2, <1>3, <1>4 DEF BatchCovers

LEMMA CursorIsCovered == CursorCovered <=> CoveredTo(cursor)
BY DEF CursorCovered, CoveredTo, Taken

LEMMA CursorKept ==
  ASSUME Shape, CursorCovered, Grows, cursor' = cursor
  PROVE  CursorCovered'
<1>1. CoveredTo(cursor)
  BY CursorIsCovered
<1>2. PICK last : last = cursor
  OBVIOUS
<1>3. CoveredTo(last)'
  BY <1>1, <1>2, CoverKept DEF Shape
<1>4. QED
  BY <1>2, <1>3 DEF CursorCovered, CoveredTo, Taken

\* The mailbox and the mails taken are as before.
SameMails ==
  UNCHANGED <<box, nextUid, legacy>> /\ Stored' \cup forgotten' = Stored \cup forgotten

LEMMA SameMailsGrow ==
  ASSUME Shape, SameMails
  PROVE  Grows
BY DEF Shape, SameMails, Grows, Taken

\* Nothing the intake is about changes.
Still == UNCHANGED cursor /\ SameMails

\* A step that changes at most the call f keeps the invariant, if the call keeps
\* its promise.
LEMMA InvKept ==
  ASSUME IntakeInv, Grows, Shape', CursorCovered', NEW f,
         \A g \in Pollers \ {f} : fetcher'[g] = fetcher[g],
         f \in Pollers => CallCovers(f)'
  PROVE  IntakeInv'
<1>1. ASSUME NEW g \in Pollers PROVE CallCovers(g)'
  <2>1. CASE g = f
    BY <2>1
  <2>2. CASE g # f
    BY <2>2, BatchKept, AskKept DEF IntakeInv, CallCovers
  <2>3. QED
    BY <2>1, <2>2
<1>2. QED
  BY <1>1 DEF IntakeInv

LEMMA SameRowsStored ==
  ASSUME SameRows
  PROVE  Stored' = Stored
BY DEF SameRows, Stored

LEMMA HandlesKeeps ==
  ASSUME IntakeInv, NEW f \in Fetchers, Handles(f)
  PROVE  IntakeInv' /\ Still
<1>1. Still
  BY SameRowsStored DEF Handles, SameMailbox, Still, SameMails
<1>2. Shape'
  <2>1. \A r \in DOMAIN emails' : IsRow(emails'[r])
    BY DEF IntakeInv, Shape, Handles, SameRows
  <2>2. \A g \in Fetchers : IsCall(fetcher'[g])
    <3>1. IsCall(fetcher'[f])
      BY DEF Handles, SameBatch, Keeps
    <3>2. QED
      BY <3>1 DEF IntakeInv, Shape, Handles, SameBatch
  <2>3. QED
    BY <2>1, <2>2 DEF IntakeInv, Shape, Handles, SameMailbox, SameRows, SameBatch
<1>3. Grows
  BY <1>1, SameMailsGrow DEF IntakeInv, Still
<1>4. CursorCovered'
  BY <1>1, <1>3, CursorKept DEF IntakeInv, Still
<1>5. ASSUME f \in Pollers PROVE CallCovers(f)'
  <2>1. BatchCovers(f)
    BY <1>5 DEF IntakeInv, CallCovers
  <2>2. Mail(f)' = Mail(f)
    BY DEF Mail, First, Handles, SameBatch, Keeps
  <2>3. Taken(Mail(f))'
    BY <1>3, <2>1, <2>2 DEF Grows, BatchCovers, Handles, SameBatch, Busy, Taken
  <2>4. \A u \in DOMAIN box' : Taken(box[u]) => Taken(box[u])'
    BY <1>1 DEF Still, SameMails, Taken
  <2>5. /\ box' = box /\ nextUid' = nextUid
        /\ fetcher[f].pc \notin {"idle", "fetch"} /\ fetcher'[f].pc # "fetch"
        /\ Keeps(fetcher[f], fetcher'[f])
    BY <1>1 DEF Still, SameMails, Handles, SameBatch, Busy
  <2>6. \A u : Owed(u)' = Owed(u)
    BY <1>3, OwedKept
  <2>7. BatchCovers(f)'
    BY <2>1, <2>3, <2>4, <2>5, <2>6 DEF BatchCovers, Keeps
  <2>8. QED
    BY <2>5, <2>7 DEF CallCovers, AskCovers
<1>6. QED
  BY <1>1, <1>2, <1>3, <1>4, <1>5, InvKept, PipelineAssumption
  DEF Handles, SameBatch, IntakeInv
-----------------------------------------------------------------------------
(* Steps that end a call, or go on to its next mail *)

LEMMA CallsKept ==
  ASSUME Shape, Still, UNCHANGED <<emails, nextRow>>, NEW f \in Fetchers, NEW d,
         fetcher' = [fetcher EXCEPT ![f] = d], IsCall(d)
  PROVE  Shape'
BY DEF Shape, Still, SameMails

LEMMA IdleIsCall == IsCall(Idle) /\ Idle.pc = "idle"
BY DEF IsCall, Idle

\* The call f has ended, and the cursor is where it was.
LEMMA EndKeeps ==
  ASSUME IntakeInv, NEW f \in Fetchers, Still, UNCHANGED <<emails, nextRow>>,
         fetcher' = [fetcher EXCEPT ![f] = Idle]
  PROVE  IntakeInv'
<1>1. Shape'
  BY CallsKept, IdleIsCall DEF IntakeInv
<1>2. Grows /\ CursorCovered'
  BY SameMailsGrow, CursorKept DEF IntakeInv, Still
<1>3. CallCovers(f)'
  BY IdleIsCall DEF IntakeInv, Shape, CallCovers, AskCovers, BatchCovers
<1>4. \A g \in Pollers \ {f} : fetcher'[g] = fetcher[g]
  BY PipelineAssumption DEF IntakeInv, Shape
<1>5. QED
  BY <1>1, <1>2, <1>3, <1>4, InvKept

LEMMA RestIsCall ==
  ASSUME NEW f
  PROVE  /\ IsCall(Rest(f)) /\ Rest(f).pc = "next"
         /\ Rest(f).todo = Without(fetcher[f].todo, First(f))
         /\ Rest(f).top = fetcher[f].top /\ Rest(f).ranged = fetcher[f].ranged
<1>1. PICK todo : todo = Without(fetcher[f].todo, First(f))
  OBVIOUS
<1>2. PICK top : top = fetcher[f].top
  OBVIOUS
<1>3. PICK ranged : ranged = fetcher[f].ranged
  OBVIOUS
<1>4. Rest(f) = [Idle EXCEPT !.pc = "next", !.todo = todo, !.top = top, !.ranged = ranged]
  BY <1>1, <1>2, <1>3 DEF Rest
<1>5. /\ IsCall(Rest(f)) /\ Rest(f).pc = "next" /\ Rest(f).todo = todo
      /\ Rest(f).top = top /\ Rest(f).ranged = ranged
  BY <1>4 DEF IsCall, Idle
<1>6. QED
  BY <1>1, <1>2, <1>3, <1>5

\* The call f goes on, its mail taken or in no need of it.
LEMMA RestKeeps ==
  ASSUME IntakeInv, NEW f \in Fetchers, Still, UNCHANGED <<emails, nextRow>>,
         fetcher' = [fetcher EXCEPT ![f] = Rest(f)],
         fetcher[f].pc \notin {"idle", "fetch"},
         f \in Pollers => Taken(Mail(f))
  PROVE  IntakeInv'
<1>1. Shape'
  BY CallsKept, RestIsCall DEF IntakeInv
<1>2. Grows /\ CursorCovered'
  BY SameMailsGrow, CursorKept DEF IntakeInv, Still
<1>3. ASSUME f \in Pollers PROVE CallCovers(f)'
  <2> DEFINE todo == fetcher[f].todo
  <2>1. fetcher'[f] = Rest(f)
    BY DEF IntakeInv, Shape
  <2>2. BatchCovers(f)
    BY <1>3 DEF IntakeInv, CallCovers
  <2>3. /\ fetcher'[f].todo = Without(todo, First(f)) /\ fetcher'[f].pc = "next"
        /\ fetcher'[f].top = fetcher[f].top /\ fetcher'[f].ranged = fetcher[f].ranged
    BY <2>1, RestIsCall
  <2>4. ASSUME NEW u \in DOMAIN box, fetcher[f].top # None, u <= fetcher[f].top, Owed(u),
               ~Taken(box[u])
        PROVE  \E v \in DOMAIN Without(todo, First(f)) : Without(todo, First(f))[v] = box[u]
    <3>1. PICK v \in DOMAIN todo : todo[v] = box[u]
      BY <2>2, <2>4 DEF BatchCovers
    <3>2. v # First(f)
      BY <1>3, <2>4, <3>1 DEF Mail
    <3>3. QED
      BY <3>1, <3>2 DEF Without
  <2>5. /\ box' = box /\ nextUid' = nextUid
        /\ \A m : Taken(m) => Taken(m)'
    BY DEF Still, SameMails, Taken
  <2>6. \A u \in DOMAIN box : Taken(box[u]) => Taken(box[u])'
    BY <2>5 DEF Taken
  <2>7. \A u : Owed(u)' = Owed(u)
    BY <1>2, OwedKept
  <2>8. BatchCovers(f)'
    BY <2>2, <2>3, <2>4, <2>5, <2>6, <2>7 DEF BatchCovers
  <2>9. QED
    BY <2>3, <2>8 DEF CallCovers, AskCovers
<1>4. \A g \in Pollers \ {f} : fetcher'[g] = fetcher[g]
  BY PipelineAssumption DEF IntakeInv, Shape
<1>5. QED
  BY <1>1, <1>2, <1>3, <1>4, InvKept

LEMMA SkipKeeps ==
  ASSUME IntakeInv, NEW f \in Fetchers, Skip(f)
  PROVE  IntakeInv' /\ Still
<1>1. Still /\ UNCHANGED <<emails, nextRow>>
  BY DEF Skip, keepMail, keepRows, Still, SameMails, Stored
<1>2. fetcher' = [fetcher EXCEPT ![f] = Rest(f)] /\ fetcher[f].pc = "next"
  BY DEF Skip, Is
<1>3. ASSUME f \in Pollers PROVE Taken(Mail(f))
  <2>1. ~TooOld(f)
    BY <1>2, <1>3 DEF IntakeInv, CallCovers, BatchCovers, TooOld
  <2>2. QED
    BY <2>1 DEF Skip, Taken, Readable, This
<1>4. QED
  BY <1>1, <1>2, <1>3, RestKeeps

LEMMA MailDoneKeeps ==
  ASSUME IntakeInv, NEW f \in Fetchers, MailDone(f)
  PROVE  IntakeInv' /\ Still
<1>1. Still /\ UNCHANGED <<emails, nextRow>>
  BY DEF MailDone, keepMail, keepRows, Still, SameMails, Stored
<1>2. /\ fetcher' = [fetcher EXCEPT ![f] = Rest(f)]
      /\ fetcher[f].pc = "done"
  BY DEF MailDone, Is
<1>3. ASSUME f \in Pollers PROVE Taken(Mail(f))
  BY <1>2, <1>3 DEF IntakeInv, CallCovers, BatchCovers
<1>4. QED
  BY <1>1, <1>2, <1>3, RestKeeps

LEMMA InterruptKeeps ==
  ASSUME IntakeInv, NEW f \in Fetchers, Interrupt(f)
  PROVE  IntakeInv' /\ Still
<1>1. Still /\ UNCHANGED <<emails, nextRow>>
  BY DEF Interrupt, keepRows, Still, SameMails, Stored
<1>2. fetcher' = [fetcher EXCEPT ![f] = Idle]
  BY DEF Interrupt
<1>3. QED
  BY <1>1, <1>2, EndKeeps

LEMMA MergeFailsKeeps ==
  ASSUME IntakeInv, NEW f \in Fetchers, MergeFails(f)
  PROVE  IntakeInv' /\ Still
<1>1. fetcher' = [fetcher EXCEPT ![f].pc = "done", ![f].made = None, ![f].held = None]
  BY DEF MergeFails
<1>2. Busy(fetcher[f].pc) /\ Busy("done")
  BY DEF MergeFails, Busy
<1>3. SameBatch(f)
  BY <1>1, <1>2, BothSameBatch DEF IntakeInv
<1>4. SameRows /\ SameMailbox
  BY KeptSameRows DEF IntakeInv, MergeFails, keepRows, SameMailbox
<1>5. QED
  BY <1>3, <1>4, HandlesKeeps DEF Handles

-----------------------------------------------------------------------------
(* The cursor moves *)

\* What the step of the cursor promises: every mail it passes that is owed is
\* taken.
Moves ==
  /\ UNCHANGED <<box, nextUid, legacy>> /\ UNCHANGED <<emails, forgotten>>
  /\ cursor' \in 1 .. nextUid - 1
  /\ \A u \in DOMAIN box : u <= cursor' /\ Owed(u) => Taken(box[u])

LEMMA FinishKeeps ==
  ASSUME IntakeInv, NEW f \in Fetchers, Finish(f)
  PROVE  IntakeInv' /\ (Still \/ Moves)
<1>1. /\ fetcher' = [fetcher EXCEPT ![f] = Idle]
      /\ UNCHANGED <<emails, nextRow, box, nextUid, legacy, forgotten>>
      /\ SameMails
  BY DEF Finish, keepRows, SameMails, Stored
<1>2. CASE cursor' = cursor
  BY <1>1, <1>2, EndKeeps DEF Still
<1>3. CASE f \in Pollers /\ fetcher[f].top # None
  <2>1. /\ fetcher[f].pc = "next" /\ DOMAIN fetcher[f].todo = {}
        /\ cursor' = fetcher[f].top
    BY <1>3 DEF Finish, BatchOver, Is
  <2>2. BatchCovers(f)
    BY <1>3 DEF IntakeInv, CallCovers
  <2>3. Moves
    BY <1>1, <1>3, <2>1, <2>2 DEF Moves, BatchCovers
  <2>4. Shape'
    BY <1>1, <2>3, IdleIsCall DEF Shape, IntakeInv, Moves
  <2>5. Grows
    BY <1>1, SameMailsGrow DEF IntakeInv
  <2>6. CursorCovered'
    BY <1>1, <2>3 DEF Moves, CursorCovered, Taken, Stored, Owed
  <2>7. CallCovers(f)'
    BY <1>1, IdleIsCall DEF IntakeInv, Shape, CallCovers, AskCovers, BatchCovers
  <2>8. \A g \in Pollers \ {f} : fetcher'[g] = fetcher[g]
    BY <1>1, PipelineAssumption DEF IntakeInv, Shape
  <2>9. QED
    BY <2>3, <2>4, <2>5, <2>6, <2>7, <2>8, InvKept
<1>4. QED
  BY <1>2, <1>3 DEF Finish

-----------------------------------------------------------------------------
(* A batch is fetched *)

\* A set of numbers with an upper bound has a greatest one.
LEMMA MaxIsMember ==
  ASSUME NEW n \in Nat, NEW S, S \subseteq 1 .. n, S # {}
  PROVE  Max(S) \in S /\ \A u \in S : u <= Max(S)
<1> DEFINE T == {n - u : u \in S}
<1>1. T \subseteq Nat /\ T # {}
  <2>1. \A u \in S : n - u \in Nat
    OBVIOUS
  <2>2. QED
    BY <2>1
<1>2. PICK t \in T : \A s \in T : ~(<<s, t>> \in OpToRel(<, Nat))
  BY <1>1, NatLessThanWellFounded, WFMin
<1>3. ASSUME NEW s \in T PROVE t <= s
  <2>1. s \in Nat /\ t \in Nat
    BY <1>1
  <2>2. ~(s < t)
    BY <1>2, <2>1 DEF OpToRel
  <2>3. QED
    BY <2>1, <2>2
<1>4. PICK u \in S : t = n - u
  OBVIOUS
<1>5. \A v \in S : u >= v
  BY <1>3, <1>4
<1>6. QED
  BY <1>5 DEF Max

LEMMA NewestOfAll ==
  ASSUME NEW uids
  PROVE  Newest(uids, None) = [u \in uids |-> box[u]]
BY DEF Newest

\* The mails a poller fetches, those before the uid it asked from, and those that
\* are not owed, are all up to the greatest one it fetches.
LEMMA FetchCovers ==
  ASSUME Shape, NEW last \in {None, legacy} \cup 1 .. nextUid - 1, CoveredTo(last),
         NEW uids, uids = FetchedFrom(last)
  PROVE  /\ uids \subseteq DOMAIN box
         /\ uids # {} => /\ Max(uids) \in 1 .. nextUid - 1
                         /\ \A u \in DOMAIN box : u <= Max(uids) /\ Owed(u)
                                                  => u \in uids \/ Taken(box[u])
<1>1. uids \subseteq DOMAIN box
  <2>1. DOMAIN box # {} => Max(DOMAIN box) \in DOMAIN box
    BY MaxIsMember DEF Shape
  <2>2. QED
    BY <2>1 DEF FetchedFrom, Range_
<1>2. ASSUME uids # {} PROVE Max(uids) \in uids
  BY <1>1, <1>2, MaxIsMember DEF Shape
<1>3. ASSUME uids # {}, NEW u \in DOMAIN box, u <= Max(uids), Owed(u), u \notin uids
      PROVE  Taken(box[u])
  <2>1. last # None
    BY <1>3 DEF FetchedFrom
  <2>2. u \in Nat /\ last \in Nat
    BY <2>1, PipelineAssumption DEF Shape
  <2>3. CASE u <= last
    BY <1>3, <2>1, <2>3 DEF CoveredTo
  <2>4. CASE u >= last + 1
    BY <1>3, <2>1, <2>4 DEF FetchedFrom, Range_
  <2>5. QED
    BY <2>2, <2>3, <2>4
<1>4. QED
  BY <1>1, <1>2, <1>3 DEF Shape

\* Nothing owed lies before the uid a reading starts from.
LEMMA LastUidCovered ==
  ASSUME Shape, CursorCovered
  PROVE  LastUid \in {None, legacy} \cup 1 .. nextUid - 1 /\ CoveredTo(LastUid)
<1>1. CASE cursor # None
  BY <1>1, CursorIsCovered DEF LastUid, Shape
<1>2. CASE cursor = None
  <2>1. LastUid = legacy
    BY <1>2 DEF LastUid
  <2>2. ASSUME legacy # None, NEW u \in DOMAIN box, u <= legacy, Owed(u)
        PROVE  FALSE
    <3>1. legacy \in Nat /\ u \in Nat
      BY <2>2, PipelineAssumption DEF Shape
    <3>2. QED
      BY <2>2, <3>1 DEF Owed
  <2>3. QED
    BY <2>1, <2>2 DEF CoveredTo
<1>3. QED
  BY <1>1, <1>2

LEMMA AskKeeps ==
  ASSUME IntakeInv, NEW f \in Fetchers, Ask(f)
  PROVE  IntakeInv' /\ Still
<1>1. Still /\ UNCHANGED <<emails, nextRow, box, nextUid, legacy>>
  BY DEF Ask, keepMail, keepRows, Still, SameMails, Stored
<1>2. PICK q \in Requested(f) :
        fetcher' = [fetcher EXCEPT ![f] =
          [Idle EXCEPT !.pc = "fetch", !.ranged = q.ranged, !.limit = q.limit,
                       !.from = IF q.ranged THEN None ELSE LastUid]]
  BY DEF Ask
<1>3. PICK from : from = IF q.ranged THEN None ELSE LastUid
  OBVIOUS
<1>4. PICK ranged : ranged = q.ranged
  OBVIOUS
<1>5. PICK limit : limit = q.limit
  OBVIOUS
<1>6. PICK d : d = [Idle EXCEPT !.pc = "fetch", !.ranged = ranged, !.limit = limit,
                                !.from = from]
  OBVIOUS
<1>7. fetcher' = [fetcher EXCEPT ![f] = d]
  BY <1>2, <1>3, <1>4, <1>5, <1>6
<1>8. /\ IsCall(d) /\ d.pc = "fetch" /\ d.from = from /\ d.ranged = ranged
      /\ d.limit = limit
  BY <1>6 DEF IsCall, Idle
<1>9. Shape'
  BY <1>1, <1>7, <1>8, CallsKept DEF IntakeInv
<1>10. Grows /\ CursorCovered'
  BY <1>1, SameMailsGrow, CursorKept DEF IntakeInv, Still
<1>11. ASSUME f \in Pollers PROVE CallCovers(f)'
  <2>1. ranged = FALSE /\ limit = None /\ from = LastUid
    BY <1>2, <1>3, <1>4, <1>5, <1>11 DEF Requested
  <2>2. fetcher'[f] = d
    BY <1>7 DEF IntakeInv, Shape
  <2>3. from \in {None, legacy} \cup 1 .. nextUid - 1 /\ CoveredTo(from)
    BY <2>1, LastUidCovered DEF IntakeInv
  <2>4. CoveredTo(from)'
    BY <1>10, <2>3, CoverKept DEF IntakeInv
  <2>5. CoveredTo(fetcher[f].from)'
    BY <1>8, <2>2, <2>4 DEF CoveredTo
  <2>6. AskCovers(f)'
    BY <1>1, <1>8, <2>1, <2>2, <2>3, <2>5 DEF AskCovers
  <2>7. QED
    BY <1>8, <2>2, <2>6 DEF CallCovers, BatchCovers
<1>12. \A g \in Pollers \ {f} : fetcher'[g] = fetcher[g]
  BY <1>7, PipelineAssumption DEF IntakeInv, Shape
<1>13. QED
  BY <1>1, <1>9, <1>10, <1>11, <1>12, InvKept

LEMMA AnswerKeeps ==
  ASSUME IntakeInv, NEW f \in Fetchers, Answer(f)
  PROVE  IntakeInv' /\ Still
<1>1. Still /\ UNCHANGED <<emails, nextRow, box, nextUid, legacy>>
  BY DEF Answer, keepMail, keepRows, Still, SameMails, Stored
<1>2. PICK uids : uids = FetchedFrom(fetcher[f].from)
  OBVIOUS
<1>3. PICK top : top = IF uids = {} THEN None ELSE Max(uids)
  OBVIOUS
<1>4. PICK todo : todo = Newest(uids, fetcher[f].limit)
  OBVIOUS
<1>5. PICK ranged : ranged = fetcher[f].ranged
  OBVIOUS
<1>6. PICK d : d = [Idle EXCEPT !.pc = "next", !.todo = todo, !.ranged = ranged, !.top = top]
  OBVIOUS
<1>7. fetcher' = [fetcher EXCEPT ![f] = d] /\ fetcher[f].pc = "fetch"
  BY <1>2, <1>3, <1>4, <1>5, <1>6 DEF Answer, Is
<1>8. /\ IsCall(d) /\ d.pc = "next" /\ d.todo = todo /\ d.ranged = ranged /\ d.top = top
  BY <1>6 DEF IsCall, Idle
<1>9. Shape'
  BY <1>1, <1>7, <1>8, CallsKept DEF IntakeInv
<1>10. Grows /\ CursorCovered'
  BY <1>1, SameMailsGrow, CursorKept DEF IntakeInv, Still
<1>11. ASSUME f \in Pollers PROVE CallCovers(f)'
  <2>1. AskCovers(f)
    BY <1>11 DEF IntakeInv, CallCovers
  <2>2. PICK last : last = fetcher[f].from
    OBVIOUS
  <2>3. /\ ranged = FALSE /\ todo = [u \in uids |-> box[u]]
        /\ last \in {None, legacy} \cup 1 .. nextUid - 1 /\ CoveredTo(last)
        /\ uids = FetchedFrom(last)
    BY <1>2, <1>4, <1>5, <1>7, <2>1, <2>2, NewestOfAll DEF AskCovers
  <2>4. fetcher'[f] = d
    BY <1>7 DEF IntakeInv, Shape
  <2>5. /\ uids \subseteq DOMAIN box
        /\ uids # {} => /\ Max(uids) \in 1 .. nextUid - 1
                        /\ \A u \in DOMAIN box : u <= Max(uids) /\ Owed(u)
                                                 => u \in uids \/ Taken(box[u])
    BY <2>3, FetchCovers DEF IntakeInv
  <2>6. top \in {None} \cup 1 .. nextUid - 1
    BY <1>3, <2>5
  <2>7. ASSUME top # None, NEW u \in DOMAIN box, u <= top, Owed(u)
        PROVE  Taken(box[u]) \/ \E v \in DOMAIN todo : todo[v] = box[u]
    BY <1>3, <2>3, <2>5, <2>7
  <2>8. \A u \in DOMAIN box : Taken(box[u]) => Taken(box[u])'
    BY <1>1 DEF Still, SameMails, Taken
  <2>9. \A u : Owed(u)' = Owed(u)
    BY <1>10, OwedKept
  <2>10. BatchCovers(f)'
    BY <1>1, <1>8, <2>3, <2>4, <2>6, <2>7, <2>8, <2>9 DEF BatchCovers
  <2>11. QED
    BY <1>8, <2>4, <2>10 DEF CallCovers, AskCovers
<1>12. \A g \in Pollers \ {f} : fetcher'[g] = fetcher[g]
  BY <1>7, PipelineAssumption DEF IntakeInv, Shape
<1>13. QED
  BY <1>1, <1>9, <1>10, <1>11, <1>12, InvKept

LEMMA NoAnswerKeeps ==
  ASSUME IntakeInv, NEW f \in Fetchers, NoAnswer(f)
  PROVE  IntakeInv' /\ Still
<1>1. Still /\ UNCHANGED <<emails, nextRow>>
  BY DEF NoAnswer, keepMail, keepRows, Still, SameMails, Stored
<1>2. fetcher' = [fetcher EXCEPT ![f] = Idle]
  BY DEF NoAnswer
<1>3. QED
  BY <1>1, <1>2, EndKeeps

-----------------------------------------------------------------------------
(* Errors that are passed over *)

LEMMA DroppedKeeps ==
  ASSUME IntakeInv, NEW f \in Fetchers, NEW from, NEW to, NEW lost,
         Busy(from), Busy(to), Dropped(f, from, to, lost)
  PROVE  IntakeInv' /\ Still
<1>1. fetcher' = [fetcher EXCEPT ![f].pc = to, ![f].made = None]
  BY DEF Dropped
<1>2. SameBatch(f)
  BY <1>1, MadeSameBatch DEF IntakeInv, Dropped, Is
<1>3. SameRows /\ SameMailbox
  BY KeptSameRows DEF IntakeInv, Dropped, keepRows, SameMailbox
<1>4. QED
  BY <1>2, <1>3, HandlesKeeps DEF Handles

LEMMA CreatesBlindlyKeeps ==
  ASSUME IntakeInv, NEW f \in Fetchers, AgentCreatesBlindly(f)
  PROVE  IntakeInv' /\ Still
<1>1. PICK n : n = fetcher[f].round + 1
  OBVIOUS
<1>2. fetcher' = [fetcher EXCEPT ![f].pc = "toolLink", ![f].made = nextItem, ![f].round = n]
  BY <1>1 DEF AgentCreatesBlindly
<1>3. Busy(fetcher[f].pc) /\ Busy("toolLink")
  BY DEF AgentCreatesBlindly, Is, Busy
<1>4. SameBatch(f)
  BY <1>2, <1>3, RoundSameBatch DEF IntakeInv
<1>5. SameRows /\ SameMailbox
  BY KeptSameRows DEF IntakeInv, AgentCreatesBlindly, keepRows, SameMailbox
<1>6. QED
  BY <1>4, <1>5, HandlesKeeps DEF Handles

LEMMA PassOverKeeps ==
  ASSUME IntakeInv, NEW f \in Fetchers, PassOver(f)
  PROVE  IntakeInv' /\ Still
<1>1. /\ Busy("toolLink") /\ Busy("agent") /\ Busy("unfeed") /\ Busy("promo")
      /\ Busy("unpromo") /\ Busy("file") /\ Busy("unlink") /\ Busy("fill") /\ Busy("merge")
  BY DEF Busy
<1>2. CASE LinkUnset(f)
  BY <1>1, <1>2, DroppedKeeps DEF LinkUnset
<1>3. CASE FeedbackKept(f)
  BY <1>1, <1>3, DroppedKeeps DEF FeedbackKept
<1>4. CASE PromoUnseen(f)
  BY <1>1, <1>4, DroppedKeeps DEF PromoUnseen
<1>5. CASE PromoUndeleted(f)
  BY <1>1, <1>5, DroppedKeeps DEF PromoUndeleted
<1>6. CASE PromoStaysLinked(f)
  BY <1>1, <1>6, DroppedKeeps DEF PromoStaysLinked
<1>7. CASE FillMissed(f)
  BY <1>1, <1>7, DroppedKeeps DEF FillMissed
<1>8. CASE AgentCreatesBlindly(f)
  BY <1>8, CreatesBlindlyKeeps
<1>9. QED
  BY <1>2, <1>3, <1>4, <1>5, <1>6, <1>7, <1>8 DEF PassOver

-----------------------------------------------------------------------------
(* A mail is stored *)

Waiting == {u \in DOMAIN box : Owed(u) /\ ~Taken(box[u])}

\* All copies of one mail are taken, and nothing else changes.
Takes ==
  /\ UNCHANGED <<box, nextUid, cursor, legacy>>
  /\ \E m : Stored' \cup forgotten' = Stored \cup forgotten \cup {m}

LEMMA NewEmailIsRow ==
  ASSUME NEW m
  PROVE  IsRow(NewEmail(m)) /\ NewEmail(m).mail = m
BY DEF IsRow, NewEmail

LEMMA InsertEmailKeeps ==
  ASSUME IntakeInv, NEW f \in Fetchers, InsertEmail(f)
  PROVE  IntakeInv' /\ Takes
<1> DEFINE m == Mail(f)
<1>1. /\ emails' = With(emails, nextRow, NewEmail(m)) /\ nextRow' = nextRow + 1
      /\ UNCHANGED <<box, nextUid, cursor, legacy, forgotten>>
      /\ fetcher' = [fetcher EXCEPT ![f].pc = "reply", ![f].row = nextRow]
      /\ fetcher[f].pc = "next"
  BY DEF InsertEmail, keepMail, Is
<1>2. nextRow \notin DOMAIN emails
  BY DEF IntakeInv, Shape
<1>3. Stored' = Stored \cup {m}
  <2> DEFINE row == NewEmail(m)
  <2>1. row.mail = m
    BY NewEmailIsRow
  <2> HIDE DEF row, m
  <2>2. emails' = With(emails, nextRow, row)
    BY <1>1 DEF row
  <2>3. QED
    BY <1>2, <2>1, <2>2 DEF Stored, With
<1>4. Takes
  BY <1>1, <1>3 DEF Takes
<1>5. PICK c : c = fetcher[f]
  OBVIOUS
<1>6. PICK d : d = [c EXCEPT !.pc = "reply", !.row = nextRow]
  OBVIOUS
<1>7. fetcher' = [fetcher EXCEPT ![f] = d]
  BY <1>1, <1>5, <1>6
<1>8. Keeps(c, d) /\ d.pc = "reply"
  <2>1. IsCall(c)
    BY <1>5 DEF IntakeInv, Shape
  <2>2. QED
    BY <1>6, <2>1 DEF IsCall, Keeps
<1>9. Shape'
  <2> DEFINE row == NewEmail(m)
  <2>1. IsRow(row)
    BY NewEmailIsRow
  <2> HIDE DEF row, m
  <2>2. emails' = With(emails, nextRow, row)
    BY <1>1 DEF row
  <2>3. /\ DOMAIN emails' = DOMAIN emails \cup {nextRow}
        /\ \A r \in DOMAIN emails' : IsRow(emails'[r])
    BY <2>1, <2>2 DEF With, IntakeInv, Shape
  <2>4. DOMAIN fetcher' = Fetchers /\ \A g \in Fetchers : IsCall(fetcher'[g])
    BY <1>7, <1>8 DEF IntakeInv, Shape, Keeps
  <2>5. nextRow' \in Nat \ {0} /\ DOMAIN emails' \subseteq 1 .. nextRow' - 1
    BY <1>1, <2>3 DEF IntakeInv, Shape
  <2>6. QED
    BY <1>1, <2>3, <2>4, <2>5 DEF IntakeInv, Shape
<1>10. Grows
  BY <1>1, <1>3 DEF Grows, Taken, IntakeInv, Shape
<1>11. CursorCovered'
  BY <1>1, <1>10, CursorKept DEF IntakeInv
<1>12. ASSUME f \in Pollers PROVE CallCovers(f)'
  <2>1. BatchCovers(f)
    BY <1>12 DEF IntakeInv, CallCovers
  <2>2. fetcher'[f] = d
    BY <1>7 DEF IntakeInv, Shape
  <2>3. Mail(f)' = m
    BY <1>5, <1>8, <2>2 DEF Mail, First, Keeps
  <2>4. Taken(Mail(f))'
    BY <1>3, <2>3 DEF Taken
  <2>5. \A u \in DOMAIN box : Taken(box[u]) => Taken(box[u])'
    BY <1>1, <1>3 DEF Taken
  <2> HIDE DEF m
  <2>6. /\ ~c.ranged /\ c.top \in {None} \cup 1 .. nextUid - 1
        /\ c.top # None => \A u \in DOMAIN box :
             u <= c.top /\ Owed(u)
             => Taken(box[u]) \/ \E v \in DOMAIN c.todo : c.todo[v] = box[u]
    BY <1>1, <1>5, <2>1 DEF BatchCovers
  <2>7. /\ fetcher'[f].todo = c.todo /\ fetcher'[f].top = c.top
        /\ fetcher'[f].ranged = c.ranged /\ box' = box /\ nextUid' = nextUid
    BY <1>1, <1>8, <2>2 DEF Keeps
  <2>8. \A u : Owed(u)' = Owed(u)
    BY <1>10, OwedKept
  <2>9. BatchCovers(f)'
    BY <2>4, <2>5, <2>6, <2>7, <2>8 DEF BatchCovers
  <2>10. QED
    BY <1>8, <2>2, <2>9 DEF CallCovers, AskCovers
<1>13. \A g \in Pollers \ {f} : fetcher'[g] = fetcher[g]
  BY <1>7, PipelineAssumption DEF IntakeInv, Shape
<1>14. QED
  BY <1>4, <1>9, <1>10, <1>11, <1>12, <1>13, InvKept

-----------------------------------------------------------------------------
(* The world around the fetches *)

LEMMA CallsUnchanged ==
  ASSUME IntakeInv, Grows, Shape', CursorCovered', UNCHANGED fetcher
  PROVE  IntakeInv'
<1>1. \A g \in Pollers : CallCovers(g)'
  BY BatchKept, AskKept DEF IntakeInv, CallCovers
<1>2. QED
  BY <1>1 DEF IntakeInv

LEMMA ArriveKeeps ==
  ASSUME IntakeInv, NEW m \in Mails, Arrive(m)
  PROVE  IntakeInv'
<1>1. /\ box' = With(box, nextUid, m) /\ nextUid' = nextUid + 1
      /\ UNCHANGED <<emails, nextRow, cursor, legacy, fetcher, forgotten>>
  BY DEF Arrive, keepRows
<1>2. Shape'
  BY <1>1 DEF With, IntakeInv, Shape
<1>3. Grows
  BY <1>1 DEF With, Grows, Taken, Stored, IntakeInv, Shape
<1>4. CursorCovered'
  BY <1>1, <1>3, CursorKept DEF IntakeInv
<1>5. QED
  BY <1>1, <1>2, <1>3, <1>4, CallsUnchanged

LEMMA ExpungeKeeps ==
  ASSUME IntakeInv, NEW u \in DOMAIN box, Expunge(u)
  PROVE  IntakeInv'
<1>1. /\ box' = Without(box, u)
      /\ UNCHANGED <<emails, nextRow, cursor, legacy, nextUid, fetcher, forgotten>>
  BY DEF Expunge, keepRows
<1>2. Shape'
  BY <1>1 DEF Without, IntakeInv, Shape
<1>3. Grows
  BY <1>1 DEF Without, Grows, Taken, Stored, IntakeInv, Shape
<1>4. CursorCovered'
  BY <1>1, <1>3, CursorKept DEF IntakeInv
<1>5. QED
  BY <1>1, <1>2, <1>3, <1>4, CallsUnchanged

LEMMA DropEmailKeeps ==
  ASSUME IntakeInv, NEW r \in DOMAIN emails, DropEmail(r)
  PROVE  IntakeInv' /\ Still
<1>1. /\ emails' = Without(emails, r) /\ forgotten' = forgotten \cup {emails[r].mail}
      /\ UNCHANGED <<box, nextUid, cursor, legacy, nextRow, fetcher>>
  BY DEF DropEmail
<1>2. Stored' \cup forgotten' = Stored \cup forgotten
  BY <1>1 DEF Stored, Without
<1>3. Shape'
  BY <1>1 DEF Without, IntakeInv, Shape
<1>4. Still
  BY <1>1, <1>2 DEF Still, SameMails
<1>5. Grows /\ CursorCovered'
  BY <1>4, SameMailsGrow, CursorKept DEF IntakeInv, Still
<1>6. QED
  BY <1>1, <1>3, <1>4, <1>5, CallsUnchanged

\* The items are nothing to the intake.
LEMMA ItemsKeep ==
  ASSUME IntakeInv,
         UNCHANGED <<box, nextUid, cursor, legacy, emails, nextRow, fetcher, forgotten>>
  PROVE  IntakeInv' /\ Still
<1>1. Still
  BY DEF Still, SameMails, Stored
<1>2. Shape'
  BY DEF IntakeInv, Shape
<1>3. Grows /\ CursorCovered'
  BY <1>1, SameMailsGrow, CursorKept DEF IntakeInv, Still
<1>4. QED
  BY <1>1, <1>2, <1>3, CallsUnchanged

-----------------------------------------------------------------------------
(* The invariant *)

LEMMA IntakeInit == Init => IntakeInv
<1> SUFFICES ASSUME Init PROVE IntakeInv
  OBVIOUS
<1>1. Shape
  BY IdleIsCall DEF Init, Shape
<1>2. CursorCovered
  BY DEF Init, CursorCovered
<1>3. \A f \in Pollers : CallCovers(f)
  BY IdleIsCall, PipelineAssumption DEF Init, CallCovers, AskCovers, BatchCovers
<1>4. QED
  BY <1>1, <1>2, <1>3 DEF IntakeInv

LEMMA StepKeeps ==
  ASSUME IntakeInv, NEW f \in Fetchers, Step(f)
  PROVE  IntakeInv' /\ (Still \/ Takes \/ Moves)
<1>1. CASE Ask(f)
  BY <1>1, AskKeeps
<1>2. CASE Skip(f)
  BY <1>2, SkipKeeps
<1>3. CASE InsertEmail(f)
  BY <1>3, InsertEmailKeeps
<1>4. CASE MailDone(f)
  BY <1>4, MailDoneKeeps
<1>5. CASE Handle(f) /\ ~MailDone(f)
  BY <1>5, HandleHandles, HandlesKeeps DEF IntakeInv
<1>6. CASE Finish(f)
  BY <1>6, FinishKeeps
<1>7. QED
  BY <1>1, <1>2, <1>3, <1>4, <1>5, <1>6 DEF Step

\* What the steps of the pipeline are to the intake.
IntakeStep ==
  \/ Still \/ Takes \/ Moves
  \/ \E m \in Mails : Arrive(m)
  \/ \E u \in DOMAIN box : Expunge(u)

LEMMA NextKeeps ==
  ASSUME IntakeInv, [Next]_vars
  PROVE  IntakeInv' /\ IntakeStep
<1>1. ASSUME NEW f \in Fetchers, Step(f)
      PROVE  IntakeInv' /\ IntakeStep
  BY <1>1, StepKeeps DEF IntakeStep
<1>2. ASSUME NEW f \in Fetchers, Interrupt(f)
      PROVE  IntakeInv' /\ IntakeStep
  BY <1>2, InterruptKeeps DEF IntakeStep
<1>3. ASSUME NEW f \in Fetchers, MergeFails(f)
      PROVE  IntakeInv' /\ IntakeStep
  BY <1>3, MergeFailsKeeps DEF IntakeStep
<1>4. ASSUME NEW m \in Mails, Arrive(m)
      PROVE  IntakeInv' /\ IntakeStep
  BY <1>4, ArriveKeeps DEF IntakeStep
<1>5. ASSUME NEW u \in DOMAIN box, Expunge(u)
      PROVE  IntakeInv' /\ IntakeStep
  BY <1>5, ExpungeKeeps DEF IntakeStep
<1>6. ASSUME NEW r \in DOMAIN emails, DropEmail(r)
      PROVE  IntakeInv' /\ IntakeStep
  BY <1>6, DropEmailKeeps DEF IntakeStep
<1>7. ASSUME NEW i, NEW s, ChangeStatus(i, s) \/ DropItem(i)
      PROVE  IntakeInv' /\ IntakeStep
  BY <1>7, ItemsKeep DEF IntakeStep, ChangeStatus, DropItem, keepRows
<1>8. CASE UNCHANGED vars
  BY <1>8, ItemsKeep DEF IntakeStep, vars
<1>9. CASE World
  BY <1>4, <1>5, <1>6, <1>7, <1>9 DEF World
<1>10. ASSUME NEW f \in Fetchers, Answer(f) \/ NoAnswer(f) \/ PassOver(f)
       PROVE  IntakeInv' /\ IntakeStep
  BY <1>10, AnswerKeeps, NoAnswerKeeps, PassOverKeeps DEF IntakeStep
<1>11. QED
  BY <1>1, <1>2, <1>3, <1>8, <1>9, <1>10 DEF Next

LEMMA IntakeInvHolds == Spec => []IntakeInv
<1>1. IntakeInv /\ [Next]_vars => IntakeInv'
  BY NextKeeps
<1>2. QED
  BY IntakeInit, <1>1, PTL DEF Spec

\* For every set of fetches, mails and errors, and every cursor of a version with
\* one mailbox an account may start from, the cursor never passes over a mail
\* behind that one that is neither stored nor was deleted by the user: what the
\* poll loop relies on when it asks only for the mails behind last_uid
\* (pipeline.rs:84-87, :303-308).
THEOREM NoMailPassedOver == Spec => []CursorCovered
<1>1. IntakeInv => CursorCovered
  BY DEF IntakeInv
<1>2. QED
  BY IntakeInvHolds, <1>1, PTL

-----------------------------------------------------------------------------
(* The refinement *)

LEMMA WaitingDef ==
  {u \in DOMAIN box : Owed(u) /\ Readable(box[u]) /\ box[u] \notin Stored \cup forgotten}
    = Waiting
BY DEF Waiting, Taken

LEMMA ArriveIsArrive ==
  ASSUME IntakeInv, NEW m \in Mails, Arrive(m)
  PROVE  Intake!Arrive
<1>1. /\ box' = With(box, nextUid, m) /\ nextUid' = nextUid + 1
      /\ UNCHANGED <<emails, cursor, legacy, forgotten>>
  BY DEF Arrive, keepRows
<1>2. nextUid \in Nat /\ nextUid \notin DOMAIN box
  BY DEF IntakeInv, Shape
<1>3. /\ DOMAIN box' = DOMAIN box \cup {nextUid}
      /\ \A u \in DOMAIN box : box'[u] = box[u]
  BY <1>1, <1>2 DEF With
<1>4. Stored' = Stored
  BY <1>1 DEF Stored
<1>5. nextUid' - 1 = nextUid - 1 + 1 /\ nextUid' - 1 = nextUid
  BY <1>1, <1>2
<1>6. QED
  BY <1>1, <1>2, <1>3, <1>4, <1>5 DEF Intake!Arrive, Owed

LEMMA ExpungeIsLeave ==
  ASSUME IntakeInv, NEW u \in DOMAIN box, Expunge(u)
  PROVE  Intake!Leave(u)
<1>1. /\ box' = Without(box, u) /\ UNCHANGED <<emails, cursor, legacy, nextUid, forgotten>>
  BY DEF Expunge, keepRows
<1>2. Stored' = Stored
  BY <1>1 DEF Stored
<1>3. QED
  BY <1>1, <1>2 DEF Intake!Leave, Without, Owed

LEMMA StillIsStutter ==
  ASSUME Still
  PROVE  UNCHANGED Intake!vars
BY DEF Still, SameMails, Intake!vars, Owed

LEMMA TakesIsTake ==
  ASSUME Takes
  PROVE  \/ \E copies \in SUBSET Waiting : Intake!Take(copies)
         \/ UNCHANGED Intake!vars
<1>1. PICK m : Stored' \cup forgotten' = Stored \cup forgotten \cup {m}
  BY DEF Takes
<1> DEFINE copies == {u \in Waiting : box[u] = m}
<1>2. UNCHANGED <<box, nextUid, cursor>> /\ \A u : Owed(u)' = Owed(u)
  BY DEF Takes, Owed
<1>3. {u \in DOMAIN box : Owed(u) /\ Readable(box[u]) /\ box[u] \notin Stored' \cup forgotten'}
        = Waiting \ copies
  BY <1>1 DEF Waiting, Taken
<1>4. CASE copies = {}
  BY <1>2, <1>3, <1>4, WaitingDef DEF Intake!vars
<1>5. CASE copies # {}
  BY <1>2, <1>3, <1>5, WaitingDef DEF Intake!Take
<1>6. QED
  BY <1>4, <1>5

LEMMA MovesIsAdvance ==
  ASSUME IntakeInv, Moves
  PROVE  \E u \in 1 .. nextUid - 1 : Intake!Advance(u)
<1>1. \A v \in Waiting : cursor' < v
  BY DEF Moves, Waiting, IntakeInv, Shape
<1>2. /\ UNCHANGED <<box, nextUid>> /\ Stored' = Stored /\ forgotten' = forgotten
      /\ \A u : Owed(u)' = Owed(u)
  BY DEF Moves, Stored, Owed
<1>3. Intake!Advance(cursor')
  BY <1>1, <1>2, WaitingDef DEF Intake!Advance
<1>4. QED
  BY <1>3 DEF Moves

LEMMA StepIsIntakeStep ==
  ASSUME IntakeInv, [Next]_vars
  PROVE  [Intake!Next]_Intake!vars
<1>1. IntakeStep
  BY NextKeeps
<1>2. CASE Still
  BY <1>2, StillIsStutter
<1>3. CASE Takes
  BY <1>3, TakesIsTake, WaitingDef DEF Intake!Next
<1>4. CASE Moves
  BY <1>4, MovesIsAdvance DEF Intake!Next
<1>5. CASE \E m \in Mails : Arrive(m)
  BY <1>5, ArriveIsArrive DEF Intake!Next
<1>6. CASE \E u \in DOMAIN box : Expunge(u)
  BY <1>6, ExpungeIsLeave DEF Intake!Next
<1>7. QED
  BY <1>1, <1>2, <1>3, <1>4, <1>5, <1>6 DEF IntakeStep

LEMMA InitIsIntakeInit == Init => Intake!Init
BY DEF Init, Intake!Init, Stored

\* The pipeline implements the intake of the mails behind the cursor of a version
\* with one mailbox, or of all mails where there is none: each of its steps takes
\* all copies of one mail, moves the mark over mails that no longer wait, or is
\* nothing to the intake, whatever errors, restarts and deletions come between
\* (pipeline.rs:84-321).
THEOREM PipelineImplementsIntake == Spec => IntakeSpec
<1>1. IntakeInv /\ [Next]_vars => [Intake!Next]_Intake!vars
  BY StepIsIntakeStep
<1>2. QED
  BY InitIsIntakeInit, IntakeInvHolds, <1>1, PTL DEF Spec, IntakeSpec, Intake!Spec
=============================================================================
