--------------------------- MODULE RequestsProofs ---------------------------
(***************************************************************************)
(* The approvals, for any number of people deciding at once and any other   *)
(* requests and operations between the steps of a decision; the types of    *)
(* the tables; and the reclassification of a mail, its item and its link.   *)
(***************************************************************************)
EXTENDS Requests, TLAPS, FiniteSetTheorems, WellFoundedInduction

-----------------------------------------------------------------------------
(* The inductive invariant *)

Answers == UNION {Args(tool) : tool \in Tools}
Asking == [tool : Tools, id : Nat, arg : Answers, status : {"pending", "approved", "rejected"}]

IsCall(q) == q = [pc |-> q.pc, id |-> q.id, cat |-> q.cat, link |-> q.link, held |-> q.held,
                  ok |-> q.ok]

\* What a decision in progress may be: it has its request, and when it counts
\* the change as made, it was made.
Decision(q) ==
  /\ q.pc \in {"idle", "check", "write", "decide"}
  /\ q.pc # "idle" => q.id \in DOMAIN approvals
  /\ q.ok => q.pc = "decide" /\ q.id \in written

Shape ==
  /\ nextItem \in Nat \ {0} /\ DOMAIN items \subseteq 1 .. nextItem - 1
  /\ DOMAIN emails \subseteq Mails
  /\ approvals \in Seq(Asking)
  /\ written \subseteq DOMAIN approvals
  /\ DOMAIN call = Deciders \cup Filers
  /\ \A c \in Deciders \cup Filers : IsCall(call[c])

\* Whose object is an item names one that was given its id.
Named ==
  \A a \in DOMAIN approvals : approvals[a].tool = "delete_item" => approvals[a].id < nextItem

Deletes(a) == approvals[a].tool \in {"delete_item", "delete_email"}

\* What a written deletion deleted is gone.
Gone == \A a \in written : Deletes(a) => ~Exists(approvals[a].tool, approvals[a].id)

ApprovedWritten == \A a \in DOMAIN approvals : approvals[a].status = "approved" => a \in written

Inv ==
  /\ Shape /\ Named /\ Gone /\ ApprovedWritten
  /\ \A d \in Deciders : Decision(call[d])

LEMMA IdleIsCall == IsCall(Idle) /\ Idle.pc = "idle" /\ ~Idle.ok
BY DEF IsCall, Idle

\* A set of numbers with an upper bound has a greatest one.
LEMMA MaxIsMember ==
  ASSUME NEW n \in Nat, NEW S, S \subseteq 0 .. n, S # {}
  PROVE  Max(S) \in S /\ \A u \in S : u <= Max(S)
<1> DEFINE T == {n - u : u \in S}
<1>1. T \subseteq Nat /\ T # {}
  <2>1. \A u \in S : n - u \in Nat
    OBVIOUS
  <2>2. QED
    BY <2>1
<1>2. PICK t \in T : \A s \in T : ~(<<s, t>> \in OpToRel(<, Nat))
  BY <1>1, NatLessThanWellFounded, WFMin
<1>3. ASSUME NEW s \in T PROVE t <= s
  <2>1. s \in Nat /\ t \in Nat
    BY <1>1
  <2>2. ~(s < t)
    BY <1>2, <2>1 DEF OpToRel
  <2>3. QED
    BY <2>1, <2>2
<1>4. PICK u \in S : t = n - u
  OBVIOUS
<1>5. \A v \in S : u >= v
  BY <1>3, <1>4
<1>6. QED
  BY <1>5 DEF Max

LEMMA InvInit == Init => Inv
<1> SUFFICES ASSUME Init PROVE Inv
  OBVIOUS
<1>1. MaxItems \in Nat /\ Mails \subseteq 1 .. MaxItems
  BY RequestsAssumption
<1>2. PICK top : top = Max(Mails \cup {0})
  OBVIOUS
<1>3. top \in Nat /\ Mails \subseteq 1 .. top
  <2>1. PICK S : S = Mails \cup {0}
    OBVIOUS
  <2>2. S \subseteq 0 .. MaxItems /\ S # {}
    BY <1>1, <2>1
  <2>3. Max(S) \in S /\ \A u \in S : u <= Max(S)
    BY <1>1, <2>2, MaxIsMember
  <2>4. \A m \in Mails : m \in Nat \ {0} /\ m <= top
    BY <1>1, <1>2, <2>1, <2>3
  <2>5. top \in Nat
    <3>1. top = Max(S)
      BY <1>2, <2>1
    <3>2. top \in S
      BY <2>3, <3>1
    <3>3. top \in 0 .. MaxItems
      BY <2>2, <3>2
    <3>4. QED
      BY <1>1, <3>3
  <2>6. QED
    BY <2>4, <2>5
<1>4. nextItem = top + 1
  BY <1>2 DEF Init
<1>5. DOMAIN items \subseteq Mails /\ DOMAIN emails = Mails
  BY DEF Init
<1>6. nextItem \in Nat \ {0} /\ DOMAIN items \subseteq 1 .. nextItem - 1
  <2>1. nextItem - 1 = top /\ nextItem \in Nat \ {0}
    BY <1>3, <1>4
  <2>2. QED
    BY <1>3, <1>5, <2>1
<1>7. /\ approvals = <<>> /\ written = {}
      /\ call = [c \in Deciders \cup Filers |-> Idle]
  BY DEF Init
<1>8. Shape
  BY <1>5, <1>6, <1>7, IdleIsCall DEF Shape
<1>9. QED
  BY <1>7, <1>8, IdleIsCall DEF Inv, Named, Gone, ApprovedWritten, Decision

-----------------------------------------------------------------------------
(* Steps of others *)

\* No row comes back: a new item has a new id, and mails are not added.
NoReturn ==
  /\ DOMAIN emails' \subseteq DOMAIN emails
  /\ nextItem' \in Nat \ {0} /\ nextItem' >= nextItem
  /\ DOMAIN items' \subseteq 1 .. nextItem' - 1
  /\ \A i \in DOMAIN items' : i \in DOMAIN items \/ i >= nextItem

LEMMA NamedKept ==
  ASSUME Shape, Named, NoReturn, UNCHANGED approvals
  PROVE  Named'
<1>1. SUFFICES ASSUME NEW a \in DOMAIN approvals, approvals[a].tool = "delete_item"
               PROVE  approvals[a].id < nextItem'
  BY DEF Named
<1>2. approvals[a] \in Asking
  BY DEF Shape
<1>3. approvals[a].id \in Nat
  BY <1>2 DEF Asking
<1>4. approvals[a].id < nextItem
  BY <1>1 DEF Named
<1>5. QED
  BY <1>3, <1>4 DEF NoReturn, Shape

LEMMA StaysGone ==
  ASSUME Shape, Named, NoReturn, UNCHANGED approvals, NEW a \in DOMAIN approvals, Deletes(a),
         ~Exists(approvals[a].tool, approvals[a].id)
  PROVE  ~Exists(approvals[a].tool, approvals[a].id)'
<1>1. approvals[a] \in Asking
  BY DEF Shape
<1>2. approvals[a].id \in Nat
  BY <1>1 DEF Asking
<1>3. CASE approvals[a].tool = "delete_item"
  <2>1. approvals[a].id < nextItem /\ approvals[a].id \notin DOMAIN items
    BY <1>3 DEF Named, Exists, OnMails
  <2>2. approvals[a].id \notin DOMAIN items'
    BY <1>2, <2>1 DEF NoReturn, Shape
  <2>3. QED
    BY <1>3, <2>2 DEF Exists, OnMails
<1>4. CASE approvals[a].tool = "delete_email"
  BY <1>4 DEF NoReturn, Exists, OnMails
<1>5. QED
  BY <1>3, <1>4 DEF Deletes

\* A step that leaves the approvals and the decisions in progress alone.
Aside ==
  /\ NoReturn /\ UNCHANGED <<approvals, written>>
  /\ DOMAIN call' = Deciders \cup Filers
  /\ \A c \in Deciders \cup Filers : IsCall(call'[c])
  /\ \A d \in Deciders : call'[d] = call[d] \/ call'[d] = Idle

LEMMA AsideKeeps ==
  ASSUME Inv, Aside
  PROVE  Inv'
<1>1. Shape'
  BY DEF Inv, Shape, Aside, NoReturn
<1>2. Named'
  BY NamedKept DEF Inv, Aside
<1>3. Gone'
  <2>1. SUFFICES ASSUME NEW a \in written, Deletes(a)
                 PROVE  ~Exists(approvals[a].tool, approvals[a].id)'
    BY DEF Gone, Aside, Deletes
  <2>2. a \in DOMAIN approvals /\ ~Exists(approvals[a].tool, approvals[a].id)
    BY <2>1 DEF Inv, Shape, Gone
  <2>3. QED
    BY <2>1, <2>2, StaysGone DEF Inv, Aside
<1>4. ApprovedWritten'
  BY DEF Inv, ApprovedWritten, Aside
<1>5. \A d \in Deciders : Decision(call[d])'
  BY IdleIsCall DEF Inv, Decision, Aside
<1>6. QED
  BY <1>1, <1>2, <1>3, <1>4, <1>5 DEF Inv

LEMMA SameRowsNoReturn ==
  ASSUME Shape, DOMAIN emails' = DOMAIN emails, DOMAIN items' \subseteq DOMAIN items,
         UNCHANGED nextItem
  PROVE  NoReturn
BY DEF Shape, NoReturn

LEMMA NewItemNoReturn ==
  ASSUME Shape, UNCHANGED emails, NEW row, items' = With(items, nextItem, row),
         nextItem' = nextItem + 1
  PROVE  NoReturn
BY DEF Shape, NoReturn, With

LEMMA DirectAside ==
  ASSUME Shape, Direct
  PROVE  Aside
<1>1. /\ UNCHANGED <<approvals, written, call>>
  BY DEF Direct, CreateItem, ChangeStatuses, DeleteItems, CategorizeEmails, DeleteEmails,
         Operation, keepHistory
<1>2. NoReturn
  <2>1. CASE \E d : CreateItem(d)
    BY <2>1, NewItemNoReturn DEF CreateItem
  <2>2. ASSUME NEW ids, NEW s, ChangeStatuses(ids, s) \/ CategorizeEmails(ids, s)
        PROVE  NoReturn
    BY <2>2, SameRowsNoReturn DEF ChangeStatuses, CategorizeEmails
  <2>3. ASSUME NEW ids, DeleteItems(ids)
        PROVE  NoReturn
    BY <2>3, SameRowsNoReturn DEF DeleteItems
  <2>4. ASSUME NEW ids, DeleteEmails(ids)
        PROVE  NoReturn
    BY <2>4 DEF DeleteEmails, NoReturn, Shape
  <2>5. QED
    BY <2>1, <2>2, <2>3, <2>4 DEF Direct
<1>3. QED
  BY <1>1, <1>2 DEF Aside, Shape

\* A filer's step with its call after it.
Filed(c, q) == call' = [call EXCEPT ![c] = q] /\ IsCall(q)

LEMMA FiledAside ==
  ASSUME Shape, NEW c \in Filers, NEW q, Filed(c, q), NoReturn, UNCHANGED <<approvals, written>>
  PROVE  Aside
BY RequestsAssumption DEF Filed, Aside, Shape

LEMMA GoFiled ==
  ASSUME Shape, NEW c \in Filers, NEW pc, Go(c, pc)
  PROVE  \E q : Filed(c, q)
<1>1. PICK p : p = call[c]
  OBVIOUS
<1>2. PICK q : q = [p EXCEPT !.pc = pc]
  OBVIOUS
<1>3. IsCall(p)
  BY <1>1 DEF Shape
<1>4. IsCall(q)
  BY <1>2, <1>3 DEF IsCall
<1>5. call' = [call EXCEPT ![c] = q]
  BY <1>1, <1>2 DEF Go
<1>6. QED
  BY <1>4, <1>5 DEF Filed

LEMMA EndFiled ==
  ASSUME NEW c, End(c)
  PROVE  \E q : Filed(c, q)
BY IdleIsCall DEF End, Filed

LEMMA FilerFiled ==
  ASSUME Shape, NEW c \in Filers, Reclassify(c)
  PROVE  \E q : Filed(c, q)
<1>1. CASE FileWrite(c) \/ FileUndo(c) \/ FileUnlink(c) \/ FileUpdate(c) \/ FileLink(c)
  BY <1>1, GoFiled DEF FileWrite, FileUndo, FileUnlink, FileUpdate, FileLink
<1>2. CASE FileEnd(c)
  BY <1>2, EndFiled DEF FileEnd
<1>3. ASSUME NEW m, NEW cat, FileBegin(c, m, cat) PROVE \E q : Filed(c, q)
  <2>1. PICK link : link = emails[m].item
    OBVIOUS
  <2>2. PICK q : q = [Idle EXCEPT !.pc = "file", !.id = m, !.cat = cat, !.link = link]
    OBVIOUS
  <2>3. IsCall(q)
    BY <2>2 DEF IsCall, Idle
  <2>4. call' = [call EXCEPT ![c] = q]
    BY <1>3, <2>1, <2>2 DEF FileBegin
  <2>5. QED
    BY <2>3, <2>4 DEF Filed
<1>4. ASSUME FileExtract(c) PROVE \E q : Filed(c, q)
  <2>1. PICK p : p = call[c]
    OBVIOUS
  <2>2. IsCall(p)
    BY <2>1 DEF Shape
  <2>3. CASE End(c)
    BY <2>3, EndFiled
  <2>4. CASE \E pc, h : call' = [call EXCEPT ![c].pc = pc, ![c].held = h]
    <3>1. PICK pc, h : call' = [call EXCEPT ![c].pc = pc, ![c].held = h]
      BY <2>4
    <3>2. PICK q : q = [p EXCEPT !.pc = pc, !.held = h]
      OBVIOUS
    <3>3. IsCall(q)
      BY <2>2, <3>2 DEF IsCall
    <3>4. call' = [call EXCEPT ![c] = q]
      BY <2>1, <3>1, <3>2
    <3>5. QED
      BY <3>3, <3>4 DEF Filed
  <2>5. QED
    BY <1>4, <2>3, <2>4, Zenon DEF FileExtract
<1>5. ASSUME FileInsert(c) PROVE \E q : Filed(c, q)
  <2>1. PICK p : p = call[c]
    OBVIOUS
  <2>2. PICK q : q = [p EXCEPT !.pc = "link", !.link = nextItem]
    OBVIOUS
  <2>3. IsCall(p)
    BY <2>1 DEF Shape
  <2>4. IsCall(q)
    BY <2>2, <2>3 DEF IsCall
  <2>5. call' = [call EXCEPT ![c] = q]
    BY <1>5, <2>1, <2>2 DEF FileInsert
  <2>6. QED
    BY <2>4, <2>5 DEF Filed
<1>6. QED
  BY <1>1, <1>2, <1>3, <1>4, <1>5 DEF Reclassify

LEMMA FilerAside ==
  ASSUME Shape, NEW c \in Filers, Reclassify(c)
  PROVE  Aside
<1>1. UNCHANGED <<approvals, written>>
  BY DEF Reclassify, FileBegin, FileWrite, FileUndo, FileUnlink, FileExtract, FileUpdate,
         FileInsert, FileLink, FileEnd, keepHistory
<1>2. NoReturn
  <2>1. CASE FileInsert(c)
    BY <2>1, NewItemNoReturn DEF FileInsert
  <2>2. CASE ~FileInsert(c)
    <3>1. UNCHANGED nextItem
      BY <2>2 DEF Reclassify, FileBegin, FileWrite, FileUndo, FileUnlink, FileExtract,
                  FileUpdate, FileLink, FileEnd, keepRows
    <3>2. DOMAIN emails' = DOMAIN emails
      BY <2>2 DEF Reclassify, FileBegin, FileWrite, FileUndo, FileUnlink, FileExtract,
                  FileUpdate, FileLink, FileEnd, keepRows, SetCat, SetLink
    <3>3. DOMAIN items' \subseteq DOMAIN items
      BY <2>2 DEF Reclassify, FileBegin, FileWrite, FileUndo, FileUnlink, FileExtract,
                  FileUpdate, FileLink, FileEnd, keepRows, Rewrite, Without
    <3>4. QED
      BY <3>1, <3>2, <3>3, SameRowsNoReturn
  <2>3. QED
    BY <2>1, <2>2
<1>3. QED
  BY <1>1, <1>2, FilerFiled, FiledAside

LEMMA CrashAside ==
  ASSUME Shape, Crash
  PROVE  Aside
<1>1. UNCHANGED <<approvals, written, emails, items, nextItem>>
  BY DEF Crash, keepRows, keepHistory
<1>2. NoReturn
  BY <1>1, SameRowsNoReturn
<1>3. call' = [c \in Deciders \cup Filers |-> Idle]
  BY DEF Crash, Shape
<1>4. QED
  BY <1>1, <1>2, <1>3, IdleIsCall DEF Aside

-----------------------------------------------------------------------------
(* The steps of the approvals *)

LEMMA AskKeeps ==
  ASSUME Inv, NEW tool \in Tools, NEW id \in DOMAIN items \cup DOMAIN emails,
         NEW arg \in Args(tool), AgentAsks(tool, id, arg)
  PROVE  Inv'
<1> DEFINE new == [tool |-> tool, id |-> id, arg |-> arg, status |-> "pending"]
           n == Len(approvals) + 1
<1>1. /\ approvals' = Append(approvals, new)
      /\ UNCHANGED <<emails, items, nextItem, written, call>>
  BY DEF AgentAsks, keepRows, keepHistory
<1>2. new \in Asking
  <2>1. id \in Nat
    BY RequestsAssumption DEF Inv, Shape
  <2>2. arg \in Answers
    BY DEF Answers
  <2>3. QED
    BY <2>1, <2>2 DEF Asking
<1>3. tool = "delete_item" => id < nextItem
  BY DEF AgentAsks, Exists, OnMails, Inv, Shape
<1> HIDE DEF new
<1>4. /\ approvals' \in Seq(Asking) /\ DOMAIN approvals' = DOMAIN approvals \cup {n}
      /\ n \notin DOMAIN approvals
      /\ \A a \in DOMAIN approvals : approvals'[a] = approvals[a]
      /\ approvals'[n] = new
  BY <1>1, <1>2 DEF Inv, Shape
<1> HIDE DEF n
<1>5. new.tool = tool /\ new.id = id /\ new.status = "pending"
  BY DEF new
<1>6. Shape'
  BY <1>1, <1>4 DEF Inv, Shape
<1>7. Named'
  BY <1>1, <1>3, <1>4, <1>5 DEF Inv, Named
<1>8. Gone'
  BY <1>1, <1>4 DEF Inv, Shape, Gone, Deletes, Exists
<1>9. ApprovedWritten'
  BY <1>1, <1>4, <1>5 DEF Inv, ApprovedWritten
<1>10. \A d \in Deciders : Decision(call[d])'
  BY <1>1, <1>4 DEF Inv, Decision
<1>11. QED
  BY <1>6, <1>7, <1>8, <1>9, <1>10 DEF Inv

\* A decider's step that writes nothing, with its call after it.
LEMMA DecidesKeeps ==
  ASSUME Inv, NEW c \in Deciders, NEW q, call' = [call EXCEPT ![c] = q], IsCall(q),
         Decision(q), UNCHANGED <<emails, items, nextItem, approvals, written>>
  PROVE  Inv'
<1>1. Shape'
  BY DEF Inv, Shape
<1>2. Named' /\ Gone' /\ ApprovedWritten'
  BY DEF Inv, Named, Gone, ApprovedWritten, Deletes, Exists
<1>3. \A d \in Deciders : Decision(call[d])'
  BY DEF Inv, Shape, Decision
<1>4. QED
  BY <1>1, <1>2, <1>3 DEF Inv

LEMMA BeginKeeps ==
  ASSUME Inv, NEW c \in Deciders, NEW a \in DOMAIN approvals,
         ApproveBegin(c, a) \/ RejectBegin(c, a)
  PROVE  Inv'
<1>1. PICK pc : /\ pc \in {"check", "decide"}
                /\ call' = [call EXCEPT ![c].pc = pc, ![c].id = a]
  BY Zenon DEF ApproveBegin, RejectBegin
<1>2. UNCHANGED <<emails, items, nextItem, approvals, written>>
  BY DEF ApproveBegin, RejectBegin, keepRows, keepHistory
<1>3. PICK p : p = call[c]
  OBVIOUS
<1>4. PICK q : q = [p EXCEPT !.pc = pc, !.id = a]
  OBVIOUS
<1>5. IsCall(p) /\ Decision(p) /\ p.pc = "idle"
  BY <1>3 DEF Inv, Shape, ApproveBegin, RejectBegin, Is
<1>6. IsCall(q) /\ q.pc = pc /\ q.id = a /\ q.ok = p.ok
  BY <1>4, <1>5 DEF IsCall
<1>7. Decision(q)
  BY <1>1, <1>5, <1>6 DEF Decision
<1>8. call' = [call EXCEPT ![c] = q]
  BY <1>1, <1>3, <1>4
<1>9. QED
  BY <1>2, <1>6, <1>7, <1>8, DecidesKeeps

LEMMA CheckKeeps ==
  ASSUME Inv, NEW c \in Deciders, ApproveCheck(c)
  PROVE  Inv'
<1>1. UNCHANGED <<emails, items, nextItem, approvals, written>> /\ call[c].pc = "check"
  BY DEF ApproveCheck, keepRows, keepHistory, Is
<1>2. PICK p : p = call[c]
  OBVIOUS
<1>3. IsCall(p) /\ Decision(p) /\ p.pc = "check"
  BY <1>1, <1>2 DEF Inv, Shape
<1>4. CASE \E h : call' = [call EXCEPT ![c].pc = "write", ![c].held = h]
  <2>1. PICK h : call' = [call EXCEPT ![c].pc = "write", ![c].held = h]
    BY <1>4
  <2>2. PICK q : q = [p EXCEPT !.pc = "write", !.held = h]
    OBVIOUS
  <2>3. IsCall(q) /\ q.pc = "write" /\ q.id = p.id /\ q.ok = p.ok
    BY <1>3, <2>2 DEF IsCall
  <2>4. Decision(q)
    BY <1>3, <2>3 DEF Decision
  <2>5. call' = [call EXCEPT ![c] = q]
    BY <1>2, <2>1, <2>2
  <2>6. QED
    BY <1>1, <2>3, <2>4, <2>5, DecidesKeeps
<1>5. CASE Go(c, "decide")
  <2>1. PICK q : q = [p EXCEPT !.pc = "decide"]
    OBVIOUS
  <2>2. IsCall(q) /\ q.pc = "decide" /\ q.id = p.id /\ q.ok = p.ok
    BY <1>3, <2>1 DEF IsCall
  <2>3. Decision(q)
    BY <1>3, <2>2 DEF Decision
  <2>4. call' = [call EXCEPT ![c] = q]
    BY <1>2, <1>5, <2>1 DEF Go
  <2>5. QED
    BY <1>1, <2>2, <2>3, <2>4, DecidesKeeps
<1>6. QED
  BY <1>4, <1>5, Zenon DEF ApproveCheck

LEMMA WriteNoReturn ==
  ASSUME Shape, NEW c, ApproveWrite(c)
  PROVE  NoReturn
<1>1. UNCHANGED nextItem
  BY DEF ApproveWrite
<1>2. DOMAIN items' \subseteq DOMAIN items
  BY DEF ApproveWrite, Rewrite, SetStatus, Without
<1>3. DOMAIN emails' \subseteq DOMAIN emails
  BY DEF ApproveWrite, SetCat, Without
<1>4. QED
  BY <1>1, <1>2, <1>3 DEF NoReturn, Shape

LEMMA WriteKeeps ==
  ASSUME Inv, NEW c \in Deciders, ApproveWrite(c)
  PROVE  Inv'
<1>1. PICK p : p = call[c]
  OBVIOUS
<1>2. PICK a : a = p.id
  OBVIOUS
<1>3. IsCall(p) /\ Decision(p) /\ p.pc = "write"
  BY <1>1 DEF Inv, Shape, ApproveWrite, Is
<1>4. a \in DOMAIN approvals
  BY <1>2, <1>3 DEF Decision
<1>5. UNCHANGED <<nextItem, approvals>> /\ written' = written \cup {a}
  BY <1>1, <1>2 DEF ApproveWrite
<1>6. NoReturn
  BY WriteNoReturn DEF Inv
<1>7. PICK q : q = [p EXCEPT !.pc = "decide", !.held = None, !.ok = TRUE]
  OBVIOUS
<1>8. IsCall(q) /\ q.pc = "decide" /\ q.id = a /\ q.ok
  BY <1>2, <1>3, <1>7 DEF IsCall
<1>9. call' = [call EXCEPT ![c] = q]
  BY <1>1, <1>7 DEF ApproveWrite
<1>10. Shape'
  BY <1>4, <1>5, <1>6, <1>8, <1>9 DEF Inv, Shape, NoReturn
<1>11. Named'
  BY <1>5, <1>6, NamedKept DEF Inv
<1>12. Gone'
  <2>1. ASSUME NEW b \in written, Deletes(b)
        PROVE  ~Exists(approvals[b].tool, approvals[b].id)'
    <3>1. b \in DOMAIN approvals /\ ~Exists(approvals[b].tool, approvals[b].id)
      BY <2>1 DEF Inv, Shape, Gone
    <3>2. QED
      BY <1>5, <1>6, <2>1, <3>1, StaysGone DEF Inv
  <2>2. ASSUME Deletes(a)
        PROVE  ~Exists(approvals[a].tool, approvals[a].id)'
    <3>1. CASE approvals[a].tool = "delete_item"
      <4>1. items' = Without(items, approvals[a].id)
        BY <1>1, <1>2, <3>1 DEF ApproveWrite, Asked
      <4>2. QED
        BY <1>5, <3>1, <4>1 DEF Exists, OnMails, Without
    <3>2. CASE approvals[a].tool = "delete_email"
      <4>1. emails' = Without(emails, approvals[a].id)
        BY <1>1, <1>2, <3>2 DEF ApproveWrite, Asked
      <4>2. QED
        BY <1>5, <3>2, <4>1 DEF Exists, OnMails, Without
    <3>3. QED
      BY <2>2, <3>1, <3>2 DEF Deletes
  <2>3. \A b \in written' : Deletes(b)' => Deletes(b)
    BY <1>5 DEF Deletes
  <2>4. QED
    BY <1>5, <2>1, <2>2, <2>3 DEF Gone
<1>13. ApprovedWritten'
  BY <1>5 DEF Inv, ApprovedWritten
<1>14. ASSUME NEW d \in Deciders PROVE Decision(call[d])'
  <2>1. CASE d = c
    BY <1>4, <1>5, <1>8, <1>9, <2>1 DEF Inv, Shape, Decision
  <2>2. CASE d # c
    BY <1>5, <1>9, <2>2 DEF Inv, Shape, Decision
  <2>3. QED
    BY <2>1, <2>2
<1>15. QED
  BY <1>10, <1>11, <1>12, <1>13, <1>14 DEF Inv

LEMMA EndKeeps ==
  ASSUME Inv, NEW c \in Deciders, ApproveEnd(c)
  PROVE  Inv'
<1>1. PICK a : a = call[c].id
  OBVIOUS
<1>2. PICK v : v = Verdict(c)
  OBVIOUS
<1>3. /\ approvals' = [approvals EXCEPT ![a].status = v]
      /\ UNCHANGED <<emails, items, nextItem, written>>
      /\ call' = [call EXCEPT ![c] = Idle] /\ call[c].pc = "decide"
  BY <1>1, <1>2 DEF ApproveEnd, End, keepRows, keepHistory, Is
<1>4. /\ a \in DOMAIN approvals /\ v \in {"approved", "rejected"}
      /\ v = "approved" => a \in written
  BY <1>1, <1>2, <1>3 DEF Inv, Decision, Verdict
<1>5. PICK p : p = approvals[a]
  OBVIOUS
<1>6. PICK q : q = [p EXCEPT !.status = v]
  OBVIOUS
<1>7. p \in Asking
  BY <1>4, <1>5 DEF Inv, Shape
<1>8. q \in Asking /\ q.tool = p.tool /\ q.id = p.id /\ q.status = v
  BY <1>4, <1>6, <1>7 DEF Asking
<1>9. approvals' = [approvals EXCEPT ![a] = q]
  BY <1>3, <1>5, <1>6
<1>10. /\ approvals' \in Seq(Asking) /\ DOMAIN approvals' = DOMAIN approvals
       /\ approvals'[a] = q /\ \A b \in DOMAIN approvals : b # a => approvals'[b] = approvals[b]
  BY <1>4, <1>8, <1>9 DEF Inv, Shape
<1>11. \A b \in DOMAIN approvals :
         approvals'[b].tool = approvals[b].tool /\ approvals'[b].id = approvals[b].id
  BY <1>5, <1>8, <1>10
<1>12. Shape'
  BY <1>3, <1>10, IdleIsCall DEF Inv, Shape
<1>13. Named'
  BY <1>3, <1>10, <1>11 DEF Inv, Named
<1>14. Gone'
  BY <1>3, <1>10, <1>11 DEF Inv, Shape, Gone, Deletes, Exists
<1>15. ApprovedWritten'
  BY <1>3, <1>4, <1>8, <1>10 DEF Inv, ApprovedWritten
<1>16. \A d \in Deciders : Decision(call[d])'
  BY <1>3, <1>10, IdleIsCall DEF Inv, Shape, Decision
<1>17. QED
  BY <1>12, <1>13, <1>14, <1>15, <1>16 DEF Inv

LEMMA InvStep ==
  ASSUME Inv, [Next]_vars
  PROVE  Inv'
<1>1. ASSUME NEW c \in Deciders, Approve(c) PROVE Inv'
  BY <1>1, BeginKeeps, CheckKeeps, WriteKeeps, EndKeeps DEF Approve
<1>2. ASSUME NEW c \in Filers, Reclassify(c) PROVE Inv'
  BY <1>2, FilerAside, AsideKeeps DEF Inv
<1>3. ASSUME Direct PROVE Inv'
  BY <1>3, DirectAside, AsideKeeps DEF Inv
<1>4. ASSUME Crash PROVE Inv'
  BY <1>4, CrashAside, AsideKeeps DEF Inv
<1>5. CASE UNCHANGED vars
  BY <1>5 DEF vars, Inv, Shape, Named, Gone, ApprovedWritten, Decision, Deletes, Exists
<1>6. QED
  BY <1>1, <1>2, <1>3, <1>4, <1>5, AskKeeps DEF Next

LEMMA InvHolds == Spec => []Inv
<1>1. Inv /\ [Next]_vars => Inv'
  BY InvStep
<1>2. QED
  BY InvInit, <1>1, PTL DEF Spec

\* Whoever decides, edits, files or deletes at the same time with a row read
\* before: what an approved request deleted does not come back
\* (db.rs:672-697: update_item never inserts, and no id is given twice).
THEOREM DeletedStaysDeleted == Spec => []ApprovedDeletionHolds
<1>1. Inv => ApprovedDeletionHolds
  BY DEF Inv, Gone, Deletes, ApprovedWritten, ApprovedDeletionHolds
<1>2. QED
  BY InvHolds, <1>1, PTL

-----------------------------------------------------------------------------
(* One decider *)

\* The request in decision is still pending, and what was written is approved
\* or about to be, while no crash came between.
Alone(d) ==
  /\ call[d].pc # "idle" => approvals[call[d].id].status = "pending"
  /\ crashes \in Nat
  /\ crashes = 0 => \A a \in written :
       approvals[a].status = "approved" \/ (call[d].ok /\ call[d].id = a)

LEMMA AloneInit ==
  ASSUME NEW d, Deciders = {d}, Init
  PROVE  Alone(d)
BY IdleIsCall DEF Init, Alone

\* Steps that leave approvals and decisions alone, a crash included.
LEMMA AsideAlone ==
  ASSUME Inv, NEW d, Deciders = {d}, Alone(d), Aside, crashes' \in Nat,
         call'[d] # call[d] => crashes' > 0, crashes' = crashes \/ crashes' > 0
  PROVE  Alone(d)'
BY IdleIsCall DEF Alone, Aside

LEMMA AskAlone ==
  ASSUME Inv, NEW d, Deciders = {d}, Alone(d), NEW tool, NEW id, NEW arg,
         AgentAsks(tool, id, arg)
  PROVE  Alone(d)' /\ \A a \in DOMAIN approvals : approvals'[a] = approvals[a]
<1>1. \A a \in DOMAIN approvals : approvals'[a] = approvals[a]
  BY DEF AgentAsks, Inv, Shape
<1>2. UNCHANGED <<call, written, crashes>>
  BY DEF AgentAsks, keepHistory, keepBounds
<1>3. Decision(call[d])
  BY DEF Inv
<1>4. QED
  BY <1>1, <1>2, <1>3 DEF Alone, Decision, Inv, Shape

LEMMA ApproveAlone ==
  ASSUME Inv, NEW d, Deciders = {d}, Alone(d), Approve(d)
  PROVE  /\ Alone(d)'
         /\ \A a \in DOMAIN approvals :
              approvals[a].status # "pending" => approvals'[a] = approvals[a]
<1>1. d \in Deciders /\ IsCall(call[d]) /\ Decision(call[d])
  BY DEF Inv, Shape
<1>2. UNCHANGED crashes
  BY DEF Approve, ApproveBegin, RejectBegin, ApproveCheck, ApproveWrite, ApproveEnd, keepBounds
<1>3. PICK p : p = call[d]
  OBVIOUS
<1>4. ASSUME NEW a \in DOMAIN approvals, ApproveBegin(d, a) \/ RejectBegin(d, a)
      PROVE  Alone(d)' /\ UNCHANGED approvals
  <2>1. PICK pc : call' = [call EXCEPT ![d].pc = pc, ![d].id = a]
    BY <1>4, Zenon DEF ApproveBegin, RejectBegin
  <2>2. UNCHANGED <<approvals, written>> /\ approvals[a].status = "pending" /\ p.pc = "idle"
    BY <1>3, <1>4 DEF ApproveBegin, RejectBegin, keepRows, keepHistory, ReadPending, Is
  <2>3. PICK q : q = [p EXCEPT !.pc = pc, !.id = a]
    OBVIOUS
  <2>4. q.id = a
    BY <1>1, <1>3, <2>3 DEF IsCall
  <2>5. call'[d] = q
    BY <1>1, <1>3, <2>1, <2>3 DEF Inv, Shape
  <2>6. ~p.ok
    BY <1>1, <1>3, <2>2 DEF Decision
  <2>7. QED
    BY <1>2, <1>3, <2>2, <2>4, <2>5, <2>6 DEF Alone
<1>5. ASSUME ApproveCheck(d)
      PROVE  Alone(d)' /\ UNCHANGED approvals
  <2>1. UNCHANGED <<approvals, written>> /\ p.pc = "check"
    BY <1>3, <1>5 DEF ApproveCheck, keepRows, keepHistory, Is
  <2>2. ~p.ok
    BY <1>1, <1>3, <2>1 DEF Decision
  <2>3. call'[d].id = p.id
    <3>1. CASE \E h : call' = [call EXCEPT ![d].pc = "write", ![d].held = h]
      <4>1. PICK h : call' = [call EXCEPT ![d].pc = "write", ![d].held = h]
        BY <3>1
      <4>2. PICK q : q = [p EXCEPT !.pc = "write", !.held = h]
        OBVIOUS
      <4>3. q.id = p.id
        BY <1>1, <1>3, <4>2 DEF IsCall
      <4>4. call'[d] = q
        BY <1>1, <1>3, <4>1, <4>2 DEF Inv, Shape
      <4>5. QED
        BY <4>3, <4>4
    <3>2. CASE Go(d, "decide")
      <4>1. PICK q : q = [p EXCEPT !.pc = "decide"]
        OBVIOUS
      <4>2. q.id = p.id
        BY <1>1, <1>3, <4>1 DEF IsCall
      <4>3. call'[d] = q
        BY <1>1, <1>3, <3>2, <4>1 DEF Go, Inv, Shape
      <4>4. QED
        BY <4>2, <4>3
    <3>3. QED
      BY <1>5, <3>1, <3>2, Zenon DEF ApproveCheck
  <2>4. QED
    BY <1>2, <1>3, <2>1, <2>2, <2>3 DEF Alone
<1>6. ASSUME ApproveWrite(d)
      PROVE  Alone(d)' /\ UNCHANGED approvals
  <2>1. UNCHANGED approvals /\ written' = written \cup {p.id} /\ p.pc = "write"
    BY <1>3, <1>6 DEF ApproveWrite, Is
  <2>2. PICK q : q = [p EXCEPT !.pc = "decide", !.held = None, !.ok = TRUE]
    OBVIOUS
  <2>3. q.id = p.id /\ q.ok
    BY <1>1, <1>3, <2>2 DEF IsCall
  <2>4. call'[d] = q
    BY <1>1, <1>3, <1>6, <2>2 DEF ApproveWrite, Inv, Shape
  <2>5. ~p.ok
    BY <1>1, <1>3, <2>1 DEF Decision
  <2>6. QED
    BY <1>2, <1>3, <2>1, <2>3, <2>4, <2>5 DEF Alone
<1>7. ASSUME ApproveEnd(d)
      PROVE  /\ Alone(d)'
             /\ \A a \in DOMAIN approvals :
                  approvals[a].status # "pending" => approvals'[a] = approvals[a]
  <2>1. PICK a : a = p.id
    OBVIOUS
  <2>2. PICK v : v = Verdict(d)
    OBVIOUS
  <2>3. /\ approvals' = [approvals EXCEPT ![a].status = v]
        /\ UNCHANGED written /\ call' = [call EXCEPT ![d] = Idle] /\ p.pc = "decide"
    BY <1>3, <1>7, <2>1, <2>2 DEF ApproveEnd, End, keepHistory, Is
  <2>4. a \in DOMAIN approvals /\ approvals[a].status = "pending" /\ call'[d] = Idle
    BY <1>1, <1>3, <2>1, <2>3 DEF Decision, Alone, Inv, Shape
  <2>5. \A b \in DOMAIN approvals : b # a => approvals'[b] = approvals[b]
    BY <2>3
  <2>6. crashes = 0 /\ a \in written => p.ok
    BY <1>3, <2>1, <2>4 DEF Alone
  <2>7. p.ok => approvals'[a].status = "approved"
    <3>1. PICK r : r = approvals[a]
      OBVIOUS
    <3>2. r \in Asking
      BY <2>4, <3>1 DEF Inv, Shape
    <3>3. PICK s : s = [r EXCEPT !.status = v]
      OBVIOUS
    <3>4. s.status = v
      BY <3>2, <3>3 DEF Asking
    <3>5. approvals'[a] = s
      BY <2>3, <2>4, <3>1, <3>3
    <3>6. p.ok => v = "approved"
      BY <1>3, <2>2 DEF Verdict
    <3>7. QED
      BY <3>4, <3>5, <3>6
  <2>8. \A b \in written : b \in DOMAIN approvals
    BY DEF Inv, Shape
  <2>9. crashes = 0 => \A b \in written : approvals'[b].status = "approved"
    BY <1>3, <2>1, <2>5, <2>6, <2>7, <2>8 DEF Alone
  <2>10. Alone(d)'
    BY <1>2, <2>3, <2>4, <2>9, IdleIsCall DEF Alone
  <2>11. QED
    BY <2>4, <2>5, <2>10
<1>8. QED
  BY <1>4, <1>5, <1>6, <1>7 DEF Approve

LEMMA AloneStep ==
  ASSUME Inv, NEW d, Deciders = {d}, Alone(d), [Next]_vars
  PROVE  /\ Alone(d)'
         /\ \A a \in DOMAIN approvals :
              approvals[a].status # "pending" => approvals'[a] = approvals[a]
<1>1. crashes \in Nat
  BY DEF Alone
<1>2. CASE Approve(d)
  BY <1>2, ApproveAlone
<1>3. CASE \E tool, id, arg : AgentAsks(tool, id, arg)
  BY <1>3, AskAlone
<1>4. ASSUME Aside, UNCHANGED crashes, call'[d] = call[d]
      PROVE  Alone(d)' /\ UNCHANGED approvals
  BY <1>1, <1>4, AsideAlone DEF Aside
<1>5. ASSUME NEW c \in Filers, Reclassify(c) PROVE Alone(d)' /\ UNCHANGED approvals
  <2>1. Aside
    BY <1>5, FilerAside DEF Inv
  <2>2. UNCHANGED crashes
    BY <1>5 DEF Reclassify, FileBegin, FileWrite, FileUndo, FileUnlink, FileExtract, FileUpdate,
                FileInsert, FileLink, FileEnd, keepBounds
  <2>3. call'[d] = call[d]
    <3>1. \E q : Filed(c, q)
      BY <1>5, FilerFiled DEF Inv
    <3>2. QED
      BY <1>5, <3>1, RequestsAssumption DEF Filed, Inv, Shape
  <2>4. QED
    BY <1>4, <2>1, <2>2, <2>3
<1>6. ASSUME Direct PROVE Alone(d)' /\ UNCHANGED approvals
  <2>1. Aside
    BY <1>6, DirectAside DEF Inv
  <2>2. UNCHANGED <<crashes, call>>
    BY <1>6 DEF Direct, CreateItem, ChangeStatuses, DeleteItems, CategorizeEmails, DeleteEmails,
                Operation
  <2>3. QED
    BY <1>4, <2>1, <2>2
<1>7. ASSUME Crash PROVE Alone(d)' /\ UNCHANGED approvals
  <2>1. Aside
    BY <1>7, CrashAside DEF Inv
  <2>2. crashes' = crashes + 1
    BY <1>7 DEF Crash
  <2>3. QED
    BY <1>1, <2>1, <2>2, AsideAlone DEF Aside
<1>8. CASE UNCHANGED vars
  BY <1>8 DEF vars, Alone
<1>9. QED
  BY <1>2, <1>3, <1>5, <1>6, <1>7, <1>8 DEF Next

\* When one person decides at a time, a decision is final
\* (api.rs:1289, 1335).
THEOREM DecidedOnce == Spec => DecisionsAreFinal
<1>1. CASE Cardinality(Deciders) = 1 /\ IsFiniteSet(Deciders)
  <2>1. PICK d : Deciders = {d}
    BY <1>1, FS_Singleton
  <2>2. Init => Alone(d)
    BY <2>1, AloneInit
  <2>3. Inv /\ Alone(d) /\ [Next]_vars => Alone(d)'
    BY <2>1, AloneStep
  <2>4. Inv /\ Alone(d) /\ [Next]_vars =>
          [Cardinality(Deciders) = 1 =>
             \A a \in DOMAIN approvals :
               approvals[a].status # "pending" => approvals'[a] = approvals[a]]_vars
    BY <2>1, AloneStep
  <2>5. QED
    BY <2>2, <2>3, <2>4, InvHolds, PTL DEF Spec, DecisionsAreFinal
<1>2. CASE Cardinality(Deciders) # 1
  <2>1. [Next]_vars =>
          [Cardinality(Deciders) = 1 =>
             \A a \in DOMAIN approvals :
               approvals[a].status # "pending" => approvals'[a] = approvals[a]]_vars
    BY <1>2
  <2>2. QED
    BY <2>1, PTL DEF Spec, DecisionsAreFinal
<1>3. QED
  BY <1>1, <1>2, RequestsAssumption

\* When one person decides at a time and no crash comes between, a rejected
\* request has changed nothing (docs/toolcall-skill.md:82).
THEOREM RejectedChangedNothing == Spec => []RejectedUntouched
<1>1. CASE Cardinality(Deciders) = 1 /\ IsFiniteSet(Deciders)
  <2>1. PICK d : Deciders = {d}
    BY <1>1, FS_Singleton
  <2>2. Init => Alone(d)
    BY <2>1, AloneInit
  <2>3. Inv /\ Alone(d) /\ [Next]_vars => Alone(d)'
    BY <2>1, AloneStep
  <2>4. Inv /\ Alone(d) => RejectedUntouched
    <3>1. SUFFICES ASSUME Inv, Alone(d), crashes = 0, NEW a \in DOMAIN approvals,
                          approvals[a].status = "rejected", a \in written
                   PROVE  FALSE
      BY DEF RejectedUntouched
    <3>2. call[d].ok /\ call[d].id = a
      BY <3>1 DEF Alone
    <3>3. Decision(call[d])
      BY <2>1, <3>1 DEF Inv
    <3>4. QED
      BY <3>1, <3>2, <3>3 DEF Alone, Decision
  <2>5. QED
    BY <2>2, <2>3, <2>4, InvHolds, PTL DEF Spec
<1>2. CASE Cardinality(Deciders) # 1
  <2>1. RejectedUntouched
    BY <1>2 DEF RejectedUntouched
  <2>2. QED
    BY <2>1, PTL
<1>3. QED
  BY <1>1, <1>2, RequestsAssumption

-----------------------------------------------------------------------------
(* Types *)

Link == {None} \cup 1 .. nextItem - 1

DeciderTyped(q) ==
  q.pc = "write" /\ approvals[q.id].tool = "update_item" => q.held \in Row

FilerTyped(q) ==
  /\ q.pc # "idle" => q.id \in Mails /\ q.cat \in Categories /\ q.link \in Link
  /\ q.pc \in {"update", "insert"} => q.held \in Row

EmailsTyped == \A m \in DOMAIN emails : emails[m] \in [cat : Categories, item : Link]
ItemsTyped  == \A i \in DOMAIN items : items[i] \in Row
ArgsTyped   == \A a \in DOMAIN approvals : approvals[a].arg \in Args(approvals[a].tool)

Types ==
  /\ EmailsTyped /\ ItemsTyped /\ ArgsTyped
  /\ \A d \in Deciders : DeciderTyped(call[d])
  /\ \A f \in Filers : FilerTyped(call[f])

\* What a patch makes of a row is a row of the same kind.
LEMMA PatchedRow ==
  ASSUME NEW row \in Row, NEW patch \in Patches
  PROVE  Patched(row, patch) \in Row /\ Patched(row, patch).kind = row.kind
<1>1. PICK new : new = [x \in DOMAIN row |-> IF x \in DOMAIN patch THEN patch[x] ELSE row[x]]
  OBVIOUS
<1>2. PICK review \in BOOLEAN : review = (row.kind = "todo" /\ new.deadline = None /\ row.review)
  OBVIOUS
<1>3. Patched(row, patch) = [new EXCEPT !.review = review]
  BY <1>1, <1>2 DEF Patched
<1>4. \E deadline \in Deadlines \cup {None}, status \in Statuses :
        new = [row EXCEPT !.deadline = deadline, !.status = status]
  <2>1. CASE patch \in [deadline : Deadlines \cup {None}]
    <3>1. new = [row EXCEPT !.deadline = patch.deadline, !.status = row.status]
      BY <1>1, <2>1 DEF Row
    <3>2. patch.deadline \in Deadlines \cup {None} /\ row.status \in Statuses
      BY <2>1 DEF Row
    <3>3. QED
      BY <3>1, <3>2
  <2>2. CASE patch \in [status : Chosen \cap Statuses]
    <3>1. new = [row EXCEPT !.deadline = row.deadline, !.status = patch.status]
      BY <1>1, <2>2 DEF Row
    <3>2. row.deadline \in Deadlines \cup {None} /\ patch.status \in Statuses
      BY <2>2 DEF Row
    <3>3. QED
      BY <3>1, <3>2
  <2>3. CASE patch \in [deadline : Deadlines \cup {None}, status : Chosen \cap Statuses]
    <3>1. new = [row EXCEPT !.deadline = patch.deadline, !.status = patch.status]
      BY <1>1, <2>3 DEF Row
    <3>2. patch.deadline \in Deadlines \cup {None} /\ patch.status \in Statuses
      BY <2>3
    <3>3. QED
      BY <3>1, <3>2
  <2>4. QED
    BY <2>1, <2>2, <2>3 DEF Patches
<1>5. PICK deadline \in Deadlines \cup {None}, status \in Statuses :
        new = [row EXCEPT !.deadline = deadline, !.status = status]
  BY <1>4
<1>6. QED
  BY <1>2, <1>3, <1>5 DEF Row

LEMMA NewTodoRow ==
  ASSUME NEW src \in Mails \cup {None}, NEW deadline \in Deadlines \cup {None}
  PROVE  /\ NewTodo(src, deadline) \in Row /\ NewTodo(src, deadline).src = src
         /\ NewTodo(src, deadline).kind = "todo"
<1>1. PICK review \in BOOLEAN : review = (deadline = None)
  OBVIOUS
<1>2. NewTodo(src, deadline) =
        [kind |-> "todo", status |-> "active", deadline |-> deadline, src |-> src, review |-> review]
  BY <1>1 DEF NewTodo
<1>3. QED
  BY <1>1, <1>2 DEF Row, Statuses

-----------------------------------------------------------------------------
(* What a step does to the rows *)

SameItems == UNCHANGED <<items, nextItem>>
Relinks(m, i) ==
  /\ DOMAIN emails' = DOMAIN emails
  /\ \A n \in DOMAIN emails : emails'[n].item = IF n = m THEN i ELSE emails[n].item
SameLinks ==
  /\ DOMAIN emails' = DOMAIN emails
  /\ \A n \in DOMAIN emails : emails'[n].item = emails[n].item

\* The rows of items are rewritten, each with its source.
Rewrites(S) ==
  /\ DOMAIN items' = DOMAIN items /\ UNCHANGED nextItem
  /\ \A i \in DOMAIN items :
       /\ items'[i] \in Row /\ items'[i].src = items[i].src
       /\ i \notin S => items'[i].kind = items[i].kind
Drops ==
  /\ DOMAIN items' \subseteq DOMAIN items /\ UNCHANGED nextItem
  /\ \A i \in DOMAIN items' : items'[i] = items[i]
Adds(row) ==
  /\ nextItem' = nextItem + 1 /\ DOMAIN items' = DOMAIN items \cup {nextItem}
  /\ \A i \in DOMAIN items : items'[i] = items[i]
  /\ items'[nextItem] = row

LEMMA WithAdds ==
  ASSUME Shape, NEW row, items' = With(items, nextItem, row), nextItem' = nextItem + 1
  PROVE  Adds(row)
BY DEF Shape, With, Adds

LEMMA RewriteRewrites ==
  ASSUME ItemsTyped, NEW i, NEW row \in Row, items' = Rewrite(i, row), UNCHANGED nextItem
  PROVE  Rewrites({i}) /\ (i \in DOMAIN items => items'[i].kind = row.kind)
<1>1. CASE i \notin DOMAIN items
  BY <1>1 DEF Rewrite, Rewrites, ItemsTyped
<1>2. CASE i \in DOMAIN items
  <2>1. PICK old \in Row : old = items[i]
    BY <1>2 DEF ItemsTyped
  <2>2. PICK new : new = [row EXCEPT !.src = old.src]
    OBVIOUS
  <2>3. new \in Row /\ new.src = old.src /\ new.kind = row.kind
    BY <2>1, <2>2 DEF Row
  <2>4. items' = [items EXCEPT ![i] = new]
    BY <1>2, <2>1, <2>2 DEF Rewrite
  <2>5. QED
    BY <1>2, <2>1, <2>3, <2>4 DEF Rewrites, ItemsTyped
<1>3. QED
  BY <1>1, <1>2

\* The status of some items is set.
LEMMA StatusRewrites ==
  ASSUME ItemsTyped, NEW S, NEW s \in Statuses, UNCHANGED nextItem,
         items' = [i \in DOMAIN items |-> IF i \in S THEN [items[i] EXCEPT !.status = s] ELSE items[i]]
  PROVE  Rewrites({})
<1>1. ASSUME NEW i \in DOMAIN items
      PROVE  items'[i] \in Row /\ items'[i].src = items[i].src /\ items'[i].kind = items[i].kind
  <2>1. PICK old \in Row : old = items[i]
    BY DEF ItemsTyped
  <2>2. PICK new : new = [old EXCEPT !.status = s]
    OBVIOUS
  <2>3. new \in Row /\ new.src = old.src /\ new.kind = old.kind
    BY <2>2 DEF Row
  <2>4. items'[i] \in {old, new}
    BY <2>1, <2>2
  <2>5. QED
    BY <2>1, <2>3, <2>4
<1>2. QED
  BY <1>1 DEF Rewrites

LEMMA SetStatusRewrites ==
  ASSUME ItemsTyped, NEW i, NEW s \in Statuses, UNCHANGED nextItem, items' = SetStatus(i, s)
  PROVE  Rewrites({})
<1>1. ASSUME NEW j \in DOMAIN items
      PROVE  items'[j] \in Row /\ items'[j].src = items[j].src /\ items'[j].kind = items[j].kind
  <2>1. PICK old \in Row : old = items[j]
    BY DEF ItemsTyped
  <2>2. PICK new : new = [old EXCEPT !.status = s]
    OBVIOUS
  <2>3. new \in Row /\ new.src = old.src /\ new.kind = old.kind
    BY <2>2 DEF Row
  <2>4. items'[j] \in {old, new}
    BY <2>1, <2>2 DEF SetStatus
  <2>5. QED
    BY <2>1, <2>3, <2>4
<1>2. DOMAIN items' = DOMAIN items
  BY DEF SetStatus
<1>3. QED
  BY <1>1, <1>2 DEF Rewrites

LEMMA WithoutDrops ==
  ASSUME NEW i, items' = Without(items, i), UNCHANGED nextItem
  PROVE  Drops /\ i \notin DOMAIN items'
BY DEF Without, Drops

\* Some mails get a category.
LEMMA CatsSet ==
  ASSUME EmailsTyped, NEW S, NEW c \in Categories, UNCHANGED nextItem,
         emails' = [m \in DOMAIN emails |-> IF m \in S THEN [emails[m] EXCEPT !.cat = c] ELSE emails[m]]
  PROVE  SameLinks /\ EmailsTyped'
<1>1. ASSUME NEW m \in DOMAIN emails
      PROVE  emails'[m] \in [cat : Categories, item : Link] /\ emails'[m].item = emails[m].item
  <2>1. PICK e \in [cat : Categories, item : Link] : e = emails[m]
    BY DEF EmailsTyped
  <2>2. PICK d : d = [e EXCEPT !.cat = c]
    OBVIOUS
  <2>3. d \in [cat : Categories, item : Link] /\ d.item = e.item
    BY <2>2
  <2>4. emails'[m] \in {e, d}
    BY <2>1, <2>2
  <2>5. QED
    BY <2>1, <2>3, <2>4
<1>2. QED
  BY <1>1 DEF SameLinks, EmailsTyped, Link

LEMMA SetCatSets ==
  ASSUME EmailsTyped, NEW m, NEW c \in Categories, UNCHANGED nextItem, emails' = SetCat(m, c)
  PROVE  SameLinks /\ EmailsTyped'
<1>1. ASSUME NEW n \in DOMAIN emails
      PROVE  emails'[n] \in [cat : Categories, item : Link] /\ emails'[n].item = emails[n].item
  <2>1. PICK e \in [cat : Categories, item : Link] : e = emails[n]
    BY DEF EmailsTyped
  <2>2. PICK d : d = [e EXCEPT !.cat = c]
    OBVIOUS
  <2>3. d \in [cat : Categories, item : Link] /\ d.item = e.item
    BY <2>2
  <2>4. emails'[n] \in {e, d}
    BY <2>1, <2>2 DEF SetCat
  <2>5. QED
    BY <2>1, <2>3, <2>4
<1>2. DOMAIN emails' = DOMAIN emails
  BY DEF SetCat
<1>3. QED
  BY <1>1, <1>2 DEF SameLinks, EmailsTyped, Link

LEMMA LinkSet ==
  ASSUME EmailsTyped, NEW m, NEW i \in Link, UNCHANGED nextItem, emails' = SetLink(m, i)
  PROVE  Relinks(m, i) /\ EmailsTyped'
<1>1. ASSUME NEW n \in DOMAIN emails
      PROVE  /\ emails'[n] \in [cat : Categories, item : Link]
             /\ emails'[n].item = IF n = m THEN i ELSE emails[n].item
  <2>1. PICK e \in [cat : Categories, item : Link] : e = emails[n]
    BY DEF EmailsTyped
  <2>2. PICK d : d = [e EXCEPT !.item = i]
    OBVIOUS
  <2>3. d \in [cat : Categories, item : Link] /\ d.item = i
    BY <2>2
  <2>4. emails'[n] = IF n = m THEN d ELSE e
    BY <2>1, <2>2 DEF SetLink
  <2>5. QED
    BY <2>1, <2>3, <2>4
<1>2. DOMAIN emails' = DOMAIN emails
  BY DEF SetLink
<1>3. QED
  BY <1>1, <1>2 DEF Relinks, EmailsTyped, Link

-----------------------------------------------------------------------------
(* What a filer's step does, with its call q after it *)

SameRows == UNCHANGED emails /\ SameItems

\* The mail and the category of a request are never changed on its way.
Goes(f, q, from, to) ==
  /\ call[f].pc = from /\ q.pc = to /\ q.id = call[f].id /\ q.cat = call[f].cat

BeginStep(f, q) ==
  /\ call[f].pc = "idle" /\ q.pc = "file" /\ q.id \in DOMAIN emails /\ q.cat \in Categories
  /\ q.link = emails[q.id].item
  /\ filed' = [filed EXCEPT ![q.id] = None] /\ SameRows

WriteStep(f, q) ==
  /\ \/ Goes(f, q, "file", "extract") /\ MakesTodo(q.cat)
     \/ Goes(f, q, "file", "undo") /\ ~MakesTodo(q.cat)
     \/ /\ Goes(f, q, "file", "filed") /\ ~MakesTodo(q.cat)
        /\ ~(q.link \in DOMAIN items /\ items[q.link].kind = "todo")
  /\ q.link = call[f].link
  /\ SameLinks /\ EmailsTyped' /\ SameItems /\ UNCHANGED filed

UndoStep(f, q) ==
  /\ Goes(f, q, "undo", "unlink") /\ q.link = call[f].link
  /\ Drops /\ q.link \notin DOMAIN items' /\ UNCHANGED <<emails, filed>>

UnlinkStep(f, q) ==
  /\ Goes(f, q, "unlink", "filed") /\ q.link = call[f].link
  /\ Relinks(q.id, None) /\ EmailsTyped' /\ SameItems /\ UNCHANGED filed

ExtractStep(f, q) ==
  /\ call[f].pc = "extract"
  /\ \/ q = Idle
     \/ /\ \/ Goes(f, q, "extract", "insert") /\ q.link = None
           \/ Goes(f, q, "extract", "update") /\ q.link # None
        /\ q.link = call[f].link
        /\ q.held \in Row /\ q.held.src = q.id /\ q.held.kind = "todo"
  /\ SameRows /\ UNCHANGED filed

UpdateStep(f, q) ==
  /\ Goes(f, q, "update", "filed") /\ q.link = call[f].link
  /\ Rewrites({q.link}) /\ UNCHANGED <<emails, filed>>
  /\ \A i \in DOMAIN items : i = q.link => items'[i].kind = call[f].held.kind

InsertStep(f, q) ==
  /\ Goes(f, q, "insert", "link") /\ q.link = nextItem
  /\ Adds(call[f].held) /\ UNCHANGED <<emails, filed>>

LinkStep(f, q) ==
  /\ Goes(f, q, "link", "filed") /\ q.link = call[f].link
  /\ Relinks(q.id, q.link) /\ EmailsTyped' /\ SameItems /\ UNCHANGED filed

EndStep(f, q) ==
  /\ call[f].pc = "filed" /\ q = Idle
  /\ filed' = [filed EXCEPT ![call[f].id] = call[f].cat] /\ SameRows

FilerStep(f, q) ==
  \/ BeginStep(f, q) \/ WriteStep(f, q) \/ UndoStep(f, q) \/ UnlinkStep(f, q) \/ ExtractStep(f, q)
  \/ UpdateStep(f, q) \/ InsertStep(f, q) \/ LinkStep(f, q) \/ EndStep(f, q)

LEMMA GoGoes ==
  ASSUME Shape, NEW f \in Filers, NEW from, NEW pc, Is(f, from), Go(f, pc)
  PROVE  \E q : Filed(f, q) /\ Goes(f, q, from, pc) /\ q.link = call[f].link
<1>1. PICK p : p = call[f]
  OBVIOUS
<1>2. PICK q : q = [p EXCEPT !.pc = pc]
  OBVIOUS
<1>3. IsCall(p)
  BY <1>1 DEF Shape
<1>4. IsCall(q) /\ q.pc = pc /\ q.id = p.id /\ q.cat = p.cat /\ q.link = p.link
  BY <1>2, <1>3 DEF IsCall
<1>5. call' = [call EXCEPT ![f] = q]
  BY <1>1, <1>2 DEF Go
<1>6. QED
  BY <1>1, <1>4, <1>5 DEF Filed, Goes, Is

LEMMA BeginSteps ==
  ASSUME Shape, NEW f \in Filers, NEW m \in DOMAIN emails, NEW cat \in Categories,
         FileBegin(f, m, cat)
  PROVE  \E q : Filed(f, q) /\ BeginStep(f, q)
<1>1. PICK link : link = emails[m].item
  OBVIOUS
<1>2. PICK q : q = [Idle EXCEPT !.pc = "file", !.id = m, !.cat = cat, !.link = link]
  OBVIOUS
<1>3. IsCall(q) /\ q.pc = "file" /\ q.id = m /\ q.cat = cat /\ q.link = link
  BY <1>2 DEF IsCall, Idle
<1>4. call' = [call EXCEPT ![f] = q]
  BY <1>1, <1>2 DEF FileBegin
<1>5. /\ filed' = [filed EXCEPT ![m] = None] /\ UNCHANGED <<emails, items, nextItem>>
      /\ call[f].pc = "idle"
  BY DEF FileBegin, keepRows, Is
<1>6. QED
  BY <1>1, <1>3, <1>4, <1>5 DEF Filed, BeginStep, SameRows, SameItems

LEMMA WriteSteps ==
  ASSUME Shape, Types, NEW f \in Filers, FileWrite(f)
  PROVE  \E q : Filed(f, q) /\ WriteStep(f, q)
<1>1. PICK p : p = call[f]
  OBVIOUS
<1>2. PICK pc : /\ Go(f, pc)
                /\ pc = IF MakesTodo(p.cat) THEN "extract"
                        ELSE IF p.link \in DOMAIN items /\ items[p.link].kind = "todo"
                        THEN "undo" ELSE "filed"
  BY <1>1 DEF FileWrite
<1>3. Is(f, "file") /\ UNCHANGED <<items, nextItem, filed>> /\ emails' = SetCat(p.id, p.cat)
  BY <1>1 DEF FileWrite, keepHistory
<1>4. PICK q : Filed(f, q) /\ Goes(f, q, "file", pc) /\ q.link = p.link
  BY <1>1, <1>2, <1>3, GoGoes
<1>5. q.cat = p.cat /\ p.pc = "file"
  BY <1>1, <1>4 DEF Goes
<1>6. p.cat \in Categories
  BY <1>1, <1>5 DEF Types, FilerTyped
<1>7. SameLinks /\ EmailsTyped'
  BY <1>3, <1>6, SetCatSets DEF Types
<1>8. \/ pc = "extract" /\ MakesTodo(q.cat)
      \/ pc = "undo" /\ ~MakesTodo(q.cat)
      \/ /\ pc = "filed" /\ ~MakesTodo(q.cat)
         /\ ~(q.link \in DOMAIN items /\ items[q.link].kind = "todo")
  BY <1>2, <1>4, <1>5
<1>9. QED
  BY <1>1, <1>3, <1>4, <1>7, <1>8 DEF WriteStep, SameItems

LEMMA UndoSteps ==
  ASSUME Shape, Types, NEW f \in Filers,
         FileUndo(f) \/ FileUnlink(f) \/ FileUpdate(f) \/ FileLink(f)
  PROVE  \E q : Filed(f, q) /\ FilerStep(f, q)
<1>1. PICK p : p = call[f]
  OBVIOUS
<1>2. CASE FileUndo(f)
  <2>1. /\ Is(f, "undo") /\ Go(f, "unlink") /\ items' = Without(items, p.link)
        /\ UNCHANGED <<emails, nextItem, filed>>
    BY <1>1, <1>2 DEF FileUndo, keepHistory
  <2>2. PICK q : Filed(f, q) /\ Goes(f, q, "undo", "unlink") /\ q.link = p.link
    BY <1>1, <2>1, GoGoes
  <2>3. Drops /\ p.link \notin DOMAIN items'
    BY <2>1, WithoutDrops
  <2>4. QED
    BY <1>1, <2>1, <2>2, <2>3 DEF FilerStep, UndoStep
<1>3. CASE FileUnlink(f)
  <2>1. /\ Is(f, "unlink") /\ Go(f, "filed") /\ emails' = SetLink(p.id, None)
        /\ UNCHANGED <<items, nextItem, filed>>
    BY <1>1, <1>3 DEF FileUnlink, keepHistory
  <2>2. PICK q : Filed(f, q) /\ Goes(f, q, "unlink", "filed") /\ q.link = p.link
    BY <1>1, <2>1, GoGoes
  <2>3. None \in Link
    BY DEF Link
  <2>4. Relinks(p.id, None) /\ EmailsTyped'
    BY <2>1, <2>3, LinkSet DEF Types
  <2>5. q.id = p.id
    BY <1>1, <2>2 DEF Goes
  <2>6. QED
    BY <1>1, <2>1, <2>2, <2>4, <2>5 DEF FilerStep, UnlinkStep, SameItems
<1>4. CASE FileUpdate(f)
  <2>1. /\ Is(f, "update") /\ Go(f, "filed") /\ items' = Rewrite(p.link, p.held)
        /\ UNCHANGED <<emails, nextItem, filed>>
    BY <1>1, <1>4 DEF FileUpdate
  <2>2. PICK q : Filed(f, q) /\ Goes(f, q, "update", "filed") /\ q.link = p.link
    BY <1>1, <2>1, GoGoes
  <2>3. p.held \in Row
    BY <1>1, <2>2 DEF Types, FilerTyped, Goes
  <2>4. Rewrites({p.link}) /\ (p.link \in DOMAIN items => items'[p.link].kind = p.held.kind)
    BY <2>1, <2>3, RewriteRewrites DEF Types
  <2>5. QED
    BY <1>1, <2>1, <2>2, <2>4 DEF FilerStep, UpdateStep
<1>5. CASE FileLink(f)
  <2>1. /\ Is(f, "link") /\ Go(f, "filed") /\ emails' = SetLink(p.id, p.link)
        /\ UNCHANGED <<items, nextItem, filed>>
    BY <1>1, <1>5 DEF FileLink
  <2>2. PICK q : Filed(f, q) /\ Goes(f, q, "link", "filed") /\ q.link = p.link
    BY <1>1, <2>1, GoGoes
  <2>3. p.link \in Link
    BY <1>1, <2>2 DEF Types, FilerTyped, Goes
  <2>4. Relinks(p.id, p.link) /\ EmailsTyped'
    BY <2>1, <2>3, LinkSet DEF Types
  <2>5. q.id = p.id
    BY <1>1, <2>2 DEF Goes
  <2>6. QED
    BY <1>1, <2>1, <2>2, <2>4, <2>5 DEF FilerStep, LinkStep, SameItems
<1>6. QED
  BY <1>2, <1>3, <1>4, <1>5

LEMMA ExtractSteps ==
  ASSUME Shape, Types, NEW f \in Filers, FileExtract(f)
  PROVE  \E q : Filed(f, q) /\ ExtractStep(f, q)
<1>1. PICK p : p = call[f]
  OBVIOUS
<1>2. p.pc = "extract" /\ UNCHANGED <<emails, items, nextItem, filed>> /\ IsCall(p)
  BY <1>1 DEF FileExtract, keepRows, keepHistory, Is, Shape
<1>3. CASE End(f)
  <2>1. call' = [call EXCEPT ![f] = Idle]
    BY <1>3 DEF End
  <2>2. QED
    BY <1>1, <1>2, <2>1, IdleIsCall DEF Filed, ExtractStep, SameRows, SameItems
<1>4. ASSUME NEW t \in Deadlines \cup {None},
             call' = [call EXCEPT ![f].pc = IF call[f].link = None THEN "insert" ELSE "update",
                                  ![f].held = NewTodo(call[f].id, t)]
      PROVE  \E q : Filed(f, q) /\ ExtractStep(f, q)
  <2>1. PICK h : h = NewTodo(p.id, t)
    OBVIOUS
  <2>2. p.id \in Mails
    BY <1>1, <1>2 DEF Types, FilerTyped
  <2>3. h \in Row /\ h.src = p.id /\ h.kind = "todo"
    BY <2>1, <2>2, NewTodoRow
  <2>4. PICK pc : pc = IF p.link = None THEN "insert" ELSE "update"
    OBVIOUS
  <2>5. PICK q : q = [p EXCEPT !.pc = pc, !.held = h]
    OBVIOUS
  <2>6. /\ IsCall(q) /\ q.pc = pc /\ q.id = p.id /\ q.cat = p.cat /\ q.link = p.link
        /\ q.held = h
    BY <1>2, <2>5 DEF IsCall
  <2>7. call' = [call EXCEPT ![f] = q]
    BY <1>1, <1>4, <2>1, <2>4, <2>5
  <2>8. QED
    BY <1>1, <1>2, <2>3, <2>4, <2>6, <2>7 DEF Filed, ExtractStep, Goes, SameRows, SameItems
<1>5. QED
  BY <1>3, <1>4, Zenon DEF FileExtract

LEMMA InsertSteps ==
  ASSUME Shape, NEW f \in Filers, FileInsert(f)
  PROVE  \E q : Filed(f, q) /\ InsertStep(f, q)
<1>1. PICK p : p = call[f]
  OBVIOUS
<1>2. PICK q : q = [p EXCEPT !.pc = "link", !.link = nextItem]
  OBVIOUS
<1>3. IsCall(p) /\ p.pc = "insert"
  BY <1>1 DEF FileInsert, Is, Shape
<1>4. IsCall(q) /\ q.pc = "link" /\ q.id = p.id /\ q.cat = p.cat /\ q.link = nextItem
  BY <1>2, <1>3 DEF IsCall
<1>5. call' = [call EXCEPT ![f] = q]
  BY <1>1, <1>2 DEF FileInsert
<1>6. Adds(p.held)
  BY <1>1, WithAdds DEF FileInsert
<1>7. UNCHANGED <<emails, filed>>
  BY DEF FileInsert, keepHistory
<1>8. QED
  BY <1>1, <1>3, <1>4, <1>5, <1>6, <1>7 DEF Filed, InsertStep, Goes

LEMMA FilerSteps ==
  ASSUME Shape, Types, NEW f \in Filers, Reclassify(f)
  PROVE  \E q : Filed(f, q) /\ FilerStep(f, q)
<1>1. CASE FileEnd(f)
  <2>1. /\ call[f].pc = "filed" /\ call' = [call EXCEPT ![f] = Idle]
        /\ filed' = [filed EXCEPT ![call[f].id] = call[f].cat]
        /\ UNCHANGED <<emails, items, nextItem>>
    BY <1>1 DEF FileEnd, End, Is, keepRows
  <2>2. QED
    BY <2>1, IdleIsCall DEF Filed, FilerStep, EndStep, SameRows, SameItems
<1>2. ASSUME NEW m \in DOMAIN emails, NEW cat \in Chosen \cap Categories, FileBegin(f, m, cat)
      PROVE  \E q : Filed(f, q) /\ FilerStep(f, q)
  BY <1>2, BeginSteps DEF FilerStep
<1>3. CASE FileWrite(f)
  BY <1>3, WriteSteps DEF FilerStep
<1>4. CASE FileUndo(f) \/ FileUnlink(f) \/ FileUpdate(f) \/ FileLink(f)
  BY <1>4, UndoSteps
<1>5. CASE FileExtract(f)
  BY <1>5, ExtractSteps DEF FilerStep
<1>6. CASE FileInsert(f)
  BY <1>6, InsertSteps DEF FilerStep
<1>7. QED
  BY <1>1, <1>2, <1>3, <1>4, <1>5, <1>6 DEF Reclassify

-----------------------------------------------------------------------------
(* What the other steps do to the rows *)

\* Mails only go, links and sources stay, a new item has no source, and only
\* the items of S may change their kind.
Elsewhere(S) ==
  /\ DOMAIN emails' \subseteq DOMAIN emails /\ EmailsTyped'
  /\ \A m \in DOMAIN emails' : emails'[m].item = emails[m].item
  /\ nextItem' \in Nat /\ nextItem' >= nextItem
  /\ \A i \in DOMAIN items' :
       /\ i \in DOMAIN items \cup {nextItem} /\ items'[i] \in Row
       /\ i \in DOMAIN items => items'[i].src = items[i].src
       /\ i \in DOMAIN items /\ i \notin S => items'[i].kind = items[i].kind
       /\ i \notin DOMAIN items => items'[i].src = None
  /\ UNCHANGED filed

LEMMA SameElsewhere ==
  ASSUME Shape, Types, SameRows, UNCHANGED filed
  PROVE  Elsewhere({})
BY DEF Shape, Types, EmailsTyped, ItemsTyped, SameRows, SameItems, Link, Elsewhere

LEMMA RewritesElsewhere ==
  ASSUME Shape, Types, NEW S, Rewrites(S), UNCHANGED <<emails, filed>>
  PROVE  Elsewhere(S)
<1>1. EmailsTyped'
  BY DEF Types, EmailsTyped, Rewrites, Link
<1>2. nextItem' = nextItem /\ nextItem \in Nat
  BY DEF Rewrites, Shape
<1>3. nextItem' \in Nat /\ nextItem' >= nextItem
  BY <1>2
<1>4. ASSUME NEW i \in DOMAIN items'
      PROVE  /\ i \in DOMAIN items /\ items'[i] \in Row /\ items'[i].src = items[i].src
             /\ i \notin S => items'[i].kind = items[i].kind
  BY DEF Rewrites
<1>5. QED
  BY <1>1, <1>3, <1>4, Zenon DEF Elsewhere

LEMMA DropsElsewhere ==
  ASSUME Shape, Types, Drops, UNCHANGED <<emails, filed>>
  PROVE  Elsewhere({})
BY DEF Shape, Types, EmailsTyped, ItemsTyped, Drops, Link, Elsewhere

LEMMA LinksElsewhere ==
  ASSUME Shape, Types, SameLinks, EmailsTyped', SameItems, UNCHANGED filed
  PROVE  Elsewhere({})
BY DEF Shape, Types, ItemsTyped, SameLinks, SameItems, Elsewhere

LEMMA GoneElsewhere ==
  ASSUME Shape, Types, DOMAIN emails' \subseteq DOMAIN emails, SameItems, UNCHANGED filed,
         \A m \in DOMAIN emails' : emails'[m] = emails[m]
  PROVE  Elsewhere({})
BY DEF Shape, Types, EmailsTyped, ItemsTyped, SameItems, Link, Elsewhere

LEMMA AddsElsewhere ==
  ASSUME Shape, Types, NEW row \in Row, row.src = None, Adds(row), UNCHANGED <<emails, filed>>
  PROVE  Elsewhere({})
<1>1. EmailsTyped'
  BY DEF Shape, Types, EmailsTyped, Adds, Link
<1>2. QED
  BY <1>1 DEF Shape, Types, ItemsTyped, Adds, Elsewhere

LEMMA DirectElsewhere ==
  ASSUME Shape, Types, Direct
  PROVE  Elsewhere({})
<1>1. UNCHANGED filed
  BY DEF Direct, CreateItem, ChangeStatuses, DeleteItems, CategorizeEmails, DeleteEmails, keepHistory
<1>2. ASSUME NEW t \in Deadlines \cup {None}, CreateItem(t) PROVE Elsewhere({})
  <2>1. PICK row : row = NewTodo(None, t)
    OBVIOUS
  <2>2. row \in Row /\ row.src = None
    BY <2>1, NewTodoRow
  <2>3. Adds(row) /\ UNCHANGED emails
    BY <1>2, <2>1, WithAdds DEF CreateItem
  <2>4. QED
    BY <1>1, <2>2, <2>3, AddsElsewhere
<1>3. ASSUME NEW ids, NEW s \in Chosen \cap Statuses, ChangeStatuses(ids, s)
      PROVE  Elsewhere({})
  <2>1. Rewrites({})
    BY <1>3, StatusRewrites DEF ChangeStatuses, Types
  <2>2. UNCHANGED emails
    BY <1>3 DEF ChangeStatuses
  <2>3. QED
    BY <1>1, <2>1, <2>2, RewritesElsewhere
<1>4. ASSUME NEW ids, DeleteItems(ids) PROVE Elsewhere({})
  <2>1. Drops /\ UNCHANGED emails
    BY <1>4 DEF DeleteItems, Drops
  <2>2. QED
    BY <1>1, <2>1, DropsElsewhere
<1>5. ASSUME NEW ids, NEW c \in Chosen \cap Categories, CategorizeEmails(ids, c)
      PROVE  Elsewhere({})
  <2>1. SameLinks /\ EmailsTyped'
    BY <1>5, CatsSet DEF CategorizeEmails, Types
  <2>2. SameItems
    BY <1>5 DEF CategorizeEmails, SameItems
  <2>3. QED
    BY <1>1, <2>1, <2>2, LinksElsewhere
<1>6. ASSUME NEW ids, DeleteEmails(ids) PROVE Elsewhere({})
  <2>1. /\ DOMAIN emails' \subseteq DOMAIN emails /\ SameItems
        /\ \A m \in DOMAIN emails' : emails'[m] = emails[m]
    BY <1>6 DEF DeleteEmails, SameItems
  <2>2. QED
    BY <1>1, <2>1, GoneElsewhere
<1>7. QED
  BY <1>2, <1>3, <1>4, <1>5, <1>6 DEF Direct

\* The write of an approved request; an update gives the item its row.
LEMMA WriteElsewhere ==
  ASSUME Inv, Types, NEW c \in Deciders, ApproveWrite(c)
  PROVE  LET a == approvals[call[c].id]
         IN  /\ Elsewhere(IF a.tool = "update_item" THEN {a.id} ELSE {})
             /\ a.tool = "update_item" /\ a.id \in DOMAIN items =>
                  items'[a.id].kind = call[c].held.kind
<1>1. PICK p : p = call[c]
  OBVIOUS
<1>2. PICK a : a = approvals[p.id]
  OBVIOUS
<1>3. p.pc = "write" /\ UNCHANGED <<nextItem, filed>>
  BY <1>1 DEF ApproveWrite, Is
<1>4. p.id \in DOMAIN approvals
  BY <1>1, <1>3 DEF Inv, Decision
<1>5. a.tool \in Tools /\ a.arg \in Args(a.tool)
  <2>1. a \in Asking
    BY <1>2, <1>4 DEF Inv, Shape
  <2>2. QED
    BY <1>2, <1>4, <2>1 DEF Asking, Types, ArgsTyped
<1>6. CASE a.tool = "update_item"
  <2>1. items' = Rewrite(a.id, p.held) /\ UNCHANGED emails
    BY <1>1, <1>2, <1>6 DEF ApproveWrite, Asked
  <2>2. p.held \in Row
    BY <1>1, <1>2, <1>3, <1>6 DEF Types, DeciderTyped
  <2>3. Rewrites({a.id}) /\ (a.id \in DOMAIN items => items'[a.id].kind = p.held.kind)
    BY <1>3, <2>1, <2>2, RewriteRewrites DEF Types
  <2>4. Elsewhere({a.id})
    BY <1>3, <2>1, <2>3, RewritesElsewhere DEF Inv
  <2>5. QED
    BY <1>1, <1>2, <1>6, <2>3, <2>4
<1>7. CASE a.tool = "set_item_status"
  <2>1. items' = SetStatus(a.id, a.arg) /\ UNCHANGED emails
    BY <1>1, <1>2, <1>7 DEF ApproveWrite, Asked
  <2>2. a.arg \in Statuses
    BY <1>5, <1>7 DEF Args
  <2>3. Rewrites({})
    BY <1>3, <2>1, <2>2, SetStatusRewrites DEF Types
  <2>4. Elsewhere({})
    BY <1>3, <2>1, <2>3, RewritesElsewhere DEF Inv
  <2>5. QED
    BY <1>1, <1>2, <1>7, <2>4
<1>8. CASE a.tool = "delete_item"
  <2>1. items' = Without(items, a.id) /\ UNCHANGED emails
    BY <1>1, <1>2, <1>8 DEF ApproveWrite, Asked
  <2>2. Drops
    BY <1>3, <2>1, WithoutDrops
  <2>3. Elsewhere({})
    BY <1>3, <2>1, <2>2, DropsElsewhere DEF Inv
  <2>4. QED
    BY <1>1, <1>2, <1>8, <2>3
<1>9. CASE a.tool = "update_email_category"
  <2>1. emails' = SetCat(a.id, a.arg) /\ UNCHANGED items
    BY <1>1, <1>2, <1>9 DEF ApproveWrite, Asked
  <2>2. a.arg \in Categories
    BY <1>5, <1>9 DEF Args
  <2>3. SameLinks /\ EmailsTyped'
    BY <1>3, <2>1, <2>2, SetCatSets DEF Types
  <2>4. Elsewhere({})
    BY <1>3, <2>1, <2>3, LinksElsewhere DEF Inv, SameItems
  <2>5. QED
    BY <1>1, <1>2, <1>9, <2>4
<1>10. CASE a.tool = "delete_email"
  <2>1. emails' = Without(emails, a.id) /\ UNCHANGED items
    BY <1>1, <1>2, <1>10 DEF ApproveWrite, Asked
  <2>2. /\ DOMAIN emails' \subseteq DOMAIN emails /\ SameItems
        /\ \A m \in DOMAIN emails' : emails'[m] = emails[m]
    BY <1>3, <2>1 DEF Without, SameItems
  <2>3. Elsewhere({})
    BY <1>3, <2>2, GoneElsewhere DEF Inv
  <2>4. QED
    BY <1>1, <1>2, <1>10, <2>3
<1>11. QED
  BY <1>5, <1>6, <1>7, <1>8, <1>9, <1>10 DEF Tools

\* A decider's step other than the write leaves the rows alone.
LEMMA ApproveRows ==
  ASSUME Inv, Types, NEW c \in Deciders, Approve(c)
  PROVE  ApproveWrite(c) \/ (SameRows /\ UNCHANGED filed)
BY DEF Approve, ApproveBegin, RejectBegin, ApproveCheck, ApproveEnd, keepRows, keepHistory,
       SameRows, SameItems

\* What was asked is not changed.
AsksKept ==
  /\ DOMAIN approvals \subseteq DOMAIN approvals'
  /\ \A a \in DOMAIN approvals :
       approvals'[a].tool = approvals[a].tool /\ approvals'[a].id = approvals[a].id

LEMMA AskArgs ==
  ASSUME Inv, Types, NEW tool \in Tools, NEW id, NEW arg \in Args(tool), AgentAsks(tool, id, arg)
  PROVE  AsksKept /\ ArgsTyped'
<1>1. PICK n : n = Len(approvals) + 1
  OBVIOUS
<1>2. PICK new : new = [tool |-> tool, id |-> id, arg |-> arg, status |-> "pending"]
  OBVIOUS
<1>3. approvals' = Append(approvals, new)
  BY <1>2 DEF AgentAsks
<1>4. /\ DOMAIN approvals' = DOMAIN approvals \cup {n}
      /\ \A a \in DOMAIN approvals : approvals'[a] = approvals[a]
      /\ approvals'[n] = new
  BY <1>1, <1>3 DEF Inv, Shape
<1>5. new.tool = tool /\ new.arg = arg
  BY <1>2
<1>6. ArgsTyped'
  BY <1>4, <1>5 DEF ArgsTyped, Types, Args, Patches
<1>7. QED
  BY <1>4, <1>6 DEF AsksKept

LEMMA EndArgs ==
  ASSUME Inv, Types, NEW c \in Deciders, ApproveEnd(c)
  PROVE  AsksKept /\ ArgsTyped'
<1>1. PICK a : a = call[c].id
  OBVIOUS
<1>2. PICK v : v = Verdict(c)
  OBVIOUS
<1>3. approvals' = [approvals EXCEPT ![a].status = v] /\ call[c].pc = "decide"
  BY <1>1, <1>2 DEF ApproveEnd, Is
<1>4. a \in DOMAIN approvals
  BY <1>1, <1>3 DEF Inv, Decision
<1>5. PICK r \in Asking : r = approvals[a]
  BY <1>4 DEF Inv, Shape
<1>6. PICK s : s = [r EXCEPT !.status = v]
  OBVIOUS
<1>7. s.tool = r.tool /\ s.id = r.id /\ s.arg = r.arg
  BY <1>6 DEF Asking
<1>8. /\ DOMAIN approvals' = DOMAIN approvals /\ approvals'[a] = s
      /\ \A b \in DOMAIN approvals : b # a => approvals'[b] = approvals[b]
  BY <1>3, <1>4, <1>5, <1>6
<1>9. AsksKept
  BY <1>5, <1>7, <1>8 DEF AsksKept
<1>10. ArgsTyped'
  BY <1>5, <1>7, <1>8 DEF ArgsTyped, Types, Args, Patches
<1>11. QED
  BY <1>9, <1>10

LEMMA SameArgs ==
  ASSUME Types, UNCHANGED approvals
  PROVE  AsksKept /\ ArgsTyped'
BY DEF Types, AsksKept, ArgsTyped, Args, Patches

-----------------------------------------------------------------------------
(* Types are kept *)

LEMMA TypesInit == Init => Types
<1> SUFFICES ASSUME Init PROVE Types
  OBVIOUS
<1>1. Inv
  BY InvInit
<1>2. PICK with \in SUBSET Mails, kind \in {"todo", "notification"} :
        /\ items = [m \in with |-> [NewTodo(m, None) EXCEPT !.kind = kind, !.review = kind = "todo"]]
        /\ emails = [m \in Mails |-> [cat |-> IF m \in with THEN "core" ELSE "misc",
                                      item |-> IF m \in with THEN m ELSE None]]
  BY DEF Init
<1>3. ItemsTyped
  <2>1. SUFFICES ASSUME NEW i \in with PROVE items[i] \in Row
    BY <1>2 DEF ItemsTyped
  <2>2. PICK old : old = NewTodo(i, None)
    OBVIOUS
  <2>3. old \in Row
    BY <2>2, NewTodoRow
  <2>4. PICK review \in BOOLEAN : review = (kind = "todo")
    OBVIOUS
  <2>5. items[i] = [old EXCEPT !.kind = kind, !.review = review]
    BY <1>2, <2>2, <2>4
  <2>6. QED
    BY <2>3, <2>5 DEF Row
<1>4. EmailsTyped
  <2>1. SUFFICES ASSUME NEW m \in Mails PROVE emails[m] \in [cat : Categories, item : Link]
    BY <1>2 DEF EmailsTyped
  <2>2. m \in with => m \in Link
    BY <1>1, <1>2 DEF Inv, Shape, Link
  <2>3. None \in Link /\ "core" \in Categories /\ "misc" \in Categories
    BY DEF Link, Categories
  <2>4. PICK cat \in Categories, item \in Link : emails[m] = [cat |-> cat, item |-> item]
    BY <1>2, <2>2, <2>3
  <2>5. QED
    BY <2>4
<1>5. approvals = <<>> /\ call = [c \in Deciders \cup Filers |-> Idle]
  BY DEF Init
<1>6. QED
  BY <1>3, <1>4, <1>5, IdleIsCall DEF Types, ArgsTyped, DeciderTyped, FilerTyped

LEMMA FilerTypedKept ==
  ASSUME Shape, NEW p, FilerTyped(p), nextItem' \in Nat, nextItem' >= nextItem
  PROVE  FilerTyped(p)'
BY DEF Shape, FilerTyped, Link, Row, Categories

LEMMA DeciderTypedKept ==
  ASSUME Inv, NEW p, DeciderTyped(p), Decision(p), AsksKept
  PROVE  DeciderTyped(p)'
BY DEF DeciderTyped, Decision, AsksKept, Row

LEMMA IdleTyped == FilerTyped(Idle) /\ DeciderTyped(Idle)
BY IdleIsCall DEF FilerTyped, DeciderTyped

\* A step that touches no call but those it ends, or one decider's.
LEMMA ElsewhereTypes ==
  ASSUME Inv, Types, NEW S, Elsewhere(S), AsksKept, ArgsTyped',
         \A d \in Deciders : call'[d] = call[d] \/ DeciderTyped(call[d])',
         \A f \in Filers : call'[f] = call[f] \/ call'[f] = Idle
  PROVE  Types'
<1>1. ItemsTyped'
  BY DEF Elsewhere, ItemsTyped, Row
<1>2. ASSUME NEW f \in Filers PROVE FilerTyped(call[f])'
  <2>1. PICK p : p = call[f]
    OBVIOUS
  <2>2. FilerTyped(p)' /\ FilerTyped(Idle)'
    BY <2>1, IdleTyped, FilerTypedKept DEF Types, Inv, Elsewhere
  <2>3. QED
    BY <2>1, <2>2 DEF FilerTyped
<1>3. ASSUME NEW d \in Deciders PROVE DeciderTyped(call[d])'
  <2>1. PICK p : p = call[d]
    OBVIOUS
  <2>2. DeciderTyped(p)'
    BY <2>1, DeciderTypedKept DEF Types, Inv
  <2>3. QED
    BY <2>1, <2>2 DEF DeciderTyped
<1>4. QED
  BY <1>1, <1>2, <1>3 DEF Types, Elsewhere, FilerTyped, DeciderTyped

LEMMA FilerTypes ==
  ASSUME Inv, Types, NEW f \in Filers, Reclassify(f)
  PROVE  Types'
<1>1. PICK q : Filed(f, q) /\ FilerStep(f, q)
  BY FilerSteps DEF Inv
<1>2. PICK p : p = call[f]
  OBVIOUS
<1>3. IsCall(p) /\ FilerTyped(p)
  BY <1>2 DEF Inv, Shape, Types
<1>4. UNCHANGED approvals
  BY FilerAside DEF Inv, Aside
<1>5. AsksKept /\ ArgsTyped'
  BY <1>4, SameArgs
<1>6. nextItem' \in Nat /\ nextItem' >= nextItem
  BY FilerAside DEF Inv, Aside, NoReturn
<1>7. \A d \in Deciders : DeciderTyped(call[d])'
  <2>1. ASSUME NEW d \in Deciders PROVE DeciderTyped(call[d])'
    <3>1. PICK r : r = call[d]
      OBVIOUS
    <3>2. DeciderTyped(r)'
      BY <1>5, <3>1, DeciderTypedKept DEF Types, Inv
    <3>3. call'[d] = r
      BY <1>1, <3>1, RequestsAssumption DEF Filed, Inv, Shape
    <3>4. QED
      BY <3>2, <3>3 DEF DeciderTyped
  <2>2. QED
    BY <2>1 DEF DeciderTyped
<1>8. EmailsTyped' /\ ItemsTyped' /\ FilerTyped(q)'
  <2>1. CASE BeginStep(f, q)
    <3>1. EmailsTyped' /\ ItemsTyped'
      BY <2>1 DEF BeginStep, SameRows, SameItems, Types, EmailsTyped, ItemsTyped, Link
    <3>2. q.pc = "file" /\ q.id \in Mails /\ q.cat \in Categories /\ q.link \in Link
      BY <2>1 DEF BeginStep, Types, EmailsTyped, Inv, Shape
    <3>3. FilerTyped(q)
      BY <3>2 DEF FilerTyped
    <3>4. QED
      BY <1>6, <3>1, <3>3, FilerTypedKept DEF Inv
  <2>2. CASE WriteStep(f, q)
    <3>1. EmailsTyped' /\ ItemsTyped'
      BY <2>2 DEF WriteStep, SameItems, Types, ItemsTyped
    <3>2. FilerTyped(q)
      BY <1>2, <1>3, <2>2 DEF WriteStep, Goes, FilerTyped
    <3>3. QED
      BY <1>6, <3>1, <3>2, FilerTypedKept DEF Inv
  <2>3. CASE UndoStep(f, q)
    <3>1. EmailsTyped' /\ ItemsTyped'
      BY <2>3 DEF UndoStep, Drops, Types, EmailsTyped, ItemsTyped, Link
    <3>2. FilerTyped(q)
      BY <1>2, <1>3, <2>3 DEF UndoStep, Goes, FilerTyped
    <3>3. QED
      BY <1>6, <3>1, <3>2, FilerTypedKept DEF Inv
  <2>4. CASE UnlinkStep(f, q)
    <3>1. EmailsTyped' /\ ItemsTyped'
      BY <2>4 DEF UnlinkStep, SameItems, Types, ItemsTyped
    <3>2. FilerTyped(q)
      BY <1>2, <1>3, <2>4 DEF UnlinkStep, Goes, FilerTyped
    <3>3. QED
      BY <1>6, <3>1, <3>2, FilerTypedKept DEF Inv
  <2>5. CASE ExtractStep(f, q)
    <3>1. EmailsTyped' /\ ItemsTyped'
      BY <2>5 DEF ExtractStep, SameRows, SameItems, Types, EmailsTyped, ItemsTyped, Link
    <3>2. FilerTyped(q)
      BY <1>2, <1>3, <2>5, IdleTyped DEF ExtractStep, Goes, FilerTyped
    <3>3. QED
      BY <1>6, <3>1, <3>2, FilerTypedKept DEF Inv
  <2>6. CASE UpdateStep(f, q)
    <3>1. EmailsTyped' /\ ItemsTyped'
      BY <2>6 DEF UpdateStep, Rewrites, Types, EmailsTyped, ItemsTyped, Link
    <3>2. FilerTyped(q)
      BY <1>2, <1>3, <2>6 DEF UpdateStep, Goes, FilerTyped
    <3>3. QED
      BY <1>6, <3>1, <3>2, FilerTypedKept DEF Inv
  <2>7. CASE InsertStep(f, q)
    <3>1. p.pc = "insert" /\ Adds(p.held) /\ UNCHANGED emails
      BY <1>2, <2>7 DEF InsertStep, Goes
    <3>2. p.held \in Row
      BY <1>3, <3>1 DEF FilerTyped
    <3>3. ItemsTyped'
      <4>1. ASSUME NEW i \in DOMAIN items' PROVE items'[i] \in Row
        BY <3>1, <3>2 DEF Adds, Types, ItemsTyped
      <4>2. QED
        BY <4>1 DEF ItemsTyped, Row
    <3>4. EmailsTyped'
      BY <3>1 DEF Adds, Inv, Shape, Types, EmailsTyped, Link
    <3>5. /\ q.pc = "link" /\ q.id \in Mails /\ q.cat \in Categories
          /\ q.link = nextItem /\ nextItem' = nextItem + 1
      BY <1>2, <1>3, <2>7 DEF InsertStep, Goes, FilerTyped, Adds
    <3>6. q.link \in 1 .. nextItem' - 1
      BY <3>5 DEF Inv, Shape
    <3>7. FilerTyped(q)'
      BY <3>5, <3>6 DEF FilerTyped, Link
    <3>8. QED
      BY <3>3, <3>4, <3>7
  <2>8. CASE LinkStep(f, q)
    <3>1. EmailsTyped' /\ ItemsTyped'
      BY <2>8 DEF LinkStep, SameItems, Types, ItemsTyped
    <3>2. FilerTyped(q)
      BY <1>2, <1>3, <2>8 DEF LinkStep, Goes, FilerTyped
    <3>3. QED
      BY <1>6, <3>1, <3>2, FilerTypedKept DEF Inv
  <2>9. CASE EndStep(f, q)
    <3>1. EmailsTyped' /\ ItemsTyped'
      BY <2>9 DEF EndStep, SameRows, SameItems, Types, EmailsTyped, ItemsTyped, Link
    <3>2. FilerTyped(q)
      BY <2>9, IdleTyped DEF EndStep
    <3>3. QED
      BY <1>6, <3>1, <3>2, FilerTypedKept DEF Inv
  <2>10. QED
    BY <1>1, <2>1, <2>2, <2>3, <2>4, <2>5, <2>6, <2>7, <2>8, <2>9 DEF FilerStep
<1>9. \A g \in Filers : FilerTyped(call[g])'
  <2>1. ASSUME NEW g \in Filers PROVE FilerTyped(call[g])'
    <3>1. PICK r : r = call[g]
      OBVIOUS
    <3>2. FilerTyped(r)'
      BY <1>6, <3>1, FilerTypedKept DEF Types, Inv
    <3>3. call'[g] \in {q, r}
      BY <1>1, <3>1 DEF Filed, Inv, Shape
    <3>4. QED
      BY <1>8, <3>2, <3>3 DEF FilerTyped
  <2>2. QED
    BY <2>1 DEF FilerTyped
<1>10. QED
  BY <1>5, <1>7, <1>8, <1>9 DEF Types

\* A decider comes to its write with the item as it has just read it.
CheckStep(c, q) ==
  /\ call[c].pc = "check" /\ q.pc = "write" /\ q.id = call[c].id
  /\ LET a == approvals[q.id]
     IN  a.tool = "update_item" =>
           a.id \in DOMAIN items /\ q.held \in Row /\ q.held.kind = items[a.id].kind

LEMMA CheckSteps ==
  ASSUME Inv, Types, NEW c \in Deciders, ApproveCheck(c)
  PROVE  \E q : call' = [call EXCEPT ![c] = q] /\ (q.pc # "write" \/ CheckStep(c, q))
<1>1. PICK p : p = call[c]
  OBVIOUS
<1>2. IsCall(p) /\ Decision(p) /\ p.pc = "check"
  BY <1>1 DEF Inv, Shape, ApproveCheck, Is
<1>3. PICK a : a = approvals[p.id]
  OBVIOUS
<1>4. CASE Exists(a.tool, a.id)
  <2>1. PICK h : h = IF a.tool = "update_item" THEN Patched(items[a.id], a.arg) ELSE None
    OBVIOUS
  <2>2. PICK q : q = [p EXCEPT !.pc = "write", !.held = h]
    OBVIOUS
  <2>3. q.pc = "write" /\ q.id = p.id /\ q.held = h
    BY <1>2, <2>2 DEF IsCall
  <2>4. call' = [call EXCEPT ![c].pc = "write", ![c].held = h]
    BY <1>1, <1>3, <1>4, <2>1 DEF ApproveCheck, Asked
  <2>5. call' = [call EXCEPT ![c] = q]
    BY <1>1, <2>2, <2>4
  <2>6. ASSUME a.tool = "update_item"
        PROVE  a.id \in DOMAIN items /\ h \in Row /\ h.kind = items[a.id].kind
    <3>1. a.id \in DOMAIN items
      BY <1>4, <2>6 DEF Exists, OnMails
    <3>2. PICK row \in Row : row = items[a.id]
      BY <3>1 DEF Types, ItemsTyped
    <3>3. p.id \in DOMAIN approvals
      BY <1>2 DEF Decision
    <3>4. a.arg \in Args("update_item")
      BY <1>3, <2>6, <3>3 DEF Types, ArgsTyped
    <3>5. PICK patch \in Patches : patch = a.arg
      BY <3>4 DEF Args
    <3>6. h = Patched(row, patch)
      BY <2>1, <2>6, <3>2, <3>5
    <3>7. QED
      BY <3>1, <3>2, <3>6, PatchedRow
  <2>7. QED
    BY <1>1, <1>2, <1>3, <2>3, <2>5, <2>6 DEF CheckStep
<1>5. CASE ~Exists(a.tool, a.id)
  <2>1. PICK q : q = [p EXCEPT !.pc = "decide"]
    OBVIOUS
  <2>2. q.pc = "decide"
    BY <1>2, <2>1 DEF IsCall
  <2>3. call' = [call EXCEPT ![c] = q]
    BY <1>1, <1>3, <1>5, <2>1 DEF ApproveCheck, Asked, Go
  <2>4. QED
    BY <2>2, <2>3
<1>6. QED
  BY <1>4, <1>5

LEMMA DeciderSteps ==
  ASSUME Inv, Types, NEW c \in Deciders, Approve(c)
  PROVE  \E q : call' = [call EXCEPT ![c] = q] /\ (q.pc # "write" \/ CheckStep(c, q))
<1>1. PICK p : p = call[c]
  OBVIOUS
<1>2. IsCall(p)
  BY <1>1 DEF Inv, Shape
<1>3. CASE ApproveCheck(c)
  BY <1>3, CheckSteps
<1>4. ASSUME NEW a, ApproveBegin(c, a) \/ RejectBegin(c, a)
      PROVE  \E q : call' = [call EXCEPT ![c] = q] /\ q.pc # "write"
  <2>1. PICK pc : /\ pc \in {"check", "decide"}
                  /\ call' = [call EXCEPT ![c].pc = pc, ![c].id = a]
    BY <1>4, Zenon DEF ApproveBegin, RejectBegin
  <2>2. PICK q : q = [p EXCEPT !.pc = pc, !.id = a]
    OBVIOUS
  <2>3. q.pc = pc
    BY <1>2, <2>2 DEF IsCall
  <2>4. call' = [call EXCEPT ![c] = q]
    BY <1>1, <2>1, <2>2
  <2>5. QED
    BY <2>1, <2>3, <2>4
<1>5. CASE ApproveWrite(c)
  <2>1. PICK q : q = [p EXCEPT !.pc = "decide", !.held = None, !.ok = TRUE]
    OBVIOUS
  <2>2. q.pc = "decide"
    BY <1>2, <2>1 DEF IsCall
  <2>3. call' = [call EXCEPT ![c] = q]
    BY <1>1, <1>5, <2>1 DEF ApproveWrite
  <2>4. QED
    BY <2>2, <2>3
<1>6. CASE ApproveEnd(c)
  BY <1>6, IdleIsCall DEF ApproveEnd, End
<1>7. QED
  BY <1>3, <1>4, <1>5, <1>6 DEF Approve

LEMMA ApproveAsks ==
  ASSUME Inv, Types, NEW c \in Deciders, Approve(c)
  PROVE  AsksKept /\ ArgsTyped'
<1>1. CASE ApproveEnd(c)
  BY <1>1, EndArgs
<1>2. CASE ~ApproveEnd(c)
  <2>1. UNCHANGED approvals
    BY <1>2 DEF Approve, ApproveBegin, RejectBegin, ApproveCheck, ApproveWrite
  <2>2. QED
    BY <2>1, SameArgs
<1>3. QED
  BY <1>1, <1>2

LEMMA ApproveElsewhere ==
  ASSUME Inv, Types, NEW c \in Deciders, Approve(c)
  PROVE  \E S : Elsewhere(S)
<1>1. CASE ApproveWrite(c)
  BY <1>1, WriteElsewhere
<1>2. CASE SameRows /\ UNCHANGED filed
  BY <1>2, SameElsewhere DEF Inv
<1>3. QED
  BY <1>1, <1>2, ApproveRows

LEMMA ApproveTypes ==
  ASSUME Inv, Types, NEW c \in Deciders, Approve(c)
  PROVE  Types'
<1>1. PICK q : call' = [call EXCEPT ![c] = q] /\ (q.pc # "write" \/ CheckStep(c, q))
  BY DeciderSteps
<1>2. AsksKept /\ ArgsTyped'
  BY ApproveAsks
<1>3. DeciderTyped(q)'
  <2>1. CASE q.pc # "write"
    BY <2>1 DEF DeciderTyped
  <2>2. CASE CheckStep(c, q)
    <3>1. q.id \in DOMAIN approvals
      BY <2>2 DEF CheckStep, Inv, Decision
    <3>2. approvals'[q.id].tool = approvals[q.id].tool
      BY <1>2, <3>1 DEF AsksKept
    <3>3. QED
      BY <2>2, <3>2 DEF CheckStep, DeciderTyped, Row
  <2>3. QED
    BY <1>1, <2>1, <2>2
<1>4. \A d \in Deciders : call'[d] = call[d] \/ DeciderTyped(call[d])'
  BY <1>1, <1>3 DEF DeciderTyped, Inv, Shape
<1>5. \A f \in Filers : call'[f] = call[f]
  BY <1>1, RequestsAssumption DEF Inv, Shape
<1>6. PICK S : Elsewhere(S)
  BY ApproveElsewhere
<1>7. QED
  BY <1>2, <1>4, <1>5, <1>6, ElsewhereTypes

LEMMA TypesStep ==
  ASSUME Inv, Types, [Next]_vars
  PROVE  Types'
<1>1. ASSUME NEW tool \in Tools, NEW id \in DOMAIN items \cup DOMAIN emails,
             NEW arg \in Args(tool), AgentAsks(tool, id, arg)
      PROVE  Types'
  <2>1. SameRows /\ UNCHANGED <<call, filed>>
    BY <1>1 DEF AgentAsks, keepRows, keepHistory, SameRows, SameItems
  <2>2. AsksKept /\ ArgsTyped'
    BY <1>1, AskArgs
  <2>3. Elsewhere({})
    BY <2>1, SameElsewhere DEF Inv
  <2>4. QED
    BY <2>1, <2>2, <2>3, ElsewhereTypes
<1>2. ASSUME NEW c \in Deciders, Approve(c) PROVE Types'
  BY <1>2, ApproveTypes
<1>3. ASSUME NEW f \in Filers, Reclassify(f) PROVE Types'
  BY <1>3, FilerTypes
<1>4. CASE Direct
  <2>1. UNCHANGED <<approvals, call>>
    BY <1>4 DEF Direct, CreateItem, ChangeStatuses, DeleteItems, CategorizeEmails, DeleteEmails,
                Operation
  <2>2. AsksKept /\ ArgsTyped'
    BY <2>1, SameArgs
  <2>3. Elsewhere({})
    BY <1>4, DirectElsewhere DEF Inv
  <2>4. QED
    BY <2>1, <2>2, <2>3, ElsewhereTypes
<1>5. CASE Crash
  <2>1. SameRows /\ UNCHANGED <<approvals, filed>>
    BY <1>5 DEF Crash, keepRows, keepHistory, SameRows, SameItems
  <2>2. \A c \in Deciders \cup Filers : call'[c] = Idle
    BY <1>5 DEF Crash, Inv, Shape
  <2>3. \A d \in Deciders : DeciderTyped(call[d])'
    BY <2>2, IdleIsCall DEF DeciderTyped
  <2>4. AsksKept /\ ArgsTyped'
    BY <2>1, SameArgs
  <2>5. Elsewhere({})
    BY <2>1, SameElsewhere DEF Inv
  <2>6. QED
    BY <2>2, <2>3, <2>4, <2>5, ElsewhereTypes
<1>6. CASE UNCHANGED vars
  <2>1. SameRows /\ UNCHANGED <<approvals, filed, call>>
    BY <1>6 DEF vars, SameRows, SameItems
  <2>2. AsksKept /\ ArgsTyped'
    BY <2>1, SameArgs
  <2>3. Elsewhere({})
    BY <2>1, SameElsewhere DEF Inv
  <2>4. QED
    BY <2>1, <2>2, <2>3, ElsewhereTypes
<1>7. QED
  BY <1>1, <1>2, <1>3, <1>4, <1>5, <1>6 DEF Next

LEMMA TypesHold == Spec => [](Inv /\ Types)
<1>1. Init => Inv /\ Types
  BY InvInit, TypesInit
<1>2. Inv /\ Types /\ [Next]_vars => (Inv /\ Types)'
  BY InvStep, TypesStep
<1>3. QED
  BY <1>1, <1>2, PTL DEF Spec

\* The tables keep their shape, with any number of people deciding, asking and
\* filing at once and through crashes.
THEOREM RequestTypes == Spec => []TypeOK
<1>1. Inv /\ Types => TypeOK
  <2>1. SUFFICES ASSUME Inv, Types, NEW a \in DOMAIN approvals
                 PROVE  /\ approvals[a].tool \in Tools
                        /\ approvals[a].arg \in Args(approvals[a].tool)
                        /\ approvals[a].status \in {"pending", "approved", "rejected"}
    BY DEF TypeOK, Inv, Shape, Types, EmailsTyped, ItemsTyped, Link
  <2>2. approvals[a] \in Asking
    BY <2>1 DEF Inv, Shape
  <2>3. QED
    BY <2>1, <2>2 DEF Asking, Types, ArgsTyped
<1>2. QED
  BY <1>1, TypesHold, PTL

-----------------------------------------------------------------------------
(* The links of the mails, when one person files *)

Stored(m) == m \in DOMAIN emails

\* Before the item is made or taken away the link read at the start holds.
LinkKnown(p) ==
  p.pc \in {"file", "undo", "extract", "update", "insert"} /\ Stored(p.id) =>
    emails[p.id].item = p.link

\* What an extraction has been started for.
Making(p) ==
  /\ p.pc \in {"extract", "update", "insert", "link"} => MakesTodo(p.cat)
  /\ p.pc \in {"update", "insert"} => p.held.kind = "todo"
  /\ p.pc = "update" => p.link # None
  /\ p.pc = "insert" => p.link = None /\ p.held.src = p.id

\* An item of a stored mail is its link, but for the one just made, which the
\* filer is about to link; a mail about to lose its link has no item.
ItemsLinked(p) ==
  \A i \in DOMAIN items :
    Stored(items[i].src) =>
      /\ (p.pc = "link" /\ items[i].src = p.id) \/ emails[items[i].src].item = i
      /\ p.pc = "unlink" => items[i].src # p.id
      /\ p.pc = "link" /\ items[i].src = p.id => i = p.link

Linked(p) == LinkKnown(p) /\ Making(p) /\ (crashes = 0 => ItemsLinked(p))

LEMMA NoneIsNoMail == Shape => ~Stored(None)
<1>1. MaxItems \in Nat /\ Mails \subseteq 1 .. MaxItems
  BY RequestsAssumption
<1>2. None \notin Mails
  <2>1. \A m \in Mails : m \in Int
    BY <1>1
  <2>2. None \notin Int
    BY InferenceAssumption
  <2>3. QED
    BY <2>1, <2>2, Zenon
<1>3. QED
  BY <1>2 DEF Shape, Stored

\* Every step is the filer's, with its call q after it, or is elsewhere, with
\* or without the end of the filer's request in a crash.
Quiet(f) ==
  \/ UNCHANGED crashes /\ call'[f] = call[f]
  \/ crashes' = crashes + 1 /\ call'[f] = Idle

LEMMA OneFiler ==
  ASSUME Inv, Types, NEW f, Filers = {f}, [Next]_vars
  PROVE  \/ UNCHANGED crashes /\ \E q : call'[f] = q /\ FilerStep(f, q)
         \/ Quiet(f) /\ \E S : Elsewhere(S)
<1>1. ASSUME NEW tool \in Tools, NEW id, NEW arg, AgentAsks(tool, id, arg)
      PROVE  Quiet(f) /\ \E S : Elsewhere(S)
  <2>1. SameRows /\ UNCHANGED <<call, filed, crashes>>
    BY <1>1 DEF AgentAsks, keepRows, keepHistory, keepBounds, SameRows, SameItems
  <2>2. QED
    BY <2>1, SameElsewhere DEF Inv, Quiet
<1>2. ASSUME NEW c \in Deciders, Approve(c) PROVE Quiet(f) /\ \E S : Elsewhere(S)
  <2>1. UNCHANGED crashes
    BY <1>2 DEF Approve, ApproveBegin, RejectBegin, ApproveCheck, ApproveWrite, ApproveEnd, keepBounds
  <2>2. \E q : call' = [call EXCEPT ![c] = q]
    BY <1>2, DeciderSteps
  <2>3. call'[f] = call[f]
    BY <2>2, RequestsAssumption DEF Inv, Shape
  <2>4. QED
    BY <1>2, <2>1, <2>3, ApproveElsewhere DEF Quiet
<1>3. ASSUME Reclassify(f) PROVE UNCHANGED crashes /\ \E q : call'[f] = q /\ FilerStep(f, q)
  <2>1. PICK q : Filed(f, q) /\ FilerStep(f, q)
    BY <1>3, FilerSteps DEF Inv
  <2>2. call'[f] = q
    BY <2>1 DEF Filed, Inv, Shape
  <2>3. UNCHANGED crashes
    BY <1>3 DEF Reclassify, FileBegin, FileWrite, FileUndo, FileUnlink, FileExtract, FileUpdate,
                FileInsert, FileLink, FileEnd, keepBounds
  <2>4. QED
    BY <2>1, <2>2, <2>3
<1>4. CASE Direct
  <2>1. UNCHANGED <<call, crashes>>
    BY <1>4 DEF Direct, CreateItem, ChangeStatuses, DeleteItems, CategorizeEmails, DeleteEmails,
                Operation
  <2>2. QED
    BY <1>4, <2>1, DirectElsewhere DEF Inv, Quiet
<1>5. CASE Crash
  <2>1. SameRows /\ UNCHANGED filed
    BY <1>5 DEF Crash, keepRows, keepHistory, SameRows, SameItems
  <2>2. call'[f] = Idle /\ crashes' = crashes + 1
    BY <1>5 DEF Crash, Inv, Shape
  <2>3. QED
    BY <2>1, <2>2, SameElsewhere DEF Inv, Quiet
<1>6. CASE UNCHANGED vars
  <2>1. SameRows /\ UNCHANGED <<filed, call, crashes>>
    BY <1>6 DEF vars, SameRows, SameItems
  <2>2. QED
    BY <2>1, SameElsewhere DEF Inv, Quiet
<1>7. QED
  BY <1>1, <1>2, <1>3, <1>4, <1>5, <1>6 DEF Next

LEMMA LinkedInit ==
  ASSUME NEW f, Filers = {f}, Init
  PROVE  crashes \in Nat /\ Linked(call[f])
<1>1. PICK with \in SUBSET Mails, kind \in {"todo", "notification"} :
        /\ items = [m \in with |-> [NewTodo(m, None) EXCEPT !.kind = kind, !.review = kind = "todo"]]
        /\ emails = [m \in Mails |-> [cat |-> IF m \in with THEN "core" ELSE "misc",
                                      item |-> IF m \in with THEN m ELSE None]]
  BY DEF Init
<1>2. call[f] = Idle /\ crashes = 0
  BY DEF Init
<1>3. ASSUME NEW i \in DOMAIN items
      PROVE  emails[items[i].src].item = i
  <2>1. i \in with
    BY <1>1
  <2>2. PICK old : old = NewTodo(i, None)
    OBVIOUS
  <2>3. old.src = i /\ old \in Row
    BY <2>1, <2>2, NewTodoRow
  <2>4. PICK review : review = (kind = "todo")
    OBVIOUS
  <2>5. items[i] = [old EXCEPT !.kind = kind, !.review = review]
    BY <1>1, <2>1, <2>2, <2>4
  <2>6. items[i].src = i
    BY <2>3, <2>5 DEF Row
  <2>7. emails[i] = [cat |-> "core", item |-> i]
    BY <1>1, <2>1
  <2>8. QED
    BY <2>6, <2>7
<1>4. QED
  BY <1>2, <1>3, IdleIsCall DEF Linked, LinkKnown, Making, ItemsLinked

LEMMA LinkedElsewhere ==
  ASSUME Shape, NEW p, Linked(p), NEW S, Elsewhere(S), UNCHANGED crashes
  PROVE  Linked(p)'
<1>1. LinkKnown(p)'
  BY DEF Linked, LinkKnown, Elsewhere, Stored
<1>2. Making(p)'
  BY DEF Linked, Making
<1>3. ASSUME ItemsLinked(p) PROVE ItemsLinked(p)'
  <2>1. ~Stored(None)'
    BY NoneIsNoMail DEF Elsewhere, Stored
  <2>2. ASSUME NEW i \in DOMAIN items', Stored(items[i].src)'
        PROVE  i \in DOMAIN items /\ items'[i].src = items[i].src /\ Stored(items[i].src)
    BY <2>1, <2>2 DEF Elsewhere, Stored
  <2>3. QED
    BY <1>3, <2>2 DEF ItemsLinked, Elsewhere, Stored
<1>4. QED
  BY <1>1, <1>2, <1>3 DEF Linked

LEMMA IdleLinked ==
  ASSUME crashes \in Nat, crashes' = crashes + 1
  PROVE  Linked(Idle)'
BY IdleIsCall DEF Linked, LinkKnown, Making

\* No item's id is the empty link.
LEMMA ItemIsSome ==
  ASSUME Shape, NEW i \in DOMAIN items
  PROVE  i # None
<1>1. i \in Int
  BY DEF Shape
<1>2. QED
  BY <1>1, InferenceAssumption, Zenon

LEMMA LinkedFiler ==
  ASSUME Inv, Types, NEW f, NEW p, p = call[f], Linked(p), NEW q, FilerStep(f, q),
         UNCHANGED crashes
  PROVE  Linked(q)'
<1>1. LinkKnown(q)'
  <2>1. CASE BeginStep(f, q)
    BY <2>1 DEF BeginStep, SameRows, LinkKnown, Stored
  <2>2. CASE WriteStep(f, q)
    BY <2>2 DEF WriteStep, Goes, SameLinks, Linked, LinkKnown, Stored
  <2>3. CASE ExtractStep(f, q)
    BY <2>3, IdleIsCall DEF ExtractStep, Goes, SameRows, Linked, LinkKnown, Stored
  <2>4. CASE q.pc \notin {"file", "undo", "extract", "update", "insert"}
    BY <2>4 DEF LinkKnown
  <2>5. QED
    BY <2>1, <2>2, <2>3, <2>4, IdleIsCall
       DEF FilerStep, UndoStep, UnlinkStep, UpdateStep, InsertStep, LinkStep, EndStep, Goes
<1>2. Making(q)'
  <2>1. CASE WriteStep(f, q)
    BY <2>1 DEF WriteStep, Goes, Making
  <2>2. CASE ExtractStep(f, q)
    BY <2>2, IdleIsCall DEF ExtractStep, Goes, Linked, Making
  <2>3. CASE InsertStep(f, q)
    BY <2>3 DEF InsertStep, Goes, Linked, Making
  <2>4. CASE q.pc \notin {"extract", "update", "insert", "link"}
    BY <2>4 DEF Making
  <2>5. QED
    BY <2>1, <2>2, <2>3, <2>4, IdleIsCall
       DEF FilerStep, BeginStep, UndoStep, UnlinkStep, UpdateStep, LinkStep, EndStep, Goes
<1>3. ASSUME ItemsLinked(p) PROVE ItemsLinked(q)'
  <2>1. CASE BeginStep(f, q) \/ EndStep(f, q)
    <3>1. UNCHANGED <<emails, items>> /\ q.pc \in {"file", "idle"} /\ p.pc \in {"idle", "filed"}
      BY <2>1, IdleIsCall DEF BeginStep, EndStep, SameRows, SameItems
    <3>2. QED
      BY <1>3, <3>1 DEF ItemsLinked, Stored
  <2>2. CASE WriteStep(f, q)
    <3>1. UNCHANGED items /\ q.pc \in {"extract", "undo", "filed"} /\ p.pc = "file"
      BY <2>2 DEF WriteStep, Goes, SameItems
    <3>2. QED
      BY <1>3, <2>2, <3>1 DEF WriteStep, SameLinks, ItemsLinked, Stored
  <2>3. CASE UndoStep(f, q)
    <3>1. p.pc = "undo" /\ q.pc = "unlink" /\ q.id = p.id /\ q.link = p.link
      BY <2>3 DEF UndoStep, Goes
    <3>2. UNCHANGED emails /\ Drops /\ q.link \notin DOMAIN items'
      BY <2>3 DEF UndoStep
    <3>3. ASSUME NEW i \in DOMAIN items', Stored(items'[i].src)
          PROVE  emails[items'[i].src].item = i /\ items'[i].src # q.id
      BY <1>3, <3>1, <3>2, <3>3 DEF Drops, ItemsLinked, Linked, LinkKnown, Stored
    <3>4. QED
      BY <3>1, <3>2, <3>3 DEF ItemsLinked, Stored
  <2>4. CASE UnlinkStep(f, q)
    <3>1. p.pc = "unlink" /\ q.pc = "filed" /\ q.id = p.id
      BY <2>4 DEF UnlinkStep, Goes
    <3>2. UNCHANGED items /\ Relinks(q.id, None)
      BY <2>4 DEF UnlinkStep, SameItems
    <3>3. QED
      BY <1>3, <3>1, <3>2 DEF Relinks, ItemsLinked, Stored
  <2>5. CASE ExtractStep(f, q)
    <3>1. /\ UNCHANGED <<emails, items>> /\ q.pc \in {"idle", "insert", "update"}
          /\ p.pc = "extract"
      BY <2>5, IdleIsCall DEF ExtractStep, Goes, SameRows, SameItems
    <3>2. QED
      BY <1>3, <3>1 DEF ItemsLinked, Stored
  <2>6. CASE UpdateStep(f, q)
    <3>1. p.pc = "update" /\ q.pc = "filed" /\ UNCHANGED emails /\ Rewrites({q.link})
      BY <2>6 DEF UpdateStep, Goes
    <3>2. QED
      BY <1>3, <3>1 DEF Rewrites, ItemsLinked, Stored
  <2>7. CASE InsertStep(f, q)
    <3>1. /\ p.pc = "insert" /\ q.pc = "link" /\ q.id = p.id /\ q.link = nextItem
          /\ UNCHANGED emails /\ Adds(p.held)
      BY <2>7 DEF InsertStep, Goes
    <3>2. p.link = None /\ p.held.src = p.id
      BY <3>1 DEF Linked, Making
    <3>3. ASSUME NEW i \in DOMAIN items, Stored(items[i].src)
          PROVE  emails[items[i].src].item = i /\ items[i].src # p.id
      BY <1>3, <3>1, <3>2, <3>3, ItemIsSome DEF ItemsLinked, Linked, LinkKnown, Stored, Inv
    <3>4. ASSUME NEW i \in DOMAIN items', Stored(items'[i].src)
          PROVE  \/ items'[i].src = q.id /\ i = q.link
                 \/ emails[items'[i].src].item = i /\ items'[i].src # q.id
      BY <3>1, <3>2, <3>3, <3>4 DEF Adds
    <3>5. QED
      BY <3>1, <3>4 DEF ItemsLinked, Stored
  <2>8. CASE LinkStep(f, q)
    <3>1. p.pc = "link" /\ q.pc = "filed" /\ q.id = p.id /\ q.link = p.link
      BY <2>8 DEF LinkStep, Goes
    <3>2. UNCHANGED items /\ Relinks(q.id, q.link)
      BY <2>8 DEF LinkStep, SameItems
    <3>3. QED
      BY <1>3, <3>1, <3>2 DEF Relinks, ItemsLinked, Stored
  <2>9. QED
    BY <2>1, <2>2, <2>3, <2>4, <2>5, <2>6, <2>7, <2>8 DEF FilerStep
<1>4. QED
  BY <1>1, <1>2, <1>3 DEF Linked

LEMMA LinkedStep ==
  ASSUME Inv, Types, NEW f, Filers = {f}, crashes \in Nat, Linked(call[f]), [Next]_vars
  PROVE  (crashes \in Nat /\ Linked(call[f]))'
<1>1. PICK p : p = call[f]
  OBVIOUS
<1>2. ASSUME UNCHANGED crashes, NEW q, call'[f] = q, FilerStep(f, q)
      PROVE  (crashes \in Nat /\ Linked(call[f]))'
  <2>1. Linked(q)'
    BY <1>1, <1>2, LinkedFiler
  <2>2. QED
    BY <1>2, <2>1 DEF Linked, LinkKnown, Making, ItemsLinked
<1>3. ASSUME Quiet(f), NEW S, Elsewhere(S)
      PROVE  (crashes \in Nat /\ Linked(call[f]))'
  <2>1. CASE UNCHANGED crashes /\ call'[f] = call[f]
    <3>1. Linked(p)'
      BY <1>1, <1>3, <2>1, LinkedElsewhere DEF Inv
    <3>2. QED
      BY <1>1, <2>1, <3>1 DEF Linked, LinkKnown, Making, ItemsLinked
  <2>2. CASE crashes' = crashes + 1 /\ call'[f] = Idle
    <3>1. Linked(Idle)'
      BY <2>2, IdleLinked
    <3>2. QED
      BY <2>2, <3>1 DEF Linked, LinkKnown, Making, ItemsLinked
  <2>3. QED
    BY <1>3, <2>1, <2>2 DEF Quiet
<1>4. QED
  BY <1>2, <1>3, OneFiler

\* When one person files at a time and no crash parts an item from its link, a
\* stored mail leads to every todo made of it (api.rs:817-818).
THEOREM MadeItemsAreLinked == Spec => []MadeItemIsLinked
<1>1. CASE Cardinality(Filers) = 1 /\ IsFiniteSet(Filers)
  <2>1. PICK f : Filers = {f}
    BY <1>1, FS_Singleton
  <2>2. Init => crashes \in Nat /\ Linked(call[f])
    BY <2>1, LinkedInit
  <2>3. (Inv /\ Types) /\ (crashes \in Nat /\ Linked(call[f])) /\ [Next]_vars =>
          (crashes \in Nat /\ Linked(call[f]))'
    BY <2>1, LinkedStep
  <2>4. Linked(call[f]) => MadeItemIsLinked
    <3>1. PICK p : p = call[f]
      OBVIOUS
    <3>2. SUFFICES ASSUME Linked(p), crashes = 0, NEW i \in DOMAIN items, Stored(items[i].src),
                          ~Filing(items[i].src)
                   PROVE  emails[items[i].src].item = i
      BY <3>1 DEF MadeItemIsLinked, Stored
    <3>3. p.pc = "link" => items[i].src # p.id
      BY <2>1, <3>1, <3>2 DEF Filing
    <3>4. QED
      BY <3>2, <3>3 DEF Linked, ItemsLinked
  <2>5. QED
    BY <2>2, <2>3, <2>4, TypesHold, PTL DEF Spec
<1>2. CASE Cardinality(Filers) # 1
  <2>1. MadeItemIsLinked
    BY <1>2 DEF MadeItemIsLinked
  <2>2. QED
    BY <2>1, PTL
<1>3. QED
  BY <1>1, <1>2, RequestsAssumption

-----------------------------------------------------------------------------
(* Mails filed away, when one person files and one decides *)

\* A write under way makes no todo of what is none by now.
HeldKind(r) ==
  r.pc = "write" /\ approvals[r.id].tool = "update_item" =>
    LET i == approvals[r.id].id
    IN  i < nextItem /\ (i \in DOMAIN items /\ r.held.kind = "todo" => items[i].kind = "todo")

NoNewTodo == \A i \in DOMAIN items' \cap DOMAIN items : items'[i].kind = "todo" => items[i].kind = "todo"
TodosStay ==
  /\ nextItem' \in Nat /\ nextItem' >= nextItem
  /\ \A i \in DOMAIN items' : i \in DOMAIN items \/ i >= nextItem
  /\ \A i \in DOMAIN items' \cap DOMAIN items : items[i].kind = "todo" => items'[i].kind = "todo"

\* What an item is stays, or is what the decider holds.
Writes(d) ==
  LET a == approvals[call[d].id]
  IN  /\ call[d].pc = "write" /\ call'[d].pc # "write"
      /\ Elsewhere(IF a.tool = "update_item" THEN {a.id} ELSE {})
      /\ a.tool = "update_item" /\ a.id \in DOMAIN items =>
           items'[a.id].kind = call[d].held.kind

LEMMA OneEach ==
  ASSUME Inv, Types, NEW f, Filers = {f}, NEW d, Deciders = {d}, [Next]_vars
  PROVE  /\ AsksKept
         /\ \/ call'[d] = call[d] /\ \E q : call'[f] = q /\ FilerStep(f, q)
            \/ Quiet(f) /\ Elsewhere({}) /\ (call'[d] = call[d] \/ call'[d].pc # "write")
            \/ Quiet(f) /\ Elsewhere({}) /\ SameRows /\ CheckStep(d, call'[d])
            \/ Quiet(f) /\ Writes(d)
<1> DEFINE Away == Quiet(f) /\ Elsewhere({}) /\ (call'[d] = call[d] \/ call'[d].pc # "write")
<1>1. ASSUME NEW tool \in Tools, NEW id, NEW arg \in Args(tool), AgentAsks(tool, id, arg)
      PROVE  AsksKept /\ Away
  <2>1. SameRows /\ UNCHANGED <<call, filed, crashes>>
    BY <1>1 DEF AgentAsks, keepRows, keepHistory, keepBounds, SameRows, SameItems
  <2>2. AsksKept
    BY <1>1, AskArgs
  <2>3. QED
    BY <2>1, <2>2, SameElsewhere DEF Inv, Quiet
<1>2. ASSUME Approve(d)
      PROVE  /\ AsksKept
             /\ \/ Away
                \/ Quiet(f) /\ Elsewhere({}) /\ SameRows /\ CheckStep(d, call'[d])
                \/ Quiet(f) /\ Writes(d)
  <2>1. UNCHANGED crashes
    BY <1>2 DEF Approve, ApproveBegin, RejectBegin, ApproveCheck, ApproveWrite, ApproveEnd, keepBounds
  <2>2. PICK q : call' = [call EXCEPT ![d] = q] /\ (q.pc # "write" \/ CheckStep(d, q))
    BY <1>2, DeciderSteps
  <2>3. call'[f] = call[f] /\ call'[d] = q
    BY <2>2, RequestsAssumption DEF Inv, Shape
  <2>4. Quiet(f)
    BY <2>1, <2>3 DEF Quiet
  <2>5. AsksKept
    BY <1>2, ApproveAsks
  <2>6. CASE ApproveWrite(d)
    <3>1. call[d].pc = "write"
      BY <2>6 DEF ApproveWrite, Is
    <3>2. q.pc # "write"
      BY <2>2, <3>1 DEF CheckStep
    <3>3. Writes(d)
      BY <2>3, <2>6, <3>1, <3>2, WriteElsewhere DEF Writes
    <3>4. QED
      BY <2>4, <2>5, <3>3
  <2>7. CASE SameRows /\ UNCHANGED filed
    <3>1. Elsewhere({})
      BY <2>7, SameElsewhere DEF Inv
    <3>2. QED
      BY <2>2, <2>3, <2>4, <2>5, <2>7, <3>1
  <2>8. QED
    BY <1>2, <2>6, <2>7, ApproveRows
<1>3. ASSUME Reclassify(f)
      PROVE  AsksKept /\ call'[d] = call[d] /\ \E q : call'[f] = q /\ FilerStep(f, q)
  <2>1. PICK q : Filed(f, q) /\ FilerStep(f, q)
    BY <1>3, FilerSteps DEF Inv
  <2>2. call'[f] = q /\ call'[d] = call[d]
    BY <2>1, RequestsAssumption DEF Filed, Inv, Shape
  <2>3. UNCHANGED approvals
    BY <1>3, FilerAside DEF Inv, Aside
  <2>4. QED
    BY <2>1, <2>2, <2>3, SameArgs
<1>4. ASSUME Direct PROVE AsksKept /\ Away
  <2>1. UNCHANGED <<approvals, call, crashes>>
    BY <1>4 DEF Direct, CreateItem, ChangeStatuses, DeleteItems, CategorizeEmails, DeleteEmails,
                Operation
  <2>2. QED
    BY <1>4, <2>1, DirectElsewhere, SameArgs DEF Inv, Quiet
<1>5. ASSUME Crash PROVE AsksKept /\ Away
  <2>1. SameRows /\ UNCHANGED <<approvals, filed>>
    BY <1>5 DEF Crash, keepRows, keepHistory, SameRows, SameItems
  <2>2. call'[f] = Idle /\ call'[d] = Idle /\ crashes' = crashes + 1
    BY <1>5 DEF Crash, Inv, Shape
  <2>3. QED
    BY <2>1, <2>2, SameElsewhere, SameArgs, IdleIsCall DEF Inv, Quiet
<1>6. ASSUME UNCHANGED vars PROVE AsksKept /\ Away
  <2>1. SameRows /\ UNCHANGED <<approvals, filed, call, crashes>>
    BY <1>6 DEF vars, SameRows, SameItems
  <2>2. QED
    BY <2>1, SameElsewhere, SameArgs DEF Inv, Quiet
<1> HIDE DEF Away
<1>7. \/ AsksKept /\ Away
      \/ Approve(d)
      \/ Reclassify(f)
  BY <1>1, <1>4, <1>5, <1>6 DEF Next
<1>8. QED
  BY <1>2, <1>3, <1>7 DEF Away

LEMMA ElsewhereTodos ==
  ASSUME Shape, Elsewhere({})
  PROVE  NoNewTodo /\ TodosStay
BY DEF Elsewhere, NoNewTodo, TodosStay, Shape

LEMMA WritesTodos ==
  ASSUME NEW d, HeldKind(call[d]), Writes(d)
  PROVE  NoNewTodo
<1>1. PICK a : a = approvals[call[d].id]
  OBVIOUS
<1>2. PICK S : Elsewhere(S) /\ (S = IF a.tool = "update_item" THEN {a.id} ELSE {})
  BY <1>1 DEF Writes
<1>3. ASSUME NEW i \in DOMAIN items' \cap DOMAIN items, items'[i].kind = "todo"
      PROVE  items[i].kind = "todo"
  <2>1. CASE i \notin S
    BY <1>2, <1>3, <2>1 DEF Elsewhere
  <2>2. CASE i \in S
    <3>1. a.tool = "update_item" /\ i = a.id
      BY <1>2, <2>2
    <3>2. call[d].held.kind = "todo"
      BY <1>1, <1>3, <3>1 DEF Writes
    <3>3. QED
      BY <1>1, <3>1, <3>2 DEF HeldKind, Writes
  <2>3. QED
    BY <2>1, <2>2
<1>4. QED
  BY <1>3 DEF NoNewTodo

\* The filer makes todos, and takes whole items away.
LEMMA FilerTodos ==
  ASSUME Shape, NEW f, Making(call[f]), NEW q, FilerStep(f, q)
  PROVE  TodosStay
<1>1. CASE SameItems
  BY <1>1 DEF SameItems, TodosStay, Shape
<1>2. CASE UndoStep(f, q)
  BY <1>2 DEF UndoStep, Drops, TodosStay, Shape
<1>3. CASE UpdateStep(f, q)
  <2>1. call[f].held.kind = "todo"
    BY <1>3 DEF UpdateStep, Goes, Making
  <2>2. QED
    BY <1>3, <2>1 DEF UpdateStep, Rewrites, TodosStay, Shape
<1>4. CASE InsertStep(f, q)
  BY <1>4 DEF InsertStep, Adds, TodosStay, Shape
<1>5. QED
  BY <1>1, <1>2, <1>3, <1>4
     DEF FilerStep, BeginStep, WriteStep, UnlinkStep, ExtractStep, LinkStep, EndStep, SameRows

LEMMA HeldKindKept ==
  ASSUME Inv, NEW r, Decision(r), HeldKind(r), AsksKept, TodosStay
  PROVE  HeldKind(r)'
<1>1. SUFFICES ASSUME r.pc = "write", approvals'[r.id].tool = "update_item"
               PROVE  LET i == approvals'[r.id].id
                      IN  /\ i < nextItem'
                          /\ i \in DOMAIN items' /\ r.held.kind = "todo" => items'[i].kind = "todo"
  BY DEF HeldKind
<1>2. r.id \in DOMAIN approvals
  BY <1>1 DEF Decision
<1>3. PICK i : i = approvals[r.id].id
  OBVIOUS
<1>4. approvals'[r.id].id = i /\ approvals[r.id].tool = "update_item"
  BY <1>1, <1>2, <1>3 DEF AsksKept
<1>5. i < nextItem /\ (i \in DOMAIN items /\ r.held.kind = "todo" => items[i].kind = "todo")
  BY <1>1, <1>3, <1>4 DEF HeldKind
<1>6. i \in Nat /\ nextItem \in Nat
  <2>1. approvals[r.id] \in Asking
    BY <1>2 DEF Inv, Shape
  <2>2. QED
    BY <1>3, <2>1 DEF Asking, Inv, Shape
<1>7. i < nextItem'
  <2>1. nextItem' \in Nat
    BY DEF TodosStay
  <2>2. QED
    BY <1>5, <1>6, <2>1 DEF TodosStay
<1>8. i \in DOMAIN items' => i \in DOMAIN items
  BY <1>5, <1>6 DEF TodosStay
<1>9. QED
  BY <1>4, <1>5, <1>7, <1>8 DEF TodosStay

LEMMA HeldStep ==
  ASSUME Inv, Types, NEW f, Filers = {f}, NEW d, Deciders = {d}, Making(call[f]),
         HeldKind(call[d]), [Next]_vars
  PROVE  HeldKind(call[d])'
<1>1. PICK r : r = call[d]
  OBVIOUS
<1>2. PICK s : s = call'[d]
  OBVIOUS
<1>3. Decision(r)
  BY <1>1 DEF Inv
<1>4. AsksKept
  BY OneEach
<1>5. ASSUME s = r, TodosStay PROVE HeldKind(s)'
  BY <1>1, <1>3, <1>4, <1>5, HeldKindKept
<1>6. ASSUME s = r, \E q : call'[f] = q /\ FilerStep(f, q) PROVE HeldKind(s)'
  BY <1>5, <1>6, FilerTodos DEF Inv
<1>7. ASSUME Elsewhere({}), s = r PROVE HeldKind(s)'
  BY <1>5, <1>7, ElsewhereTodos DEF Inv
<1>8. ASSUME s.pc # "write" PROVE HeldKind(s)'
  BY <1>8 DEF HeldKind
<1>9. ASSUME SameRows, CheckStep(d, s) PROVE HeldKind(s)'
  <2>1. PICK a : a = approvals[s.id]
    OBVIOUS
  <2>2. s.id \in DOMAIN approvals /\ r.pc = "check"
    BY <1>1, <1>3, <1>9 DEF CheckStep, Decision
  <2>3. approvals'[s.id].tool = a.tool /\ approvals'[s.id].id = a.id
    BY <1>4, <2>1, <2>2 DEF AsksKept
  <2>4. ASSUME a.tool = "update_item"
        PROVE  a.id \in DOMAIN items /\ s.held.kind = items[a.id].kind
    BY <1>9, <2>1, <2>4 DEF CheckStep
  <2>5. UNCHANGED <<items, nextItem>>
    BY <1>9 DEF SameRows, SameItems
  <2>6. ASSUME a.tool = "update_item" PROVE a.id < nextItem
    BY <2>4, <2>6 DEF Inv, Shape
  <2>7. QED
    BY <2>3, <2>4, <2>5, <2>6 DEF HeldKind
<1>10. HeldKind(s)'
  BY <1>1, <1>2, <1>6, <1>7, <1>8, <1>9, OneEach DEF Writes
<1>11. QED
  BY <1>2, <1>10 DEF HeldKind

\* A mail has its link to itself, the one to be set and the one read included.
OwnLinks(p) ==
  /\ \A m, n \in DOMAIN emails :
       m # n /\ emails[m].item # None => emails[n].item # emails[m].item
  /\ p.pc = "link" => \A n \in DOMAIN emails : emails[n].item # p.link
  /\ p.pc \in {"file", "undo", "extract", "update", "insert"} /\ p.link # None =>
       \A n \in DOMAIN emails : n # p.id => emails[n].item # p.link

NoTodo(m) == \A i \in DOMAIN items : i = emails[m].item => items[i].kind # "todo"

FiledTo(p) ==
  /\ DOMAIN filed = Mails
  /\ p.pc # "idle" => filed[p.id] = None
  /\ \A m \in DOMAIN emails :
       filed[m] \notin {None, "core", "todo"} /\ ~(p.pc # "idle" /\ p.id = m) => NoTodo(m)
  /\ p.pc = "filed" /\ Stored(p.id) /\ ~MakesTodo(p.cat) => NoTodo(p.id)

LEMMA OwnLinksInit ==
  ASSUME NEW f, Filers = {f}, NEW d, Deciders = {d}, Init
  PROVE  OwnLinks(call[f]) /\ FiledTo(call[f]) /\ HeldKind(call[d])
<1>1. PICK with \in SUBSET Mails :
        emails = [m \in Mails |-> [cat |-> IF m \in with THEN "core" ELSE "misc",
                                   item |-> IF m \in with THEN m ELSE None]]
  BY DEF Init
<1>2. /\ call[f] = Idle /\ call[d] = Idle /\ filed = [m \in Mails |-> None]
      /\ DOMAIN emails = Mails
  BY <1>1 DEF Init
<1>3. \A m \in DOMAIN emails : emails[m].item = IF m \in with THEN m ELSE None
  BY <1>1
<1>4. \A m, n \in DOMAIN emails :
        m # n /\ emails[m].item # None => emails[n].item # emails[m].item
  BY <1>3
<1>5. QED
  BY <1>2, <1>4, IdleIsCall DEF OwnLinks, FiledTo, HeldKind

\* No link is the id of the next item.
LEMMA LinksAreOld ==
  ASSUME Inv, Types, NEW m \in DOMAIN emails
  PROVE  emails[m].item # nextItem
<1>1. emails[m].item \in Link
  BY DEF Types, EmailsTyped
<1>2. nextItem \in Nat
  BY DEF Inv, Shape
<1>3. nextItem # None
  BY <1>2, InferenceAssumption
<1>4. emails[m].item \in 1 .. nextItem - 1 => emails[m].item < nextItem
  BY <1>2
<1>5. QED
  BY <1>1, <1>2, <1>3, <1>4 DEF Link

\* A mail whose link stays, and whose item does not become a todo.
LEMMA NoTodoKept ==
  ASSUME Inv, Types, NEW m \in DOMAIN emails, NoTodo(m), m \in DOMAIN emails',
         emails'[m].item = emails[m].item, NEW S,
         \A i \in DOMAIN items' : i \in DOMAIN items \cup {nextItem},
         \A i \in DOMAIN items' \cap DOMAIN items :
           i \notin S /\ items'[i].kind = "todo" => items[i].kind = "todo",
         emails[m].item \notin S
  PROVE  NoTodo(m)'
<1>1. emails[m].item # nextItem
  BY LinksAreOld
<1>2. SUFFICES ASSUME NEW i \in DOMAIN items', i = emails'[m].item, items'[i].kind = "todo"
               PROVE  FALSE
  BY DEF NoTodo
<1>3. i \in DOMAIN items
  BY <1>1, <1>2
<1>4. QED
  BY <1>2, <1>3 DEF NoTodo

LEMMA AwayElsewhere ==
  ASSUME Inv, Types, NEW p, OwnLinks(p), FiledTo(p), NEW S, Elsewhere(S), NoNewTodo
  PROVE  (OwnLinks(p) /\ FiledTo(p))'
<1>1. OwnLinks(p)'
  BY DEF OwnLinks, Elsewhere
<1>2. ASSUME NEW m \in DOMAIN emails', NoTodo(m) PROVE NoTodo(m)'
  <2>1. m \in DOMAIN emails /\ emails'[m].item = emails[m].item
    BY DEF Elsewhere
  <2>2. \A i \in DOMAIN items' : i \in DOMAIN items \cup {nextItem}
    BY DEF Elsewhere
  <2>3. \A i \in DOMAIN items' \cap DOMAIN items :
          i \notin {} /\ items'[i].kind = "todo" => items[i].kind = "todo"
    BY DEF NoNewTodo
  <2>4. emails[m].item \notin {}
    OBVIOUS
  <2>5. QED
    BY <1>2, <2>1, <2>2, <2>3, <2>4, NoTodoKept
<1>3. UNCHANGED filed /\ DOMAIN emails' \subseteq DOMAIN emails
  BY DEF Elsewhere
<1>4. FiledTo(p)'
  <2>1. DOMAIN filed' = Mails /\ (p.pc # "idle" => filed'[p.id] = None)
    BY <1>3 DEF FiledTo
  <2>2. ASSUME NEW m \in DOMAIN emails', filed'[m] \notin {None, "core", "todo"},
               ~(p.pc # "idle" /\ p.id = m)
        PROVE  NoTodo(m)'
    BY <1>2, <1>3, <2>2 DEF FiledTo
  <2>3. ASSUME p.pc = "filed", p.id \in DOMAIN emails', ~MakesTodo(p.cat)
        PROVE  NoTodo(p.id)'
    BY <1>2, <1>3, <2>3 DEF FiledTo, Stored
  <2>4. QED
    BY <2>1, <2>2, <2>3 DEF FiledTo, Stored
<1>5. QED
  BY <1>1, <1>4

\* The end of a request leaves the mail unfiled.
LEMMA AwayIdle ==
  ASSUME NEW p, (OwnLinks(p) /\ FiledTo(p))'
  PROVE  (OwnLinks(Idle) /\ FiledTo(Idle))'
<1>1. OwnLinks(Idle)'
  BY IdleIsCall DEF OwnLinks
<1>2. ASSUME NEW m \in DOMAIN emails', filed'[m] \notin {None, "core", "todo"}
      PROVE  NoTodo(m)'
  BY <1>2 DEF FiledTo
<1>3. FiledTo(Idle)'
  BY <1>2, IdleIsCall DEF FiledTo
<1>4. QED
  BY <1>1, <1>3

LEMMA OwnLinksFiler ==
  ASSUME Inv, Types, NEW f, NEW p, p = call[f], OwnLinks(p), NEW q, FilerStep(f, q)
  PROVE  OwnLinks(q)'
<1>1. CASE BeginStep(f, q)
  BY <1>1 DEF BeginStep, SameRows, OwnLinks
<1>2. CASE WriteStep(f, q)
  BY <1>2 DEF WriteStep, Goes, SameLinks, OwnLinks
<1>3. CASE UndoStep(f, q) \/ UpdateStep(f, q) \/ EndStep(f, q)
  <2>1. UNCHANGED emails /\ q.pc \in {"unlink", "filed", "idle"}
    BY <1>3, IdleIsCall DEF UndoStep, UpdateStep, EndStep, Goes, SameRows
  <2>2. QED
    BY <2>1 DEF OwnLinks
<1>4. CASE UnlinkStep(f, q)
  <2>1. q.pc = "filed" /\ Relinks(q.id, None)
    BY <1>4 DEF UnlinkStep, Goes
  <2>2. QED
    BY <2>1 DEF Relinks, OwnLinks
<1>5. CASE ExtractStep(f, q)
  BY <1>5, IdleIsCall DEF ExtractStep, Goes, SameRows, OwnLinks
<1>6. CASE InsertStep(f, q)
  <2>1. q.pc = "link" /\ q.link = nextItem /\ UNCHANGED emails
    BY <1>6 DEF InsertStep, Goes
  <2>2. QED
    BY <2>1, LinksAreOld DEF OwnLinks
<1>7. CASE LinkStep(f, q)
  <2>1. q.pc = "filed" /\ Relinks(q.id, q.link) /\ p.pc = "link" /\ q.link = p.link
    BY <1>7 DEF LinkStep, Goes
  <2>2. \A n \in DOMAIN emails : emails[n].item # q.link
    BY <2>1 DEF OwnLinks
  <2>3. QED
    BY <2>1, <2>2 DEF Relinks, OwnLinks
<1>8. QED
  BY <1>1, <1>2, <1>3, <1>4, <1>5, <1>6, <1>7 DEF FilerStep

\* A request goes on, and of the other mails' items none becomes a todo.
LEMMA FiledToGoes ==
  ASSUME Inv, Types, NEW p, NEW q, FiledTo(p), p.pc # "idle", q.pc # "idle", q.id = p.id,
         UNCHANGED filed, DOMAIN emails' = DOMAIN emails, NEW S,
         \A m \in DOMAIN emails : m # p.id =>
           emails'[m].item = emails[m].item /\ emails[m].item \notin S,
         \A i \in DOMAIN items' : i \in DOMAIN items \cup {nextItem},
         \A i \in DOMAIN items' \cap DOMAIN items :
           i \notin S /\ items'[i].kind = "todo" => items[i].kind = "todo",
         q.pc = "filed" /\ Stored(q.id) /\ ~MakesTodo(q.cat) => NoTodo(q.id)'
  PROVE  FiledTo(q)'
<1>1. DOMAIN filed' = Mails /\ filed'[q.id] = None
  BY DEF FiledTo
<1>2. ASSUME NEW m \in DOMAIN emails', filed'[m] \notin {None, "core", "todo"}, q.id # m
      PROVE  NoTodo(m)'
  <2>1. m \in DOMAIN emails /\ NoTodo(m) /\ m # p.id
    BY <1>2 DEF FiledTo
  <2>2. QED
    BY <2>1, NoTodoKept
<1>3. q.pc = "filed" /\ q.id \in DOMAIN emails' /\ ~MakesTodo(q.cat) => NoTodo(q.id)'
  BY DEF Stored
<1>4. QED
  BY <1>1, <1>2, <1>3 DEF FiledTo, Stored

\* The step makes no item a todo.
LEMMA FiledToPlain ==
  ASSUME Inv, Types, NEW p, NEW q, FiledTo(p), p.pc # "idle", q.pc # "idle", q.id = p.id,
         UNCHANGED filed, DOMAIN emails' = DOMAIN emails, NoNewTodo,
         \A m \in DOMAIN emails : m # p.id => emails'[m].item = emails[m].item,
         \A i \in DOMAIN items' : i \in DOMAIN items \cup {nextItem},
         q.pc = "filed" /\ Stored(q.id) /\ ~MakesTodo(q.cat) => NoTodo(q.id)'
  PROVE  FiledTo(q)'
<1>1. PICK S : S = {}
  OBVIOUS
<1>2. \A m \in DOMAIN emails : m # p.id =>
        emails'[m].item = emails[m].item /\ emails[m].item \notin S
  BY <1>1
<1>3. \A i \in DOMAIN items' \cap DOMAIN items :
        i \notin S /\ items'[i].kind = "todo" => items[i].kind = "todo"
  BY DEF NoNewTodo
<1>4. QED
  BY <1>2, <1>3, FiledToGoes

LEMMA FiledToFiler ==
  ASSUME Inv, Types, NEW f \in Filers, NEW p, p = call[f], Linked(p), OwnLinks(p), FiledTo(p),
         NEW q, FilerStep(f, q)
  PROVE  FiledTo(q)'
<1>1. CASE BeginStep(f, q)
  <2>1. /\ p.pc = "idle" /\ q.pc = "file" /\ q.id \in Mails
        /\ filed' = [filed EXCEPT ![q.id] = None] /\ UNCHANGED <<emails, items>>
    BY <1>1 DEF BeginStep, SameRows, SameItems, Inv, Shape
  <2>2. DOMAIN filed' = Mails /\ filed'[q.id] = None
    BY <2>1 DEF FiledTo
  <2>3. ASSUME NEW m \in DOMAIN emails, filed'[m] \notin {None, "core", "todo"}, q.id # m
        PROVE  NoTodo(m)
    BY <2>1, <2>3 DEF FiledTo, Inv, Shape
  <2>4. QED
    BY <2>1, <2>2, <2>3 DEF FiledTo, NoTodo
<1>2. CASE WriteStep(f, q)
  <2>1. /\ p.pc = "file" /\ q.pc # "idle" /\ q.id = p.id /\ q.link = p.link
        /\ SameLinks /\ UNCHANGED <<items, nextItem, filed>>
    BY <1>2 DEF WriteStep, Goes, SameItems
  <2>2. ASSUME q.pc = "filed", Stored(q.id) PROVE NoTodo(q.id)'
    <3>1. ~(q.link \in DOMAIN items /\ items[q.link].kind = "todo")
      BY <1>2, <2>2 DEF WriteStep, Goes
    <3>2. emails'[q.id].item = q.link
      BY <2>1, <2>2 DEF Linked, LinkKnown, SameLinks, Stored
    <3>3. QED
      BY <2>1, <3>1, <3>2 DEF NoTodo
  <2>3. NoNewTodo /\ \A i \in DOMAIN items' : i \in DOMAIN items \cup {nextItem}
    BY <2>1 DEF NoNewTodo
  <2>4. \A m \in DOMAIN emails : emails'[m].item = emails[m].item
    BY <2>1 DEF SameLinks
  <2>5. DOMAIN emails' = DOMAIN emails
    BY <2>1 DEF SameLinks
  <2>6. QED
    BY <2>1, <2>2, <2>3, <2>4, <2>5, FiledToPlain
<1>3. CASE UndoStep(f, q)
  <2>1. /\ p.pc = "undo" /\ q.pc = "unlink" /\ q.id = p.id
        /\ Drops /\ UNCHANGED <<emails, filed>>
    BY <1>3 DEF UndoStep, Goes
  <2>2. NoNewTodo /\ \A i \in DOMAIN items' : i \in DOMAIN items \cup {nextItem}
    BY <2>1 DEF Drops, NoNewTodo
  <2>3. \A m \in DOMAIN emails : emails'[m].item = emails[m].item
    BY <2>1
  <2>4. QED
    BY <2>1, <2>2, <2>3, FiledToPlain
<1>4. CASE UnlinkStep(f, q)
  <2>1. /\ p.pc = "unlink" /\ q.pc = "filed" /\ q.id = p.id
        /\ Relinks(q.id, None) /\ UNCHANGED <<items, nextItem, filed>>
    BY <1>4 DEF UnlinkStep, Goes, SameItems
  <2>2. ASSUME Stored(q.id) PROVE NoTodo(q.id)'
    <3>1. emails'[q.id].item = None
      BY <2>1, <2>2 DEF Relinks, Stored
    <3>2. QED
      BY <2>1, <3>1, ItemIsSome DEF NoTodo, Inv
  <2>3. /\ DOMAIN emails' = DOMAIN emails
        /\ \A m \in DOMAIN emails : m # p.id => emails'[m].item = emails[m].item
    BY <2>1 DEF Relinks
  <2>4. NoNewTodo /\ \A i \in DOMAIN items' : i \in DOMAIN items \cup {nextItem}
    BY <2>1 DEF NoNewTodo
  <2>5. QED
    BY <2>1, <2>2, <2>3, <2>4, FiledToPlain
<1>5. CASE ExtractStep(f, q)
  <2>1. p.pc = "extract" /\ UNCHANGED <<emails, items, nextItem, filed>>
    BY <1>5 DEF ExtractStep, SameRows, SameItems
  <2>2. CASE q = Idle
    <3>1. ASSUME NEW m \in DOMAIN emails, filed[m] \notin {None, "core", "todo"}
          PROVE  NoTodo(m)
      BY <2>1, <3>1 DEF FiledTo
    <3>2. QED
      BY <2>1, <2>2, <3>1, IdleIsCall DEF FiledTo, NoTodo
  <2>3. CASE q # Idle
    <3>1. q.pc \in {"insert", "update"} /\ q.id = p.id
      BY <1>5, <2>3 DEF ExtractStep, Goes
    <3>2. \A m \in DOMAIN emails : emails'[m].item = emails[m].item
      BY <2>1
    <3>3. NoNewTodo /\ \A i \in DOMAIN items' : i \in DOMAIN items \cup {nextItem}
      BY <2>1 DEF NoNewTodo
    <3>4. QED
      BY <2>1, <3>1, <3>2, <3>3, FiledToPlain
  <2>4. QED
    BY <2>2, <2>3
<1>6. CASE UpdateStep(f, q)
  <2>1. /\ p.pc = "update" /\ q.pc = "filed" /\ q.id = p.id /\ q.link = p.link /\ q.cat = p.cat
        /\ Rewrites({q.link}) /\ UNCHANGED <<emails, filed>>
    BY <1>6 DEF UpdateStep, Goes
  <2>2. MakesTodo(q.cat) /\ p.link # None
    BY <2>1 DEF Linked, Making
  <2>3. \A m \in DOMAIN emails : m # p.id =>
          emails'[m].item = emails[m].item /\ emails[m].item \notin {q.link}
    BY <2>1, <2>2 DEF OwnLinks
  <2>4. /\ \A i \in DOMAIN items' : i \in DOMAIN items \cup {nextItem}
        /\ \A i \in DOMAIN items' \cap DOMAIN items :
             i \notin {q.link} /\ items'[i].kind = "todo" => items[i].kind = "todo"
    BY <2>1 DEF Rewrites
  <2>5. QED
    BY <2>1, <2>2, <2>3, <2>4, FiledToGoes
<1>7. CASE InsertStep(f, q)
  <2>1. /\ p.pc = "insert" /\ q.pc = "link" /\ q.id = p.id
        /\ Adds(p.held) /\ UNCHANGED <<emails, filed>>
    BY <1>7 DEF InsertStep, Goes
  <2>2. NoNewTodo /\ \A i \in DOMAIN items' : i \in DOMAIN items \cup {nextItem}
    BY <2>1 DEF Adds, NoNewTodo
  <2>3. \A m \in DOMAIN emails : emails'[m].item = emails[m].item
    BY <2>1
  <2>4. QED
    BY <2>1, <2>2, <2>3, FiledToPlain
<1>8. CASE LinkStep(f, q)
  <2>1. /\ p.pc = "link" /\ q.pc = "filed" /\ q.id = p.id /\ q.cat = p.cat
        /\ Relinks(q.id, q.link) /\ UNCHANGED <<items, nextItem, filed>>
    BY <1>8 DEF LinkStep, Goes, SameItems
  <2>2. MakesTodo(q.cat)
    BY <2>1 DEF Linked, Making
  <2>3. /\ DOMAIN emails' = DOMAIN emails
        /\ \A m \in DOMAIN emails : m # p.id => emails'[m].item = emails[m].item
    BY <2>1 DEF Relinks
  <2>4. NoNewTodo /\ \A i \in DOMAIN items' : i \in DOMAIN items \cup {nextItem}
    BY <2>1 DEF NoNewTodo
  <2>5. QED
    BY <2>1, <2>2, <2>3, <2>4, FiledToPlain
<1>9. CASE EndStep(f, q)
  <2>1. /\ p.pc = "filed" /\ q = Idle /\ filed' = [filed EXCEPT ![p.id] = p.cat]
        /\ UNCHANGED <<emails, items>>
    BY <1>9 DEF EndStep, SameRows, SameItems
  <2>2. p.id \in Mails
    BY <2>1 DEF Types, FilerTyped
  <2>3. DOMAIN filed' = Mails /\ filed'[p.id] = p.cat
    BY <2>1, <2>2 DEF FiledTo
  <2>4. ASSUME NEW m \in DOMAIN emails, filed'[m] \notin {None, "core", "todo"}
        PROVE  NoTodo(m)
    <3>1. CASE m = p.id
      <4>1. ~MakesTodo(p.cat)
        BY <2>3, <2>4, <3>1 DEF MakesTodo, CreatesItem, KindIsTodo
      <4>2. QED
        BY <2>1, <3>1, <4>1 DEF FiledTo, Stored
    <3>2. CASE m # p.id
      <4>1. filed'[m] = filed[m]
        BY <2>1, <3>2 DEF FiledTo, Inv, Shape
      <4>2. QED
        BY <2>4, <3>2, <4>1 DEF FiledTo
    <3>3. QED
      BY <3>1, <3>2
  <2>5. QED
    BY <2>1, <2>3, <2>4, IdleIsCall DEF FiledTo, NoTodo
<1>10. QED
  BY <1>1, <1>2, <1>3, <1>4, <1>5, <1>6, <1>7, <1>8, <1>9 DEF FilerStep

LEMMA AwayStep ==
  ASSUME Inv, Types, NEW f, Filers = {f}, NEW d, Deciders = {d}, Linked(call[f]),
         HeldKind(call[d]), OwnLinks(call[f]), FiledTo(call[f]), [Next]_vars
  PROVE  (HeldKind(call[d]) /\ OwnLinks(call[f]) /\ FiledTo(call[f]))'
<1>1. PICK p : p = call[f]
  OBVIOUS
<1>2. HeldKind(call[d])'
  BY HeldStep DEF Linked
<1>3. ASSUME NEW q, call'[f] = q, FilerStep(f, q)
      PROVE  (OwnLinks(call[f]) /\ FiledTo(call[f]))'
  <2>1. OwnLinks(q)' /\ FiledTo(q)'
    BY <1>1, <1>3, OwnLinksFiler, FiledToFiler
  <2>2. QED
    BY <1>3, <2>1 DEF OwnLinks, FiledTo
<1>4. ASSUME Quiet(f), NEW S, Elsewhere(S), NoNewTodo
      PROVE  (OwnLinks(call[f]) /\ FiledTo(call[f]))'
  <2>1. (OwnLinks(p) /\ FiledTo(p))'
    BY <1>1, <1>4, AwayElsewhere
  <2>2. (OwnLinks(Idle) /\ FiledTo(Idle))'
    BY <2>1, AwayIdle
  <2>3. call'[f] = p \/ call'[f] = Idle
    BY <1>1, <1>4 DEF Quiet
  <2>4. QED
    BY <2>1, <2>2, <2>3 DEF OwnLinks, FiledTo
<1>5. (OwnLinks(call[f]) /\ FiledTo(call[f]))'
  <2>1. CASE Quiet(f) /\ Elsewhere({})
    BY <1>4, <2>1, ElsewhereTodos DEF Inv
  <2>2. CASE Quiet(f) /\ Writes(d)
    <3>1. NoNewTodo
      BY <2>2, WritesTodos
    <3>2. \E S : Elsewhere(S)
      BY <2>2 DEF Writes
    <3>3. QED
      BY <1>4, <2>2, <3>1, <3>2
  <2>3. QED
    BY <1>3, <2>1, <2>2, OneEach
<1>6. QED
  BY <1>2, <1>5

\* When one person files and one decides at a time, a mail filed under a
\* category without todos has none left (api.rs:740-749), crashes included.
THEOREM FiledAwayHasNoTodo == Spec => []FiledAway
<1>1. CASE /\ Cardinality(Filers) = 1 /\ IsFiniteSet(Filers)
           /\ Cardinality(Deciders) = 1 /\ IsFiniteSet(Deciders)
  <2>1. PICK f : Filers = {f}
    BY <1>1, FS_Singleton
  <2>2. PICK d : Deciders = {d}
    BY <1>1, FS_Singleton
  <2> DEFINE L == crashes \in Nat /\ Linked(call[f])
             A == HeldKind(call[d]) /\ OwnLinks(call[f]) /\ FiledTo(call[f])
  <2>3. Init => L /\ A
    BY <2>1, <2>2, LinkedInit, OwnLinksInit
  <2>4. (Inv /\ Types) /\ (L /\ A) /\ [Next]_vars => L'
    BY <2>1, LinkedStep
  <2>5. (Inv /\ Types) /\ (L /\ A) /\ [Next]_vars => A'
    BY <2>1, <2>2, AwayStep
  <2>6. A => FiledAway
    <3>1. PICK p : p = call[f]
      OBVIOUS
    <3>2. SUFFICES ASSUME FiledTo(p), NEW m \in DOMAIN emails, filed[m] \notin {None, "core", "todo"},
                          ~Filing(m)
                   PROVE  NoTodo(m)
      BY <3>1 DEF FiledAway, NoTodo
    <3>3. ~(p.pc # "idle" /\ p.id = m)
      BY <2>1, <3>1, <3>2 DEF Filing
    <3>4. QED
      BY <3>2, <3>3 DEF FiledTo
  <2> HIDE DEF L, A
  <2>7. QED
    BY <2>3, <2>4, <2>5, <2>6, TypesHold, PTL DEF Spec
<1>2. CASE Cardinality(Filers) # 1 \/ Cardinality(Deciders) # 1
  <2>1. FiledAway
    BY <1>2 DEF FiledAway
  <2>2. QED
    BY <2>1, PTL
<1>3. QED
  BY <1>1, <1>2, RequestsAssumption
=============================================================================
