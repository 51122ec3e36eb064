--------------------------- MODULE PipelineProofs ---------------------------
(***************************************************************************)
(* What the mail pipeline makes of a mail, for any mails, models' answers,  *)
(* errors, ends of the process and user operations: at most one item for a  *)
(* mail, no todo for a promotion, a mark on every todo without a deadline,  *)
(* each for any number of fetches at once; and, for one fetch at a time, a  *)
(* link that leads to an item.                                              *)
(***************************************************************************)
EXTENDS IntakeProofs, RuleProofs

-----------------------------------------------------------------------------
(* Types *)

Linking == {"toolLink", "link"}                      \* an item is made, not linked
Merging == {"mergeLink", "mergeDrop", "done"}        \* the link may have moved on
Moving  == {"link"} \cup Merging                     \* or is about to move
Holding == {"insert", "fillWrite", "mergeWrite"}     \* a row is about to be written
Into    == {"mergeWrite", "mergeLink", "mergeDrop"}  \* a target has been picked
Unjudged == {"idle", "fetch", "next", "reply", "agent", "toolLink"}

\* The fields of a call, as far as its step uses them.
CallTyped(c) ==
  /\ DOMAIN c.todo \subseteq 1 .. nextUid - 1
  /\ \A u \in DOMAIN c.todo : c.todo[u] \in Mails
  /\ Busy(c.pc) => DOMAIN c.todo # {} /\ c.row \in 1 .. nextRow - 1
  /\ c.pc \notin Unjudged => c.cat \in Categories
  /\ c.pc \in Holding => c.held \in Row
  /\ c.pc \in Linking \cup {"fillWrite"} => c.made \in 1 .. nextItem - 1
  /\ c.pc \in Into => c.made.keep \in 1 .. nextItem - 1

\* A todo without a deadline carries its mark.
Marked(row) == row.kind = "todo" /\ row.deadline = None => row.review

\* What is about to be written has its mark, and an item about to be made its
\* source.
HeldRight(c) ==
  /\ c.pc \in Holding => Marked(c.held)
  /\ c.pc = "insert" => c.held.src = c.row

Link == {None} \cup 1 .. nextItem - 1

TypeInv ==
  /\ nextItem \in Nat \ {0}
  /\ DOMAIN items \subseteq 1 .. nextItem - 1
  /\ \A i \in DOMAIN items : items[i] \in Row
  /\ strays \subseteq 1 .. nextItem - 1
  /\ nextUid <= MaxUid + 1
  /\ \A u \in DOMAIN box : box[u] \in Mails
  /\ \A r \in DOMAIN emails :
       emails[r].mail \in Mails /\ emails[r].cat \in Categories \cup {None}
         /\ emails[r].item \in Link
  /\ \A f \in Fetchers : CallTyped(fetcher[f]) /\ HeldRight(fetcher[f])

Sound == IntakeInv /\ TypeInv

-----------------------------------------------------------------------------
(* What a step does to its call *)

Sets(c, d, pc, cat, made, held) ==
  d.pc = pc /\ d.row = c.row /\ d.cat = cat /\ d.made = made /\ d.held = held

LEMMA GotoSets ==
  ASSUME Shape, NEW f \in Fetchers, NEW pc,
         fetcher' = [fetcher EXCEPT ![f].pc = pc]
  PROVE  Sets(fetcher[f], fetcher'[f], pc, fetcher[f].cat, fetcher[f].made, fetcher[f].held)
<1>1. PICK c : c = fetcher[f]
  OBVIOUS
<1>2. PICK d : d = [c EXCEPT !.pc = pc]
  OBVIOUS
<1>3. fetcher'[f] = d
  BY <1>1, <1>2 DEF Shape
<1>4. IsCall(c)
  BY <1>1 DEF Shape
<1>5. Sets(c, d, pc, c.cat, c.made, c.held)
  BY <1>2, <1>4 DEF IsCall, Sets
<1>6. QED
  BY <1>1, <1>3, <1>5

LEMMA MadeSets ==
  ASSUME Shape, NEW f \in Fetchers, NEW pc, NEW i,
         fetcher' = [fetcher EXCEPT ![f].pc = pc, ![f].made = i]
  PROVE  Sets(fetcher[f], fetcher'[f], pc, fetcher[f].cat, i, fetcher[f].held)
<1>1. PICK c : c = fetcher[f]
  OBVIOUS
<1>2. PICK d : d = [c EXCEPT !.pc = pc, !.made = i]
  OBVIOUS
<1>3. fetcher'[f] = d
  BY <1>1, <1>2 DEF Shape
<1>4. IsCall(c)
  BY <1>1 DEF Shape
<1>5. Sets(c, d, pc, c.cat, i, c.held)
  BY <1>2, <1>4 DEF IsCall, Sets
<1>6. QED
  BY <1>1, <1>3, <1>5

LEMMA HeldSets ==
  ASSUME Shape, NEW f \in Fetchers, NEW pc, NEW h,
         fetcher' = [fetcher EXCEPT ![f].pc = pc, ![f].held = h]
  PROVE  Sets(fetcher[f], fetcher'[f], pc, fetcher[f].cat, fetcher[f].made, h)
<1>1. PICK c : c = fetcher[f]
  OBVIOUS
<1>2. PICK d : d = [c EXCEPT !.pc = pc, !.held = h]
  OBVIOUS
<1>3. fetcher'[f] = d
  BY <1>1, <1>2 DEF Shape
<1>4. IsCall(c)
  BY <1>1 DEF Shape
<1>5. Sets(c, d, pc, c.cat, c.made, h)
  BY <1>2, <1>4 DEF IsCall, Sets
<1>6. QED
  BY <1>1, <1>3, <1>5

LEMMA BothSets ==
  ASSUME Shape, NEW f \in Fetchers, NEW pc, NEW i, NEW h,
         fetcher' = [fetcher EXCEPT ![f].pc = pc, ![f].made = i, ![f].held = h]
  PROVE  Sets(fetcher[f], fetcher'[f], pc, fetcher[f].cat, i, h)
<1>1. PICK c : c = fetcher[f]
  OBVIOUS
<1>2. PICK d : d = [c EXCEPT !.pc = pc, !.made = i, !.held = h]
  OBVIOUS
<1>3. fetcher'[f] = d
  BY <1>1, <1>2 DEF Shape
<1>4. IsCall(c)
  BY <1>1 DEF Shape
<1>5. Sets(c, d, pc, c.cat, i, h)
  BY <1>2, <1>4 DEF IsCall, Sets
<1>6. QED
  BY <1>1, <1>3, <1>5

LEMMA RoundSets ==
  ASSUME Shape, NEW f \in Fetchers, NEW pc, NEW i, NEW n,
         fetcher' = [fetcher EXCEPT ![f].pc = pc, ![f].made = i, ![f].round = n]
  PROVE  Sets(fetcher[f], fetcher'[f], pc, fetcher[f].cat, i, fetcher[f].held)
<1>1. PICK c : c = fetcher[f]
  OBVIOUS
<1>2. PICK d : d = [c EXCEPT !.pc = pc, !.made = i, !.round = n]
  OBVIOUS
<1>3. fetcher'[f] = d
  BY <1>1, <1>2 DEF Shape
<1>4. IsCall(c)
  BY <1>1 DEF Shape
<1>5. Sets(c, d, pc, c.cat, i, c.held)
  BY <1>2, <1>4 DEF IsCall, Sets
<1>6. QED
  BY <1>1, <1>3, <1>5

LEMMA CatSets ==
  ASSUME Shape, NEW f \in Fetchers, NEW pc, NEW cat,
         fetcher' = [fetcher EXCEPT ![f].pc = pc, ![f].cat = cat]
  PROVE  Sets(fetcher[f], fetcher'[f], pc, cat, fetcher[f].made, fetcher[f].held)
<1>1. PICK c : c = fetcher[f]
  OBVIOUS
<1>2. PICK d : d = [c EXCEPT !.pc = pc, !.cat = cat]
  OBVIOUS
<1>3. fetcher'[f] = d
  BY <1>1, <1>2 DEF Shape
<1>4. IsCall(c)
  BY <1>1 DEF Shape
<1>5. Sets(c, d, pc, cat, c.made, c.held)
  BY <1>2, <1>4 DEF IsCall, Sets
<1>6. QED
  BY <1>1, <1>3, <1>5

LEMMA AnswerSets ==
  ASSUME Shape, NEW f \in Fetchers, NEW pc, NEW cat, NEW b,
         fetcher' = [fetcher EXCEPT ![f].pc = pc, ![f].cat = cat, ![f].given = b]
  PROVE  Sets(fetcher[f], fetcher'[f], pc, cat, fetcher[f].made, fetcher[f].held)
<1>1. PICK c : c = fetcher[f]
  OBVIOUS
<1>2. PICK d : d = [c EXCEPT !.pc = pc, !.cat = cat, !.given = b]
  OBVIOUS
<1>3. fetcher'[f] = d
  BY <1>1, <1>2 DEF Shape
<1>4. IsCall(c)
  BY <1>1 DEF Shape
<1>5. Sets(c, d, pc, cat, c.made, c.held)
  BY <1>2, <1>4 DEF IsCall, Sets
<1>6. QED
  BY <1>1, <1>3, <1>5

-----------------------------------------------------------------------------
(* What a step does to the rows *)

\* The items of a row, but for those an error has lost sight of.
Own(r)   == {i \in DOMAIN items : items[i].src = r} \ strays
Known(r) == r \in DOMAIN emails

SameLinks == \A r \in DOMAIN emails : emails'[r].item = emails[r].item
Relinks(r, i) ==
  \A q \in DOMAIN emails : emails'[q].item = IF q = r THEN i ELSE emails[q].item

\* More items may be lost sight of, and none is found again.
Loses == strays \subseteq strays' /\ strays' \subseteq 1 .. nextItem - 1

Rest3 == UNCHANGED <<items, nextItem, binned>> /\ Loses

\* Items go or change, but none loses its source or its mark.
Fewer ==
  /\ nextItem' = nextItem /\ Loses
  /\ DOMAIN items' \subseteq DOMAIN items
  /\ \A i \in DOMAIN items' :
       /\ items'[i] \in Row /\ items'[i].src = items[i].src
       /\ Marked(items[i]) => Marked(items'[i])

\* An item is still there, or known to have been deleted.
Alive(i) == i \in DOMAIN items \cup binned
Kept(i) == Alive(i) => i \in DOMAIN items' \cup binned'

Makes(row) == Insert(row) /\ row \in Row /\ UNCHANGED binned /\ Loses

\* The step goes on with the mail in hand.
Turn(f, from, to) ==
  /\ Handles(f) /\ UNCHANGED finished
  /\ fetcher[f].pc = from /\ fetcher'[f].pc = to
  /\ fetcher'[f].row = fetcher[f].row
  /\ \A r \in DOMAIN emails : emails'[r].cat \in Categories \cup {None}

-----------------------------------------------------------------------------
(* The steps on a mail, one by one *)

ReplyTurn(f) ==
  Turn(f, "reply", "agent") /\ SameLinks /\ Fewer /\ \A i : Kept(i)

CreateTurn(f) ==
  /\ Turn(f, "agent", "toolLink") /\ SameLinks
  /\ Linked(fetcher[f].row) \notin DOMAIN items \ strays'
  /\ \E row : Makes(row) /\ row.src = fetcher[f].row
  /\ fetcher'[f].made = nextItem

AgentLinksTurn(f) ==
  /\ Turn(f, "toolLink", "agent") /\ Rest3
  /\ \/ Relinks(fetcher[f].row, fetcher[f].made)
     \/ SameLinks /\ fetcher[f].made \in strays'

AgentEndsTurn(f) ==
  Turn(f, "agent", "feedback") /\ SameLinks /\ Rest3 /\ fetcher'[f].cat \in Categories

FeedbackTurn(f) ==
  /\ Turn(f, "feedback", "unfeed") \/ Turn(f, "feedback", "promo")
  /\ SameLinks /\ Rest3 /\ fetcher'[f].cat \in Categories

UnfeedTurn(f) ==
  /\ Turn(f, "unfeed", "promo") /\ SameLinks /\ Fewer /\ \A i : Kept(i)
  /\ fetcher'[f].cat = fetcher[f].cat

PromoTurn(f) ==
  /\ \/ Turn(f, "promo", "unpromo") /\ fetcher'[f].cat = "career_promo"
     \/ Turn(f, "promo", "file") /\ ~IsPromo(This(f)) /\ fetcher'[f].cat = fetcher[f].cat
  /\ SameLinks /\ Rest3

UnpromoTurn(f) ==
  /\ \/ /\ Turn(f, "unpromo", "unlink") /\ Fewer /\ \A i : Kept(i)
        /\ Linked(fetcher[f].row) \notin DOMAIN items' \ strays'
     \/ /\ Turn(f, "unpromo", "file") /\ Rest3
        /\ Linked(fetcher[f].row) \in {None} \cup strays'
  /\ SameLinks /\ fetcher'[f].cat = fetcher[f].cat

UnlinkTurn(f) ==
  /\ Turn(f, "unlink", "file") /\ Rest3
  /\ Relinks(fetcher[f].row, None) \/ SameLinks
  /\ fetcher'[f].cat = fetcher[f].cat

FileTurn(f) ==
  /\ \/ Turn(f, "file", "fill") /\ Linked(fetcher[f].row) # None
     \/ /\ Turn(f, "file", "extract") /\ Linked(fetcher[f].row) = None
        /\ KindIsTodo(fetcher[f].cat)
     \/ Turn(f, "file", "done") /\ Linked(fetcher[f].row) = None
  /\ SameLinks /\ Rest3 /\ fetcher'[f].cat = fetcher[f].cat

ExtractTurn(f) ==
  /\ \/ Turn(f, "extract", "done")
     \/ /\ Turn(f, "extract", "insert") /\ fetcher'[f].held \in Row
        /\ fetcher'[f].held.src = fetcher[f].row /\ Marked(fetcher'[f].held)
  /\ SameLinks /\ Rest3 /\ fetcher'[f].cat = fetcher[f].cat

InsertTurn(f) ==
  /\ Turn(f, "insert", "link") /\ SameLinks /\ Makes(fetcher[f].held)
  /\ fetcher'[f].made = nextItem /\ fetcher'[f].cat = fetcher[f].cat

LinkTurn(f) ==
  /\ Turn(f, "link", "fill") /\ Relinks(fetcher[f].row, fetcher[f].made) /\ Rest3
  /\ fetcher'[f].cat = fetcher[f].cat

FillTurn(f) ==
  /\ \/ /\ Turn(f, "fill", "fillWrite") /\ fetcher'[f].held \in Row
        /\ Marked(fetcher'[f].held)
        /\ fetcher'[f].made = Linked(fetcher[f].row) /\ fetcher'[f].made \in DOMAIN items
     \/ /\ Turn(f, "fill", "merge")
        /\ \A i \in DOMAIN items \ strays' :
             i = Linked(fetcher[f].row) => Marked(items[i])
  /\ SameLinks /\ Rest3 /\ fetcher'[f].cat = fetcher[f].cat

\* The row of item i is written, with the fields of another row but its source.
Writes(i, row) ==
  /\ UNCHANGED <<nextItem, binned>> /\ Loses
  /\ DOMAIN items' = DOMAIN items
  /\ \A j \in DOMAIN items : j # i => items'[j] = items[j]
  /\ i \in DOMAIN items =>
       /\ items'[i] \in Row /\ items'[i].src = items[i].src
       /\ Marked(row) => Marked(items'[i])

FillWriteTurn(f) ==
  /\ Turn(f, "fillWrite", "merge") /\ SameLinks /\ Writes(fetcher[f].made, fetcher[f].held)
  /\ fetcher'[f].cat = fetcher[f].cat

MergeTurn(f) ==
  /\ \/ Turn(f, "merge", "done")
     \/ /\ Turn(f, "merge", "mergeWrite")
        /\ fetcher'[f].held \in Row /\ Marked(fetcher'[f].held)
        /\ fetcher'[f].made.new = Linked(fetcher[f].row)
        /\ fetcher'[f].made.new \in DOMAIN items
        /\ fetcher'[f].made.keep \in DOMAIN items
        /\ fetcher'[f].made.keep # fetcher'[f].made.new
  /\ SameLinks /\ Rest3 /\ fetcher'[f].cat = fetcher[f].cat

MergeWriteTurn(f) ==
  /\ Turn(f, "mergeWrite", "mergeLink") /\ SameLinks
  /\ Writes(fetcher[f].made.keep, fetcher[f].held)
  /\ fetcher'[f].made = fetcher[f].made /\ fetcher'[f].cat = fetcher[f].cat

MergeLinkTurn(f) ==
  /\ Turn(f, "mergeLink", "mergeDrop")
  /\ Relinks(fetcher[f].row, fetcher[f].made.keep) /\ Rest3
  /\ fetcher'[f].made = fetcher[f].made /\ fetcher'[f].cat = fetcher[f].cat

MergeDropTurn(f) ==
  /\ Turn(f, "mergeDrop", "done") /\ SameLinks /\ Fewer
  /\ \A i : i # fetcher[f].made.new => Kept(i)
  /\ fetcher'[f].cat = fetcher[f].cat

MergeFailsTurn(f) ==
  /\ \E from \in {"merge", "mergeWrite", "mergeLink", "mergeDrop"} : Turn(f, from, "done")
  /\ SameLinks /\ Rest3 /\ fetcher'[f].cat = fetcher[f].cat

AgentTurns(f) ==
  ReplyTurn(f) \/ CreateTurn(f) \/ AgentLinksTurn(f) \/ AgentEndsTurn(f)
GuardTurns(f) ==
  FeedbackTurn(f) \/ UnfeedTurn(f) \/ PromoTurn(f) \/ UnpromoTurn(f) \/ UnlinkTurn(f)
EnsureTurns(f) ==
  FileTurn(f) \/ ExtractTurn(f) \/ InsertTurn(f) \/ LinkTurn(f) \/ FillTurn(f) \/ FillWriteTurn(f)
MergeTurns(f) ==
  \/ MergeTurn(f) \/ MergeWriteTurn(f) \/ MergeLinkTurn(f) \/ MergeDropTurn(f)
  \/ MergeFailsTurn(f)
Turns(f) == AgentTurns(f) \/ GuardTurns(f) \/ EnsureTurns(f) \/ MergeTurns(f)

-----------------------------------------------------------------------------
(* Rows: each mail has one, each call its own *)

RowOf(f) ==
  LET c == fetcher[f]
  IN  Busy(c.pc) => /\ c.row \in (1 .. nextRow - 1) \ finished
                    /\ Known(c.row) => emails[c.row].mail = Mail(f)

RowInv ==
  /\ \A i \in DOMAIN items : items[i].src \in 1 .. nextRow - 1
  /\ \A q, r \in DOMAIN emails : emails[q].mail = emails[r].mail => q = r
  /\ finished \subseteq 1 .. nextRow - 1
  /\ \A f \in Fetchers : RowOf(f)
  /\ \A f, g \in Fetchers :
       /\ Busy(fetcher[f].pc) /\ Busy(fetcher[g].pc)
       /\ fetcher[f].row = fetcher[g].row
       => f = g

-----------------------------------------------------------------------------
(* One item for a mail *)

\* Until the link may move on, the items of the mail in hand are the one it is
\* linked to, or the one about to be linked.
Sole(c) ==
  Busy(c.pc) /\ Known(c.row) =>
    /\ c.pc \in Linking => Own(c.row) \subseteq {c.made}
    /\ c.pc \notin Linking \cup Merging => Own(c.row) \subseteq {Linked(c.row)}
    /\ c.pc \in {"extract", "insert"} => Linked(c.row) = None
    /\ c.pc = "unlink" => Own(c.row) = {}

Single(r) == \A i, j \in Own(r) : i = j

SoleInv ==
  /\ \A r \in DOMAIN emails : Single(r)
  /\ \A f \in Fetchers : Sole(fetcher[f])

-----------------------------------------------------------------------------
(* Promotions, and marks *)

\* The guard is through with the mail.
Undone == {"unlink", "file", "fill", "fillWrite", "merge", "done"} \cup Into

PromoFree(c, promo) ==
  Busy(c.pc) /\ promo =>
    /\ c.pc \notin {"extract", "insert", "link"}
    /\ c.pc \in {"unpromo", "unlink", "file"} => c.cat = "career_promo"
    /\ Known(c.row) /\ c.pc \in Undone => Own(c.row) = {}

PromoInv ==
  /\ \A r \in finished \cap DOMAIN emails : IsPromo(Trait[emails[r].mail]) => Own(r) = {}
  /\ \A f \in Fetchers : PromoFree(fetcher[f], IsPromo(This(f)))

AllMarked(r) == \A i \in Own(r) : Marked(items[i])

MarkKept(c) ==
  /\ c.pc = "fillWrite" /\ Known(c.row) => c.made = Linked(c.row)
  /\ c.pc \in {"merge"} \cup Into \cup Merging /\ Known(c.row) => AllMarked(c.row)

MarkInv ==
  /\ \A r \in finished \cap DOMAIN emails : AllMarked(r)
  /\ \A f \in Fetchers : MarkKept(fetcher[f])

-----------------------------------------------------------------------------
(* Links, for one fetch at a time *)

Unlinked(i) == \A q \in DOMAIN emails : emails[q].item # i
NoOther(r, i) == \A q \in DOMAIN emails \ {r} : emails[q].item # i

Leads(c) ==
  /\ c.pc \in Linking => Alive(c.made) /\ Unlinked(c.made)
  /\ Busy(c.pc) /\ c.pc \notin Moving /\ Linked(c.row) # None => NoOther(c.row, Linked(c.row))
  /\ c.pc \in {"mergeWrite", "mergeLink"} =>
       Alive(c.made.keep) /\ c.made.keep # c.made.new /\ NoOther(c.row, c.made.new)
  /\ c.pc = "mergeDrop" => Unlinked(c.made.new)

OneFetcher == \A f, g \in Fetchers : f = g

LinkInv == LinkLeadsToItem /\ \A f \in Fetchers : Leads(fetcher[f])

-----------------------------------------------------------------------------
(* Helpers of the steps *)

LEMMA TraitTyped ==
  ASSUME NEW m \in Mails
  PROVE  /\ Trait[m].answers \subseteq Categories
         /\ Trait[m].told \in Told
         /\ Trait[m].reply \in {None, "completed", "silent"}
         /\ Dated(Trait[m].text) /\ Trait[m].sent \in Int \cup {None}
BY TraitAssumption DEF Told, Dated

LEMMA MailTyped ==
  ASSUME Sound, NEW f \in Fetchers, DOMAIN fetcher[f].todo # {}
  PROVE  First(f) \in DOMAIN fetcher[f].todo /\ Mail(f) \in Mails
<1> DEFINE todo == fetcher[f].todo
<1>1. CallTyped(fetcher[f])
  BY DEF Sound, TypeInv
<1>2. DOMAIN todo \subseteq Nat /\ \A u \in DOMAIN todo : todo[u] \in Mails
  BY <1>1 DEF CallTyped, Sound, IntakeInv, Shape
<1> HIDE DEF todo
<1>3. DOMAIN todo # {}
  BY DEF todo
<1>4. PICK u \in DOMAIN todo : \A v \in DOMAIN todo : ~(<<v, u>> \in OpToRel(<, Nat))
  BY <1>2, <1>3, NatLessThanWellFounded, WFMin
<1>5. ASSUME NEW v \in DOMAIN todo PROVE u <= v
  <2>1. u \in Nat /\ v \in Nat
    BY <1>2
  <2>2. ~(v < u)
    BY <1>4, <2>1 DEF OpToRel
  <2>3. QED
    BY <2>1, <2>2
<1>6. First(f) = CHOOSE w \in DOMAIN todo : \A v \in DOMAIN todo : w <= v
  BY DEF First, todo
<1>7. First(f) \in DOMAIN todo
  BY <1>5, <1>6
<1>8. QED
  BY <1>2, <1>7 DEF Mail, todo

LEMMA BusyTyped ==
  ASSUME Sound, NEW f \in Fetchers, Busy(fetcher[f].pc)
  PROVE  /\ Mail(f) \in Mails
         /\ fetcher[f].row \in 1 .. nextRow - 1 /\ fetcher[f].row \in Nat
         /\ CallTyped(fetcher[f])
<1>1. CallTyped(fetcher[f])
  BY DEF Sound, TypeInv
<1>2. DOMAIN fetcher[f].todo # {} /\ fetcher[f].row \in 1 .. nextRow - 1
  BY <1>1 DEF CallTyped
<1>3. nextRow \in Nat
  BY DEF Sound, IntakeInv, Shape
<1>4. QED
  BY <1>1, <1>2, <1>3, MailTyped

LEMMA NoneApart ==
  ASSUME Sound
  PROVE  /\ None \notin DOMAIN items /\ None \notin 1 .. nextItem - 1
         /\ \A r \in DOMAIN emails : emails[r].item \in DOMAIN items => emails[r].item # None
BY InferenceAssumption DEF Sound, TypeInv

LEMMA CatFiles ==
  ASSUME Sound, NEW r, NEW c \in Categories, emails' = SetCat(r, c)
  PROVE  SameLinks /\ \A q \in DOMAIN emails : emails'[q].cat \in Categories \cup {None}
<1>1. \A q \in DOMAIN emails : IsRow(emails[q]) /\ emails[q].cat \in Categories \cup {None}
  BY DEF Sound, IntakeInv, Shape, TypeInv
<1>2. QED
  BY <1>1 DEF IsRow, SetCat, SameLinks

LEMMA LinkFiles ==
  ASSUME Sound, NEW r, NEW i, emails' = SetLink(r, i)
  PROVE  Relinks(r, i) /\ \A q \in DOMAIN emails : emails'[q].cat \in Categories \cup {None}
<1>1. \A q \in DOMAIN emails : IsRow(emails[q]) /\ emails[q].cat \in Categories \cup {None}
  BY DEF Sound, IntakeInv, Shape, TypeInv
<1>2. QED
  BY <1>1 DEF IsRow, SetLink, Relinks

LEMMA SameFiles ==
  ASSUME Sound, UNCHANGED emails
  PROVE  SameLinks /\ \A q \in DOMAIN emails : emails'[q].cat \in Categories \cup {None}
BY DEF Sound, TypeInv, SameLinks

LEMMA SameStrays ==
  ASSUME Sound, UNCHANGED strays
  PROVE  Loses
BY DEF Sound, TypeInv, Loses

LEMMA StatusFewer ==
  ASSUME Sound, Loses, NEW i, NEW s \in {"completed", "silent"}, items' = SetStatus(i, s),
         UNCHANGED nextItem, binned \subseteq binned'
  PROVE  Fewer /\ \A j : Kept(j)
<1>1. \A j \in DOMAIN items : items[j] \in Row
  BY DEF Sound, TypeInv
<1>2. DOMAIN items' = DOMAIN items
  BY DEF SetStatus
<1>3. ASSUME NEW j \in DOMAIN items
      PROVE  /\ items'[j] \in Row /\ items'[j].src = items[j].src
             /\ Marked(items[j]) => Marked(items'[j])
  <2>1. CASE j # i \/ i \notin DOMAIN items
    BY <1>1, <2>1 DEF SetStatus
  <2>2. CASE j = i
    <3>1. PICK row \in Row : row = items[i]
      BY <1>1, <2>2
    <3>2. items'[i] = [row EXCEPT !.status = s]
      BY <2>2, <3>1 DEF SetStatus
    <3>3. QED
      BY <2>2, <3>1, <3>2 DEF Row, Marked
  <2>3. QED
    BY <2>1, <2>2
<1>4. QED
  BY <1>2, <1>3 DEF Fewer, Kept, Alive

LEMMA SameFewer ==
  ASSUME Sound, Rest3
  PROVE  Fewer /\ \A j : Kept(j)
BY DEF Sound, TypeInv, Rest3, Fewer, Kept, Alive

LEMMA WithoutFewer ==
  ASSUME Sound, Loses, NEW i, items' = Without(items, i), UNCHANGED nextItem,
         binned \subseteq binned'
  PROVE  /\ Fewer /\ i \notin DOMAIN items'
         /\ \A j : j # i \/ i \in binned' => Kept(j)
BY DEF Sound, TypeInv, Without, Fewer, Kept, Alive

LEMMA RewriteWrites ==
  ASSUME Sound, Loses, NEW i, NEW row \in Row, items' = Rewrite(i, row),
         UNCHANGED <<nextItem, binned>>
  PROVE  Writes(i, row)
<1>1. CASE i \notin DOMAIN items
  BY <1>1 DEF Rewrite, Writes
<1>2. CASE i \in DOMAIN items
  <2>1. PICK old \in Row : old = items[i]
    BY <1>2 DEF Sound, TypeInv
  <2>2. PICK new : new = [row EXCEPT !.src = old.src]
    OBVIOUS
  <2>3. new \in Row /\ new.src = old.src /\ (Marked(row) => Marked(new))
    BY <2>1, <2>2 DEF Row, Marked
  <2>4. items' = [items EXCEPT ![i] = new]
    BY <1>2, <2>1, <2>2 DEF Rewrite
  <2>5. QED
    BY <1>2, <2>1, <2>3, <2>4 DEF Writes
<1>3. QED
  BY <1>1, <1>2

-----------------------------------------------------------------------------
(* Every step on a mail is a turn: the agent *)

LEMMA HandlesMail ==
  ASSUME Sound, NEW f \in Fetchers, Handle(f), fetcher[f].pc # "done"
  PROVE  Handles(f) /\ Loses
<1>1. Handles(f)
  BY HandleHandles DEF Sound, IntakeInv, MailDone, Is
<1>2. keepMail
  BY DEF Handle, Reply, RunAgent, AgentCreatesItem, AgentLinks, AgentEnds, FeedbackGuard,
         FeedbackUndo, PromoGuard, PromoUndo, PromoUnlink, EnsureItem, File, Extract, InsertItem,
         LinkItem, Fill, FillWrite, MergeDuplicates, Merge, MergeWrite, MergeLink, MergeDrop,
         MailDone
<1>3. QED
  BY <1>1, <1>2, SameStrays DEF keepMail

LEMMA ReplyTurns ==
  ASSUME Sound, NEW f \in Fetchers, Reply(f)
  PROVE  ReplyTurn(f)
<1>1. fetcher[f].pc = "reply" /\ Goto(f, "agent")
      /\ UNCHANGED <<emails, finished, nextItem, binned>>
  BY DEF Reply, Is, keepRows
<1>2. Handles(f) /\ Loses
  BY <1>1, HandlesMail DEF Handle
<1>3. Sets(fetcher[f], fetcher'[f], "agent", fetcher[f].cat, fetcher[f].made, fetcher[f].held)
  BY <1>1, GotoSets DEF Goto, Sound, IntakeInv
<1>4. Mail(f) \in Mails
  BY <1>1, BusyTyped DEF Busy
<1>5. Fewer /\ \A i : Kept(i)
  <2>1. CASE UNCHANGED items
    BY <1>1, <1>2, <2>1, SameFewer DEF Rest3
  <2>2. CASE ~UNCHANGED items
    <3>1. PICK i : items' = SetStatus(i, This(f).reply) /\ This(f).reply # None
      BY <2>2 DEF Reply
    <3>2. This(f).reply \in {"completed", "silent"}
      BY <1>4, <3>1, TraitTyped DEF This
    <3>3. QED
      BY <1>1, <1>2, <3>1, <3>2, StatusFewer
  <2>3. QED
    BY <2>1, <2>2
<1>6. QED
  BY <1>1, <1>2, <1>3, <1>5, SameFiles DEF ReplyTurn, Turn, Sets

\* The row the agent makes.
LEMMA ToolItemTyped ==
  ASSUME Sound, NEW f \in Fetchers, fetcher[f].pc = "agent",
         NEW c \in This(f).answers, NEW d \in {None, ToldDeadline(f)}
  PROVE  ToolItem(f, c, d) \in Row /\ ToolItem(f, c, d).src = fetcher[f].row
<1>1. Mail(f) \in Mails /\ fetcher[f].row \in Nat
  BY BusyTyped DEF Busy
<1>2. c \in Categories /\ d \in Int \cup {None}
  <2>1. This(f).answers \subseteq Categories /\ This(f).told \in Told
    BY <1>1, TraitTyped DEF This
  <2>2. This(f).told # None => This(f).told.at \in Int
    BY <2>1 DEF Told
  <2>3. QED
    BY <2>1, <2>2 DEF ToldDeadline
<1>3. PICK row : row = ToolItem(f, c, d)
  OBVIOUS
<1>4. PICK kind \in {"todo", "notification"} :
        kind = IF KindIsTodo(c) THEN "todo" ELSE "notification"
  OBVIOUS
<1>5. row = NewItem(kind, fetcher[f].row, Trait[Mail(f)].party, c, d, FALSE)
  BY <1>3, <1>4 DEF ToolItem, This
<1>6. PICK src \in Nat, m \in Mails : src = fetcher[f].row /\ m = Mail(f)
  BY <1>1
<1>7. PICK party \in {Trait[q].party : q \in Mails} : party = Trait[m].party
  BY <1>6
<1>8. row = [kind |-> kind, status |-> "active", src |-> src, party |-> party, cat |-> c,
             deadline |-> d, review |-> FALSE]
  BY <1>5, <1>6, <1>7 DEF NewItem
<1>9. row \in Row /\ row.src = src
  BY <1>2, <1>4, <1>6, <1>7, <1>8 DEF Row
<1>10. QED
  BY <1>3, <1>6, <1>9

LEMMA CreateTurns ==
  ASSUME Sound, NEW f \in Fetchers, AgentCreatesItem(f)
  PROVE  CreateTurn(f)
<1>1. /\ fetcher[f].pc = "agent" /\ Linked(fetcher[f].row) \notin DOMAIN items
      /\ UNCHANGED <<emails, finished, binned>>
  BY DEF AgentCreatesItem, Is, keepRows
<1>2. Handles(f) /\ Loses
  BY <1>1, HandlesMail DEF Handle, RunAgent
<1>3. PICK n : fetcher' = [fetcher EXCEPT ![f].pc = "toolLink", ![f].made = nextItem, ![f].round = n]
  BY DEF AgentCreatesItem
<1>4. Sets(fetcher[f], fetcher'[f], "toolLink", fetcher[f].cat, nextItem, fetcher[f].held)
  BY <1>3, RoundSets DEF Sound, IntakeInv
<1>5. PICK c \in This(f).answers, d \in {None, ToldDeadline(f)} : Insert(ToolItem(f, c, d))
  BY DEF AgentCreatesItem
<1>6. PICK row : row = ToolItem(f, c, d)
  OBVIOUS
<1>7. row \in Row /\ row.src = fetcher[f].row
  BY <1>1, <1>6, ToolItemTyped
<1>8. Makes(row)
  BY <1>1, <1>2, <1>5, <1>6, <1>7 DEF Makes
<1>9. QED
  BY <1>1, <1>2, <1>4, <1>7, <1>8, SameFiles DEF CreateTurn, Turn, Sets

LEMMA AgentLinksTurns ==
  ASSUME Sound, NEW f \in Fetchers, AgentLinks(f)
  PROVE  AgentLinksTurn(f)
<1>1. /\ fetcher[f].pc = "toolLink" /\ emails' = SetLink(fetcher[f].row, fetcher[f].made)
      /\ fetcher' = [fetcher EXCEPT ![f].pc = "agent", ![f].made = None]
      /\ UNCHANGED <<items, nextItem, finished, binned>>
  BY DEF AgentLinks, Is, keepItems
<1>2. Handles(f) /\ Loses
  BY <1>1, HandlesMail DEF Handle, RunAgent
<1>3. Sets(fetcher[f], fetcher'[f], "agent", fetcher[f].cat, None, fetcher[f].held)
  BY <1>1, MadeSets DEF Sound, IntakeInv
<1>4. QED
  BY <1>1, <1>2, <1>3, LinkFiles DEF AgentLinksTurn, Turn, Sets, Rest3

LEMMA AgentEndsTurns ==
  ASSUME Sound, NEW f \in Fetchers, AgentEnds(f)
  PROVE  AgentEndsTurn(f)
<1>1. /\ fetcher[f].pc = "agent"
      /\ UNCHANGED <<emails, items, nextItem, finished, binned>>
  BY DEF AgentEnds, Is, keepItems, keepRows
<1>2. Handles(f) /\ Loses
  BY <1>1, HandlesMail DEF Handle, RunAgent
<1>3. PICK c \in Classified(f), given \in BOOLEAN :
        fetcher' = [fetcher EXCEPT ![f].pc = "feedback", ![f].cat = c, ![f].given = given]
  BY DEF AgentEnds
<1>4. Sets(fetcher[f], fetcher'[f], "feedback", c, fetcher[f].made, fetcher[f].held)
  BY <1>3, AnswerSets DEF Sound, IntakeInv
<1>5. c \in Categories
  <2>1. Mail(f) \in Mails
    BY <1>1, BusyTyped DEF Busy
  <2>2. QED
    BY <2>1, TraitTyped DEF Classified, This, Categories
<1>6. QED
  BY <1>1, <1>2, <1>4, <1>5, SameFiles DEF AgentEndsTurn, Turn, Sets, Rest3

-----------------------------------------------------------------------------
(* The guards *)

LEMMA FeedbackTurns ==
  ASSUME Sound, NEW f \in Fetchers, FeedbackGuard(f)
  PROVE  FeedbackTurn(f)
<1>1. /\ fetcher[f].pc = "feedback" /\ UNCHANGED <<items, nextItem, finished, binned>>
  BY DEF FeedbackGuard, Is, keepItems
<1>2. Handles(f) /\ Loses
  BY <1>1, HandlesMail DEF Handle
<1>3. "notification" \in Categories
  BY DEF Categories
<1>4. CASE IsNotice(f)
  <2>1. /\ emails' = SetCat(fetcher[f].row, "notification")
        /\ fetcher' = [fetcher EXCEPT ![f].pc = "unfeed", ![f].cat = "notification"]
    BY <1>4 DEF FeedbackGuard
  <2>2. Sets(fetcher[f], fetcher'[f], "unfeed", "notification", fetcher[f].made, fetcher[f].held)
    BY <2>1, CatSets DEF Sound, IntakeInv
  <2>3. QED
    BY <1>1, <1>2, <1>3, <2>1, <2>2, CatFiles DEF FeedbackTurn, Turn, Sets, Rest3
<1>5. CASE ~IsNotice(f)
  <2>1. UNCHANGED emails /\ fetcher' = [fetcher EXCEPT ![f].pc = "promo"]
    BY <1>5 DEF FeedbackGuard, Goto
  <2>2. Sets(fetcher[f], fetcher'[f], "promo", fetcher[f].cat, fetcher[f].made, fetcher[f].held)
    BY <2>1, GotoSets DEF Sound, IntakeInv
  <2>3. fetcher[f].cat \in Categories
    BY <1>1, BusyTyped DEF Busy, CallTyped, Unjudged
  <2>4. QED
    BY <1>1, <1>2, <2>1, <2>2, <2>3, SameFiles DEF FeedbackTurn, Turn, Sets, Rest3
<1>6. QED
  BY <1>4, <1>5

LEMMA UnfeedTurns ==
  ASSUME Sound, NEW f \in Fetchers, FeedbackUndo(f)
  PROVE  UnfeedTurn(f)
<1>1. /\ fetcher[f].pc = "unfeed" /\ UNCHANGED <<emails, nextItem, finished>>
      /\ fetcher' = [fetcher EXCEPT ![f].pc = "promo"]
  BY DEF FeedbackUndo, Is, keepRows, Goto
<1>2. Handles(f) /\ Loses
  BY <1>1, HandlesMail DEF Handle
<1>3. Sets(fetcher[f], fetcher'[f], "promo", fetcher[f].cat, fetcher[f].made, fetcher[f].held)
  BY <1>1, GotoSets DEF Sound, IntakeInv
<1>4. Fewer /\ \A i : Kept(i)
  <2>1. CASE UNCHANGED <<items, binned>>
    BY <1>1, <1>2, <2>1, SameFewer DEF Rest3
  <2>2. CASE ~UNCHANGED <<items, binned>>
    <3>1. PICK i : items' = Without(items, i) /\ binned' = binned \cup {i}
      BY <2>2 DEF FeedbackUndo
    <3>2. QED
      BY <1>1, <1>2, <3>1, WithoutFewer
  <2>3. QED
    BY <2>1, <2>2
<1>5. QED
  BY <1>1, <1>2, <1>3, <1>4, SameFiles DEF UnfeedTurn, Turn, Sets

LEMMA PromoTurns ==
  ASSUME Sound, NEW f \in Fetchers, PromoGuard(f)
  PROVE  PromoTurn(f)
<1>1. /\ fetcher[f].pc = "promo" /\ UNCHANGED <<items, nextItem, finished, binned>>
  BY DEF PromoGuard, Is, keepItems
<1>2. Handles(f) /\ Loses
  BY <1>1, HandlesMail DEF Handle
<1>3. "career_promo" \in Categories
  BY DEF Categories
<1>4. CASE IsPromo(This(f))
  <2>1. /\ emails' = SetCat(fetcher[f].row, "career_promo")
        /\ fetcher' = [fetcher EXCEPT ![f].pc = "unpromo", ![f].cat = "career_promo"]
    BY <1>4 DEF PromoGuard
  <2>2. Sets(fetcher[f], fetcher'[f], "unpromo", "career_promo", fetcher[f].made, fetcher[f].held)
    BY <2>1, CatSets DEF Sound, IntakeInv
  <2>3. QED
    BY <1>1, <1>2, <1>3, <2>1, <2>2, CatFiles DEF PromoTurn, Turn, Sets, Rest3
<1>5. CASE ~IsPromo(This(f))
  <2>1. UNCHANGED emails /\ fetcher' = [fetcher EXCEPT ![f].pc = "file"]
    BY <1>5 DEF PromoGuard, Goto
  <2>2. Sets(fetcher[f], fetcher'[f], "file", fetcher[f].cat, fetcher[f].made, fetcher[f].held)
    BY <2>1, GotoSets DEF Sound, IntakeInv
  <2>3. QED
    BY <1>1, <1>2, <1>5, <2>1, <2>2, SameFiles DEF PromoTurn, Turn, Sets, Rest3
<1>6. QED
  BY <1>4, <1>5

LEMMA UnpromoTurns ==
  ASSUME Sound, NEW f \in Fetchers, PromoUndo(f)
  PROVE  UnpromoTurn(f)
<1>1. /\ fetcher[f].pc = "unpromo" /\ UNCHANGED <<emails, nextItem, finished>>
  BY DEF PromoUndo, Is, keepRows
<1>2. Handles(f) /\ Loses
  BY <1>1, HandlesMail DEF Handle
<1> DEFINE i == Linked(fetcher[f].row)
<1>3. CASE i # None
  <2>1. /\ items' = Without(items, i) /\ binned' = binned \cup {i}
        /\ fetcher' = [fetcher EXCEPT ![f].pc = "unlink"]
    BY <1>3 DEF PromoUndo, Goto
  <2>2. Sets(fetcher[f], fetcher'[f], "unlink", fetcher[f].cat, fetcher[f].made, fetcher[f].held)
    BY <2>1, GotoSets DEF Sound, IntakeInv
  <2>3. Fewer /\ i \notin DOMAIN items' /\ \A j : Kept(j)
    BY <1>1, <1>2, <2>1, WithoutFewer
  <2>4. QED
    BY <1>1, <1>2, <2>2, <2>3, SameFiles DEF UnpromoTurn, Turn, Sets
<1>4. CASE i = None
  <2>1. UNCHANGED <<items, binned>> /\ fetcher' = [fetcher EXCEPT ![f].pc = "file"]
    BY <1>4 DEF PromoUndo, Goto
  <2>2. Sets(fetcher[f], fetcher'[f], "file", fetcher[f].cat, fetcher[f].made, fetcher[f].held)
    BY <2>1, GotoSets DEF Sound, IntakeInv
  <2>3. QED
    BY <1>1, <1>2, <1>4, <2>1, <2>2, SameFiles DEF UnpromoTurn, Turn, Sets, Rest3
<1>5. QED
  BY <1>3, <1>4

LEMMA UnlinkTurns ==
  ASSUME Sound, NEW f \in Fetchers, PromoUnlink(f)
  PROVE  UnlinkTurn(f)
<1>1. /\ fetcher[f].pc = "unlink" /\ emails' = SetLink(fetcher[f].row, None)
      /\ fetcher' = [fetcher EXCEPT ![f].pc = "file"]
      /\ UNCHANGED <<items, nextItem, finished, binned>>
  BY DEF PromoUnlink, Is, keepItems, Goto
<1>2. Handles(f) /\ Loses
  BY <1>1, HandlesMail DEF Handle
<1>3. Sets(fetcher[f], fetcher'[f], "file", fetcher[f].cat, fetcher[f].made, fetcher[f].held)
  BY <1>1, GotoSets DEF Sound, IntakeInv
<1>4. QED
  BY <1>1, <1>2, <1>3, LinkFiles DEF UnlinkTurn, Turn, Sets, Rest3

-----------------------------------------------------------------------------
(* The item of the mail *)

LEMMA FileTurns ==
  ASSUME Sound, NEW f \in Fetchers, File(f)
  PROVE  FileTurn(f)
<1> DEFINE link == Linked(fetcher[f].row)
           makes == CreatesItem(fetcher[f].cat) /\ KindIsTodo(fetcher[f].cat)
           to == IF link # None THEN "fill" ELSE IF makes THEN "extract" ELSE "done"
<1>1. /\ fetcher[f].pc = "file" /\ emails' = SetCat(fetcher[f].row, fetcher[f].cat)
      /\ fetcher' = [fetcher EXCEPT ![f].pc = to]
      /\ UNCHANGED <<items, nextItem, finished, binned>>
  BY DEF File, Is, keepItems, Goto
<1>2. Handles(f) /\ Loses
  BY <1>1, HandlesMail DEF Handle, EnsureItem
<1>3. Sets(fetcher[f], fetcher'[f], to, fetcher[f].cat, fetcher[f].made, fetcher[f].held)
  BY <1>1, GotoSets DEF Sound, IntakeInv
<1>4. fetcher[f].cat \in Categories
  BY <1>1, BusyTyped DEF Busy, CallTyped, Unjudged
<1>5. \/ to = "fill" /\ link # None
      \/ to = "extract" /\ link = None /\ KindIsTodo(fetcher[f].cat)
      \/ to = "done" /\ link = None
  OBVIOUS
<1>6. SameLinks /\ \A r \in DOMAIN emails : emails'[r].cat \in Categories \cup {None}
  BY <1>1, <1>4, CatFiles
<1>7. Turn(f, "file", to)
  BY <1>1, <1>2, <1>3, <1>6 DEF Turn, Sets
<1> HIDE DEF to, makes
<1>8. QED
  BY <1>1, <1>2, <1>3, <1>5, <1>6, <1>7 DEF FileTurn, Sets, Rest3

LEMMA InferredTyped ==
  ASSUME Sound, NEW f \in Fetchers, Mail(f) \in Mails, NEW told \in Told
  PROVE  Inferred(f, told) \in Int \cup {None}
<1> DEFINE mail == [text |-> This(f).text, sent |-> This(f).sent, received |-> Now]
<1>1. /\ Dated(mail.text) /\ mail.sent \in Int \cup {None}
      /\ mail.received \in Int \cup {None} /\ Now \in Nat
  BY TraitTyped, TraitAssumption DEF This
<1>2. Inferred(f, told) = InferDeadline(told, mail, Now)
  BY DEF Inferred
<1> HIDE DEF mail
<1>3. QED
  BY <1>1, <1>2, InferType

LEMMA ExtractTurns ==
  ASSUME Sound, NEW f \in Fetchers, Extract(f)
  PROVE  ExtractTurn(f)
<1>1. /\ fetcher[f].pc = "extract" /\ UNCHANGED <<emails, items, nextItem, finished, binned>>
  BY DEF Extract, Is, keepRows, keepItems
<1>2. Handles(f) /\ Loses
  BY <1>1, HandlesMail DEF Handle, EnsureItem
<1>3. SameLinks /\ \A r \in DOMAIN emails : emails'[r].cat \in Categories \cup {None}
  BY <1>1, SameFiles
<1>4. CASE Goto(f, "done")
  <2>1. Sets(fetcher[f], fetcher'[f], "done", fetcher[f].cat, fetcher[f].made, fetcher[f].held)
    BY <1>4, GotoSets DEF Sound, IntakeInv, Goto
  <2>2. QED
    BY <1>1, <1>2, <1>3, <2>1 DEF ExtractTurn, Turn, Sets, Rest3
<1>5. CASE ~Goto(f, "done")
  <2> DEFINE Held(ex, d) ==
               NewItem("todo", fetcher[f].row, This(f).party, ex.cat, d, d = None)
  <2>0. PICK ex \in Extracted(f) :
          fetcher' = [fetcher EXCEPT ![f].pc = "insert",
                                     ![f].held = Held(ex, Inferred(f, ex.told))]
    BY <1>5 DEF Extract
  <2>1. PICK d : /\ d = Inferred(f, ex.told)
                 /\ fetcher' = [fetcher EXCEPT ![f].pc = "insert", ![f].held = Held(ex, d)]
    BY <2>0
  <2>2. /\ Mail(f) \in Mails /\ fetcher[f].row \in Nat /\ fetcher[f].cat \in Categories
    BY <1>1, BusyTyped DEF Busy, CallTyped, Unjudged
  <2>3. ex.told \in Told /\ ex.cat \in Categories
    <3>1. This(f).answers \subseteq Categories /\ This(f).told \in Told /\ None \in Told
      BY <2>2, TraitTyped DEF This, Told
    <3>2. ex.told \in {None, This(f).told}
          /\ ex.cat \in {fetcher[f].cat} \cup This(f).answers
      BY <2>0 DEF Extracted
    <3>3. QED
      BY <2>2, <3>1, <3>2
  <2>4. d \in Int \cup {None}
    BY <2>1, <2>2, <2>3, InferredTyped
  <2>5. PICK row : row = Held(ex, d)
    OBVIOUS
  <2>6. PICK review \in BOOLEAN : review = (d = None)
    OBVIOUS
  <2>7. PICK cat \in Categories : cat = ex.cat
    BY <2>3
  <2>8. row = NewItem("todo", fetcher[f].row, Trait[Mail(f)].party, cat, d, review)
    BY <2>5, <2>6, <2>7 DEF This
  <2>9. row \in Row /\ row.src = fetcher[f].row /\ row.deadline = d /\ row.review = review
    <3>1. PICK src \in Nat, m \in Mails : src = fetcher[f].row /\ m = Mail(f)
      BY <2>2
    <3>2. PICK party \in {Trait[q].party : q \in Mails} : party = Trait[m].party
      BY <3>1
    <3>3. row = [kind |-> "todo", status |-> "active", src |-> src, party |-> party,
                 cat |-> cat, deadline |-> d, review |-> review]
      BY <2>8, <3>1, <3>2 DEF NewItem
    <3>4. QED
      BY <2>4, <2>6, <2>7, <3>1, <3>2, <3>3 DEF Row
  <2>10. Marked(row)
    BY <2>6, <2>9 DEF Marked
  <2>11. fetcher' = [fetcher EXCEPT ![f].pc = "insert", ![f].held = row]
    BY <2>1, <2>5
  <2>12. Sets(fetcher[f], fetcher'[f], "insert", fetcher[f].cat, fetcher[f].made, row)
    BY <2>11, HeldSets DEF Sound, IntakeInv
  <2>13. QED
    BY <1>1, <1>2, <1>3, <2>9, <2>10, <2>12 DEF ExtractTurn, Turn, Sets, Rest3
<1>6. QED
  BY <1>4, <1>5

LEMMA InsertTurns ==
  ASSUME Sound, NEW f \in Fetchers, InsertItem(f)
  PROVE  InsertTurn(f)
<1>1. /\ fetcher[f].pc = "insert" /\ Insert(fetcher[f].held)
      /\ fetcher' = [fetcher EXCEPT ![f].pc = "link", ![f].made = nextItem, ![f].held = None]
      /\ UNCHANGED <<emails, finished, binned>>
  BY DEF InsertItem, Is, keepRows
<1>2. Handles(f) /\ Loses
  BY <1>1, HandlesMail DEF Handle, EnsureItem
<1>3. Sets(fetcher[f], fetcher'[f], "link", fetcher[f].cat, nextItem, None)
  BY <1>1, BothSets DEF Sound, IntakeInv
<1>4. fetcher[f].held \in Row
  BY <1>1, BusyTyped DEF Busy, CallTyped, Holding
<1>5. QED
  BY <1>1, <1>2, <1>3, <1>4, SameFiles DEF InsertTurn, Turn, Sets, Makes

LEMMA LinkTurns ==
  ASSUME Sound, NEW f \in Fetchers, LinkItem(f)
  PROVE  LinkTurn(f)
<1>1. /\ fetcher[f].pc = "link" /\ emails' = SetLink(fetcher[f].row, fetcher[f].made)
      /\ fetcher' = [fetcher EXCEPT ![f].pc = "fill", ![f].made = None]
      /\ UNCHANGED <<items, nextItem, finished, binned>>
  BY DEF LinkItem, Is, keepItems
<1>2. Handles(f) /\ Loses
  BY <1>1, HandlesMail DEF Handle, EnsureItem
<1>3. Sets(fetcher[f], fetcher'[f], "fill", fetcher[f].cat, None, fetcher[f].held)
  BY <1>1, MadeSets DEF Sound, IntakeInv
<1>4. QED
  BY <1>1, <1>2, <1>3, LinkFiles DEF LinkTurn, Turn, Sets, Rest3

LEMMA FillTurns ==
  ASSUME Sound, NEW f \in Fetchers, Fill(f)
  PROVE  FillTurn(f)
<1>1. /\ fetcher[f].pc = "fill" /\ UNCHANGED <<emails, items, nextItem, finished, binned>>
  BY DEF Fill, Is, keepRows, keepItems
<1>2. Handles(f) /\ Loses
  BY <1>1, HandlesMail DEF Handle
<1>3. SameLinks /\ \A r \in DOMAIN emails : emails'[r].cat \in Categories \cup {None}
  BY <1>1, SameFiles
<1> DEFINE i == Linked(fetcher[f].row)
           d == Inferred(f, None)
           lacks == /\ i \in DOMAIN items /\ items[i].kind = "todo" /\ items[i].deadline = None
                    /\ (d # None \/ ~items[i].review)
           new == [items[i] EXCEPT !.deadline = d, !.review = d = None]
<1>4. Fill(f) => IF lacks THEN fetcher' = [fetcher EXCEPT ![f].pc = "fillWrite", ![f].made = i,
                                                          ![f].held = new]
                          ELSE Goto(f, "merge")
  BY DEF Fill
<1>5. CASE ~lacks
  <2>1. Goto(f, "merge")
    BY <1>4, <1>5
  <2>2. Sets(fetcher[f], fetcher'[f], "merge", fetcher[f].cat, fetcher[f].made, fetcher[f].held)
    BY <2>1, GotoSets DEF Sound, IntakeInv, Goto
  <2>3. \A j \in DOMAIN items : j = i => Marked(items[j])
    BY <1>5 DEF Marked, Sound, TypeInv, Row
  <2> HIDE DEF lacks, new
  <2>4. QED
    BY <1>1, <1>2, <1>3, <2>2, <2>3 DEF FillTurn, Turn, Sets, Rest3
<1>6. CASE lacks
  <2>1. PICK old \in Row : old = items[i]
    BY <1>6 DEF Sound, TypeInv
  <2>2. Mail(f) \in Mails
    BY <1>1, BusyTyped DEF Busy
  <2>3. PICK due \in Int \cup {None} : due = d
    BY <2>2, InferredTyped DEF Told
  <2>4. PICK review \in BOOLEAN : review = (due = None)
    OBVIOUS
  <2>5. PICK row : row = [old EXCEPT !.deadline = due, !.review = review]
    OBVIOUS
  <2>6. row \in Row /\ Marked(row)
    BY <2>4, <2>5 DEF Row, Marked
  <2>7. row = new
    BY <2>1, <2>3, <2>4, <2>5
  <2>8. fetcher' = [fetcher EXCEPT ![f].pc = "fillWrite", ![f].made = i, ![f].held = row]
    BY <1>4, <1>6, <2>7
  <2>9. i \in DOMAIN items
    BY <1>6
  <2> HIDE DEF lacks, new, i
  <2>10. Sets(fetcher[f], fetcher'[f], "fillWrite", fetcher[f].cat, i, row)
    BY <2>8, BothSets DEF Sound, IntakeInv
  <2>11. QED
    BY <1>1, <1>2, <1>3, <2>6, <2>9, <2>10 DEF FillTurn, Turn, Sets, Rest3, i
<1>7. QED
  BY <1>5, <1>6

LEMMA FillWriteTurns ==
  ASSUME Sound, NEW f \in Fetchers, FillWrite(f)
  PROVE  FillWriteTurn(f)
<1>1. /\ fetcher[f].pc = "fillWrite" /\ items' = Rewrite(fetcher[f].made, fetcher[f].held)
      /\ fetcher' = [fetcher EXCEPT ![f].pc = "merge", ![f].made = None, ![f].held = None]
      /\ UNCHANGED <<emails, nextItem, finished, binned>>
  BY DEF FillWrite, Is, keepRows
<1>2. Handles(f) /\ Loses
  BY <1>1, HandlesMail DEF Handle
<1>3. Sets(fetcher[f], fetcher'[f], "merge", fetcher[f].cat, None, None)
  BY <1>1, BothSets DEF Sound, IntakeInv
<1>4. fetcher[f].held \in Row
  BY <1>1, BusyTyped DEF Busy, CallTyped, Holding
<1>5. Writes(fetcher[f].made, fetcher[f].held)
  BY <1>1, <1>2, <1>4, RewriteWrites
<1>6. QED
  BY <1>1, <1>2, <1>3, <1>5, SameFiles DEF FillWriteTurn, Turn, Sets

-----------------------------------------------------------------------------
(* The merge *)

LEMMA SamePartyIsItem ==
  ASSUME Sound, NEW f, NEW new \in DOMAIN items, SameParty(f, new) # None
  PROVE  SameParty(f, new) \in DOMAIN items \ {new}
<1> DEFINE row == items[new]
           alike == {i \in DOMAIN items \ {new} : LiveTodo(i) /\ items[i].cat = row.cat
                                              /\ items[i].party = row.party}
           rows == {[id |-> i, deadline |-> items[i].deadline] : i \in alike}
           found == PickMergeTarget(rows, row.deadline, This(f).force, Now)
           n == nextItem - 1
<1>1. n \in Nat /\ DOMAIN items \subseteq 1 .. n /\ \A i \in DOMAIN items : items[i] \in Row
  BY DEF Sound, TypeInv
<1>2. IsFiniteSet(alike)
  <2>1. alike \in SUBSET (1 .. n)
    BY <1>1
  <2> HIDE DEF alike, n
  <2>2. IsFiniteSet(1 .. n)
    BY <1>1, FS_Interval
  <2>3. QED
    BY <2>1, <2>2, FS_Subset
<1>3. IsFiniteSet(rows)
  <2> DEFINE g == [i \in alike |-> [id |-> i, deadline |-> items[i].deadline]]
  <2> HIDE DEF alike
  <2>1. g \in Surjection(alike, rows)
    BY DEF Surjection
  <2> HIDE DEF g, rows
  <2>2. QED
    BY <1>2, <2>1, FS_Surjection
<1>4. \A r \in rows : r.id \in 0 .. n /\ r.deadline \in Int \cup {None} /\ r.id \in alike
  <2>1. ASSUME NEW i \in alike PROVE i \in 0 .. n /\ items[i].deadline \in Int \cup {None}
    BY <1>1, <2>1 DEF Row
  <2>2. QED
    BY <2>1
<1>5. found \in rows \cup {None}
  <2> HIDE DEF rows, n, row
  <2>1. QED
    BY <1>1, <1>3, <1>4, TargetIsCandidate
<1>6. SameParty(f, new) = IF row.party = None \/ found = None THEN None ELSE found.id
  BY DEF SameParty
<1>7. QED
  BY <1>4, <1>5, <1>6

LEMMA TargetIsOther ==
  ASSUME Sound, NEW f, NEW new \in DOMAIN items, MergeInto(f, new) # None
  PROVE  MergeInto(f, new) \in DOMAIN items \ {new}
BY SamePartyIsItem DEF MergeInto, LiveTodo

LEMMA MergeStepTurns ==
  ASSUME Sound, NEW f \in Fetchers, Merge(f)
  PROVE  MergeTurn(f)
<1>1. /\ fetcher[f].pc = "merge" /\ UNCHANGED <<emails, items, nextItem, finished, binned>>
  BY DEF Merge, Is, keepRows, keepItems
<1>2. Handles(f) /\ Loses
  BY <1>1, HandlesMail DEF Handle, MergeDuplicates
<1>3. SameLinks /\ \A r \in DOMAIN emails : emails'[r].cat \in Categories \cup {None}
  BY <1>1, SameFiles
<1> DEFINE new == Linked(fetcher[f].row)
           keep == IF new \in DOMAIN items /\ items[new].kind = "todo"
                   THEN MergeInto(f, new) ELSE None
           both == [keep |-> keep, new |-> new]
<1>4. IF keep = None THEN Goto(f, "done")
      ELSE fetcher' = [fetcher EXCEPT ![f].pc = "mergeWrite", ![f].made = both,
                         ![f].held = Merged(keep, new, fetcher[f].row)]
  BY DEF Merge
<1>5. CASE keep = None
  <2>1. Goto(f, "done")
    BY <1>4, <1>5
  <2>2. Sets(fetcher[f], fetcher'[f], "done", fetcher[f].cat, fetcher[f].made, fetcher[f].held)
    BY <2>1, GotoSets DEF Sound, IntakeInv, Goto
  <2>3. QED
    BY <1>1, <1>2, <1>3, <2>2 DEF MergeTurn, Turn, Sets, Rest3
<1>6. CASE keep # None
  <2>1. new \in DOMAIN items /\ keep \in DOMAIN items \ {new}
    BY <1>6, TargetIsOther
  <2>2. PICK r : r = Merged(keep, new, fetcher[f].row)
    OBVIOUS
  <2>3. r \in Row /\ Marked(r)
    <3>1. PICK old \in Row, fresh \in Row : old = items[keep] /\ fresh = items[new]
      BY <2>1 DEF Sound, TypeInv
    <3>2. PICK src \in Nat : src = fetcher[f].row
      BY <1>1, BusyTyped DEF Busy
    <3>3. PICK d : d = IF fresh.deadline # None THEN fresh.deadline ELSE old.deadline
      OBVIOUS
    <3>4. d \in Int \cup {None}
      BY <3>1, <3>3 DEF Row
    <3>5. PICK review \in BOOLEAN : review = (d = None)
      OBVIOUS
    <3>6. r = [old EXCEPT !.deadline = d, !.review = review, !.src = src]
      <4> HIDE DEF new, keep
      <4>1. QED
        BY <2>2, <3>1, <3>2, <3>3, <3>5 DEF Merged
    <3>7. QED
      BY <3>1, <3>2, <3>4, <3>5, <3>6 DEF Row, Marked
  <2>4. fetcher' = [fetcher EXCEPT ![f].pc = "mergeWrite", ![f].made = both, ![f].held = r]
    BY <1>4, <1>6, <2>2
  <2>5. both.keep = keep /\ both.new = new
    OBVIOUS
  <2> HIDE DEF both, keep, new
  <2>6. Sets(fetcher[f], fetcher'[f], "mergeWrite", fetcher[f].cat, both, r)
    BY <2>4, BothSets DEF Sound, IntakeInv
  <2>7. QED
    BY <1>1, <1>2, <1>3, <2>1, <2>3, <2>5, <2>6 DEF MergeTurn, Turn, Sets, Rest3, new
<1>7. QED
  BY <1>5, <1>6

LEMMA MergeWriteTurns ==
  ASSUME Sound, NEW f \in Fetchers, MergeWrite(f)
  PROVE  MergeWriteTurn(f)
<1>1. /\ fetcher[f].pc = "mergeWrite"
      /\ items' = Rewrite(fetcher[f].made.keep, fetcher[f].held)
      /\ fetcher' = [fetcher EXCEPT ![f].pc = "mergeLink", ![f].held = None]
      /\ UNCHANGED <<emails, nextItem, finished, binned>>
  BY DEF MergeWrite, Is, keepRows
<1>2. Handles(f) /\ Loses
  BY <1>1, HandlesMail DEF Handle, MergeDuplicates
<1>3. Sets(fetcher[f], fetcher'[f], "mergeLink", fetcher[f].cat, fetcher[f].made, None)
  BY <1>1, HeldSets DEF Sound, IntakeInv
<1>4. fetcher[f].held \in Row
  BY <1>1, BusyTyped DEF Busy, CallTyped, Holding
<1>5. Writes(fetcher[f].made.keep, fetcher[f].held)
  BY <1>1, <1>2, <1>4, RewriteWrites
<1>6. QED
  BY <1>1, <1>2, <1>3, <1>5, SameFiles DEF MergeWriteTurn, Turn, Sets

LEMMA MergeLinkTurns ==
  ASSUME Sound, NEW f \in Fetchers, MergeLink(f)
  PROVE  MergeLinkTurn(f)
<1>1. /\ fetcher[f].pc = "mergeLink"
      /\ emails' = SetLink(fetcher[f].row, fetcher[f].made.keep)
      /\ fetcher' = [fetcher EXCEPT ![f].pc = "mergeDrop"]
      /\ UNCHANGED <<items, nextItem, finished, binned>>
  BY DEF MergeLink, Is, keepItems, Goto
<1>2. Handles(f) /\ Loses
  BY <1>1, HandlesMail DEF Handle, MergeDuplicates
<1>3. Sets(fetcher[f], fetcher'[f], "mergeDrop", fetcher[f].cat, fetcher[f].made, fetcher[f].held)
  BY <1>1, GotoSets DEF Sound, IntakeInv
<1>4. QED
  BY <1>1, <1>2, <1>3, LinkFiles DEF MergeLinkTurn, Turn, Sets, Rest3

LEMMA MergeDropTurns ==
  ASSUME Sound, NEW f \in Fetchers, MergeDrop(f)
  PROVE  MergeDropTurn(f)
<1>1. /\ fetcher[f].pc = "mergeDrop" /\ items' = Without(items, fetcher[f].made.new)
      /\ fetcher' = [fetcher EXCEPT ![f].pc = "done", ![f].made = None]
      /\ UNCHANGED <<emails, nextItem, finished, binned>>
  BY DEF MergeDrop, Is, keepRows
<1>2. Handles(f) /\ Loses
  BY <1>1, HandlesMail DEF Handle, MergeDuplicates
<1>3. Sets(fetcher[f], fetcher'[f], "done", fetcher[f].cat, None, fetcher[f].held)
  BY <1>1, MadeSets DEF Sound, IntakeInv
<1>4. Fewer /\ \A j : j # fetcher[f].made.new => Kept(j)
  BY <1>1, <1>2, WithoutFewer
<1>5. QED
  BY <1>1, <1>2, <1>3, <1>4, SameFiles DEF MergeDropTurn, Turn, Sets

LEMMA MergeFailsTurns ==
  ASSUME Sound, NEW f \in Fetchers, MergeFails(f)
  PROVE  MergeFailsTurn(f)
<1>1. /\ fetcher[f].pc \in {"merge", "mergeWrite", "mergeLink", "mergeDrop"}
      /\ fetcher' = [fetcher EXCEPT ![f].pc = "done", ![f].made = None, ![f].held = None]
      /\ UNCHANGED <<emails, nextRow, items, nextItem, finished, binned>>
      /\ UNCHANGED <<box, nextUid, cursor, legacy, forgotten, strays>>
  BY DEF MergeFails, keepRows, keepItems
<1>2. Handles(f)
  <2>1. Busy(fetcher[f].pc) /\ Busy("done")
    BY <1>1 DEF Busy
  <2>2. SameBatch(f)
    BY <1>1, <2>1, BothSameBatch DEF Sound, IntakeInv
  <2>3. SameRows /\ SameMailbox
    BY <1>1, KeptSameRows DEF SameMailbox, Sound, IntakeInv
  <2>4. QED
    BY <2>2, <2>3 DEF Handles
<1>3. Sets(fetcher[f], fetcher'[f], "done", fetcher[f].cat, None, None)
  BY <1>1, BothSets DEF Sound, IntakeInv
<1>4. QED
  BY <1>1, <1>2, <1>3, SameFiles, SameStrays DEF MergeFailsTurn, Turn, Sets, Rest3

LEMMA OwnItemTyped ==
  ASSUME Sound, NEW f
  PROVE  OwnItem(f) \subseteq 1 .. nextItem - 1
BY DEF OwnItem, Linked, Sound, TypeInv, Link

\* An error that is passed over is a turn: nothing is written, and what is lost
\* sight of was there.
LEMMA DroppedTurn ==
  ASSUME Sound, NEW f \in Fetchers, NEW from, NEW to, NEW lost, Busy(from), Busy(to),
         Dropped(f, from, to, lost), lost \subseteq 1 .. nextItem - 1
  PROVE  /\ Turn(f, from, to) /\ SameLinks /\ Rest3 /\ lost \subseteq strays'
         /\ fetcher'[f].cat = fetcher[f].cat
<1>1. /\ fetcher[f].pc = from
      /\ fetcher' = [fetcher EXCEPT ![f].pc = to, ![f].made = None]
      /\ strays' = strays \cup lost
      /\ UNCHANGED <<emails, nextRow, items, nextItem, finished, binned>>
      /\ UNCHANGED <<box, nextUid, cursor, legacy, forgotten>>
  BY DEF Dropped, Is, keepRows, keepItems
<1>2. Handles(f)
  <2>1. SameBatch(f)
    BY <1>1, MadeSameBatch DEF Sound, IntakeInv
  <2>2. SameRows /\ SameMailbox
    BY <1>1, KeptSameRows DEF SameMailbox, Sound, IntakeInv
  <2>3. QED
    BY <2>1, <2>2 DEF Handles
<1>3. Sets(fetcher[f], fetcher'[f], to, fetcher[f].cat, None, fetcher[f].held)
  BY <1>1, MadeSets DEF Sound, IntakeInv
<1>4. Loses
  BY <1>1 DEF Loses, Sound, TypeInv
<1>5. QED
  BY <1>1, <1>2, <1>3, <1>4, SameFiles DEF Turn, Sets, Rest3

LEMMA BlindlyTurns ==
  ASSUME Sound, NEW f \in Fetchers, AgentCreatesBlindly(f)
  PROVE  CreateTurn(f)
<1>1. /\ fetcher[f].pc = "agent" /\ strays' = strays \cup OwnItem(f)
      /\ UNCHANGED <<emails, nextRow, finished, binned>>
      /\ UNCHANGED <<box, nextUid, cursor, legacy, forgotten>>
  BY DEF AgentCreatesBlindly, Is, keepRows
<1>2. PICK n : fetcher' = [fetcher EXCEPT ![f].pc = "toolLink", ![f].made = nextItem, ![f].round = n]
  BY DEF AgentCreatesBlindly
<1>3. Handles(f)
  <2>1. Busy(fetcher[f].pc) /\ Busy("toolLink")
    BY <1>1 DEF Busy
  <2>2. SameBatch(f)
    BY <1>2, <2>1, RoundSameBatch DEF Sound, IntakeInv
  <2>3. SameRows /\ SameMailbox
    BY <1>1, KeptSameRows DEF SameMailbox, Sound, IntakeInv
  <2>4. QED
    BY <2>2, <2>3 DEF Handles
<1>4. Sets(fetcher[f], fetcher'[f], "toolLink", fetcher[f].cat, nextItem, fetcher[f].held)
  BY <1>2, RoundSets DEF Sound, IntakeInv
<1>5. Loses
  BY <1>1, OwnItemTyped DEF Loses, Sound, TypeInv
<1>6. PICK row : Insert(row) /\ row \in Row /\ row.src = fetcher[f].row
  <2>1. PICK c \in This(f).answers, d \in {None, ToldDeadline(f)} : Insert(ToolItem(f, c, d))
    BY DEF AgentCreatesBlindly
  <2>2. QED
    BY <1>1, <2>1, ToolItemTyped
<1>7. Makes(row)
  BY <1>1, <1>5, <1>6 DEF Makes
<1>8. Linked(fetcher[f].row) \notin DOMAIN items \ strays'
  BY <1>1, NoneApart DEF OwnItem
<1>9. QED
  BY <1>1, <1>3, <1>4, <1>6, <1>7, <1>8, SameFiles DEF CreateTurn, Turn, Sets

LEMMA PassOverTurns ==
  ASSUME Sound, NEW f \in Fetchers, PassOver(f)
  PROVE  Turns(f)
<1>1. /\ Busy("toolLink") /\ Busy("agent") /\ Busy("unfeed") /\ Busy("promo")
      /\ Busy("unpromo") /\ Busy("file") /\ Busy("unlink") /\ Busy("fill") /\ Busy("merge")
  BY DEF Busy
<1>2. CASE LinkUnset(f)
  <2>1. fetcher[f].made \in 1 .. nextItem - 1
    BY <1>1, <1>2 DEF LinkUnset, Dropped, Is, Sound, TypeInv, CallTyped, Linking
  <2>2. /\ Turn(f, "toolLink", "agent") /\ SameLinks /\ Rest3
        /\ {fetcher[f].made} \subseteq strays'
    BY <1>1, <1>2, <2>1, DroppedTurn DEF LinkUnset
  <2>3. QED
    BY <2>2 DEF AgentLinksTurn, AgentTurns, Turns
<1>3. CASE FeedbackKept(f)
  <2>1. /\ Turn(f, "unfeed", "promo") /\ SameLinks /\ Rest3
        /\ fetcher'[f].cat = fetcher[f].cat
    BY <1>1, <1>3, DroppedTurn DEF FeedbackKept
  <2>2. QED
    BY <2>1, SameFewer DEF UnfeedTurn, GuardTurns, Turns
<1>4. CASE PromoUnseen(f)
  <2>1. /\ Turn(f, "unpromo", "file") /\ SameLinks /\ Rest3 /\ OwnItem(f) \subseteq strays'
        /\ fetcher'[f].cat = fetcher[f].cat
    BY <1>1, <1>4, OwnItemTyped, DroppedTurn DEF PromoUnseen
  <2>2. QED
    BY <2>1 DEF OwnItem, UnpromoTurn, GuardTurns, Turns
<1>5. CASE PromoUndeleted(f)
  <2>1. /\ Turn(f, "unpromo", "unlink") /\ SameLinks /\ Rest3 /\ OwnItem(f) \subseteq strays'
        /\ fetcher'[f].cat = fetcher[f].cat
    BY <1>1, <1>5, OwnItemTyped, DroppedTurn DEF PromoUndeleted
  <2>2. Linked(fetcher[f].row) \notin DOMAIN items' \ strays'
    BY <2>1, NoneApart DEF OwnItem, Rest3
  <2>3. QED
    BY <2>1, <2>2, SameFewer DEF UnpromoTurn, GuardTurns, Turns
<1>6. CASE PromoStaysLinked(f)
  <2>1. /\ Turn(f, "unlink", "file") /\ SameLinks /\ Rest3
        /\ fetcher'[f].cat = fetcher[f].cat
    BY <1>1, <1>6, DroppedTurn DEF PromoStaysLinked
  <2>2. QED
    BY <2>1 DEF UnlinkTurn, GuardTurns, Turns
<1>7. CASE FillMissed(f)
  <2>1. /\ Turn(f, "fill", "merge") /\ SameLinks /\ Rest3 /\ OwnItem(f) \subseteq strays'
        /\ fetcher'[f].cat = fetcher[f].cat
    BY <1>1, <1>7, OwnItemTyped, DroppedTurn DEF FillMissed
  <2>2. \A i \in DOMAIN items \ strays' : i # Linked(fetcher[f].row)
    BY <2>1, NoneApart DEF OwnItem
  <2>3. QED
    BY <2>1, <2>2 DEF FillTurn, EnsureTurns, Turns
<1>8. CASE AgentCreatesBlindly(f)
  BY <1>8, BlindlyTurns DEF AgentTurns, Turns
<1>9. QED
  BY <1>2, <1>3, <1>4, <1>5, <1>6, <1>7, <1>8 DEF PassOver

LEMMA HandleTurns ==
  ASSUME Sound, NEW f \in Fetchers, (Handle(f) /\ ~MailDone(f)) \/ MergeFails(f) \/ PassOver(f)
  PROVE  Turns(f)
<1>1. CASE Reply(f) \/ RunAgent(f)
  BY <1>1, ReplyTurns, CreateTurns, AgentLinksTurns, AgentEndsTurns
  DEF Turns, AgentTurns, RunAgent
<1>2. CASE FeedbackGuard(f) \/ FeedbackUndo(f) \/ PromoGuard(f) \/ PromoUndo(f) \/ PromoUnlink(f)
  BY <1>2, FeedbackTurns, UnfeedTurns, PromoTurns, UnpromoTurns, UnlinkTurns
  DEF Turns, GuardTurns
<1>3. CASE EnsureItem(f) \/ Fill(f) \/ FillWrite(f)
  BY <1>3, FileTurns, ExtractTurns, InsertTurns, LinkTurns, FillTurns, FillWriteTurns
  DEF Turns, EnsureTurns, EnsureItem
<1>4. CASE MergeDuplicates(f) \/ MergeFails(f)
  BY <1>4, MergeStepTurns, MergeWriteTurns, MergeLinkTurns, MergeDropTurns, MergeFailsTurns
  DEF Turns, MergeTurns, MergeDuplicates
<1>5. QED
  BY <1>1, <1>2, <1>3, <1>4, PassOverTurns DEF Handle

-----------------------------------------------------------------------------
(* The other steps *)

TodoTyped(todo) ==
  DOMAIN todo \subseteq 1 .. nextUid - 1 /\ \A u \in DOMAIN todo : todo[u] \in Mails

Others(f) == \A g \in Fetchers \ {f} : fetcher'[g] = fetcher[g]

SameStore == UNCHANGED <<box, nextUid, emails, nextRow, items, nextItem, binned, strays>>

\* A call ends, begins a batch or passes over a mail.
Ends(f) ==
  /\ SameStore /\ Others(f) /\ UNCHANGED finished
  /\ ~Busy(fetcher'[f].pc) /\ TodoTyped(fetcher'[f].todo)

\* A call is through with a mail.
Finishes(f) ==
  /\ SameStore /\ Others(f) /\ finished' = finished \cup {fetcher[f].row}
  /\ fetcher[f].pc = "done"
  /\ ~Busy(fetcher'[f].pc) /\ TodoTyped(fetcher'[f].todo)

\* A mail gets its row.
Stores(f) ==
  /\ UNCHANGED <<box, nextUid, items, nextItem, binned, strays, finished>> /\ Others(f)
  /\ nextRow' = nextRow + 1
  /\ DOMAIN emails' = DOMAIN emails \cup {nextRow}
  /\ \A r \in DOMAIN emails : emails'[r] = emails[r]
  /\ emails'[nextRow].mail = Mail(f) /\ emails'[nextRow].cat = None
  /\ emails'[nextRow].item = None
  /\ \A r \in DOMAIN emails : emails[r].mail # Mail(f)
  /\ DOMAIN fetcher[f].todo # {}
  /\ fetcher'[f].pc = "reply" /\ fetcher'[f].row = nextRow
  /\ fetcher'[f].todo = fetcher[f].todo

\* The server and the user.
Outside ==
  /\ UNCHANGED <<nextRow, fetcher, finished>> /\ Fewer /\ \A i : Kept(i)
  /\ DOMAIN emails' \subseteq DOMAIN emails
  /\ \A r \in DOMAIN emails' : emails'[r] = emails[r]
  /\ nextUid <= nextUid' /\ nextUid' <= MaxUid + 1
  /\ \A u \in DOMAIN box' : box'[u] \in Mails

CallStep(f) == Turns(f) \/ Ends(f) \/ Finishes(f) \/ Stores(f)

LEMMA IdleTodo == DOMAIN Idle.todo = {}
BY DEF Idle

LEMMA AskEnds ==
  ASSUME Sound, NEW f \in Fetchers, Ask(f)
  PROVE  Ends(f)
<1>1. SameStore /\ UNCHANGED finished
  BY DEF Ask, SameStore, keepMail, keepRows, keepItems
<1>2. PICK q \in Requested(f) :
        fetcher' = [fetcher EXCEPT ![f] =
          [Idle EXCEPT !.pc = "fetch", !.ranged = q.ranged, !.limit = q.limit,
                       !.from = IF q.ranged THEN None ELSE LastUid]]
  BY DEF Ask
<1>3. PICK ranged, limit, from :
        ranged = q.ranged /\ limit = q.limit /\ from = IF q.ranged THEN None ELSE LastUid
  OBVIOUS
<1>4. PICK d : d = [Idle EXCEPT !.pc = "fetch", !.ranged = ranged, !.limit = limit,
                                !.from = from]
  OBVIOUS
<1>5. fetcher' = [fetcher EXCEPT ![f] = d]
  BY <1>2, <1>3, <1>4
<1>6. d.pc = "fetch" /\ d.todo = Idle.todo
  BY <1>4 DEF Idle
<1>7. fetcher'[f] = d /\ Others(f)
  BY <1>5 DEF Others, Sound, IntakeInv, Shape
<1>8. QED
  BY <1>1, <1>6, <1>7, IdleTodo DEF Ends, Busy, TodoTyped

LEMMA AnswerEnds ==
  ASSUME Sound, NEW f \in Fetchers, Answer(f)
  PROVE  Ends(f)
<1>1. SameStore /\ UNCHANGED finished
  BY DEF Answer, SameStore, keepMail, keepRows, keepItems
<1>2. PICK uids, n, ranged : /\ uids = FetchedFrom(fetcher[f].from)
                             /\ n = fetcher[f].limit /\ ranged = fetcher[f].ranged
  OBVIOUS
<1>3. PICK top, todo : /\ top = IF uids = {} THEN None ELSE Max(uids)
                       /\ todo = Newest(uids, n)
  OBVIOUS
<1>4. PICK d : d = [Idle EXCEPT !.pc = "next", !.todo = todo, !.ranged = ranged, !.top = top]
  OBVIOUS
<1>5. fetcher' = [fetcher EXCEPT ![f] = d]
  BY <1>2, <1>3, <1>4 DEF Answer
<1>6. d.pc = "next" /\ d.todo = todo
  BY <1>4 DEF Idle
<1>7. TodoTyped(todo)
  <2>1. uids \subseteq DOMAIN box
    <3>1. nextUid - 1 \in Nat /\ DOMAIN box \subseteq 1 .. nextUid - 1
      BY DEF Sound, IntakeInv, Shape
    <3>2. DOMAIN box # {} => Max(DOMAIN box) \in DOMAIN box
      BY <3>1, MaxIsMember
    <3>3. QED
      BY <1>2, <3>2 DEF FetchedFrom, Range_
  <2>2. DOMAIN todo \subseteq uids /\ \A u \in DOMAIN todo : todo[u] = box[u]
    BY <1>3 DEF Newest
  <2>3. QED
    BY <2>1, <2>2 DEF TodoTyped, Sound, TypeInv, IntakeInv, Shape
<1>8. fetcher'[f] = d /\ Others(f)
  BY <1>5 DEF Others, Sound, IntakeInv, Shape
<1>9. TodoTyped(fetcher'[f].todo)
  BY <1>6, <1>7, <1>8
<1>10. QED
  BY <1>1, <1>6, <1>8, <1>9 DEF Ends, Busy

LEMMA RestTyped ==
  ASSUME Sound, NEW f \in Fetchers, fetcher' = [fetcher EXCEPT ![f] = Rest(f)]
  PROVE  Others(f) /\ ~Busy(fetcher'[f].pc) /\ TodoTyped(fetcher'[f].todo)
<1>1. fetcher'[f] = Rest(f) /\ Others(f)
  BY DEF Others, Sound, IntakeInv, Shape
<1>2. Rest(f).pc = "next" /\ Rest(f).todo = Without(fetcher[f].todo, First(f))
  BY RestIsCall
<1>3. TodoTyped(fetcher[f].todo)
  BY DEF Sound, TypeInv, CallTyped, TodoTyped
<1>4. TodoTyped(Rest(f).todo)
  BY <1>2, <1>3 DEF TodoTyped, Without
<1>5. QED
  BY <1>1, <1>2, <1>4 DEF Busy

LEMMA EndEnds ==
  ASSUME Sound, NEW f \in Fetchers, Skip(f) \/ Finish(f) \/ Interrupt(f) \/ NoAnswer(f)
  PROVE  Ends(f)
<1>1. SameStore /\ UNCHANGED finished
  BY DEF Skip, Finish, Interrupt, NoAnswer, SameStore, keepMail, keepRows, keepItems
<1>2. CASE Skip(f)
  BY <1>1, <1>2, RestTyped DEF Skip, Ends
<1>3. CASE Finish(f) \/ Interrupt(f) \/ NoAnswer(f)
  <2>1. fetcher' = [fetcher EXCEPT ![f] = Idle]
    BY <1>3 DEF Finish, Interrupt, NoAnswer
  <2>2. fetcher'[f] = Idle /\ Others(f)
    BY <2>1 DEF Others, Sound, IntakeInv, Shape
  <2>3. QED
    BY <1>1, <2>2, IdleIsCall, IdleTodo DEF Ends, Busy, TodoTyped
<1>4. QED
  BY <1>2, <1>3

LEMMA DoneFinishes ==
  ASSUME Sound, NEW f \in Fetchers, MailDone(f)
  PROVE  Finishes(f)
BY RestTyped DEF MailDone, Finishes, Is, SameStore, keepMail, keepRows, keepItems

LEMMA InsertStores ==
  ASSUME Sound, NEW f \in Fetchers, InsertEmail(f)
  PROVE  Stores(f)
<1>1. PICK row : row = NewEmail(Mail(f))
  OBVIOUS
<1>2. row.mail = Mail(f) /\ row.cat = None /\ row.item = None
  BY <1>1 DEF NewEmail
<1>3. /\ emails' = With(emails, nextRow, row) /\ nextRow' = nextRow + 1
      /\ DOMAIN fetcher[f].todo # {} /\ Mail(f) \notin Stored
      /\ UNCHANGED <<box, nextUid, items, nextItem, binned, strays, finished>>
  BY <1>1 DEF InsertEmail, keepMail, keepItems
<1>4. nextRow \notin DOMAIN emails
  BY DEF Sound, IntakeInv, Shape
<1>5. /\ DOMAIN emails' = DOMAIN emails \cup {nextRow} /\ emails'[nextRow] = row
      /\ \A r \in DOMAIN emails : emails'[r] = emails[r]
  BY <1>3, <1>4 DEF With
<1>6. PICK c : c = fetcher[f]
  OBVIOUS
<1>7. PICK d : d = [c EXCEPT !.pc = "reply", !.row = nextRow]
  OBVIOUS
<1>8. fetcher'[f] = d /\ Others(f)
  BY <1>6, <1>7 DEF InsertEmail, Others, Sound, IntakeInv, Shape
<1>9. d.pc = "reply" /\ d.row = nextRow /\ d.todo = c.todo
  <2>1. IsCall(c)
    BY <1>6 DEF Sound, IntakeInv, Shape
  <2>2. QED
    BY <1>7, <2>1 DEF IsCall
<1>10. \A r \in DOMAIN emails : emails[r].mail # Mail(f)
  BY <1>3 DEF Stored
<1>11. QED
  BY <1>2, <1>3, <1>5, <1>6, <1>8, <1>9, <1>10 DEF Stores

LEMMA WorldOutside ==
  ASSUME Sound, World \/ UNCHANGED vars
  PROVE  Outside
<1>1. nextUid \in Nat /\ nextUid <= MaxUid + 1 /\ MaxUid \in Nat
      /\ \A u \in DOMAIN box : box[u] \in Mails
  BY PipelineAssumption DEF Sound, TypeInv, IntakeInv, Shape
<1>0. Loses
  BY SameStrays DEF World, Arrive, Expunge, DropEmail, ChangeStatus, DropItem, vars
<1>2. ASSUME NEW m \in Mails, Arrive(m) PROVE Outside
  <2>1. Fewer /\ \A i : Kept(i)
    BY <1>0, <1>2, SameFewer DEF Arrive, Rest3, keepItems
  <2>2. \A u \in DOMAIN box' : box'[u] \in Mails
    BY <1>1, <1>2 DEF Arrive, With
  <2>3. QED
    BY <1>1, <1>2, <2>1, <2>2 DEF Arrive, Outside, keepRows
<1>3. ASSUME NEW u \in DOMAIN box, Expunge(u) PROVE Outside
  <2>1. Fewer /\ \A i : Kept(i)
    BY <1>0, <1>3, SameFewer DEF Expunge, Rest3, keepItems
  <2>2. QED
    BY <1>1, <1>3, <2>1 DEF Expunge, Outside, keepRows, Without
<1>4. ASSUME NEW r \in DOMAIN emails, DropEmail(r) PROVE Outside
  <2>1. Fewer /\ \A i : Kept(i)
    BY <1>0, <1>4, SameFewer DEF DropEmail, Rest3, keepItems
  <2>2. QED
    BY <1>1, <1>4, <2>1 DEF DropEmail, Outside, Without
<1>5. ASSUME NEW i, NEW s \in {"completed", "silent"}, ChangeStatus(i, s) PROVE Outside
  <2>1. Fewer /\ \A j : Kept(j)
    BY <1>0, <1>5, StatusFewer DEF ChangeStatus
  <2>2. QED
    BY <1>1, <1>5, <2>1 DEF ChangeStatus, Outside, keepRows
<1>6. ASSUME NEW i, DropItem(i) PROVE Outside
  <2>1. Fewer /\ \A j : Kept(j)
    BY <1>0, <1>6, WithoutFewer DEF DropItem
  <2>2. QED
    BY <1>1, <1>6, <2>1 DEF DropItem, Outside, keepRows
<1>7. CASE UNCHANGED vars
  <2>1. Fewer /\ \A i : Kept(i)
    BY <1>0, <1>7, SameFewer DEF vars, Rest3
  <2>2. QED
    BY <1>1, <1>7, <2>1 DEF vars, Outside
<1>8. QED
  BY <1>2, <1>3, <1>4, <1>5, <1>6, <1>7 DEF World

LEMMA NextSteps ==
  ASSUME Sound, [Next]_vars
  PROVE  Outside \/ \E f \in Fetchers : CallStep(f)
<1>1. ASSUME NEW f \in Fetchers,
             Step(f) \/ Answer(f) \/ NoAnswer(f) \/ Interrupt(f) \/ MergeFails(f) \/ PassOver(f)
      PROVE  CallStep(f)
  BY <1>1, AskEnds, AnswerEnds, EndEnds, DoneFinishes, InsertStores, HandleTurns
  DEF Step, CallStep
<1>2. QED
  BY <1>1, WorldOutside DEF Next

-----------------------------------------------------------------------------
(* The types are kept *)

\* The step makes the item of its mail.
MadeBy(f) ==
  \E row : /\ Makes(row) /\ row.src = fetcher[f].row
           /\ fetcher[f].pc \in {"agent", "insert"} /\ fetcher'[f].pc \in Linking
           /\ fetcher'[f].made = nextItem

TurnParts(f) ==
  /\ Handles(f) /\ UNCHANGED finished /\ fetcher'[f].row = fetcher[f].row
  /\ \A r \in DOMAIN emails : emails'[r].cat \in Categories \cup {None}
  /\ Fewer \/ MadeBy(f)
  /\ SameLinks \/ \E i \in Link : Relinks(fetcher[f].row, i)

LEMMA WritesFewer ==
  ASSUME Sound, NEW i, NEW row, Writes(i, row), Marked(row)
  PROVE  Fewer
BY DEF Sound, TypeInv, Writes, Fewer

LEMMA TurnHasParts ==
  ASSUME Sound, NEW f \in Fetchers, Turns(f)
  PROVE  TurnParts(f)
<1> DEFINE c == fetcher[f]
<1>1. CallTyped(c) /\ HeldRight(c)
  BY DEF Sound, TypeInv
<1>2. None \in Link /\ 1 .. nextItem - 1 \subseteq Link
  BY DEF Link
<1>3. CASE AgentTurns(f)
  <2>1. CASE ReplyTurn(f)
    BY <2>1 DEF ReplyTurn, Turn, TurnParts
  <2>2. CASE CreateTurn(f)
    BY <2>2 DEF CreateTurn, Turn, TurnParts, MadeBy, Linking
  <2>3. CASE AgentLinksTurn(f)
    BY <1>1, <1>2, <2>3, SameFewer DEF AgentLinksTurn, Turn, TurnParts, CallTyped, Linking
  <2>4. CASE AgentEndsTurn(f)
    BY <2>4, SameFewer DEF AgentEndsTurn, Turn, TurnParts
  <2>5. QED
    BY <1>3, <2>1, <2>2, <2>3, <2>4 DEF AgentTurns
<1>4. CASE GuardTurns(f)
  <2>1. CASE FeedbackTurn(f) \/ PromoTurn(f)
    BY <2>1, SameFewer DEF FeedbackTurn, PromoTurn, Turn, TurnParts
  <2>2. CASE UnfeedTurn(f) \/ UnpromoTurn(f)
    BY <2>2, SameFewer DEF UnfeedTurn, UnpromoTurn, Turn, TurnParts
  <2>3. CASE UnlinkTurn(f)
    BY <1>2, <2>3, SameFewer DEF UnlinkTurn, Turn, TurnParts
  <2>4. QED
    BY <1>4, <2>1, <2>2, <2>3 DEF GuardTurns
<1>5. CASE EnsureTurns(f)
  <2>1. CASE FileTurn(f) \/ ExtractTurn(f) \/ FillTurn(f)
    BY <2>1, SameFewer DEF FileTurn, ExtractTurn, FillTurn, Turn, TurnParts
  <2>2. CASE InsertTurn(f)
    BY <1>1, <2>2 DEF InsertTurn, Turn, TurnParts, HeldRight, MadeBy, Linking
  <2>3. CASE LinkTurn(f)
    BY <1>1, <1>2, <2>3, SameFewer DEF LinkTurn, Turn, TurnParts, CallTyped, Linking
  <2>4. CASE FillWriteTurn(f)
    BY <1>1, <2>4, WritesFewer DEF FillWriteTurn, Turn, TurnParts, HeldRight, Holding
  <2>5. QED
    BY <1>5, <2>1, <2>2, <2>3, <2>4 DEF EnsureTurns
<1>6. CASE MergeTurns(f)
  <2>1. CASE MergeTurn(f) \/ MergeDropTurn(f) \/ MergeFailsTurn(f)
    BY <2>1, SameFewer DEF MergeTurn, MergeDropTurn, MergeFailsTurn, Turn, TurnParts
  <2>2. CASE MergeWriteTurn(f)
    BY <1>1, <2>2, WritesFewer DEF MergeWriteTurn, Turn, TurnParts, HeldRight, Holding
  <2>3. CASE MergeLinkTurn(f)
    BY <1>1, <1>2, <2>3, SameFewer DEF MergeLinkTurn, Turn, TurnParts, CallTyped, Into
  <2>4. QED
    BY <1>6, <2>1, <2>2, <2>3 DEF MergeTurns
<1>7. QED
  BY <1>3, <1>4, <1>5, <1>6 DEF Turns

\* The fields a turn leaves in its call.
LEMMA TurnTyped ==
  ASSUME Sound, NEW f \in Fetchers, Turns(f), NEW d, d = fetcher'[f]
  PROVE  /\ d.pc \notin Unjudged => d.cat \in Categories
         /\ d.pc \in Holding => d.held \in Row
         /\ d.pc \in Linking => d.made = nextItem /\ nextItem' = nextItem + 1
         /\ d.pc = "fillWrite" => d.made \in 1 .. nextItem - 1
         /\ d.pc \in Into => d.made.keep \in 1 .. nextItem - 1
         /\ HeldRight(d)
<1> DEFINE c == fetcher[f]
           Typed == /\ d.pc \notin Unjudged => d.cat \in Categories
                    /\ d.pc \in Holding => d.held \in Row
                    /\ d.pc \in Linking => d.made = nextItem /\ nextItem' = nextItem + 1
                    /\ d.pc = "fillWrite" => d.made \in 1 .. nextItem - 1
                    /\ d.pc \in Into => d.made.keep \in 1 .. nextItem - 1
                    /\ HeldRight(d)
<1>1. CallTyped(c)
  BY DEF Sound, TypeInv
<1>2. DOMAIN items \subseteq 1 .. nextItem - 1 /\ "career_promo" \in Categories
  BY DEF Sound, TypeInv, Categories
<1>3. CASE AgentTurns(f)
  BY <1>3
  DEF AgentTurns, ReplyTurn, CreateTurn, AgentLinksTurn, AgentEndsTurn, Turn, Makes, Insert,
      Unjudged, Holding, Linking, Into, HeldRight
<1>4. CASE GuardTurns(f)
  BY <1>1, <1>2, <1>4
  DEF GuardTurns, FeedbackTurn, UnfeedTurn, PromoTurn, UnpromoTurn, UnlinkTurn, Turn, CallTyped,
      Unjudged, Holding, Linking, Into, HeldRight
<1>5. CASE EnsureTurns(f)
  <2>1. CASE FileTurn(f) \/ ExtractTurn(f)
    BY <1>1, <2>1
    DEF FileTurn, ExtractTurn, Turn, CallTyped, Unjudged, Holding, Linking, Into, HeldRight
  <2>2. CASE InsertTurn(f) \/ LinkTurn(f)
    BY <1>1, <2>2
    DEF InsertTurn, LinkTurn, Turn, CallTyped, Makes, Insert, Unjudged, Holding, Linking, Into,
        HeldRight
  <2>3. CASE FillTurn(f) \/ FillWriteTurn(f)
    BY <1>1, <1>2, <2>3
    DEF FillTurn, FillWriteTurn, Turn, CallTyped, Unjudged, Holding, Linking, Into, HeldRight
  <2>4. QED
    BY <1>5, <2>1, <2>2, <2>3 DEF EnsureTurns
<1>6. CASE MergeTurns(f)
  BY <1>1, <1>2, <1>6
  DEF MergeTurns, MergeTurn, MergeWriteTurn, MergeLinkTurn, MergeDropTurn, MergeFailsTurn, Turn,
      CallTyped, Unjudged, Holding, Linking, Into, HeldRight
<1>7. QED
  BY <1>3, <1>4, <1>5, <1>6 DEF Turns

\* What a call holds stays typed while the counters grow.
LEMMA CallStaysTyped ==
  ASSUME Sound, Shape', NEW c, CallTyped(c), nextItem' \in Nat,
         nextUid <= nextUid', nextRow <= nextRow', nextItem <= nextItem'
  PROVE  CallTyped(c)'
<1>1. nextUid \in Nat /\ nextUid' \in Nat /\ nextRow \in Nat /\ nextRow' \in Nat /\ nextItem \in Nat
  BY DEF Sound, TypeInv, IntakeInv, Shape
<1>2. /\ 1 .. nextUid - 1 \subseteq 1 .. nextUid' - 1
      /\ 1 .. nextRow - 1 \subseteq 1 .. nextRow' - 1
      /\ 1 .. nextItem - 1 \subseteq 1 .. nextItem' - 1
  <2>1. \A a, b \in Nat : a <= b => 1 .. a - 1 \subseteq 1 .. b - 1
    OBVIOUS
  <2>2. QED
    BY <1>1, <2>1
<1>3. QED
  BY <1>2 DEF CallTyped

\* The rows of items after a step that drops or adds some.
LEMMA ItemsTyped ==
  ASSUME Sound, Fewer \/ \E row : Makes(row)
  PROVE  /\ nextItem' \in Nat \ {0} /\ nextItem <= nextItem'
         /\ DOMAIN items' \subseteq 1 .. nextItem' - 1
         /\ \A i \in DOMAIN items' : items'[i] \in Row
         /\ strays' \subseteq 1 .. nextItem' - 1
<1>1. nextItem \in Nat \ {0} /\ DOMAIN items \subseteq 1 .. nextItem - 1
      /\ \A i \in DOMAIN items : items[i] \in Row
  BY DEF Sound, TypeInv
<1>2. CASE Fewer
  BY <1>1, <1>2 DEF Fewer, Loses
<1>3. CASE \E row : Makes(row)
  <2>1. PICK row : Makes(row)
    BY <1>3
  <2>2. /\ nextItem' = nextItem + 1 /\ DOMAIN items' = DOMAIN items \cup {nextItem}
        /\ \A i \in DOMAIN items' : items'[i] \in Row
    BY <1>1, <2>1 DEF Makes, Insert, With
  <2>3. strays' \subseteq 1 .. nextItem - 1
    BY <2>1 DEF Makes, Loses
  <2>4. QED
    BY <1>1, <2>2, <2>3
<1>4. QED
  BY <1>2, <1>3

\* The links after a step on a row.
LEMMA LinksTyped ==
  ASSUME Sound, NEW r, SameRows, SameLinks \/ (\E i \in Link : Relinks(r, i)),
         nextItem' \in Nat, nextItem <= nextItem'
  PROVE  \A q \in DOMAIN emails' : emails'[q].item \in Link' /\ emails'[q].mail \in Mails
<1>1. nextItem \in Nat /\ \A q \in DOMAIN emails : emails[q].item \in Link /\ emails[q].mail \in Mails
  BY DEF Sound, TypeInv
<1>2. Link \subseteq Link'
  BY <1>1 DEF Link
<1>3. DOMAIN emails' = DOMAIN emails /\ \A q \in DOMAIN emails : emails'[q].mail = emails[q].mail
  BY DEF SameRows
<1>4. \A q \in DOMAIN emails : emails'[q].item \in Link
  BY <1>1 DEF SameLinks, Relinks
<1> HIDE DEF Link
<1>5. QED
  BY <1>1, <1>2, <1>3, <1>4

LEMMA TypeKept ==
  ASSUME Sound, Shape', Outside \/ \E f \in Fetchers : CallStep(f)
  PROVE  TypeInv'
<1>1. /\ nextUid \in Nat /\ nextUid' \in Nat /\ nextRow \in Nat /\ nextRow' \in Nat
      /\ nextItem \in Nat /\ DOMAIN fetcher' = Fetchers
  BY DEF Sound, TypeInv, IntakeInv, Shape
<1>2. ASSUME nextItem' \in Nat, nextUid <= nextUid', nextRow <= nextRow', nextItem <= nextItem',
             NEW g \in Fetchers, fetcher'[g] = fetcher[g]
      PROVE  CallTyped(fetcher[g])' /\ HeldRight(fetcher[g])'
  <2>1. PICK c : c = fetcher[g]
    OBVIOUS
  <2>2. CallTyped(c) /\ HeldRight(c)
    BY <2>1 DEF Sound, TypeInv
  <2>3. CallTyped(c)'
    BY <1>2, <2>2, CallStaysTyped
  <2>4. QED
    BY <1>2, <2>1, <2>2, <2>3 DEF CallTyped, HeldRight, Marked
<1>3. CASE Outside
  <2>1. /\ nextItem' \in Nat \ {0} /\ nextItem <= nextItem'
        /\ DOMAIN items' \subseteq 1 .. nextItem' - 1
        /\ \A i \in DOMAIN items' : items'[i] \in Row
        /\ strays' \subseteq 1 .. nextItem' - 1
    BY <1>3, ItemsTyped DEF Outside
  <2>2. nextRow <= nextRow' /\ nextUid <= nextUid' /\ nextItem' = nextItem
    BY <1>1, <1>3 DEF Outside, Fewer
  <2>3. \A g \in Fetchers : CallTyped(fetcher[g])' /\ HeldRight(fetcher[g])'
    BY <1>2, <1>3, <2>1, <2>2 DEF Outside
  <2>4. \A r \in DOMAIN emails' : emails'[r].mail \in Mails
          /\ emails'[r].cat \in Categories \cup {None} /\ emails'[r].item \in Link'
    BY <1>3, <2>2 DEF Outside, Sound, TypeInv, Link
  <2>5. QED
    BY <1>3, <2>1, <2>3, <2>4 DEF TypeInv, Outside
<1>4. ASSUME NEW f \in Fetchers, Turns(f) PROVE TypeInv'
  <2>1. TurnParts(f)
    BY <1>4, TurnHasParts
  <2>2. /\ nextItem' \in Nat \ {0} /\ nextItem <= nextItem'
        /\ DOMAIN items' \subseteq 1 .. nextItem' - 1
        /\ \A i \in DOMAIN items' : items'[i] \in Row
        /\ strays' \subseteq 1 .. nextItem' - 1
    BY <2>1, ItemsTyped DEF TurnParts, MadeBy
  <2>3. UNCHANGED <<box, nextUid, nextRow>> /\ SameRows /\ SameBatch(f)
    BY <2>1 DEF TurnParts, Handles, SameMailbox
  <2>4. \A r \in DOMAIN emails' : emails'[r].item \in Link' /\ emails'[r].mail \in Mails
          /\ emails'[r].cat \in Categories \cup {None}
    BY <2>1, <2>2, <2>3, LinksTyped DEF TurnParts, SameRows
  <2>5. CallTyped(fetcher[f])' /\ HeldRight(fetcher[f])'
    <3>1. PICK c, d : c = fetcher[f] /\ d = fetcher'[f]
      OBVIOUS
    <3>2. CallTyped(c) /\ Busy(c.pc) /\ d.todo = c.todo /\ d.row = c.row
      BY <2>1, <2>3, <3>1 DEF Sound, TypeInv, SameBatch, Keeps, TurnParts
    <3>3. /\ d.pc \notin Unjudged => d.cat \in Categories
          /\ d.pc \in Holding => d.held \in Row
          /\ d.pc \in Linking => d.made = nextItem /\ nextItem' = nextItem + 1
          /\ d.pc = "fillWrite" => d.made \in 1 .. nextItem - 1
          /\ d.pc \in Into => d.made.keep \in 1 .. nextItem - 1
          /\ HeldRight(d)
      BY <1>4, <3>1, TurnTyped
    <3>4. 1 .. nextItem - 1 \subseteq 1 .. nextItem' - 1
          /\ (nextItem' = nextItem + 1 => nextItem \in 1 .. nextItem' - 1)
      <4>1. PICK a, b \in Nat \ {0} : a = nextItem /\ b = nextItem'
        BY <2>2 DEF Sound, TypeInv
      <4>2. a <= b
        BY <2>2, <4>1
      <4>3. 1 .. a - 1 \subseteq 1 .. b - 1 /\ (b = a + 1 => a \in 1 .. b - 1)
        BY <4>2
      <4>4. QED
        BY <4>1, <4>3
    <3>5. CallTyped(d)'
      BY <2>3, <3>2, <3>3, <3>4 DEF CallTyped
    <3>6. QED
      BY <3>1, <3>3, <3>5 DEF CallTyped, HeldRight, Marked
  <2>6. \A g \in Fetchers \ {f} : CallTyped(fetcher[g])' /\ HeldRight(fetcher[g])'
    BY <1>1, <1>2, <2>2, <2>3 DEF SameBatch
  <2>7. QED
    BY <2>2, <2>3, <2>4, <2>5, <2>6 DEF TypeInv, Sound
<1>5. ASSUME NEW f \in Fetchers, Ends(f) \/ Finishes(f) PROVE TypeInv'
  <2>1. SameStore /\ Others(f) /\ ~Busy(fetcher'[f].pc) /\ TodoTyped(fetcher'[f].todo)
    BY <1>5 DEF Ends, Finishes
  <2>2. CallTyped(fetcher[f])' /\ HeldRight(fetcher[f])'
    BY <2>1 DEF SameStore, TodoTyped, CallTyped, HeldRight, Busy, Unjudged, Holding, Linking, Into
  <2>3. \A g \in Fetchers \ {f} : CallTyped(fetcher[g])' /\ HeldRight(fetcher[g])'
    BY <1>1, <1>2, <2>1 DEF SameStore, Others
  <2>4. QED
    BY <2>1, <2>2, <2>3 DEF TypeInv, Sound, SameStore, Link
<1>6. ASSUME NEW f \in Fetchers, Stores(f) PROVE TypeInv'
  <2>1. /\ UNCHANGED <<box, nextUid, items, nextItem, strays>> /\ Others(f)
        /\ nextRow' = nextRow + 1 /\ DOMAIN fetcher[f].todo # {}
    BY <1>6 DEF Stores
  <2>2. Mail(f) \in Mails /\ CallTyped(fetcher[f])
    BY <2>1, MailTyped DEF Sound, TypeInv
  <2>3. CallTyped(fetcher[f])' /\ HeldRight(fetcher[f])'
    <3>1. /\ fetcher'[f].pc = "reply" /\ fetcher'[f].row = nextRow
          /\ fetcher'[f].todo = fetcher[f].todo
      BY <1>6 DEF Stores
    <3>2. nextRow \in 1 .. nextRow' - 1
      BY <1>1, <2>1 DEF Sound, IntakeInv, Shape
    <3>3. QED
      BY <2>1, <2>2, <3>1, <3>2
      DEF CallTyped, HeldRight, Unjudged, Holding, Linking, Into
  <2>4. \A g \in Fetchers \ {f} : CallTyped(fetcher[g])' /\ HeldRight(fetcher[g])'
    BY <1>1, <1>2, <2>1 DEF Others
  <2>5. \A r \in DOMAIN emails' : emails'[r].mail \in Mails
          /\ emails'[r].cat \in Categories \cup {None} /\ emails'[r].item \in Link'
    BY <1>6, <2>1, <2>2 DEF Stores, Sound, TypeInv, Link
  <2>6. QED
    BY <2>1, <2>3, <2>4, <2>5 DEF TypeInv, Sound
<1>7. QED
  BY <1>3, <1>4, <1>5, <1>6 DEF CallStep

LEMMA TypeInit == Init => TypeInv
<1> SUFFICES ASSUME Init PROVE TypeInv
  OBVIOUS
<1>1. Idle.pc = "idle" /\ DOMAIN Idle.todo = {}
  BY DEF Idle
<1>2. CallTyped(Idle) /\ HeldRight(Idle)
  BY <1>1 DEF CallTyped, HeldRight, Busy, Unjudged, Holding, Linking, Into
<1>3. \A f \in Fetchers : fetcher[f] = Idle
  BY DEF Init
<1>4. \A f \in Fetchers : CallTyped(fetcher[f]) /\ HeldRight(fetcher[f])
  BY <1>2, <1>3
<1>5. QED
  BY <1>4, PipelineAssumption DEF Init, TypeInv

LEMMA SoundKept ==
  ASSUME Sound, [Next]_vars
  PROVE  Sound' /\ (Outside \/ \E f \in Fetchers : CallStep(f))
<1>1. IntakeInv'
  BY NextKeeps DEF Sound
<1>2. QED
  BY <1>1, NextSteps, TypeKept DEF Sound, IntakeInv

LEMMA SoundTypeOK ==
  ASSUME Sound
  PROVE  TypeOK
<1>1. cursor \in {None} \cup 1 .. MaxUid
  BY PipelineAssumption DEF Sound, IntakeInv, Shape, TypeInv
<1>2. ASSUME NEW r \in DOMAIN emails
      PROVE  emails[r] \in [mail : Mails, cat : Categories \cup {None},
                            item : {None} \cup 1 .. nextItem - 1]
  <2>1. PICK e : e = emails[r]
    OBVIOUS
  <2>2. IsRow(e) /\ e.mail \in Mails /\ e.cat \in Categories \cup {None} /\ e.item \in Link
    BY <2>1 DEF Sound, IntakeInv, Shape, TypeInv
  <2>3. e \in [mail : Mails, cat : Categories \cup {None}, item : Link]
    BY <2>2 DEF IsRow
  <2>4. QED
    BY <2>1, <2>3 DEF Link
<1>3. ASSUME NEW f \in Fetchers PROVE DOMAIN fetcher[f] = DOMAIN Idle
  <2> DEFINE Fields == {"pc", "from", "limit", "todo", "top", "ranged", "row", "round", "cat",
                        "given", "made", "held"}
  <2>1. PICK c : c = fetcher[f]
    OBVIOUS
  <2>2. IsCall(c)
    BY <2>1 DEF Sound, IntakeInv, Shape
  <2>3. DOMAIN c = Fields
    BY <2>2 DEF IsCall
  <2>4. DOMAIN Idle = Fields
    BY DEF Idle
  <2>5. QED
    BY <2>1, <2>3, <2>4
<1>4. QED
  BY <1>1, <1>2, <1>3 DEF TypeOK, Sound, IntakeInv, Shape, TypeInv

LEMMA SoundHolds == Spec => []Sound
<1>1. Init => Sound
  BY IntakeInit, TypeInit DEF Sound
<1>2. Sound /\ [Next]_vars => Sound'
  BY SoundKept
<1>3. QED
  BY <1>1, <1>2, PTL DEF Spec

\* Every row the pipeline writes has the fields, categories and links of the
\* tables, whatever the models answer: a category there is, a deadline that is
\* an instant, a link below the counter of the items, also after a merge whose
\* target pick_merge_target picked (pipeline.rs:658-697).
THEOREM PipelineTypes == Spec => []TypeOK
<1>1. Sound => TypeOK
  BY SoundTypeOK
<1>2. QED
  BY SoundHolds, <1>1, PTL

-----------------------------------------------------------------------------
(* The rows are kept *)

LEMMA TurnRows ==
  ASSUME Sound, RowInv, NEW f \in Fetchers, Turns(f)
  PROVE  RowInv'
<1>1. TurnParts(f)
  BY TurnHasParts
<1>2. /\ UNCHANGED <<nextRow, finished>> /\ DOMAIN emails' = DOMAIN emails
      /\ \A r \in DOMAIN emails : emails'[r].mail = emails[r].mail
      /\ SameBatch(f) /\ fetcher'[f].row = fetcher[f].row
  BY <1>1 DEF TurnParts, Handles, SameMailbox, SameRows
<1>3. /\ \A g \in Fetchers \ {f} : fetcher'[g] = fetcher[g]
      /\ \A g \in Fetchers : /\ fetcher'[g].row = fetcher[g].row
                             /\ fetcher'[g].todo = fetcher[g].todo
                             /\ Busy(fetcher'[g].pc) <=> Busy(fetcher[g].pc)
  BY <1>2 DEF SameBatch, Keeps
<1>4. \A i \in DOMAIN items' : items'[i].src \in 1 .. nextRow - 1
  <2>1. CASE Fewer
    BY <2>1 DEF Fewer, RowInv
  <2>2. CASE MadeBy(f)
    <3>1. PICK row : Makes(row) /\ row.src = fetcher[f].row
      BY <2>2 DEF MadeBy
    <3>2. fetcher[f].row \in 1 .. nextRow - 1
      BY <1>2 DEF SameBatch, RowInv, RowOf
    <3>3. QED
      BY <3>1, <3>2 DEF Makes, Insert, With, RowInv
  <2>3. QED
    BY <1>1, <2>1, <2>2 DEF TurnParts
<1>5. \A g \in Fetchers : Mail(g)' = Mail(g)
  BY <1>3 DEF Mail, First
<1>6. \A g \in Fetchers : RowOf(g)'
  <2>1. ASSUME NEW g \in Fetchers, Busy(fetcher[g].pc)
        PROVE  /\ fetcher[g].row \in (1 .. nextRow - 1) \ finished
               /\ fetcher[g].row \in DOMAIN emails => emails[fetcher[g].row].mail = Mail(g)
    BY <2>1 DEF RowInv, RowOf, Known
  <2>2. QED
    BY <1>2, <1>3, <1>5, <2>1 DEF RowOf, Known
<1>7. \A q, r \in DOMAIN emails' : emails'[q].mail = emails'[r].mail => q = r
  BY <1>2 DEF RowInv
<1>8. \A g, h \in Fetchers : Busy(fetcher'[g].pc) /\ Busy(fetcher'[h].pc)
                               /\ fetcher'[g].row = fetcher'[h].row => g = h
  BY <1>3 DEF RowInv
<1>9. QED
  BY <1>2, <1>4, <1>6, <1>7, <1>8 DEF RowInv

LEMMA EndRows ==
  ASSUME Sound, RowInv, NEW f \in Fetchers, Ends(f) \/ Finishes(f)
  PROVE  RowInv'
<1>1. /\ UNCHANGED <<nextRow, emails, items>> /\ Others(f) /\ ~Busy(fetcher'[f].pc)
      /\ finished' \in {finished, finished \cup {fetcher[f].row}}
      /\ finished' # finished => fetcher[f].pc = "done"
  BY DEF Ends, Finishes, SameStore
<1>2. finished' \subseteq 1 .. nextRow - 1
  BY <1>1 DEF RowInv, RowOf, Busy
<1>3. ASSUME NEW g \in Fetchers PROVE RowOf(g)'
  <2>1. CASE g = f
    BY <1>1, <2>1 DEF RowOf
  <2>2. CASE g # f
    <3>1. fetcher'[g] = fetcher[g]
      BY <1>1, <2>2 DEF Others
    <3>2. Mail(g)' = Mail(g)
      BY <3>1 DEF Mail, First
    <3>3. Busy(fetcher[g].pc) => fetcher[g].row \notin finished'
      BY <1>1, <2>2 DEF RowInv, RowOf, Busy
    <3>4. RowOf(g)
      BY DEF RowInv
    <3>5. QED
      BY <1>1, <3>1, <3>2, <3>3, <3>4 DEF RowOf, Known
  <2>3. QED
    BY <2>1, <2>2
<1>4. \A g, h \in Fetchers : Busy(fetcher'[g].pc) /\ Busy(fetcher'[h].pc)
                               /\ fetcher'[g].row = fetcher'[h].row => g = h
  BY <1>1 DEF RowInv, Others
<1>5. QED
  BY <1>1, <1>2, <1>3, <1>4 DEF RowInv

LEMMA StoreRows ==
  ASSUME Sound, RowInv, NEW f \in Fetchers, Stores(f)
  PROVE  RowInv'
<1>1. /\ UNCHANGED <<items, finished>> /\ Others(f) /\ nextRow' = nextRow + 1
      /\ DOMAIN emails' = DOMAIN emails \cup {nextRow}
      /\ \A r \in DOMAIN emails : emails'[r] = emails[r]
      /\ emails'[nextRow].mail = Mail(f)
      /\ \A r \in DOMAIN emails : emails[r].mail # Mail(f)
      /\ fetcher'[f].row = nextRow /\ fetcher'[f].todo = fetcher[f].todo
  BY DEF Stores
<1>2. nextRow \in Nat \ {0} /\ DOMAIN emails \subseteq 1 .. nextRow - 1
  BY DEF Sound, IntakeInv, Shape
<1>3. /\ 1 .. nextRow - 1 \subseteq 1 .. nextRow' - 1 /\ nextRow \in 1 .. nextRow' - 1
      /\ nextRow \notin 1 .. nextRow - 1
  BY <1>1, <1>2
<1>4. ASSUME NEW g \in Fetchers PROVE RowOf(g)'
  <2>1. CASE g = f
    <3>1. Mail(f)' = Mail(f)
      BY <1>1 DEF Mail, First
    <3>2. nextRow \notin finished
      BY <1>3 DEF RowInv
    <3>3. QED
      BY <1>1, <1>3, <2>1, <3>1, <3>2 DEF RowOf, Known
  <2>2. CASE g # f
    <3>1. fetcher'[g] = fetcher[g]
      BY <1>1, <2>2 DEF Others
    <3>2. Mail(g)' = Mail(g)
      BY <3>1 DEF Mail, First
    <3>3. RowOf(g)
      BY DEF RowInv
    <3>4. QED
      BY <1>1, <1>3, <3>1, <3>2, <3>3 DEF RowOf, Known
  <2>3. QED
    BY <2>1, <2>2
<1>5. \A q, r \in DOMAIN emails' : emails'[q].mail = emails'[r].mail => q = r
  BY <1>1 DEF RowInv
<1>6. \A g, h \in Fetchers : Busy(fetcher'[g].pc) /\ Busy(fetcher'[h].pc)
                               /\ fetcher'[g].row = fetcher'[h].row => g = h
  <2>1. \A g \in Fetchers \ {f} : Busy(fetcher'[g].pc) => fetcher'[g].row # nextRow
    BY <1>1, <1>3 DEF RowInv, RowOf, Others
  <2>2. QED
    BY <1>1, <2>1 DEF RowInv, Others
<1>7. QED
  BY <1>1, <1>3, <1>4, <1>5, <1>6 DEF RowInv

LEMMA OutsideRows ==
  ASSUME Sound, RowInv, Outside
  PROVE  RowInv'
<1>1. /\ UNCHANGED <<nextRow, fetcher, finished>> /\ Fewer
      /\ DOMAIN emails' \subseteq DOMAIN emails
      /\ \A r \in DOMAIN emails' : emails'[r] = emails[r]
  BY DEF Outside
<1>2. \A g : Mail(g)' = Mail(g)
  BY <1>1 DEF Mail, First
<1>3. ASSUME NEW g \in Fetchers PROVE RowOf(g)'
  <2>1. RowOf(g)
    BY DEF RowInv
  <2>2. QED
    BY <1>1, <1>2, <2>1 DEF RowOf, Known
<1>4. QED
  BY <1>1, <1>3 DEF RowInv, Fewer

LEMMA RowInit == Init => RowInv
BY IdleIsCall DEF Init, RowInv, RowOf, Busy

LEMMA RowKept ==
  ASSUME Sound, RowInv, [Next]_vars
  PROVE  RowInv'
BY SoundKept, TurnRows, EndRows, StoreRows, OutsideRows DEF CallStep

-----------------------------------------------------------------------------
(* What a step leaves alone *)

\* The row and the items of a mail, after a step that is about another one.
Aside(r) ==
  /\ Known(r)' => /\ Known(r) /\ emails'[r].mail = emails[r].mail
                  /\ emails'[r].item = emails[r].item
  /\ Own(r)' \subseteq Own(r)
  /\ \A i \in Own(r)' : Marked(items[i]) => Marked(items'[i])

LEMMA FewerOwn ==
  ASSUME Fewer, NEW r
  PROVE  Own(r)' \subseteq Own(r) /\ \A i \in Own(r)' : Marked(items[i]) => Marked(items'[i])
BY DEF Fewer, Own, Loses

LEMMA MadeOwn ==
  ASSUME Sound, NEW row, Makes(row), NEW r
  PROVE  /\ r # row.src => Own(r)' \subseteq Own(r)
         /\ Own(r)' \subseteq (Own(r) \ strays') \cup {nextItem}
         /\ \A i \in Own(r) : items'[i] = items[i]
<1>1. nextItem \notin DOMAIN items
  BY DEF Sound, TypeInv
<1>2. /\ DOMAIN items' = DOMAIN items \cup {nextItem} /\ items'[nextItem] = row
      /\ \A i \in DOMAIN items : items'[i] = items[i]
      /\ strays \subseteq strays'
  BY <1>1 DEF Makes, Insert, With, Loses
<1>3. QED
  BY <1>1, <1>2 DEF Own

LEMMA TurnAside ==
  ASSUME Sound, NEW f \in Fetchers, TurnParts(f), NEW r, r # fetcher[f].row
  PROVE  Aside(r)
<1>1. Known(r)' => /\ Known(r) /\ emails'[r].mail = emails[r].mail
                   /\ emails'[r].item = emails[r].item
  BY DEF TurnParts, Handles, SameRows, SameLinks, Relinks, Known
<1>2. CASE Fewer
  BY <1>1, <1>2, FewerOwn DEF Aside
<1>3. CASE MadeBy(f)
  BY <1>1, <1>3, MadeOwn DEF Aside, MadeBy
<1>4. QED
  BY <1>1, <1>2, <1>3 DEF TurnParts

LEMMA EndAside ==
  ASSUME Sound, SameStore, NEW r
  PROVE  Aside(r)
BY DEF SameStore, Aside, Own, Known

LEMMA StoreAside ==
  ASSUME Sound, NEW f, Stores(f), NEW r, r # nextRow
  PROVE  Aside(r)
BY DEF Stores, Aside, Own, Known

LEMMA OutsideAside ==
  ASSUME Sound, Outside, NEW r
  PROVE  Aside(r)
BY FewerOwn DEF Outside, Aside, Known

\* Every call step is about one row: that of the call.  The rows of the other
\* calls and those whose mail is finished are left alone.
LEMMA CallStepAside ==
  ASSUME Sound, RowInv, NEW f \in Fetchers, CallStep(f)
  PROVE  /\ Others(f)
         /\ \A g \in Fetchers \ {f} : Busy(fetcher[g].pc) => Aside(fetcher[g].row)
         /\ \A r \in finished : Aside(r)
<1>1. \A g \in Fetchers : Busy(fetcher[g].pc) =>
        fetcher[g].row \in 1 .. nextRow - 1 /\ fetcher[g].row \notin finished
  BY DEF RowInv, RowOf
<1>2. nextRow \in Nat /\ nextRow \notin 1 .. nextRow - 1 /\ finished \subseteq 1 .. nextRow - 1
  BY DEF Sound, IntakeInv, Shape, RowInv
<1>3. CASE Turns(f)
  <2>1. TurnParts(f) /\ SameBatch(f)
    BY <1>3, TurnHasParts DEF TurnParts, Handles
  <2>2. Busy(fetcher[f].pc) /\ Others(f)
    BY <2>1 DEF SameBatch, Others
  <2>3. \A g \in Fetchers \ {f} : Busy(fetcher[g].pc) => fetcher[g].row # fetcher[f].row
    BY <2>2 DEF RowInv
  <2>4. fetcher[f].row \notin finished
    BY <1>1, <2>2
  <2>5. QED
    BY <2>1, <2>2, <2>3, <2>4, TurnAside
<1>4. CASE Ends(f) \/ Finishes(f)
  BY <1>4, EndAside DEF Ends, Finishes
<1>5. CASE Stores(f)
  <2>1. \A r : r # nextRow => Aside(r)
    BY <1>5, StoreAside
  <2>2. Others(f)
    BY <1>5 DEF Stores
  <2>3. QED
    BY <1>1, <1>2, <2>1, <2>2
<1>6. QED
  BY <1>3, <1>4, <1>5 DEF CallStep

-----------------------------------------------------------------------------
(* One item for a mail *)

LEMMA SoleAside ==
  ASSUME NEW c, Sole(c), Aside(c.row), Busy(c.pc)
  PROVE  Sole(c)'
BY DEF Sole, Aside, Linked, Known

LEMMA SingleAside ==
  ASSUME NEW r, Single(r), Aside(r)
  PROVE  Single(r)'
BY DEF Single, Aside

\* The items of the mail in hand, after each turn.
LEMMA SoleTurn ==
  ASSUME Sound, RowInv, NEW f \in Fetchers, Turns(f), NEW c, c = fetcher[f], NEW d,
         d = fetcher'[f], Sole(c), Known(c.row), Single(c.row)
  PROVE  Sole(d)' /\ Single(d.row)'
<1>1. TurnParts(f)
  BY TurnHasParts
<1>2. d.row = c.row /\ Known(c.row)' /\ Busy(c.pc) /\ Busy(d.pc)
  BY <1>1 DEF TurnParts, Handles, SameRows, SameBatch, Known
<1>3. PICK r : r = c.row
  OBVIOUS
<1>4. PICK i : i = Linked(r)
  OBVIOUS
<1>5. Known(r) /\ Known(r)' /\ i = emails[r].item /\ Linked(r)' = emails'[r].item
  BY <1>2, <1>3, <1>4 DEF Linked, Known
<1>6. /\ c.pc \in Linking => Own(r) \subseteq {c.made}
      /\ c.pc \notin Linking \cup Merging => Own(r) \subseteq {i}
      /\ c.pc \in {"extract", "insert"} => i = None
      /\ c.pc = "unlink" => Own(r) = {}
  BY <1>2, <1>3, <1>4 DEF Sole
<1>7. Fewer => Own(r)' \subseteq Own(r)
  BY FewerOwn
<1>8. Rest3 => Own(r)' \subseteq Own(r)
  BY DEF Rest3, Own, Loses
<1>9. None \notin DOMAIN items /\ Own(r) \subseteq DOMAIN items /\ Own(r)' \subseteq DOMAIN items'
  BY NoneApart DEF Own
<1> DEFINE Goal == /\ d.pc \in Linking => Own(r)' \subseteq {d.made}
                   /\ d.pc \notin Linking \cup Merging => Own(r)' \subseteq {emails'[r].item}
                   /\ d.pc \in {"extract", "insert"} => emails'[r].item = None
                   /\ d.pc = "unlink" => Own(r)' = {}
                   /\ \A j, k \in Own(r)' : j = k
<1>10. \A j, k \in Own(r) : j = k
  BY <1>3 DEF Single
<1>11. Goal
  <2>1. CASE AgentTurns(f)
    <3>1. CASE ReplyTurn(f)
      BY <1>3, <1>5, <1>6, <1>7, <1>10, <3>1 DEF ReplyTurn, Turn, SameLinks, Linking, Merging, Known
    <3>2. CASE CreateTurn(f)
      <4>1. PICK row : Makes(row) /\ row.src = r
        BY <1>3, <3>2 DEF CreateTurn
      <4>2. Own(r)' \subseteq (Own(r) \ strays') \cup {nextItem}
        BY <4>1, MadeOwn
      <4>3. i \notin DOMAIN items \ strays' /\ c.pc = "agent" /\ d.pc = "toolLink" /\ d.made = nextItem
        BY <1>3, <1>4, <3>2 DEF CreateTurn, Turn
      <4>4. Own(r) \ strays' = {}
        BY <1>6, <1>9, <4>3 DEF Linking, Merging
      <4>5. QED
        BY <4>2, <4>3, <4>4 DEF Linking, Merging
    <3>3. CASE AgentLinksTurn(f)
      <4>1. c.pc = "toolLink" /\ d.pc = "agent" /\ Own(r)' \subseteq Own(r)
        BY <1>8, <3>3 DEF AgentLinksTurn, Turn
      <4>2. Own(r)' \subseteq {c.made} \ strays'
        BY <1>6, <4>1 DEF Linking, Own
      <4>3. emails'[r].item = c.made \/ c.made \in strays'
        BY <1>3, <1>5, <3>3 DEF AgentLinksTurn, Relinks, Known
      <4>4. QED
        BY <4>1, <4>2, <4>3 DEF Linking, Merging
    <3>4. CASE AgentEndsTurn(f)
      BY <1>3, <1>5, <1>6, <1>8, <1>10, <3>4
      DEF AgentEndsTurn, Turn, SameLinks, Linking, Merging, Known
    <3>5. QED
      BY <2>1, <3>1, <3>2, <3>3, <3>4 DEF AgentTurns
  <2>2. CASE GuardTurns(f)
    <3>1. CASE FeedbackTurn(f) \/ PromoTurn(f)
      BY <1>3, <1>5, <1>6, <1>8, <1>10, <3>1
      DEF FeedbackTurn, PromoTurn, Turn, SameLinks, Linking, Merging, Known
    <3>2. CASE UnfeedTurn(f)
      BY <1>3, <1>5, <1>6, <1>7, <1>10, <3>2
      DEF UnfeedTurn, Turn, SameLinks, Linking, Merging, Known
    <3>3. CASE UnpromoTurn(f)
      <4>1. /\ c.pc = "unpromo" /\ d.pc \in {"unlink", "file"} /\ SameLinks
            /\ d.pc = "unlink" => Fewer /\ i \notin DOMAIN items' \ strays'
            /\ d.pc = "file" => Rest3
        BY <1>3, <1>4, <3>3 DEF UnpromoTurn, Turn
      <4>2. Own(r)' \subseteq Own(r) /\ Own(r) \subseteq {i} /\ emails'[r].item = i
        BY <1>5, <1>6, <1>7, <1>8, <4>1 DEF SameLinks, Linking, Merging, Known
      <4>3. d.pc = "unlink" => Own(r)' = {}
        BY <4>1, <4>2 DEF Own
      <4>4. QED
        BY <4>1, <4>2, <4>3 DEF Linking, Merging
    <3>4. CASE UnlinkTurn(f)
      <4>1. d.pc = "file" /\ c.pc = "unlink" /\ Own(r)' \subseteq Own(r)
        BY <1>3, <1>8, <3>4 DEF UnlinkTurn, Turn
      <4>2. QED
        BY <1>6, <4>1 DEF Linking, Merging
    <3>5. QED
      BY <2>2, <3>1, <3>2, <3>3, <3>4 DEF GuardTurns
  <2>3. CASE EnsureTurns(f)
    <3>1. CASE FileTurn(f) \/ ExtractTurn(f) \/ FillTurn(f)
      BY <1>3, <1>4, <1>5, <1>6, <1>8, <1>10, <3>1
      DEF FileTurn, ExtractTurn, FillTurn, Turn, SameLinks, Linking, Merging, Known
    <3>2. CASE InsertTurn(f)
      <4>1. PICK row : row = c.held
        OBVIOUS
      <4>2. Makes(row) /\ c.pc = "insert" /\ d.pc = "link" /\ d.made = nextItem
        BY <3>2, <4>1 DEF InsertTurn, Turn
      <4>3. row.src = r
        BY <1>3, <4>1, <4>2 DEF Sound, TypeInv, HeldRight
      <4>4. Own(r)' \subseteq Own(r) \cup {nextItem}
        BY <4>2, <4>3, MadeOwn
      <4>5. Own(r) = {}
        BY <1>6, <1>9, <4>2 DEF Linking, Merging
      <4>6. QED
        BY <4>2, <4>4, <4>5 DEF Linking, Merging
    <3>3. CASE LinkTurn(f)
      BY <1>3, <1>5, <1>6, <1>8, <1>10, <3>3
      DEF LinkTurn, Turn, Relinks, Linking, Merging, Known
    <3>4. CASE FillWriteTurn(f)
      <4>1. Own(r)' \subseteq Own(r)
        BY <3>4 DEF FillWriteTurn, Writes, Own, Loses
      <4>2. QED
        BY <1>3, <1>5, <1>6, <1>10, <3>4, <4>1
        DEF FillWriteTurn, Turn, SameLinks, Linking, Merging, Known
    <3>5. QED
      BY <2>3, <3>1, <3>2, <3>3, <3>4 DEF EnsureTurns
  <2>4. CASE MergeTurns(f)
    <3>1. CASE MergeTurn(f)
      BY <1>3, <1>5, <1>6, <1>8, <1>10, <3>1
      DEF MergeTurn, Turn, SameLinks, Linking, Merging, Known
    <3>2. CASE MergeWriteTurn(f)
      <4>1. Own(r)' \subseteq Own(r)
        BY <3>2 DEF MergeWriteTurn, Writes, Own, Loses
      <4>2. QED
        BY <1>3, <1>5, <1>6, <1>10, <3>2, <4>1
        DEF MergeWriteTurn, Turn, SameLinks, Linking, Merging, Known
    <3>3. CASE MergeLinkTurn(f) \/ MergeDropTurn(f) \/ MergeFailsTurn(f)
      BY <1>3, <1>7, <1>8, <1>10, <3>3
      DEF MergeLinkTurn, MergeDropTurn, MergeFailsTurn, Turn, Linking, Merging
    <3>4. QED
      BY <2>4, <3>1, <3>2, <3>3 DEF MergeTurns
  <2>5. QED
    BY <2>1, <2>2, <2>3, <2>4 DEF Turns
<1>12. QED
  BY <1>2, <1>3, <1>5, <1>11 DEF Sole, Single

\* A mail that has just got its row has no item.
LEMMA NewRowBare ==
  ASSUME Sound, RowInv, NEW f \in Fetchers, Stores(f), NEW r, r = nextRow
  PROVE  Own(r)' = {} /\ emails'[r].item = None
<1>1. nextRow \notin 1 .. nextRow - 1
  BY DEF Sound, IntakeInv, Shape
<1>2. \A i \in DOMAIN items' : items'[i].src \in 1 .. nextRow - 1
  BY DEF Stores, RowInv
<1>3. QED
  BY <1>1, <1>2 DEF Own, Stores

LEMMA SoleKept ==
  ASSUME Sound, RowInv, SoleInv, [Next]_vars
  PROVE  SoleInv'
<1>1. CASE Outside
  <2>1. \A r \in DOMAIN emails' : Single(r)'
    BY <1>1, OutsideAside, SingleAside DEF SoleInv, Aside, Known
  <2>2. ASSUME NEW g \in Fetchers PROVE Sole(fetcher[g])'
    <3>1. PICK c : c = fetcher[g]
      OBVIOUS
    <3>2. c = fetcher'[g] /\ Sole(c)
      BY <1>1, <3>1 DEF Outside, SoleInv
    <3>3. Sole(c)'
      BY <1>1, <3>2, OutsideAside, SoleAside DEF Sole
    <3>4. QED
      BY <3>2, <3>3 DEF Sole, Own, Linked, Known
  <2>3. QED
    BY <2>1, <2>2 DEF SoleInv
<1>2. ASSUME NEW f \in Fetchers, CallStep(f) PROVE SoleInv'
  <2>1. PICK c, d, r : c = fetcher[f] /\ d = fetcher'[f] /\ r = d.row
    OBVIOUS
  <2>2. Sole(c)
    BY <2>1 DEF SoleInv
  <2>3. Sole(d)' /\ \A q \in DOMAIN emails' : Single(q)'
    <3>1. CASE Turns(f)
      <4>1. TurnParts(f) /\ SameRows /\ d.row = c.row
        BY <2>1, <3>1, TurnHasParts DEF TurnParts, Handles
      <4>2. \A q \in DOMAIN emails' \ {r} : Single(q)'
        BY <2>1, <4>1, TurnAside, SingleAside DEF SoleInv, SameRows
      <4>3. CASE r \in DOMAIN emails
        <5>1. Sole(d)' /\ Single(r)'
          BY <2>1, <2>2, <3>1, <4>1, <4>3, SoleTurn DEF SoleInv, Known
        <5>2. QED
          BY <4>2, <5>1
      <4>4. CASE r \notin DOMAIN emails
        <5>1. r \notin DOMAIN emails'
          BY <4>1, <4>4 DEF SameRows
        <5>2. Sole(d)'
          BY <2>1, <5>1 DEF Sole, Known
        <5>3. QED
          BY <4>2, <5>1, <5>2
      <4>5. QED
        BY <4>3, <4>4
    <3>2. CASE Ends(f) \/ Finishes(f)
      <4>1. SameStore /\ ~Busy(d.pc)
        BY <2>1, <3>2 DEF Ends, Finishes
      <4>2. \A q \in DOMAIN emails' : Single(q)'
        BY <4>1, EndAside, SingleAside DEF SoleInv, SameStore
      <4>3. Sole(d)'
        BY <4>1 DEF Sole
      <4>4. QED
        BY <4>2, <4>3
    <3>3. CASE Stores(f)
      <4>1. r = nextRow /\ d.pc = "reply" /\ DOMAIN emails' = DOMAIN emails \cup {r}
        BY <2>1, <3>3 DEF Stores
      <4>2. Own(r)' = {}
        BY <3>3, <4>1, NewRowBare
      <4>3. \A q \in DOMAIN emails' \ {r} : Single(q)'
        BY <3>3, <4>1, StoreAside, SingleAside DEF SoleInv
      <4>4. Sole(d)' /\ Single(r)'
        BY <2>1, <4>1, <4>2 DEF Sole, Single, Linking, Merging
      <4>5. QED
        BY <4>3, <4>4
    <3>4. QED
      BY <1>2, <3>1, <3>2, <3>3 DEF CallStep
  <2>4. Sole(fetcher[f])'
    BY <2>1, <2>3 DEF Sole, Own, Linked, Known
  <2>5. ASSUME NEW g \in Fetchers, g # f PROVE Sole(fetcher[g])'
    <3>1. PICK e : e = fetcher[g]
      OBVIOUS
    <3>2. Sole(e) /\ e = fetcher'[g]
      BY <1>2, <2>5, <3>1, CallStepAside DEF SoleInv, Others
    <3>3. Busy(e.pc) => Aside(e.row)
      BY <1>2, <2>5, <3>1, CallStepAside
    <3>4. Sole(e)'
      BY <3>2, <3>3, SoleAside DEF Sole
    <3>5. QED
      BY <3>2, <3>4 DEF Sole, Own, Linked, Known
  <2>6. QED
    BY <2>3, <2>4, <2>5 DEF SoleInv
<1>3. QED
  BY <1>1, <1>2, SoundKept

LEMMA SoleInit == Init => SoleInv
BY IdleIsCall DEF Init, SoleInv, Sole, Busy

LEMMA RowsHold == Spec => [](Sound /\ RowInv /\ SoleInv)
<1>1. Init => RowInv /\ SoleInv
  BY RowInit, SoleInit
<1>2. Sound /\ RowInv /\ SoleInv /\ [Next]_vars => RowInv' /\ SoleInv'
  BY RowKept, SoleKept
<1>3. QED
  BY <1>1, <1>2, SoundHolds, PTL DEF Spec

LEMMA AtMostOne ==
  ASSUME NEW S, \A x, y \in S : x = y
  PROVE  Cardinality(S) <= 1
<1>1. CASE S = {}
  BY <1>1, FS_EmptySet
<1>2. CASE S # {}
  <2>1. PICK x : S = {x}
    BY <1>2
  <2>2. QED
    BY <2>1, FS_Singleton
<1>3. QED
  BY <1>1, <1>2

\* For any number of fetches at once, any batches and merges that errors, ends of
\* the process and user operations cut short, and whatever the agent and the
\* models answer: a mail is one row, and has at most one item while that row is
\* kept, besides those the agent made and could not link or did not see, errors
\* that the code drops (pipeline.rs:174, agent/tools.rs:374-379, :425,
\* pipeline.rs:794-796).
THEOREM OneItemEach == Spec => []OneItemPerMail
<1>1. Sound /\ RowInv /\ SoleInv => OneItemPerMail
  <2> SUFFICES ASSUME Sound, RowInv, SoleInv PROVE OneItemPerMail
    OBVIOUS
  <2>1. ASSUME NEW r \in DOMAIN emails
        PROVE  Cardinality({i \in DOMAIN items \ strays : items[i].src = r}) <= 1
    <3>1. {i \in DOMAIN items \ strays : items[i].src = r} = Own(r)
      BY DEF Own
    <3>2. QED
      BY <2>1, <3>1, AtMostOne DEF SoleInv, Single
  <2>2. QED
    BY <2>1 DEF OneItemPerMail, RowInv
<1>2. QED
  BY RowsHold, <1>1, PTL

-----------------------------------------------------------------------------
(* No todo for a promotion *)

LEMMA PromoAside ==
  ASSUME NEW c, NEW promo, PromoFree(c, promo), Aside(c.row), Busy(c.pc)
  PROVE  PromoFree(c, promo)'
BY DEF PromoFree, Aside, Linked, Known

\* The mail in hand stays the same through its turns.
LEMMA TurnMail ==
  ASSUME NEW f \in Fetchers, SameBatch(f)
  PROVE  \A g \in Fetchers : This(g)' = This(g)
<1>1. \A g \in Fetchers : fetcher'[g].todo = fetcher[g].todo
  BY DEF SameBatch, Keeps
<1>2. QED
  BY <1>1 DEF This, Mail, First

LEMMA PromoFreeTurn ==
  ASSUME Sound, NEW f \in Fetchers, Turns(f), NEW c, c = fetcher[f], NEW d,
         d = fetcher'[f], NEW promo, promo = IsPromo(This(f)), PromoFree(c, promo), Sole(c)
  PROVE  PromoFree(d, promo)'
<1> SUFFICES ASSUME promo PROVE PromoFree(d, promo)'
  BY DEF PromoFree
<1>1. TurnParts(f)
  BY TurnHasParts
<1>2. d.row = c.row /\ (Known(c.row)' <=> Known(c.row)) /\ Busy(c.pc) /\ Busy(d.pc)
  BY <1>1 DEF TurnParts, Handles, SameRows, SameBatch, Known
<1>3. PICK r : r = c.row
  OBVIOUS
<1>4. PICK i : i = Linked(r)
  OBVIOUS
<1>5. /\ Known(r) => i = emails[r].item /\ Linked(r)' = emails'[r].item
      /\ ~Known(r) => i = None
  BY <1>2, <1>3, <1>4 DEF Linked, Known
<1>6. /\ Known(r) /\ c.pc \notin Linking \cup Merging => Own(r) \subseteq {i}
      /\ Known(r) /\ c.pc = "unlink" => Own(r) = {}
  BY <1>2, <1>3, <1>4 DEF Sole
<1>7. /\ c.pc \notin {"extract", "insert", "link"}
      /\ c.pc \in {"unpromo", "unlink", "file"} => c.cat = "career_promo"
      /\ Known(r) /\ c.pc \in Undone => Own(r) = {}
  BY <1>2, <1>3, <1>4 DEF PromoFree
<1>8. /\ Fewer \/ Rest3 => Own(r)' \subseteq Own(r)
      /\ \A k, row : Writes(k, row) => Own(r)' \subseteq Own(r)
  BY FewerOwn DEF Rest3, Own, Loses, Writes
<1>9. None \notin DOMAIN items /\ Own(r) \subseteq DOMAIN items /\ Own(r)' \subseteq DOMAIN items'
  BY NoneApart DEF Own
<1> DEFINE Goal == /\ d.pc \notin {"extract", "insert", "link"}
                   /\ d.pc \in {"unpromo", "unlink", "file"} => d.cat = "career_promo"
                   /\ Known(r) /\ d.pc \in Undone => Own(r)' = {}
<1>10. Goal
  <2>1. CASE AgentTurns(f)
    BY <2>1
    DEF AgentTurns, ReplyTurn, CreateTurn, AgentLinksTurn, AgentEndsTurn, Turn, Undone, Into
  <2>2. CASE GuardTurns(f)
    <3>1. CASE FeedbackTurn(f) \/ UnfeedTurn(f)
      BY <3>1 DEF FeedbackTurn, UnfeedTurn, Turn, Undone, Into
    <3>2. CASE PromoTurn(f)
      BY <3>2 DEF PromoTurn, Turn, Undone, Into
    <3>3. CASE UnpromoTurn(f)
      <4>1. /\ c.pc = "unpromo" /\ d.cat = "career_promo" /\ d.pc \in {"unlink", "file"}
            /\ Fewer \/ Rest3
            /\ i \notin DOMAIN items' \ strays'
        BY <1>3, <1>4, <1>7, <1>9, <3>3 DEF UnpromoTurn, Turn, Rest3
      <4>2. Known(r) => Own(r) \subseteq {i}
        BY <1>6, <4>1 DEF Linking, Merging
      <4>3. Known(r) => Own(r)' = {}
        BY <1>8, <4>1, <4>2 DEF Own
      <4>4. QED
        BY <4>1, <4>3
    <3>4. CASE UnlinkTurn(f)
      <4>1. c.pc = "unlink" /\ d.pc = "file" /\ d.cat = c.cat /\ Rest3
        BY <3>4 DEF UnlinkTurn, Turn
      <4>2. QED
        BY <1>7, <1>8, <4>1 DEF Undone
    <3>5. QED
      BY <2>2, <3>1, <3>2, <3>3, <3>4 DEF GuardTurns
  <2>3. CASE FileTurn(f)
    <3>1. c.pc = "file" /\ c.cat = "career_promo" /\ Rest3
      BY <1>7, <2>3 DEF FileTurn, Turn
    <3>2. d.pc \in {"fill", "done"}
      BY <2>3, <3>1 DEF FileTurn, Turn, KindIsTodo
    <3>3. QED
      BY <1>7, <1>8, <3>1, <3>2 DEF Undone
  <2>4. CASE EnsureTurns(f) /\ ~FileTurn(f)
    <3>1. /\ c.pc \in Undone /\ d.pc \in {"fillWrite", "merge"}
          /\ Rest3 \/ \E k, row : Writes(k, row)
      BY <1>7, <2>4
      DEF EnsureTurns, ExtractTurn, InsertTurn, LinkTurn, FillTurn, FillWriteTurn, Turn, Undone
    <3>2. QED
      BY <1>7, <1>8, <3>1
  <2>5. CASE MergeTurns(f)
    <3>1. /\ c.pc \in Undone /\ d.pc \in {"done"} \cup Into
          /\ Rest3 \/ Fewer \/ \E k, row : Writes(k, row)
      BY <2>5
      DEF MergeTurns, MergeTurn, MergeWriteTurn, MergeLinkTurn, MergeDropTurn, MergeFailsTurn,
          Turn, Undone, Into
    <3>2. QED
      BY <1>7, <1>8, <3>1 DEF Into
  <2>6. QED
    BY <2>1, <2>2, <2>3, <2>4, <2>5 DEF Turns
<1>11. QED
  BY <1>2, <1>3, <1>5, <1>10 DEF PromoFree

LEMMA PromoKept ==
  ASSUME Sound, RowInv, SoleInv, PromoInv, [Next]_vars
  PROVE  PromoInv'
<1>1. CASE Outside
  <2>1. \A r \in finished' \cap DOMAIN emails' : IsPromo(Trait[emails'[r].mail]) => Own(r)' = {}
    BY <1>1, OutsideAside DEF Outside, PromoInv, Aside
  <2>2. ASSUME NEW g \in Fetchers PROVE PromoFree(fetcher[g], IsPromo(This(g)))'
    <3>1. PICK c, promo : c = fetcher[g] /\ promo = IsPromo(This(g))
      OBVIOUS
    <3>2. c = fetcher'[g] /\ promo = IsPromo(This(g)') /\ PromoFree(c, promo)
      BY <1>1, <3>1 DEF Outside, PromoInv, This, Mail, First
    <3>3. PromoFree(c, promo)'
      BY <1>1, <3>2, OutsideAside, PromoAside DEF PromoFree
    <3>4. QED
      BY <3>2, <3>3 DEF PromoFree, Own, Linked, Known, IsPromo
  <2>3. QED
    BY <2>1, <2>2 DEF PromoInv
<1>2. ASSUME NEW f \in Fetchers, CallStep(f) PROVE PromoInv'
  <2>1. PICK c, d, promo : c = fetcher[f] /\ d = fetcher'[f] /\ promo = IsPromo(This(f))
    OBVIOUS
  <2>2. PromoFree(c, promo) /\ Sole(c)
    BY <2>1 DEF PromoInv, SoleInv
  <2>3. PromoFree(fetcher[f], IsPromo(This(f)))'
    <3>1. CASE Turns(f)
      <4>1. This(f)' = This(f)
        BY <3>1, TurnHasParts, TurnMail DEF TurnParts, Handles
      <4>2. PromoFree(d, promo)'
        BY <2>1, <2>2, <3>1, PromoFreeTurn
      <4>3. QED
        BY <2>1, <4>1, <4>2 DEF PromoFree, Own, Linked, Known, IsPromo
    <3>2. CASE Ends(f) \/ Finishes(f)
      BY <3>2 DEF Ends, Finishes, PromoFree
    <3>3. CASE Stores(f)
      BY <3>3 DEF Stores, PromoFree, Undone, Into
    <3>4. QED
      BY <1>2, <3>1, <3>2, <3>3 DEF CallStep
  <2>4. ASSUME NEW g \in Fetchers, g # f PROVE PromoFree(fetcher[g], IsPromo(This(g)))'
    <3>1. PICK e, p : e = fetcher[g] /\ p = IsPromo(This(g))
      OBVIOUS
    <3>2. PromoFree(e, p) /\ e = fetcher'[g]
      BY <1>2, <2>4, <3>1, CallStepAside DEF PromoInv, Others
    <3>3. p = IsPromo(This(g)')
      BY <3>1, <3>2 DEF This, Mail, First
    <3>4. Busy(e.pc) => Aside(e.row)
      BY <1>2, <2>4, <3>1, CallStepAside
    <3>5. PromoFree(e, p)'
      BY <3>2, <3>4, PromoAside DEF PromoFree
    <3>6. QED
      BY <3>2, <3>3, <3>5 DEF PromoFree, Own, Linked, Known, IsPromo
  <2>5. \A r \in finished \cap DOMAIN emails' : IsPromo(Trait[emails'[r].mail]) => Own(r)' = {}
    BY <1>2, CallStepAside DEF PromoInv, Aside, Known
  <2>6. ASSUME NEW r \in DOMAIN emails', r \in finished', r \notin finished,
               IsPromo(Trait[emails'[r].mail])
        PROVE  Own(r)' = {}
    <3>1. Finishes(f) /\ r = c.row /\ c.pc = "done"
      BY <1>2, <2>1, <2>6, TurnHasParts DEF CallStep, TurnParts, Ends, Finishes, Stores
    <3>2. Busy(c.pc) /\ UNCHANGED <<emails, items, strays>>
      BY <3>1 DEF Finishes, SameStore, Busy
    <3>3. Known(r) /\ emails[r].mail = Mail(f)
      BY <2>1, <2>6, <3>1, <3>2 DEF RowInv, RowOf, Known
    <3>4. promo
      BY <2>1, <2>6, <3>2, <3>3 DEF This
    <3>5. Own(r) = {}
      BY <2>2, <3>1, <3>2, <3>3, <3>4 DEF PromoFree, Undone
    <3>6. QED
      BY <3>2, <3>5 DEF Own
  <2>7. QED
    BY <2>3, <2>4, <2>5, <2>6 DEF PromoInv
<1>3. QED
  BY <1>1, <1>2, SoundKept

LEMMA PromoInit == Init => PromoInv
BY IdleIsCall DEF Init, PromoInv, PromoFree, Busy

\* For any answers of the models and any number of fetches at once, a
\* promotion whose mail went through every step leaves no todo behind, also
\* when errors, restarts and the user came between: the guard takes back what
\* the agent made, unless it could not find or delete it and dropped the error,
\* and what comes after it makes nothing (pipeline.rs:268-283).
THEOREM PromotionsLeaveNothing == Spec => []PromoNotKept
<1>1. Init => PromoInv
  BY PromoInit
<1>2. Sound /\ RowInv /\ SoleInv /\ PromoInv /\ [Next]_vars => PromoInv'
  BY PromoKept
<1>3. PromoInv => PromoNotKept
  BY DEF PromoInv, PromoNotKept, Own
<1>4. QED
  BY <1>1, <1>2, <1>3, RowsHold, PTL DEF Spec

-----------------------------------------------------------------------------
(* A mark on what has no deadline *)

LEMMA MarkAside ==
  ASSUME NEW c, MarkKept(c), Aside(c.row)
  PROVE  MarkKept(c)'
BY DEF MarkKept, Aside, AllMarked, Linked, Known

\* A row written with its mark leaves the others marked.
LEMMA WritesMarked ==
  ASSUME NEW i, NEW row, Writes(i, row), Marked(row), NEW r,
         \A j \in Own(r) : j = i \/ Marked(items[j])
  PROVE  AllMarked(r)'
<1>1. Own(r)' \subseteq Own(r)
  BY DEF Own, Writes, Loses
<1>2. ASSUME NEW j \in Own(r) PROVE Marked(items'[j])
  <2>1. j \in DOMAIN items
    BY DEF Own
  <2>2. j # i => items'[j] = items[j]
    BY <2>1 DEF Writes
  <2>3. QED
    BY <1>2, <2>1, <2>2 DEF Writes
<1>3. QED
  BY <1>1, <1>2 DEF AllMarked

LEMMA MarkTurn ==
  ASSUME Sound, NEW f \in Fetchers, Turns(f), NEW c, c = fetcher[f], NEW d,
         d = fetcher'[f], MarkKept(c), Sole(c)
  PROVE  MarkKept(d)'
<1>1. TurnParts(f) /\ HeldRight(c)
  BY TurnHasParts DEF Sound, TypeInv
<1>2. d.row = c.row /\ (Known(c.row)' <=> Known(c.row)) /\ Busy(c.pc)
  BY <1>1 DEF TurnParts, Handles, SameRows, SameBatch, Known
<1>3. PICK r : r = c.row
  OBVIOUS
<1> SUFFICES ASSUME Known(r) PROVE MarkKept(d)'
  BY <1>2, <1>3 DEF MarkKept
<1>4. PICK i : i = Linked(r)
  OBVIOUS
<1>5. i = emails[r].item /\ Linked(r)' = emails'[r].item
  BY <1>2, <1>3, <1>4 DEF Linked, Known
<1>6. /\ c.pc \notin Linking \cup Merging => Own(r) \subseteq {i}
      /\ c.pc \in {"extract", "insert"} => i = None
  BY <1>2, <1>3, <1>4 DEF Sole
<1> DEFINE Past == {"merge"} \cup Into \cup Merging
<1>7. /\ c.pc = "fillWrite" => c.made = i
      /\ c.pc \in Past => \A j \in Own(r) : Marked(items[j])
  BY <1>2, <1>3, <1>4 DEF MarkKept, AllMarked
<1>8. Rest3 /\ (\A j \in Own(r) : Marked(items[j])) => AllMarked(r)'
  BY DEF Rest3, AllMarked, Own, Marked, Loses
<1>9. None \notin DOMAIN items /\ Own(r) \subseteq DOMAIN items
  BY NoneApart DEF Own
<1> DEFINE Goal == /\ d.pc = "fillWrite" => d.made = emails'[r].item
                   /\ d.pc \in Past => AllMarked(r)'
<1>10. Goal
  <2>1. CASE AgentTurns(f) \/ GuardTurns(f)
    BY <2>1
    DEF AgentTurns, ReplyTurn, CreateTurn, AgentLinksTurn, AgentEndsTurn, GuardTurns, FeedbackTurn,
        UnfeedTurn, PromoTurn, UnpromoTurn, UnlinkTurn, Turn, Into, Merging
  <2>2. CASE FileTurn(f)
    <3>1. c.pc = "file" /\ d.pc \in {"fill", "extract", "done"} /\ Rest3
          /\ (d.pc = "done" => i = None)
      BY <1>3, <1>4, <2>2 DEF FileTurn, Turn
    <3>2. d.pc = "done" => Own(r) = {}
      BY <1>6, <1>9, <3>1 DEF Linking, Merging
    <3>3. QED
      BY <1>8, <3>1, <3>2 DEF Into, Merging
  <2>3. CASE ExtractTurn(f)
    <3>1. c.pc = "extract" /\ d.pc \in {"insert", "done"} /\ Rest3
      BY <2>3 DEF ExtractTurn, Turn
    <3>2. Own(r) = {}
      BY <1>6, <1>9, <3>1 DEF Linking, Merging
    <3>3. QED
      BY <1>8, <3>1, <3>2 DEF Into, Merging
  <2>4. CASE InsertTurn(f) \/ LinkTurn(f)
    BY <2>4 DEF InsertTurn, LinkTurn, Turn, Into, Merging
  <2>5. CASE FillTurn(f)
    <3>1. c.pc = "fill" /\ d.pc \in {"fillWrite", "merge"} /\ SameLinks /\ Rest3
          /\ (d.pc = "fillWrite" => d.made = i)
          /\ (d.pc = "merge" => \A j \in DOMAIN items \ strays' : j = i => Marked(items[j]))
      BY <1>3, <1>4, <2>5 DEF FillTurn, Turn
    <3>2. Own(r)' \subseteq Own(r) \ strays' /\ Own(r) \subseteq {i}
      BY <1>6, <3>1 DEF Linking, Merging, Own, Rest3, Loses
    <3>3. d.pc = "merge" => \A j \in Own(r)' : Marked(items[j])
      BY <1>9, <3>1, <3>2
    <3>4. d.pc = "merge" => AllMarked(r)'
      BY <3>1, <3>3 DEF AllMarked, Rest3, Marked
    <3>5. emails'[r].item = i
      BY <1>5, <3>1 DEF SameLinks, Known
    <3>6. QED
      BY <3>1, <3>4, <3>5 DEF Into, Merging
  <2>6. CASE FillWriteTurn(f)
    <3>1. c.pc = "fillWrite" /\ d.pc = "merge" /\ Writes(c.made, c.held)
      BY <2>6 DEF FillWriteTurn, Turn
    <3>2. Marked(c.held) /\ Own(r) \subseteq {i} /\ c.made = i
      BY <1>1, <1>6, <1>7, <3>1 DEF HeldRight, Holding, Linking, Merging
    <3>3. AllMarked(r)'
      BY <3>1, <3>2, WritesMarked
    <3>4. QED
      BY <3>1, <3>3
  <2>7. CASE MergeWriteTurn(f)
    <3>1. c.pc = "mergeWrite" /\ d.pc = "mergeLink" /\ Writes(c.made.keep, c.held)
      BY <2>7 DEF MergeWriteTurn, Turn
    <3>2. Marked(c.held) /\ \A j \in Own(r) : Marked(items[j])
      BY <1>1, <1>7, <3>1 DEF HeldRight, Holding, Into
    <3>3. AllMarked(r)'
      BY <3>1, <3>2, WritesMarked
    <3>4. QED
      BY <3>1, <3>3
  <2>8. CASE MergeDropTurn(f)
    <3>1. c.pc = "mergeDrop" /\ d.pc = "done" /\ Fewer
      BY <2>8 DEF MergeDropTurn, Turn
    <3>2. \A j \in Own(r) : Marked(items[j])
      BY <1>7, <3>1 DEF Into
    <3>3. AllMarked(r)'
      BY <3>1, <3>2, FewerOwn DEF AllMarked
    <3>4. QED
      BY <3>1, <3>3
  <2>9. CASE MergeTurn(f) \/ MergeLinkTurn(f) \/ MergeFailsTurn(f)
    <3>1. c.pc \in Past /\ d.pc # "fillWrite" /\ Rest3
      BY <2>9 DEF MergeTurn, MergeLinkTurn, MergeFailsTurn, Turn, Into
    <3>2. QED
      BY <1>7, <1>8, <3>1
  <2>10. QED
    BY <2>1, <2>2, <2>3, <2>4, <2>5, <2>6, <2>7, <2>8, <2>9 DEF Turns, EnsureTurns, MergeTurns
<1>11. QED
  BY <1>2, <1>3, <1>5, <1>10 DEF MarkKept

LEMMA MarksKept ==
  ASSUME Sound, RowInv, SoleInv, MarkInv, [Next]_vars
  PROVE  MarkInv'
<1>1. CASE Outside
  <2>1. \A r \in finished' \cap DOMAIN emails' : AllMarked(r)'
    BY <1>1, OutsideAside DEF Outside, MarkInv, Aside, AllMarked
  <2>2. ASSUME NEW g \in Fetchers PROVE MarkKept(fetcher[g])'
    <3>1. PICK c : c = fetcher[g]
      OBVIOUS
    <3>2. c = fetcher'[g] /\ MarkKept(c)
      BY <1>1, <3>1 DEF Outside, MarkInv
    <3>3. MarkKept(c)'
      BY <1>1, <3>2, OutsideAside, MarkAside
    <3>4. QED
      BY <3>2, <3>3 DEF MarkKept, AllMarked, Marked, Own, Linked, Known
  <2>3. QED
    BY <2>1, <2>2 DEF MarkInv
<1>2. ASSUME NEW f \in Fetchers, CallStep(f) PROVE MarkInv'
  <2>1. PICK c, d : c = fetcher[f] /\ d = fetcher'[f]
    OBVIOUS
  <2>2. MarkKept(c) /\ Sole(c)
    BY <2>1 DEF MarkInv, SoleInv
  <2>3. MarkKept(d)'
    <3>1. CASE Turns(f)
      BY <2>1, <2>2, <3>1, MarkTurn
    <3>2. CASE Ends(f) \/ Finishes(f) \/ Stores(f)
      <4>1. d.pc \in {"reply"} \/ ~Busy(d.pc)
        BY <2>1, <3>2 DEF Ends, Finishes, Stores
      <4>2. QED
        BY <4>1 DEF MarkKept, Busy, Into, Merging
    <3>3. QED
      BY <1>2, <3>1, <3>2 DEF CallStep
  <2>4. MarkKept(fetcher[f])'
    BY <2>1, <2>3 DEF MarkKept, AllMarked, Marked, Own, Linked, Known
  <2>5. ASSUME NEW g \in Fetchers, g # f PROVE MarkKept(fetcher[g])'
    <3>1. PICK e : e = fetcher[g]
      OBVIOUS
    <3>2. MarkKept(e) /\ e = fetcher'[g]
      BY <1>2, <2>5, <3>1, CallStepAside DEF MarkInv, Others
    <3>3. Busy(e.pc) => Aside(e.row)
      BY <1>2, <2>5, <3>1, CallStepAside
    <3>4. ~Busy(e.pc) => MarkKept(e)'
      BY DEF MarkKept, Busy, Into, Merging
    <3>5. MarkKept(e)'
      BY <3>2, <3>3, <3>4, MarkAside
    <3>6. QED
      BY <3>2, <3>5 DEF MarkKept, AllMarked, Marked, Own, Linked, Known
  <2>6. \A r \in finished \cap DOMAIN emails' : AllMarked(r)'
    BY <1>2, CallStepAside DEF MarkInv, Aside, Known, AllMarked
  <2>7. ASSUME NEW r \in DOMAIN emails', r \in finished', r \notin finished
        PROVE  AllMarked(r)'
    <3>1. Finishes(f) /\ r = c.row /\ c.pc = "done"
      BY <1>2, <2>1, <2>7, TurnHasParts DEF CallStep, TurnParts, Ends, Finishes, Stores
    <3>2. UNCHANGED <<emails, items, strays>>
      BY <3>1 DEF Finishes, SameStore
    <3>3. AllMarked(r)
      BY <2>2, <2>7, <3>1, <3>2 DEF MarkKept, Merging, Known
    <3>4. QED
      BY <3>2, <3>3 DEF AllMarked, Own, Marked
  <2>8. QED
    BY <2>4, <2>5, <2>6, <2>7 DEF MarkInv
<1>3. QED
  BY <1>1, <1>2, SoundKept

LEMMA MarkInit == Init => MarkInv
BY IdleIsCall DEF Init, MarkInv, MarkKept, Into, Merging

\* For any deadlines the models and the rules read, and any number of fetches
\* at once: a todo whose mail went through every step without an error that lost
\* sight of it, and that has no deadline, is marked for review, also when an error ended its merge, when a merge of
\* another mail rewrote it, and when the user changed it meanwhile
\* (pipeline.rs:581-612, pipeline.rs:758-789).
THEOREM UndatedAreMarked == Spec => []UndatedIsMarked
<1>1. Init => MarkInv
  BY MarkInit
<1>2. Sound /\ RowInv /\ SoleInv /\ MarkInv /\ [Next]_vars => MarkInv'
  BY MarksKept
<1>3. MarkInv => UndatedIsMarked
  BY DEF MarkInv, UndatedIsMarked, AllMarked, Marked, Own
<1>4. QED
  BY <1>1, <1>2, <1>3, RowsHold, PTL DEF Spec

-----------------------------------------------------------------------------
(* Links *)

NoneGone == \A k : Kept(k)

LEMMA StepsKeep ==
  /\ Rest3 => NoneGone
  /\ (\E row : Makes(row)) => NoneGone
  /\ (\E k, row : Writes(k, row)) => NoneGone
BY DEF Rest3, Makes, Insert, With, Writes, NoneGone, Kept, Alive

\* While links stay as they are, what is said of them does.
LEMMA LinksStay ==
  ASSUME SameRows, SameLinks, NEW r
  PROVE  /\ Linked(r)' = Linked(r)
         /\ \A k : Unlinked(k) => Unlinked(k)'
         /\ \A k : NoOther(r, k) => NoOther(r, k)'
         /\ NoneGone /\ LinkLeadsToItem => LinkLeadsToItem'
BY DEF SameRows, SameLinks, Linked, Unlinked, NoOther, NoneGone, Kept, Alive, LinkLeadsToItem

\* The call goes on with the link of its row.
LEMMA LeadsOn ==
  ASSUME SameRows, SameLinks, NoneGone, LinkLeadsToItem, NEW c, Leads(c), Busy(c.pc), NEW d,
         d.row = c.row, d.pc \notin Linking \cup Into,
         c.pc \notin Moving \/ d.pc = "done"
  PROVE  Leads(d)' /\ LinkLeadsToItem'
<1>1. PICK r : r = c.row
  OBVIOUS
<1>2. /\ Linked(r)' = Linked(r) /\ LinkLeadsToItem'
      /\ \A k : NoOther(r, k) => NoOther(r, k)'
  BY LinksStay
<1>3. c.pc \notin Moving /\ Linked(r) # None => NoOther(r, Linked(r))
  BY <1>1 DEF Leads
<1>4. d.pc \notin Moving => \A k : k = Linked(r)' /\ k # None => NoOther(r, k)'
  BY <1>2, <1>3 DEF Moving, Merging
<1>5. QED
  BY <1>1, <1>2, <1>4 DEF Leads, Into

\* The item just made has no link yet.
LEMMA LeadsMade ==
  ASSUME Sound, SameRows, SameLinks, LinkLeadsToItem, NEW row, Makes(row),
         NEW c, Leads(c), c.pc \in {"agent", "insert"}, NEW d,
         d.pc \in Linking, d.made = nextItem, d.row = c.row
  PROVE  Leads(d)' /\ LinkLeadsToItem'
<1>1. NoneGone
  BY StepsKeep
<1>2. LinkLeadsToItem'
  BY <1>1, LinksStay
<1>3. PICK n : n = nextItem
  OBVIOUS
<1>4. n \in Nat /\ \A q \in DOMAIN emails : emails[q].item \in {None} \cup 1 .. n - 1
  BY <1>3 DEF Sound, TypeInv, Link
<1>5. \A q \in DOMAIN emails : emails[q].item # n
  BY <1>4, InferenceAssumption
<1>6. Unlinked(n)'
  BY <1>5 DEF SameRows, SameLinks, Unlinked
<1>7. Alive(n)'
  BY <1>3 DEF Makes, Insert, With, Alive
<1>8. PICK r : r = c.row
  OBVIOUS
<1>9. Linked(r) # None => NoOther(r, Linked(r))
  BY <1>8 DEF Leads, Busy, Moving, Merging
<1>10. \A k : k = Linked(r)' /\ k # None => NoOther(r, k)'
  BY <1>9, LinksStay
<1>11. QED
  BY <1>2, <1>3, <1>6, <1>7, <1>8, <1>10 DEF Leads, Linking, Merging, Into

\* The item just made is linked.
LEMMA LeadsLinked ==
  ASSUME Sound, SameRows, Rest3, LinkLeadsToItem, NEW c, Leads(c), c.pc \in Linking,
         Relinks(c.row, c.made), NEW d, d.row = c.row, d.pc \in {"agent", "fill"}
  PROVE  Leads(d)' /\ LinkLeadsToItem'
<1>1. PICK r, i : r = c.row /\ i = c.made
  OBVIOUS
<1>2. Alive(i) /\ Unlinked(i)
  BY <1>1 DEF Leads
<1>3. /\ DOMAIN emails' = DOMAIN emails
      /\ \A q \in DOMAIN emails : emails'[q].item = IF q = r THEN i ELSE emails[q].item
  BY <1>1 DEF SameRows, Relinks
<1>4. LinkLeadsToItem'
  BY <1>2, <1>3 DEF LinkLeadsToItem, Rest3, Alive
<1>5. Linked(r)' \in {None, i} /\ NoOther(r, i)'
  BY <1>2, <1>3 DEF Linked, NoOther, Unlinked
<1>6. \A k : k = Linked(r)' /\ k # None => NoOther(r, k)'
  BY <1>5
<1>7. QED
  BY <1>1, <1>4, <1>6 DEF Leads, Linking, Into

\* The link moves to another item that is there, or goes.
LEMMA LeadsMoved ==
  ASSUME SameRows, Rest3, LinkLeadsToItem, NEW r, NEW i, Relinks(r, i), i = None \/ Alive(i)
  PROVE  LinkLeadsToItem' /\ (i = None => Linked(r)' = None)
BY DEF SameRows, Relinks, Rest3, LinkLeadsToItem, Alive, Linked

LEMMA LeadsTurn ==
  ASSUME Sound, NEW f \in Fetchers, Turns(f), NEW c, c = fetcher[f], NEW d,
         d = fetcher'[f], Leads(c), LinkLeadsToItem
  PROVE  Leads(d)' /\ LinkLeadsToItem'
<1>1. SameRows /\ d.row = c.row /\ Busy(c.pc)
  BY TurnHasParts DEF TurnParts, Handles, SameBatch
<1>2. Rest3 => NoneGone
  BY StepsKeep
<1>3. CASE AgentTurns(f)
  <2>1. CASE ReplyTurn(f) \/ AgentEndsTurn(f)
    <3>1. /\ SameLinks /\ NoneGone /\ c.pc \in {"reply", "agent"}
          /\ d.pc \in {"agent", "feedback"}
      BY <1>2, <2>1 DEF ReplyTurn, AgentEndsTurn, Turn, NoneGone
    <3>2. QED
      BY <1>1, <3>1, LeadsOn DEF Linking, Moving, Merging, Into
  <2>2. CASE CreateTurn(f)
    <3>1. PICK row : /\ Makes(row) /\ SameLinks /\ d.pc \in Linking /\ d.made = nextItem
                     /\ c.pc = "agent"
      BY <2>2 DEF CreateTurn, Turn, Linking
    <3>2. QED
      BY <1>1, <3>1, LeadsMade
  <2>3. CASE AgentLinksTurn(f)
    <3>1. /\ Rest3 /\ c.pc = "toolLink" /\ d.pc = "agent"
          /\ Relinks(c.row, c.made) \/ SameLinks
      BY <2>3 DEF AgentLinksTurn, Turn
    <3>2. CASE Relinks(c.row, c.made)
      BY <1>1, <3>1, <3>2, LeadsLinked DEF Linking
    <3>3. CASE SameLinks
      BY <1>1, <1>2, <3>1, <3>3, LeadsOn DEF Linking, Moving, Merging, Into
    <3>4. QED
      BY <3>1, <3>2, <3>3
  <2>4. QED
    BY <1>3, <2>1, <2>2, <2>3 DEF AgentTurns
<1>4. CASE GuardTurns(f)
  <2>1. CASE ~UnlinkTurn(f)
    <3>1. /\ SameLinks /\ NoneGone
          /\ c.pc \in {"feedback", "unfeed", "promo", "unpromo"}
          /\ d.pc \in {"unfeed", "promo", "unpromo", "unlink", "file"}
      BY <1>2, <1>4, <2>1
      DEF GuardTurns, FeedbackTurn, UnfeedTurn, PromoTurn, UnpromoTurn, Turn, NoneGone
    <3>2. QED
      BY <1>1, <3>1, LeadsOn DEF Linking, Moving, Merging, Into
  <2>2. CASE UnlinkTurn(f)
    <3>1. /\ Relinks(c.row, None) \/ SameLinks
          /\ Rest3 /\ c.pc = "unlink" /\ d.pc = "file"
      BY <2>2 DEF UnlinkTurn, Turn
    <3>2. CASE SameLinks
      BY <1>1, <1>2, <3>1, <3>2, LeadsOn DEF Linking, Moving, Merging, Into
    <3>3. PICK r : r = c.row
      OBVIOUS
    <3>4. CASE Relinks(c.row, None)
      <4>1. LinkLeadsToItem' /\ Linked(r)' = None
        BY <1>1, <3>1, <3>3, <3>4, LeadsMoved
      <4>2. QED
        BY <1>1, <3>1, <3>3, <4>1 DEF Leads, Linking, Into
    <3>5. QED
      BY <3>1, <3>2, <3>4
  <2>3. QED
    BY <2>1, <2>2
<1>5. CASE EnsureTurns(f)
  <2>1. CASE FileTurn(f) \/ ExtractTurn(f) \/ FillTurn(f) \/ FillWriteTurn(f)
    <3>1. /\ SameLinks /\ NoneGone
          /\ c.pc \in {"file", "extract", "fill", "fillWrite"}
          /\ d.pc \in {"fill", "extract", "done", "insert", "fillWrite", "merge"}
      BY <1>2, <2>1, StepsKeep DEF FileTurn, ExtractTurn, FillTurn, FillWriteTurn, Turn
    <3>2. QED
      BY <1>1, <3>1, LeadsOn DEF Linking, Moving, Merging, Into
  <2>2. CASE InsertTurn(f)
    <3>1. PICK row : row = c.held
      OBVIOUS
    <3>2. /\ Makes(row) /\ SameLinks /\ d.pc \in Linking /\ d.made = nextItem
          /\ c.pc = "insert"
      BY <2>2, <3>1 DEF InsertTurn, Turn, Linking
    <3>3. QED
      BY <1>1, <3>2, LeadsMade
  <2>3. CASE LinkTurn(f)
    BY <1>1, <2>3, LeadsLinked DEF LinkTurn, Turn, Linking
  <2>4. QED
    BY <1>5, <2>1, <2>2, <2>3 DEF EnsureTurns
<1>6. CASE MergeTurn(f)
  <2>1. SameLinks /\ NoneGone /\ c.pc = "merge" /\ d.pc \in {"done", "mergeWrite"}
    BY <1>2, <1>6 DEF MergeTurn, Turn
  <2>2. CASE d.pc = "done"
    BY <1>1, <2>1, <2>2, LeadsOn DEF Linking, Moving, Merging, Into
  <2>3. CASE d.pc = "mergeWrite"
    <3>1. PICK r, keep, new : r = c.row /\ keep = d.made.keep /\ new = d.made.new
      OBVIOUS
    <3>2. new = Linked(r) /\ new \in DOMAIN items /\ keep \in DOMAIN items /\ keep # new
      BY <1>6, <2>3, <3>1 DEF MergeTurn, Turn
    <3>3. NoOther(r, new)
      BY <1>1, <2>1, <3>1, <3>2, NoneApart DEF Leads, Moving, Merging
    <3>4. /\ Linked(r)' = Linked(r) /\ LinkLeadsToItem' /\ NoOther(r, new)'
      BY <1>1, <2>1, <3>3, LinksStay
    <3>5. Alive(keep)'
      BY <2>1, <3>2 DEF NoneGone, Kept, Alive
    <3>6. \A k : k = Linked(r)' /\ k # None => NoOther(r, k)'
      BY <3>2, <3>4
    <3>7. QED
      BY <1>1, <2>3, <3>1, <3>2, <3>4, <3>5, <3>6 DEF Leads, Linking
  <2>4. QED
    BY <2>1, <2>2, <2>3
<1>7. CASE MergeWriteTurn(f) \/ MergeLinkTurn(f)
  <2>1. PICK r, keep, new : r = c.row /\ keep = c.made.keep /\ new = c.made.new
    OBVIOUS
  <2>2. d.made.keep = keep /\ d.made.new = new /\ d.row = r
        /\ c.pc \in {"mergeWrite", "mergeLink"}
    BY <1>1, <1>7, <2>1 DEF MergeWriteTurn, MergeLinkTurn, Turn
  <2>3. Alive(keep) /\ keep # new /\ NoOther(r, new)
    BY <2>1, <2>2 DEF Leads
  <2>4. CASE MergeWriteTurn(f)
    <3>1. SameLinks /\ NoneGone /\ d.pc = "mergeLink"
      BY <2>4, StepsKeep DEF MergeWriteTurn, Turn
    <3>2. LinkLeadsToItem' /\ NoOther(r, new)' /\ Alive(keep)'
      BY <1>1, <2>3, <3>1, LinksStay DEF NoneGone, Kept, Alive
    <3>3. QED
      BY <2>2, <2>3, <3>1, <3>2 DEF Leads, Linking, Moving, Merging
  <2>5. CASE MergeLinkTurn(f)
    <3>1. Relinks(r, keep) /\ Rest3 /\ d.pc = "mergeDrop"
      BY <2>1, <2>5 DEF MergeLinkTurn, Turn
    <3>2. LinkLeadsToItem'
      BY <1>1, <2>3, <3>1, LeadsMoved
    <3>3. Unlinked(new)'
      BY <1>1, <2>3, <3>1 DEF SameRows, Relinks, NoOther, Unlinked
    <3>4. QED
      BY <2>2, <3>1, <3>2, <3>3 DEF Leads, Linking, Moving, Merging
  <2>6. QED
    BY <1>7, <2>4, <2>5
<1>8. CASE MergeDropTurn(f)
  <2>1. PICK new : new = c.made.new
    OBVIOUS
  <2>2. /\ c.pc = "mergeDrop" /\ d.pc = "done" /\ SameLinks
        /\ \A k : k # new => Kept(k)
    BY <1>8, <2>1 DEF MergeDropTurn, Turn
  <2>3. Unlinked(new)
    BY <2>1, <2>2 DEF Leads
  <2>4. LinkLeadsToItem'
    BY <1>1, <2>2, <2>3
    DEF LinkLeadsToItem, SameRows, SameLinks, Unlinked, Kept, Alive
  <2>5. QED
    BY <2>2, <2>4 DEF Leads, Linking, Moving, Merging
<1>9. CASE MergeFailsTurn(f)
  <2>1. SameLinks /\ NoneGone /\ d.pc = "done"
    BY <1>2, <1>9 DEF MergeFailsTurn, Turn
  <2>2. QED
    BY <1>1, <2>1, LeadsOn DEF Linking, Into
<1>10. QED
  BY <1>3, <1>4, <1>5, <1>6, <1>7, <1>8, <1>9 DEF Turns, MergeTurns

LEMMA LeadsKept ==
  ASSUME OneFetcher, Sound, LinkInv, [Next]_vars
  PROVE  LinkInv'
<1>1. CASE Outside
  <2>1. /\ UNCHANGED fetcher /\ NoneGone /\ DOMAIN emails' \subseteq DOMAIN emails
        /\ \A r \in DOMAIN emails' : emails'[r] = emails[r]
    BY <1>1 DEF Outside, NoneGone
  <2>2. LinkLeadsToItem'
    BY <2>1 DEF LinkInv, LinkLeadsToItem, NoneGone, Kept, Alive
  <2>3. ASSUME NEW c, Leads(c) PROVE Leads(c)'
    <3>1. PICK r : r = c.row
      OBVIOUS
    <3>2. /\ \A k : Unlinked(k) => Unlinked(k)'
          /\ \A k : NoOther(r, k) => NoOther(r, k)'
          /\ \A k : Alive(k) => Alive(k)'
      BY <2>1 DEF Unlinked, NoOther, NoneGone, Kept, Alive
    <3>3. Linked(r)' \in {None, Linked(r)}
      BY <2>1 DEF Linked
    <3>4. Busy(c.pc) /\ c.pc \notin Moving /\ Linked(r) # None => NoOther(r, Linked(r))
      BY <2>3, <3>1 DEF Leads
    <3>5. Busy(c.pc) /\ c.pc \notin Moving =>
            \A k : k = Linked(r)' /\ k # None => NoOther(r, k)'
      BY <3>2, <3>3, <3>4
    <3>6. QED
      BY <2>3, <3>1, <3>2, <3>5 DEF Leads
  <2>4. ASSUME NEW g \in Fetchers PROVE Leads(fetcher[g])'
    <3>1. PICK c : c = fetcher[g]
      OBVIOUS
    <3>2. c = fetcher'[g] /\ Leads(c)'
      BY <2>1, <2>3, <3>1 DEF LinkInv
    <3>3. QED
      BY <3>2 DEF Leads, Unlinked, NoOther, Alive, Linked
  <2>5. QED
    BY <2>2, <2>4 DEF LinkInv
<1>2. ASSUME NEW f \in Fetchers, CallStep(f) PROVE LinkInv'
  <2>1. PICK c, d : c = fetcher[f] /\ d = fetcher'[f]
    OBVIOUS
  <2>2. Leads(d)' /\ LinkLeadsToItem'
    <3>1. CASE Turns(f)
      BY <2>1, <3>1, LeadsTurn DEF LinkInv
    <3>2. CASE Ends(f) \/ Finishes(f)
      <4>1. ~Busy(d.pc) /\ SameStore
        BY <2>1, <3>2 DEF Ends, Finishes
      <4>2. LinkLeadsToItem'
        BY <4>1 DEF SameStore, LinkInv, LinkLeadsToItem
      <4>3. QED
        BY <4>1, <4>2 DEF Leads, Busy, Linking, Merging
    <3>3. CASE Stores(f)
      <4>1. PICK r : r = d.row
        OBVIOUS
      <4>2. LinkLeadsToItem'
        BY <3>3 DEF Stores, LinkInv, LinkLeadsToItem
      <4>3. d.pc = "reply" /\ Linked(r)' = None
        BY <2>1, <3>3, <4>1 DEF Stores, Linked
      <4>4. QED
        BY <4>1, <4>2, <4>3 DEF Leads, Linking, Into
    <3>4. QED
      BY <1>2, <3>1, <3>2, <3>3 DEF CallStep
  <2>3. Leads(fetcher[f])'
    BY <2>1, <2>2 DEF Leads, Unlinked, NoOther, Alive, Linked
  <2>4. \A g \in Fetchers : g = f
    BY DEF OneFetcher
  <2>5. QED
    BY <2>2, <2>3, <2>4 DEF LinkInv
<1>3. QED
  BY <1>1, <1>2, SoundKept

LEMMA LinkInit == Init => LinkInv
BY IdleIsCall DEF Init, LinkInv, LinkLeadsToItem, Leads, Busy, Linking

\* With one fetch at a time: a mail's link leads to an item, or to one that
\* the user or a guard deleted, through merges, restarts between the steps of a
\* merge, and items the user deletes while a mail is handled
\* (pipeline.rs:794-795).  With two fetches the target of a merge may itself be
\* merged away in between: the assumption is needed.
THEOREM LinksLead ==
  ASSUME OneFetcher
  PROVE  Spec => []LinkLeadsToItem
<1>1. Init => LinkInv
  BY LinkInit
<1>2. Sound /\ LinkInv /\ [Next]_vars => LinkInv'
  BY LeadsKept
<1>3. LinkInv => LinkLeadsToItem
  BY DEF LinkInv
<1>4. QED
  BY <1>1, <1>2, <1>3, SoundHolds, PTL DEF Spec
=============================================================================
