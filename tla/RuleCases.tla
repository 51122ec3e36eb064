----------------------------- MODULE RuleCases -----------------------------
(***************************************************************************)
(* The stateless rules asked one question at a time, and what is promised   *)
(* of their answers, stated without the way the code computes them.         *)
(***************************************************************************)
EXTENDS MailRules

CONSTANTS
  InferCases,   \* records [given, mail, now]
  MergeCases    \* records [candidates, deadline, force, now]

\* What the patterns can have captured, as far as a date is read from it.
WellRead(text) ==
  /\ text.full \in Int \cup {None}
  /\ text.monthDay # None => text.monthDay.h \in Nat /\ text.monthDay.min \in Nat
  /\ text.date # None => text.date.year \in Int \cup {None}
  /\ text.clock # None => text.clock.h \in Nat /\ text.clock.min \in Nat

\* An instant as a language model writes it.
Rfc3339 == [rfc : {TRUE}, at : Int]

ASSUME CasesAssumption ==
  /\ None \notin Rfc3339
  /\ \A c \in InferCases :
       /\ c.now \in Nat /\ WellRead(c.mail.text)
       /\ c.mail.sent \in Int \cup {None} /\ c.mail.received \in Int \cup {None}
       /\ c.given # None =>
            /\ c.given.rfc \in BOOLEAN
            /\ IF c.given.rfc THEN c.given.at \in Int ELSE WellRead(c.given.text)
  /\ \A c \in MergeCases :
       /\ IsFiniteSet(c.candidates) /\ None \notin c.candidates
       /\ \A r \in c.candidates : r.id \in Nat /\ r.deadline \in Int \cup {None}
       /\ c.deadline \in Int \cup {None} /\ c.now \in Int /\ c.force \in BOOLEAN

VARIABLE question

Init  == question = None
AskInfer == question = None /\ \E c \in InferCases : question' = [infer |-> c]
AskMerge == question = None /\ \E c \in MergeCases : question' = [merge |-> c]
Again == question # None /\ question' = None
Next  == AskInfer \/ AskMerge \/ Again
Spec  == Init /\ [][Next]_question

Asks(kind) == question # None /\ kind \in DOMAIN question
Q == question.infer
Answer == InferDeadline(Q.given, Q.mail, Q.now)

\* A day that some years lack, written without its year.
NamesLeapDay(text) ==
  \/ text.monthDay # None /\ text.monthDay.d = 60
  \/ text.date # None /\ text.date.year = None /\ text.date.d = 60

Instants == {c.now : c \in InferCases}

\* A mail that is reclassified (api.rs:768) is read against the clock of that
\* moment, and the language model is asked again.  Until the deadline has passed,
\* the same answer of the model leads to the same deadline, whatever day, year or
\* hour has begun since; but for 29 February without a year, which in the year
\* before is no date.
LaterReadingAgrees ==
  Asks("infer") /\ ~NamesLeapDay(Q.mail.text)
    /\ (Q.given # None /\ ~Q.given.rfc => ~NamesLeapDay(Q.given.text)) =>
      \A later \in Instants :
        Q.now <= later /\ (Answer # None => later <= Answer) =>
          InferDeadline(Q.given, Q.mail, later) = Answer

\* A valid deadline of the language model is replaced only where the text
\* gives no date of its own, by one that is two minutes or more away and, in
\* whole minutes, at most half the named span or half an hour (deadline.rs:402-403):
\* the last started minute comes on top of the limit.
CorrectionIsSmall ==
  Asks("infer") /\ Q.given # None /\ Q.given.rfc /\ Answer # Q.given.at =>
    LET span == MatchRelativeHint(Q.mail.text)
        gap  == IF Answer > Q.given.at THEN Answer - Q.given.at
                ELSE Q.given.at - Answer
    IN  /\ ParseHumanDatetime(Q.mail.text, Q.now) = None
        /\ 2 * Minute <= gap
        /\ 2 * (gap - Minute) < span \/ gap - Minute < 30 * Minute

\* A date written without its year is the next such date: never in the past
\* and never more than a year ahead.
YearlessDatesAhead ==
  Asks("infer") /\ Q.mail.text.full = None
    /\ (\/ Q.mail.text.monthDay # None
        \/ Q.mail.text.date # None /\ Q.mail.text.date.year = None) =>
      LET t == ParseHumanDatetime(Q.mail.text, Q.now)
      IN  t # None => Q.now <= t /\ t - Q.now <= 366 * Day

\* The deadline and the plan of its reminders are taken from the same words,
\* though deadline.rs tries the hints in one order and apply_remind_plan asks for
\* them in another: a deadline that was computed, in the place of none or of the
\* model's own, counts from the link's expiry exactly when its plan does.
PlanFollowsTheHint ==
  LET text == Q.mail.text
      computed == \/ Q.given = None /\ ParseHumanDatetime(text, Q.now) = None
                  \/ Q.given # None /\ Q.given.rfc /\ Answer # Q.given.at
  IN  Asks("infer") /\ Answer # None /\ computed =>
        Answer = Base(Q.mail) + (IF LinkExpiry(text) THEN MatchLinkExpiryHint(text)
                                 ELSE MatchActionHint(text))

\* The same day, or no further apart than the limit.
Near(a, b, limit) == a \div Day = b \div Day \/ (a - b <= limit /\ b - a <= limit)

\* How well a candidate suits, smaller is better and fourth is not at all: the
\* ranking the comment of pick_merge_target describes.
Rank(c, m, limit) ==
  CASE m.deadline # None /\ c.deadline # None /\ Near(c.deadline, m.deadline, limit)
         -> <<1, c.id>>
    [] m.deadline # None /\ c.deadline = None -> <<2, c.id>>
    [] /\ m.deadline # None /\ c.deadline # None /\ ~Near(c.deadline, m.deadline, limit)
       /\ m.force -> <<3, c.id>>
    [] m.deadline = None /\ c.deadline # None /\ c.deadline >= m.now -> <<1, c.deadline>>
    [] m.deadline = None /\ (c.deadline = None \/ c.deadline < m.now) -> <<2, -c.id>>
    [] OTHER -> <<4, 0>>

Better(a, b) == a[1] < b[1] \/ (a[1] = b[1] /\ a[2] < b[2])

\* The documented distance of two deadlines of one matter (README.md:29 and the
\* comments at pipeline.rs:653 and 714), and the last second at which num_hours()
\* still counts 24 hours (pipeline.rs:737).
Documented == Day
Counted == Day + Hour - 1

\* No item that suits by the documented 24 hours is passed over, for none or for
\* a worse one; an undated item is a worse match than a near one, and an item of
\* another day is taken only for a mail that reschedules.  The item picked may
\* however be further away than documented, by almost an hour: that far the code
\* merges what README.md:29 keeps apart.
BestTargetPicked ==
  Asks("merge") =>
    LET m == question.merge
        t == PickMergeTarget(m.candidates, m.deadline, m.force, m.now)
    IN  IF t = None
        THEN \A c \in m.candidates : Rank(c, m, Documented)[1] = 4
        ELSE /\ t \in m.candidates /\ Rank(t, m, Counted)[1] # 4
             /\ \A c \in m.candidates :
                  ~Better(Rank(c, m, Documented), Rank(t, m, Counted))
=============================================================================
