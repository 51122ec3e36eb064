-------------------------- MODULE RuleCasesProofs --------------------------
(***************************************************************************)
(* What is promised of the answers of the stateless rules, for every text,  *)
(* every instant and every finite set of candidates.                        *)
(***************************************************************************)
EXTENDS RuleCases, RuleProofs

Infers(c) == question = [infer |-> c]
Merges(c) == question = [merge |-> c]

Asked ==
  \/ question = None
  \/ \E c \in InferCases : Infers(c)
  \/ \E c \in MergeCases : Merges(c)

LEMMA AskedAlways == Spec => []Asked
<1>1. Init => Asked
  BY DEF Init, Asked
<1>2. Asked /\ [Next]_question => Asked'
  BY DEF Asked, Infers, Merges, Next, AskInfer, AskMerge, Again
<1>3. QED
  BY <1>1, <1>2, PTL DEF Spec

\* A question is of the kind it is asked with.
LEMMA KindOfQuestion ==
  ASSUME Asked
  PROVE  /\ Asks("infer") => \E c \in InferCases : question.infer = c
         /\ Asks("merge") => \E c \in MergeCases : question.merge = c
<1>1. \A c : Infers(c) => question.infer = c /\ ~Asks("merge")
  BY DEF Infers, Asks
<1>2. \A c : Merges(c) => question.merge = c /\ ~Asks("infer")
  BY DEF Merges, Asks
<1>3. QED
  BY <1>1, <1>2 DEF Asked, Asks

-----------------------------------------------------------------------------
(* The deadline of a mail *)

\* What the code is asked: a language model's answer and a mail.
IsCase(c) ==
  /\ c.now \in Nat /\ WellRead(c.mail.text)
  /\ c.mail.sent \in Int \cup {None} /\ c.mail.received \in Int \cup {None}
  /\ c.given # None =>
       /\ c.given.rfc \in BOOLEAN
       /\ IF c.given.rfc THEN c.given.at \in Int ELSE WellRead(c.given.text)

LEMMA ReadIsDated ==
  ASSUME NEW text, WellRead(text)
  PROVE  Dated(text)
BY DEF WellRead, Dated

\* What infer_deadline answers to an instant, and to nothing.
LEMMA InferValue ==
  ASSUME NEW given, NEW mail, NEW now
  PROVE  LET computed == InferRelativeDeadline(mail)
             human    == ParseHumanDatetime(mail.text, now)
             fits(t)  == /\ computed # None /\ human = None
                         /\ SlightlyOff(t, computed, MatchRelativeHint(mail.text))
         IN  /\ given # None /\ given.rfc =>
                  InferDeadline(given, mail, now) =
                    IF fits(given.at) THEN computed ELSE given.at
             /\ given = None =>
                  InferDeadline(given, mail, now) = IF human # None THEN human ELSE computed
BY DEF InferDeadline

\* What the model extracted is replaced only by the hint's deadline, and only
\* in a text that names no date, by at most half the span or half an hour in
\* whole minutes.
LEMMA ReplacedByLittle ==
  ASSUME NEW c, IsCase(c), c.given # None, c.given.rfc,
         NEW a, a = InferDeadline(c.given, c.mail, c.now), a # c.given.at,
         NEW span, span = MatchRelativeHint(c.mail.text),
         NEW gap, gap = IF a > c.given.at THEN a - c.given.at ELSE c.given.at - a
  PROVE  /\ ParseHumanDatetime(c.mail.text, c.now) = None
         /\ 2 * Minute <= gap
         /\ 2 * (gap - Minute) < span \/ gap - Minute < 30 * Minute
<1>1. PICK computed : computed = InferRelativeDeadline(c.mail)
  OBVIOUS
<1>2. PICK at \in Int : at = c.given.at
  BY DEF IsCase
<1>3. /\ a = computed /\ computed # None /\ SlightlyOff(at, computed, span)
      /\ ParseHumanDatetime(c.mail.text, c.now) = None
  BY <1>1, <1>2, InferValue
<1>4. computed \in Int
  BY <1>1, <1>3, RelativeType DEF IsCase
<1>5. span \in Nat
  <2>1. span # None
    BY <1>1, <1>3 DEF InferRelativeDeadline
  <2>2. QED
    BY <2>1, HintType
<1>6. PICK n \in Int, half \in Int : n = NumMinutes(gap) /\ half = NumMinutes(span) \div 2
  BY <1>2, <1>3, <1>4, <1>5 DEF NumMinutes, Minute
<1>7. gap \in Nat /\ n > 1 /\ (n <= half \/ n <= 30)
  <2>1. gap \in Nat /\ gap = IF at >= computed THEN at - computed ELSE computed - at
    BY <1>2, <1>3, <1>4
  <2>2. n > 1 /\ n <= (IF half > 30 THEN half ELSE 30)
    BY <1>3, <1>6, <2>1 DEF SlightlyOff
  <2>3. QED
    BY <2>1, <2>2
<1>8. Minute * n <= gap /\ gap < Minute * n + Minute /\ 2 * Minute * half <= span
  BY <1>5, <1>6, <1>7 DEF NumMinutes, Minute
<1>9. QED
  BY <1>3, <1>5, <1>6, <1>7, <1>8 DEF Minute

\* For every mail and every valid answer of the language model: it is replaced
\* only in a text that names no date, and by a deadline that is at least two
\* minutes and less than a minute more than half the named span, or half an hour,
\* away (deadline.rs:396-416).
THEOREM CorrectedByLittle == Spec => []CorrectionIsSmall
<1>1. Asked => CorrectionIsSmall
  <2>1. SUFFICES ASSUME Asked, Asks("infer"), Q.given # None, Q.given.rfc,
                        Answer # Q.given.at
                 PROVE  LET span == MatchRelativeHint(Q.mail.text)
                            gap  == IF Answer > Q.given.at THEN Answer - Q.given.at
                                    ELSE Q.given.at - Answer
                        IN  /\ ParseHumanDatetime(Q.mail.text, Q.now) = None
                            /\ 2 * Minute <= gap
                            /\ 2 * (gap - Minute) < span \/ gap - Minute < 30 * Minute
    BY DEF CorrectionIsSmall
  <2>2. PICK c \in InferCases : Q = c
    BY <2>1, KindOfQuestion DEF Q
  <2>3. IsCase(c)
    BY CasesAssumption DEF IsCase
  <2>4. PICK a : a = InferDeadline(c.given, c.mail, c.now)
    OBVIOUS
  <2>5. Answer = a
    BY <2>2, <2>4 DEF Answer
  <2>6. QED
    BY <2>1, <2>2, <2>3, <2>4, <2>5, ReplacedByLittle
<1>2. QED
  BY AskedAlways, <1>1, PTL

\* For every mail and every answer of the language model: a computed deadline
\* counts from the expiry of a link exactly when the plan of its reminders does
\* (deadline.rs:115-140, pipeline.rs:557-563).
THEOREM PlanAndDeadlineAgree == Spec => []PlanFollowsTheHint
<1>1. PlanFollowsTheHint
  <2>1. SUFFICES ASSUME Asks("infer"), Answer # None,
                        \/ Q.given = None /\ ParseHumanDatetime(Q.mail.text, Q.now) = None
                        \/ Q.given # None /\ Q.given.rfc /\ Answer # Q.given.at
                 PROVE  Answer = Base(Q.mail)
                          + (IF LinkExpiry(Q.mail.text) THEN MatchLinkExpiryHint(Q.mail.text)
                             ELSE MatchActionHint(Q.mail.text))
    BY DEF PlanFollowsTheHint
  <2>2. Answer = InferRelativeDeadline(Q.mail)
    BY <2>1, InferValue DEF Answer
  <2>3. /\ MatchRelativeHint(Q.mail.text) # None
        /\ Answer = Base(Q.mail) + MatchRelativeHint(Q.mail.text)
    BY <2>1, <2>2 DEF InferRelativeDeadline
  <2>4. MatchRelativeHint(Q.mail.text)
          = IF LinkExpiry(Q.mail.text) THEN MatchLinkExpiryHint(Q.mail.text)
            ELSE MatchActionHint(Q.mail.text)
    BY <2>3 DEF MatchRelativeHint, LinkExpiry
  <2>5. QED
    BY <2>3, <2>4
<1>2. QED
  BY <1>1, PTL

-----------------------------------------------------------------------------
(* Dates without a year *)

LEMMA Lengths == Minute = 60 /\ Hour = 3600 /\ Day = 86400
BY DEF Minute, Hour, Day

LEMMA YearLength ==
  ASSUME NEW y \in Nat
  PROVE  /\ YearStart(y) \in Nat /\ YearStart(y + 1) \in Nat
         /\ YearStart(y + 1) = YearStart(y) + (IF Leap(y) THEN 366 ELSE 365)
         /\ Leap(y) => ~Leap(y + 1)
BY DEF YearStart, Leap

\* The number of a day in its year, from 0.
Nth(y, d) == IF d > 60 /\ ~Leap(y) THEN d - 2 ELSE d - 1

LEMMA AtValue ==
  ASSUME NEW y \in Nat, NEW d, NEW time, At(y, d, time) # None
  PROVE  /\ d \in 1 .. 366 /\ time \in 0 .. Day - 1
         /\ Nth(y, d) \in Nat /\ Nth(y, d) < (IF Leap(y) THEN 366 ELSE 365)
         /\ At(y, d, time) = (YearStart(y) + Nth(y, d)) * Day + time
<1>1. /\ d \in 1 .. 366 /\ time \in 0 .. Day - 1 /\ ~(d = 60 /\ ~Leap(y))
      /\ At(y, d, time) = (YearStart(y) + Nth(y, d)) * Day + time
  BY DEF At, Nth
<1>2. Nth(y, d) \in Nat /\ Nth(y, d) < (IF Leap(y) THEN 366 ELSE 365)
  BY <1>1 DEF Nth
<1>3. QED
  BY <1>1, <1>2

\* A day lies in its year.
LEMMA AtInYear ==
  ASSUME NEW y \in Nat, NEW d, NEW time, NEW t, t = At(y, d, time), t # None
  PROVE  t \in Nat /\ YearStart(y) * Day <= t /\ t < YearStart(y + 1) * Day
<1>1. PICK n \in Nat : n = Nth(y, d)
  BY AtValue
<1>2. PICK s \in Nat, e \in Nat : s = YearStart(y) /\ e = YearStart(y + 1)
  BY YearLength
<1>3. t = (s + n) * Day + time /\ time \in 0 .. Day - 1
  BY <1>1, <1>2, AtValue
<1>4. s + n + 1 <= e
  <2>1. n < (IF Leap(y) THEN 366 ELSE 365) /\ e = s + (IF Leap(y) THEN 366 ELSE 365)
    BY <1>1, <1>2, AtValue, YearLength
  <2>2. QED
    BY <2>1
<1>5. t = (s + n) * 86400 + time /\ time \in 0 .. 86399
  BY <1>3, Lengths
<1>6. t \in Nat /\ s * 86400 <= t /\ t < e * 86400
  <2>1. t = s * 86400 + n * 86400 + time /\ time \in Nat /\ time < 86400
    BY <1>5
  <2>2. s * 86400 + n * 86400 + 86400 <= e * 86400
    BY <1>4
  <2>3. n * 86400 \in Nat /\ s * 86400 \in Nat /\ e * 86400 \in Nat
    OBVIOUS
  <2>4. QED
    BY <2>1, <2>2, <2>3
<1>7. QED
  BY <1>2, <1>6, Lengths

\* From a day to the same day of the next year, when both years have it.
LEMMA NextYear ==
  ASSUME NEW y \in Nat, NEW d, NEW time, NEW t, NEW u,
         t = At(y, d, time), t # None, u = At(y + 1, d, time), u # None
  PROVE  u - t <= 366 * Day
<1>1. y + 1 \in Nat
  OBVIOUS
<1>2. PICK n \in Nat, m \in Nat : n = Nth(y, d) /\ m = Nth(y + 1, d)
  BY <1>1, AtValue
<1>3. PICK s \in Nat, e \in Nat : s = YearStart(y) /\ e = YearStart(y + 1)
  BY YearLength
<1>4. /\ t = (s + n) * Day + time /\ u = (e + m) * Day + time
      /\ time \in 0 .. Day - 1 /\ d \in 1 .. 366
  BY <1>1, <1>2, <1>3, AtValue
<1>5. e + m <= s + n + 366
  <2>1. e = s + (IF Leap(y) THEN 366 ELSE 365) /\ (Leap(y) => ~Leap(y + 1))
    BY <1>3, YearLength
  <2>2. n = (IF d > 60 /\ ~Leap(y) THEN d - 2 ELSE d - 1)
    BY <1>2 DEF Nth
  <2>3. m = (IF d > 60 /\ ~Leap(y + 1) THEN d - 2 ELSE d - 1)
    BY <1>2 DEF Nth
  <2>4. QED
    BY <1>4, <2>1, <2>2, <2>3
<1>6. QED
  BY <1>4, <1>5 DEF Day, Hour, Minute

LEMMA OccursAhead ==
  ASSUME NEW now \in Nat, NEW d, NEW time, NEW t, t = NextOccurrence(d, time, now),
         t # None
  PROVE  now <= t /\ t - now <= 366 * Day
<1>1. PICK y \in Nat : y = YearOf(now)
  BY YearIsYear
<1>2. PICK s \in Nat, e \in Nat : s = YearStart(y) /\ e = YearStart(y + 1)
  BY YearLength
<1>3. s * Day <= now /\ now < e * Day /\ e <= s + 366
  <2>1. s <= now \div Day /\ now \div Day < e
    BY <1>1, <1>2, YearIsYear
  <2>2. e <= s + 366
    BY <1>2, YearLength
  <2>3. QED
    BY <2>1, <2>2 DEF Day, Hour, Minute
<1>4. PICK this : this = At(y, d, time)
  OBVIOUS
<1>5. CASE this # None /\ this < now
  <2>1. t = At(y + 1, d, time) /\ y + 1 \in Nat
    BY <1>1, <1>4, <1>5 DEF NextOccurrence
  <2>2. t \in Nat /\ e * Day <= t
    BY <1>2, <2>1, AtInYear
  <2>3. t - this <= 366 * Day
    BY <1>4, <1>5, <2>1, NextYear
  <2>4. this \in Nat
    BY <1>4, <1>5, AtInYear
  <2>5. QED
    BY <1>3, <1>5, <2>2, <2>3, <2>4 DEF Day, Hour, Minute
<1>6. CASE ~(this # None /\ this < now)
  <2>1. t = this /\ this # None
    BY <1>1, <1>4, <1>6 DEF NextOccurrence
  <2>2. t \in Nat /\ t < e * Day
    BY <1>2, <1>4, <2>1, AtInYear
  <2>3. QED
    BY <1>3, <1>6, <2>1, <2>2 DEF Day, Hour, Minute
<1>7. QED
  BY <1>5, <1>6

\* For every instant, at the turn of a year and in leap years too: a date
\* written without its year is not in the past, and at most a leap year ahead
\* (deadline.rs:304-327).
THEOREM YearIsGuessedAhead == Spec => []YearlessDatesAhead
<1>1. Asked => YearlessDatesAhead
  <2>1. SUFFICES ASSUME Asked, Asks("infer"), Q.mail.text.full = None,
                        \/ Q.mail.text.monthDay # None
                        \/ Q.mail.text.date # None /\ Q.mail.text.date.year = None,
                        NEW t, t = ParseHumanDatetime(Q.mail.text, Q.now), t # None
                 PROVE  Q.now <= t /\ t - Q.now <= 366 * Day
    BY DEF YearlessDatesAhead
  <2>2. PICK c \in InferCases : Q = c
    BY <2>1, KindOfQuestion DEF Q
  <2>3. IsCase(c)
    BY CasesAssumption DEF IsCase
  <2>4. PICK text : text = c.mail.text
    OBVIOUS
  <2>5. c.now \in Nat /\ t = ParseHumanDatetime(text, c.now) /\ text.full = None
    BY <2>1, <2>2, <2>3, <2>4 DEF IsCase
  <2>6. CASE text.monthDay # None
    <3>1. t = NextOccurrence(text.monthDay.d, ClockTime(text.monthDay), c.now)
      BY <2>5, <2>6 DEF ParseHumanDatetime
    <3>2. QED
      BY <2>1, <2>2, <2>5, <3>1, OccursAhead
  <2>7. CASE text.monthDay = None /\ text.date # None /\ text.date.year = None
    <3>1. CASE text.date.deadlineWord
      <4>1. t = NextOccurrence(text.date.d, Day - 1, c.now)
        BY <2>5, <2>7, <3>1 DEF ParseHumanDatetime
      <4>2. QED
        BY <2>1, <2>2, <2>5, <4>1, OccursAhead
    <3>2. CASE ~text.date.deadlineWord
      <4>1. PICK time : time = ClockTime(text.clock)
        OBVIOUS
      <4>2. PICK midnight \in Nat : midnight = (c.now \div Day) * Day
        BY <2>5 DEF Day, Hour, Minute
      <4>3. /\ text.clock # None /\ ~(time >= Day)
            /\ t = IF midnight + time >= c.now THEN midnight + time
                   ELSE midnight + time + Day
        BY <2>1, <2>5, <2>7, <3>2, <4>1, <4>2 DEF ParseHumanDatetime
      <4>4. time \in Nat
        BY <2>3, <2>4, <4>1, <4>3 DEF IsCase, WellRead, ClockTime, Hour, Minute, Day
      <4>5. midnight <= c.now /\ c.now < midnight + Day
        BY <2>5, <4>2 DEF Day, Hour, Minute
      <4>6. QED
        BY <2>2, <2>5, <4>2, <4>3, <4>4, <4>5 DEF Day, Hour, Minute
    <3>3. QED
      BY <3>1, <3>2
  <2>8. QED
    BY <2>1, <2>2, <2>4, <2>6, <2>7
<1>2. QED
  BY AskedAlways, <1>1, PTL

-----------------------------------------------------------------------------
(* Reading a mail again *)

\* Years follow one another.
LEMMA YearsInOrder ==
  ASSUME NEW y \in Nat, NEW z \in Nat, y < z
  PROVE  YearStart(y + 1) <= YearStart(z)
BY DEF YearStart

\* The year of an instant is the one whose days it is between.
LEMMA YearIsUnique ==
  ASSUME NEW t \in Nat, NEW y \in Nat,
         YearStart(y) * Day <= t, t < YearStart(y + 1) * Day
  PROVE  YearOf(t) = y
<1>1. PICK z \in Nat : z = YearOf(t)
  BY YearIsYear
<1>2. PICK d \in Nat : d = t \div Day
  BY Lengths
<1>3. /\ YearStart(y) \in Nat /\ YearStart(y + 1) \in Nat
      /\ YearStart(z) \in Nat /\ YearStart(z + 1) \in Nat
  BY YearLength
<1>4. YearStart(z) <= d /\ d < YearStart(z + 1)
  BY <1>1, <1>2, YearIsYear
<1>5. YearStart(y) <= d /\ d < YearStart(y + 1)
  <2>1. PICK s \in Nat, e \in Nat : s = YearStart(y) /\ e = YearStart(y + 1)
    BY <1>3
  <2>2. s * 86400 <= t /\ t < e * 86400 /\ d = t \div 86400
    BY <1>2, <2>1, Lengths
  <2>3. s <= d /\ d < e
    BY <2>2
  <2>4. QED
    BY <2>1, <2>3
<1>6. ~(y < z) /\ ~(z < y)
  BY <1>3, <1>4, <1>5, YearsInOrder
<1>7. QED
  BY <1>1, <1>6

\* A day that every year has is a day of any.
LEMMA EveryYear ==
  ASSUME NEW y \in Nat, NEW d, d # 60, NEW time
  PROVE  At(y, d, time) = None <=> d \notin 1 .. 366 \/ time \notin 0 .. Day - 1
<1>1. CASE d \notin 1 .. 366 \/ time \notin 0 .. Day - 1
  BY <1>1 DEF At
<1>2. CASE d \in 1 .. 366 /\ time \in 0 .. Day - 1
  <2>1. At(y, d, time) = (YearStart(y) + Nth(y, d)) * Day + time
    BY <1>2 DEF At, Nth
  <2>2. YearStart(y) \in Nat /\ Nth(y, d) \in Int
    BY <1>2, YearLength DEF Nth
  <2>3. (YearStart(y) + Nth(y, d)) * Day + time \in Int
    BY <1>2, <2>2, Lengths
  <2>4. QED
    BY <1>2, <2>1, <2>3, InferenceAssumption
<1>3. QED
  BY <1>1, <1>2

\* Until it comes, the next occurrence of a day stays the next.
LEMMA OccursAgain ==
  ASSUME NEW now \in Nat, NEW later \in Nat, now <= later, NEW d, d # 60, NEW time,
         NEW t, t = NextOccurrence(d, time, now)
  PROVE  /\ t = None <=> NextOccurrence(d, time, later) = None
         /\ t # None /\ later <= t => NextOccurrence(d, time, later) = t
<1>1. PICK y \in Nat, z \in Nat : y = YearOf(now) /\ z = YearOf(later)
  BY YearIsYear
<1>2. y + 1 \in Nat /\ z + 1 \in Nat
  OBVIOUS
<1>3. PICK real \in BOOLEAN : real = (d \in 1 .. 366 /\ time \in 0 .. Day - 1)
  OBVIOUS
<1>4. /\ At(y, d, time) = None <=> ~real
      /\ At(y + 1, d, time) = None <=> ~real
      /\ At(z, d, time) = None <=> ~real
      /\ At(z + 1, d, time) = None <=> ~real
  BY <1>2, <1>3, EveryYear
<1>5. t = None <=> NextOccurrence(d, time, later) = None
  BY <1>1, <1>4 DEF NextOccurrence
<1>6. ASSUME t # None, later <= t PROVE NextOccurrence(d, time, later) = t
  <2>1. PICK this : this = At(y, d, time)
    OBVIOUS
  <2>2. PICK s \in Nat, e \in Nat, f \in Nat :
          s = YearStart(y) * Day /\ e = YearStart(y + 1) * Day /\ f = YearStart(y + 2) * Day
    <3>1. y + 2 \in Nat
      OBVIOUS
    <3>2. YearStart(y) \in Nat /\ YearStart(y + 1) \in Nat /\ YearStart(y + 2) \in Nat
      BY <1>2, <3>1, YearLength
    <3>3. QED
      BY <3>2, Lengths
  <2>3. s <= now /\ now < e
    <3>1. PICK a \in Nat, b \in Nat : a = YearStart(y) /\ b = YearStart(y + 1)
      BY YearLength
    <3>2. a <= now \div 86400 /\ now \div 86400 < b /\ s = a * 86400 /\ e = b * 86400
      BY <1>1, <2>2, <3>1, YearIsYear, Lengths
    <3>3. QED
      BY <3>2
  <2>4. this # None /\ At(y + 1, d, time) # None
    BY <1>1, <1>4, <1>6, <2>1 DEF NextOccurrence
  <2>5. this \in Nat /\ this < e
    BY <2>1, <2>2, <2>4, AtInYear
  <2>6. CASE this < now
    <3>1. t = At(y + 1, d, time)
      BY <1>1, <2>1, <2>4, <2>6 DEF NextOccurrence
    <3>2. t \in Nat /\ e <= t /\ t < YearStart(y + 1 + 1) * Day
      BY <1>2, <2>2, <2>4, <3>1, AtInYear
    <3>3. y + 1 + 1 = y + 2
      OBVIOUS
    <3>4. t < f
      BY <2>2, <3>2, <3>3
    <3>5. CASE later < e
      <4>1. z = y
        BY <1>1, <2>2, <2>3, <3>5, YearIsUnique
      <4>2. this < later
        BY <2>5, <2>6
      <4>3. QED
        BY <1>1, <2>1, <2>4, <3>1, <4>1, <4>2 DEF NextOccurrence
    <3>6. CASE e <= later
      <4>1. later < f
        BY <1>6, <3>2, <3>4
      <4>2. z = y + 1
        BY <1>1, <1>2, <2>2, <3>3, <3>6, <4>1, YearIsUnique
      <4>3. ~(t < later)
        BY <1>6, <3>2
      <4>4. QED
        BY <1>1, <3>1, <4>2, <4>3 DEF NextOccurrence
    <3>7. QED
      BY <3>5, <3>6
  <2>7. CASE ~(this < now)
    <3>1. t = this
      BY <1>1, <2>1, <2>4, <2>7 DEF NextOccurrence
    <3>2. later < e
      BY <1>6, <2>5, <3>1
    <3>3. z = y
      BY <1>1, <2>2, <2>3, <3>2, YearIsUnique
    <3>4. ~(this < later)
      BY <1>6, <2>5, <3>1
    <3>5. QED
      BY <1>1, <2>1, <3>1, <3>3, <3>4 DEF NextOccurrence
  <2>8. QED
    BY <2>6, <2>7
<1>7. QED
  BY <1>5, <1>6

\* A time of the day without a date, likewise.
LEMMA ClockAgain ==
  ASSUME NEW now \in Nat, NEW later \in Nat, now <= later, NEW time \in Nat, time < Day,
         NEW t, t = LET today == (now \div Day) * Day + time
                    IN  IF today >= now THEN today ELSE today + Day,
         later <= t
  PROVE  t = LET today == (later \div Day) * Day + time
             IN  IF today >= later THEN today ELSE today + Day
<1>1. PICK a \in Nat, b \in Nat : a = now \div 86400 /\ b = later \div 86400
  OBVIOUS
<1>2. /\ a * 86400 <= now /\ now < a * 86400 + 86400 /\ time < 86400
      /\ b * 86400 <= later /\ later < b * 86400 + 86400
  BY <1>1, Lengths
<1>3. t = IF a * 86400 + time >= now THEN a * 86400 + time ELSE a * 86400 + time + 86400
  BY <1>1, Lengths
<1>4. SUFFICES t = IF b * 86400 + time >= later THEN b * 86400 + time
                   ELSE b * 86400 + time + 86400
  BY <1>1, Lengths
<1>5. CASE a * 86400 + time >= now
  <2>1. b = a
    BY <1>2, <1>3, <1>5
  <2>2. QED
    BY <1>2, <1>3, <1>5, <2>1
<1>6. CASE ~(a * 86400 + time >= now)
  <2>1. b = a \/ b = a + 1
    BY <1>2, <1>3, <1>6
  <2>2. CASE b = a
    BY <1>2, <1>3, <1>6, <2>2
  <2>3. CASE b = a + 1
    <3>1. b * 86400 = a * 86400 + 86400
      BY <2>3
    <3>2. QED
      BY <1>2, <1>3, <1>6, <3>1
  <2>4. QED
    BY <2>1, <2>2, <2>3
<1>7. QED
  BY <1>5, <1>6

\* The date a text gives, read again before it has come.
LEMMA HumanAgain ==
  ASSUME NEW now \in Nat, NEW later \in Nat, now <= later,
         NEW text, WellRead(text), ~NamesLeapDay(text),
         NEW t, t = ParseHumanDatetime(text, now)
  PROVE  /\ t = None <=> ParseHumanDatetime(text, later) = None
         /\ t # None /\ later <= t => ParseHumanDatetime(text, later) = t
<1>1. CASE text.full # None
  BY <1>1 DEF ParseHumanDatetime
<1>2. CASE text.full = None /\ text.monthDay # None
  <2>1. text.monthDay.d # 60
    BY <1>2 DEF NamesLeapDay
  <2>2. \A n \in Nat : ParseHumanDatetime(text, n)
                         = NextOccurrence(text.monthDay.d, ClockTime(text.monthDay), n)
    BY <1>2 DEF ParseHumanDatetime
  <2>3. QED
    BY <2>1, <2>2, OccursAgain
<1>3. CASE /\ text.full = None /\ text.monthDay = None
           /\ text.date # None /\ text.date.deadlineWord
  <2>1. CASE text.date.year = None
    <3>1. text.date.d # 60
      BY <1>3, <2>1 DEF NamesLeapDay
    <3>2. \A n \in Nat : ParseHumanDatetime(text, n) = NextOccurrence(text.date.d, Day - 1, n)
      BY <1>3, <2>1 DEF ParseHumanDatetime
    <3>3. QED
      BY <3>1, <3>2, OccursAgain
  <2>2. CASE text.date.year # None
    BY <1>3, <2>2 DEF ParseHumanDatetime
  <2>3. QED
    BY <2>1, <2>2
<1>4. CASE /\ text.full = None /\ text.monthDay = None
           /\ (text.date = None \/ ~text.date.deadlineWord) /\ text.clock # None
  <2>1. PICK time : time = ClockTime(text.clock)
    OBVIOUS
  <2>2. time \in Nat
    BY <1>4, <2>1, Lengths DEF WellRead, ClockTime
  <2>3. \A n \in Nat : ParseHumanDatetime(text, n)
                         = IF time >= Day THEN None
                           ELSE LET today == (n \div Day) * Day + time
                                IN  IF today >= n THEN today ELSE today + Day
    BY <1>4, <2>1 DEF ParseHumanDatetime
  <2>4. CASE time >= Day
    BY <2>3, <2>4
  <2>5. CASE time < Day
    <3>1. \A n \in Nat : (LET today == (n \div Day) * Day + time
                          IN  IF today >= n THEN today ELSE today + Day) \in Int
      BY <2>2, Lengths
    <3>2. ~(time >= Day)
      BY <2>2, <2>5, Lengths
    <3>3. \A n \in Nat : ParseHumanDatetime(text, n)
                           = LET today == (n \div Day) * Day + time
                             IN  IF today >= n THEN today ELSE today + Day
      BY <2>3, <3>2
    <3>4. \A n \in Nat : ParseHumanDatetime(text, n) # None
      BY <3>1, <3>3, InferenceAssumption
    <3>5. ASSUME later <= t PROVE ParseHumanDatetime(text, later) = t
      BY <2>2, <2>5, <3>3, <3>5, ClockAgain
    <3>6. QED
      BY <3>4, <3>5
  <2>6. QED
    BY <2>2, <2>4, <2>5, Lengths
<1>5. CASE /\ text.full = None /\ text.monthDay = None
           /\ (text.date = None \/ ~text.date.deadlineWord) /\ text.clock = None
  BY <1>5 DEF ParseHumanDatetime
<1>6. QED
  BY <1>1, <1>2, <1>3, <1>4, <1>5

\* infer_deadline, asked again before the deadline has passed.
LEMMA AnswersAgain ==
  ASSUME NEW c, IsCase(c), ~NamesLeapDay(c.mail.text),
         c.given # None /\ ~c.given.rfc => ~NamesLeapDay(c.given.text),
         NEW a, a = InferDeadline(c.given, c.mail, c.now),
         NEW later \in Nat, c.now <= later, a # None => later <= a
  PROVE  InferDeadline(c.given, c.mail, later) = a
<1>1. PICK computed : computed = InferRelativeDeadline(c.mail)
  OBVIOUS
<1>2. PICK human, again : /\ human = ParseHumanDatetime(c.mail.text, c.now)
                          /\ again = ParseHumanDatetime(c.mail.text, later)
  OBVIOUS
<1>3. /\ human = None <=> again = None
      /\ human # None /\ later <= human => again = human
  BY <1>2, HumanAgain DEF IsCase
<1>4. CASE c.given # None /\ c.given.rfc
  BY <1>1, <1>2, <1>3, <1>4, InferValue
<1>5. CASE c.given = None
  <2>1. /\ a = IF human # None THEN human ELSE computed
        /\ InferDeadline(c.given, c.mail, later) = IF again # None THEN again ELSE computed
    BY <1>1, <1>2, <1>5, InferValue
  <2>2. QED
    BY <1>3, <2>1
<1>6. CASE c.given # None /\ ~c.given.rfc
  <2>1. PICK wording, reworded : /\ wording = ParseHumanDatetime(c.given.text, c.now)
                                 /\ reworded = ParseHumanDatetime(c.given.text, later)
    OBVIOUS
  <2>2. WellRead(c.given.text) /\ c.now \in Nat
    BY <1>6 DEF IsCase
  <2>3. /\ wording = None <=> reworded = None
        /\ wording # None /\ later <= wording => reworded = wording
    BY <1>6, <2>1, <2>2, HumanAgain
  <2>4. /\ a = IF wording # None THEN wording ELSE IF human # None THEN human ELSE computed
        /\ InferDeadline(c.given, c.mail, later)
             = IF reworded # None THEN reworded ELSE IF again # None THEN again ELSE computed
    BY <1>1, <1>2, <1>6, <2>1 DEF InferDeadline
  <2>5. QED
    BY <1>3, <2>3, <2>4
<1>7. QED
  BY <1>4, <1>5, <1>6

\* For every mail, every answer of the language model and every two moments up to
\* the deadline: a mail that is reclassified gets the deadline it had, if the
\* model says the same, through the turn of a day and of a year (api.rs:768,
\* deadline.rs:230-440).
THEOREM ReadAgainAgrees == Spec => []LaterReadingAgrees
<1>1. Asked => LaterReadingAgrees
  <2>1. SUFFICES ASSUME Asked, Asks("infer"), ~NamesLeapDay(Q.mail.text),
                        Q.given # None /\ ~Q.given.rfc => ~NamesLeapDay(Q.given.text),
                        NEW later \in Instants, Q.now <= later,
                        Answer # None => later <= Answer
                 PROVE  InferDeadline(Q.given, Q.mail, later) = Answer
    BY DEF LaterReadingAgrees
  <2>2. PICK c \in InferCases : Q = c
    BY <2>1, KindOfQuestion DEF Q
  <2>3. IsCase(c)
    BY CasesAssumption DEF IsCase
  <2>4. later \in Nat
    BY CasesAssumption DEF Instants
  <2>5. PICK a : a = InferDeadline(c.given, c.mail, c.now)
    OBVIOUS
  <2>6. Answer = a
    BY <2>2, <2>5 DEF Answer
  <2>7. InferDeadline(c.given, c.mail, later) = a
    BY <2>1, <2>2, <2>3, <2>4, <2>5, <2>6, AnswersAgain
  <2>8. QED
    BY <2>2, <2>6, <2>7
<1>2. QED
  BY AskedAlways, <1>1, PTL

-----------------------------------------------------------------------------
(* The target of a merge *)

\* What the code is asked: a finite list of items and a new one's deadline.
IsMerge(m) ==
  /\ IsFiniteSet(m.candidates) /\ None \notin m.candidates
  /\ \A r \in m.candidates : r.id \in Nat /\ r.deadline \in Int \cup {None}
  /\ m.deadline \in Int \cup {None} /\ m.now \in Int /\ m.force \in BOOLEAN

\* Whole hours, and the seconds that make them.
LEMMA NearIsSame ==
  ASSUME NEW a \in Int, NEW b \in Int
  PROVE  /\ SameMatter(a, b) <=> Near(a, b, Counted)
         /\ Near(a, b, Documented) => SameMatter(a, b)
<1>1. PICK d : d = IF a >= b THEN a - b ELSE b - a
  OBVIOUS
<1> d \in Nat
  BY <1>1
<1>2. d \div 3600 <= 24 <=> d <= 89999
  OBVIOUS
<1>3. \A k \in Nat : d <= k <=> a - b <= k /\ b - a <= k
  BY <1>1
<1>4. Counted = 89999 /\ Documented = 86400 /\ HoursApart(a, b) = d \div 3600
  BY <1>1, Lengths DEF Counted, Documented, HoursApart
<1>5. /\ d <= 89999 <=> a - b <= 89999 /\ b - a <= 89999
      /\ d <= 86400 <=> a - b <= 86400 /\ b - a <= 86400
  BY <1>3
<1>6. SameMatter(a, b) <=> a \div Day = b \div Day \/ d <= 89999
  BY <1>2, <1>4 DEF SameMatter
<1>7. Near(a, b, Counted) <=> a \div Day = b \div Day \/ d <= 89999
  BY <1>4, <1>5 DEF Near
<1>8. Near(a, b, Documented) <=> a \div Day = b \div Day \/ d <= 86400
  BY <1>4, <1>5 DEF Near
<1>9. d <= 86400 => d <= 89999
  OBVIOUS
<1>10. QED
  BY <1>6, <1>7, <1>8, <1>9

LEMMA FirstIsFirst ==
  ASSUME NEW rows, IsFiniteSet(rows), rows # {}, \A r \in rows : r.id \in Nat
  PROVE  /\ FirstOf(rows) \in rows /\ \A s \in rows : FirstOf(rows).id <= s.id
         /\ LastOf(rows) \in rows /\ \A s \in rows : s.id <= LastOf(rows).id
<1>1. PICK up : up = [r \in rows |-> r.id]
  OBVIOUS
<1>2. PICK down : down = [r \in rows |-> -r.id]
  OBVIOUS
<1>3. \A r \in rows : up[r] \in Int /\ down[r] \in Int
  BY <1>1, <1>2
<1>4. PICK r \in rows : \A s \in rows : up[r] <= up[s]
  BY <1>3, LeastExists
<1>5. PICK q \in rows : \A s \in rows : down[q] <= down[s]
  BY <1>3, LeastExists
<1>6. (\A s \in rows : r.id <= s.id) /\ (\A s \in rows : s.id <= q.id)
  BY <1>1, <1>2, <1>4, <1>5
<1>7. QED
  BY <1>6 DEF FirstOf, LastOf

LEMMA EarliestIsFirst ==
  ASSUME NEW rows, IsFiniteSet(rows), rows # {},
         \A r \in rows : r.id \in Nat /\ r.deadline \in Int
  PROVE  Earliest(rows) \in rows /\ \A s \in rows : Earliest(rows).deadline <= s.deadline
<1>1. PICK best : best = {r \in rows : \A s \in rows : r.deadline <= s.deadline}
  OBVIOUS
<1>2. best # {}
  BY <1>1, EarliestExists
<1>3. best \in SUBSET rows /\ IsFiniteSet(best)
  BY <1>1, FS_Subset
<1>4. FirstOf(best) \in best
  BY <1>2, <1>3, FirstIsFirst
<1>5. Earliest(rows) = FirstOf(best)
  BY <1>1 DEF Earliest
<1>6. QED
  BY <1>1, <1>4, <1>5

\* The rank of a candidate, from what the code tests of it.
LEMMA RankValue ==
  ASSUME NEW m, IsMerge(m), NEW c \in m.candidates
  PROVE  /\ m.deadline # None /\ c.deadline # None =>
              Rank(c, m, Counted) = IF SameMatter(c.deadline, m.deadline) THEN <<1, c.id>>
                           ELSE IF m.force THEN <<3, c.id>> ELSE <<4, 0>>
         /\ m.deadline # None /\ c.deadline = None => Rank(c, m, Counted) = <<2, c.id>>
         /\ m.deadline = None =>
              Rank(c, m, Counted) = IF c.deadline # None /\ c.deadline >= m.now
                           THEN <<1, c.deadline>> ELSE <<2, -c.id>>
<1>1. CASE m.deadline # None /\ c.deadline # None
  <2>1. SameMatter(c.deadline, m.deadline) <=> Near(c.deadline, m.deadline, Counted)
    BY <1>1, NearIsSame DEF IsMerge
  <2>2. QED
    BY <1>1, <2>1 DEF Rank, IsMerge
<1>2. CASE m.deadline # None /\ c.deadline = None
  BY <1>2 DEF Rank
<1>3. CASE m.deadline = None
  <2>1. c.deadline # None => (c.deadline < m.now <=> ~(c.deadline >= m.now))
    BY DEF IsMerge
  <2>2. QED
    BY <1>3, <2>1 DEF Rank
<1>4. QED
  BY <1>1, <1>2, <1>3

LEMMA BetterPairs ==
  ASSUME NEW a, NEW i, NEW b, NEW j
  PROVE  Better(<<a, i>>, <<b, j>>) <=> a < b \/ (a = b /\ i < j)
BY DEF Better

\* A candidate that suits as documented suits as well as the code counts.
LEMMA CountedSuitsBetter ==
  ASSUME NEW m, IsMerge(m), NEW c \in m.candidates
  PROVE  \/ Rank(c, m, Documented) = Rank(c, m, Counted)
         \/ /\ Rank(c, m, Counted) = <<1, c.id>>
            /\ Rank(c, m, Documented) \in {<<3, c.id>>, <<4, 0>>}
<1>1. CASE m.deadline # None /\ c.deadline # None
  <2>1. /\ SameMatter(c.deadline, m.deadline) <=> Near(c.deadline, m.deadline, Counted)
        /\ Near(c.deadline, m.deadline, Documented) => SameMatter(c.deadline, m.deadline)
    BY <1>1, NearIsSame DEF IsMerge
  <2>2. Rank(c, m, Documented) = IF Near(c.deadline, m.deadline, Documented) THEN <<1, c.id>>
                                 ELSE IF m.force THEN <<3, c.id>> ELSE <<4, 0>>
    BY <1>1 DEF Rank, IsMerge
  <2>3. QED
    BY <1>1, <2>1, <2>2, RankValue
<1>2. CASE m.deadline = None \/ c.deadline = None
  BY <1>2 DEF Rank
<1>3. QED
  BY <1>1, <1>2

\* pick_merge_target answers with the best candidate, if one suits, as the code
\* counts.
LEMMA PicksBest ==
  ASSUME NEW m, IsMerge(m),
         NEW t, t = PickMergeTarget(m.candidates, m.deadline, m.force, m.now)
  PROVE  IF t = None
         THEN \A c \in m.candidates : Rank(c, m, Counted)[1] = 4
         ELSE /\ t \in m.candidates /\ Rank(t, m, Counted)[1] # 4
              /\ \A c \in m.candidates : ~Better(Rank(c, m, Counted), Rank(t, m, Counted))
<1>1. PICK rows : rows = m.candidates
  OBVIOUS
<1>2. PICK dated : dated = {c \in rows : c.deadline # None}
  OBVIOUS
<1>3. PICK undated : undated = rows \ dated
  OBVIOUS
<1>4. PICK same : same = {c \in dated : m.deadline # None /\ SameMatter(c.deadline, m.deadline)}
  OBVIOUS
<1>5. PICK ahead : ahead = {c \in dated : c.deadline >= m.now}
  OBVIOUS
<1>6. t = CASE m.deadline # None /\ same # {} -> FirstOf(same)
            [] m.deadline # None /\ same = {} /\ undated # {} -> FirstOf(undated)
            [] m.deadline # None /\ same = {} /\ undated = {} /\ m.force /\ rows # {}
                 -> FirstOf(rows)
            [] m.deadline = None /\ ahead # {} -> Earliest(ahead)
            [] m.deadline = None /\ ahead = {} /\ rows # {} -> LastOf(rows)
            [] OTHER -> None
  BY <1>1, <1>2, <1>3, <1>4, <1>5 DEF PickMergeTarget
<1>7. /\ same \in SUBSET rows /\ undated \in SUBSET rows /\ ahead \in SUBSET rows
      /\ IsFiniteSet(same) /\ IsFiniteSet(undated) /\ IsFiniteSet(ahead) /\ IsFiniteSet(rows)
  BY <1>1, <1>2, <1>3, <1>4, <1>5, FS_Subset DEF IsMerge
<1>8. /\ None \notin rows /\ \A r \in rows : r.id \in Nat /\ r.deadline \in Int \cup {None}
      /\ m.deadline \in Int \cup {None} /\ m.now \in Int
  BY <1>1 DEF IsMerge
<1>9. \A r \in rows : /\ r \in same <=> /\ m.deadline # None /\ r.deadline # None
                                       /\ SameMatter(r.deadline, m.deadline)
                      /\ r \in undated <=> r.deadline = None
                      /\ r \in ahead <=> r.deadline # None /\ r.deadline >= m.now
  BY <1>2, <1>3, <1>4, <1>5
<1>10. \A c \in rows :
         /\ c \in same => Rank(c, m, Counted) = <<1, c.id>>
         /\ m.deadline # None /\ c \in undated => Rank(c, m, Counted) = <<2, c.id>>
         /\ m.deadline # None /\ c \notin same /\ c \notin undated =>
              Rank(c, m, Counted) = IF m.force THEN <<3, c.id>> ELSE <<4, 0>>
         /\ m.deadline = None /\ c \in ahead => Rank(c, m, Counted) = <<1, c.deadline>>
         /\ m.deadline = None /\ c \notin ahead => Rank(c, m, Counted) = <<2, -c.id>>
  BY <1>1, <1>9, RankValue
<1>11. CASE m.deadline # None /\ same # {}
  <2>1. t = FirstOf(same)
    BY <1>6, <1>11
  <2>2. t \in same /\ \A s \in same : t.id <= s.id
    BY <1>7, <1>8, <1>11, <2>1, FirstIsFirst
  <2>3. Rank(t, m, Counted) = <<1, t.id>> /\ t \in rows
    BY <1>7, <1>10, <2>2
  <2>4. ASSUME NEW c \in rows PROVE ~Better(Rank(c, m, Counted), <<1, t.id>>)
    <3>1. CASE c \in same
      BY <1>7, <1>8, <1>10, <2>2, <3>1, BetterPairs
    <3>2. CASE c \in undated
      BY <1>10, <1>11, <3>2, BetterPairs
    <3>3. CASE c \notin same /\ c \notin undated
      BY <1>10, <1>11, <3>3, BetterPairs
    <3>4. QED
      BY <3>1, <3>2, <3>3
  <2>5. QED
    BY <1>1, <1>8, <2>3, <2>4
<1>12. CASE m.deadline # None /\ same = {} /\ undated # {}
  <2>1. t = FirstOf(undated)
    BY <1>6, <1>12
  <2>2. t \in undated /\ \A s \in undated : t.id <= s.id
    BY <1>7, <1>8, <1>12, <2>1, FirstIsFirst
  <2>3. Rank(t, m, Counted) = <<2, t.id>> /\ t \in rows
    BY <1>7, <1>10, <1>12, <2>2
  <2>4. ASSUME NEW c \in rows PROVE ~Better(Rank(c, m, Counted), <<2, t.id>>)
    <3>1. CASE c \in undated
      BY <1>7, <1>8, <1>10, <1>12, <2>2, <3>1, BetterPairs
    <3>2. CASE c \notin undated
      BY <1>10, <1>12, <3>2, BetterPairs
    <3>3. QED
      BY <3>1, <3>2
  <2>5. QED
    BY <1>1, <1>8, <2>3, <2>4
<1>13. CASE m.deadline # None /\ same = {} /\ undated = {}
  <2>1. CASE m.force /\ rows # {}
    <3>1. t = FirstOf(rows)
      BY <1>6, <1>13, <2>1
    <3>2. t \in rows /\ \A s \in rows : t.id <= s.id
      BY <1>7, <1>8, <2>1, <3>1, FirstIsFirst
    <3>3. \A c \in rows : Rank(c, m, Counted) = <<3, c.id>>
      BY <1>10, <1>13, <2>1
    <3>4. \A c \in rows : ~Better(<<3, c.id>>, <<3, t.id>>)
      BY <1>8, <3>2, BetterPairs
    <3>5. QED
      BY <1>1, <1>8, <3>2, <3>3, <3>4
  <2>2. CASE ~(m.force /\ rows # {})
    <3>1. t = None
      BY <1>6, <1>13, <2>2
    <3>2. \A c \in rows : Rank(c, m, Counted) = <<4, 0>>
      BY <1>10, <1>13, <2>2
    <3>3. QED
      BY <1>1, <3>1, <3>2
  <2>3. QED
    BY <2>1, <2>2
<1>14. CASE m.deadline = None /\ ahead # {}
  <2>1. t = Earliest(ahead)
    BY <1>6, <1>14
  <2>2. \A r \in ahead : r.id \in Nat /\ r.deadline \in Int
    BY <1>7, <1>8, <1>9
  <2>3. t \in ahead /\ \A s \in ahead : t.deadline <= s.deadline
    BY <1>7, <1>14, <2>1, <2>2, EarliestIsFirst
  <2>4. Rank(t, m, Counted) = <<1, t.deadline>> /\ t \in rows
    BY <1>7, <1>10, <1>14, <2>3
  <2>5. ASSUME NEW c \in rows PROVE ~Better(Rank(c, m, Counted), <<1, t.deadline>>)
    <3>1. CASE c \in ahead
      BY <1>10, <1>14, <2>2, <2>3, <3>1, BetterPairs
    <3>2. CASE c \notin ahead
      BY <1>10, <1>14, <3>2, BetterPairs
    <3>3. QED
      BY <3>1, <3>2
  <2>6. QED
    BY <1>1, <1>8, <2>4, <2>5
<1>15. CASE m.deadline = None /\ ahead = {}
  <2>1. CASE rows # {}
    <3>1. t = LastOf(rows)
      BY <1>6, <1>15, <2>1
    <3>2. t \in rows /\ \A s \in rows : s.id <= t.id
      BY <1>7, <1>8, <2>1, <3>1, FirstIsFirst
    <3>3. \A c \in rows : Rank(c, m, Counted) = <<2, -c.id>>
      BY <1>10, <1>15
    <3>4. \A c \in rows : ~Better(<<2, -c.id>>, <<2, -t.id>>)
      BY <1>8, <3>2, BetterPairs
    <3>5. QED
      BY <1>1, <1>8, <3>2, <3>3, <3>4
  <2>2. CASE rows = {}
    BY <1>1, <1>6, <1>15, <2>2
  <2>3. QED
    BY <2>1, <2>2
<1>16. QED
  BY <1>11, <1>12, <1>13, <1>14, <1>15

\* What does not beat the target as counted does not as documented.
LEMMA PicksDocumented ==
  ASSUME NEW m, IsMerge(m), NEW c \in m.candidates, NEW t \in m.candidates
  PROVE  /\ ~Better(Rank(c, m, Counted), Rank(t, m, Counted)) =>
              ~Better(Rank(c, m, Documented), Rank(t, m, Counted))
         /\ Rank(c, m, Counted)[1] = 4 => Rank(c, m, Documented)[1] = 4
<1>1. PICK x, y : x \in Int /\ Rank(t, m, Counted) = <<x, y>>
  BY RankValue DEF IsMerge
<1>2. CASE Rank(c, m, Documented) = Rank(c, m, Counted)
  BY <1>2
<1>3. CASE /\ Rank(c, m, Counted) = <<1, c.id>>
           /\ Rank(c, m, Documented) \in {<<3, c.id>>, <<4, 0>>}
  <2>1. ASSUME ~Better(<<1, c.id>>, <<x, y>>)
        PROVE  ~Better(<<3, c.id>>, <<x, y>>) /\ ~Better(<<4, 0>>, <<x, y>>)
    BY <1>1, <2>1, BetterPairs
  <2>2. QED
    BY <1>1, <1>3, <2>1
<1>4. QED
  BY <1>2, <1>3, CountedSuitsBetter

\* For any finite list of candidates: no item that suits by the documented 24
\* hours is passed over, for none or for a worse one, and the item a new one is
\* merged into is at most the 25th hour away, or another day's and the mail
\* reschedules, or undated (pipeline.rs:704-756).
THEOREM BestIsPicked == Spec => []BestTargetPicked
<1>1. Asked => BestTargetPicked
  <2>1. SUFFICES ASSUME Asked, Asks("merge") PROVE BestTargetPicked
    BY DEF BestTargetPicked
  <2>2. PICK m \in MergeCases : question.merge = m
    BY <2>1, KindOfQuestion
  <2>3. IsMerge(m)
    BY CasesAssumption DEF IsMerge
  <2>4. PICK t : t = PickMergeTarget(m.candidates, m.deadline, m.force, m.now)
    OBVIOUS
  <2>5. IF t = None
        THEN \A c \in m.candidates : Rank(c, m, Counted)[1] = 4
        ELSE /\ t \in m.candidates /\ Rank(t, m, Counted)[1] # 4
             /\ \A c \in m.candidates : ~Better(Rank(c, m, Counted), Rank(t, m, Counted))
    BY <2>3, <2>4, PicksBest
  <2>6. CASE t = None
    <3>1. \A c \in m.candidates : Rank(c, m, Documented)[1] = 4
      BY <2>3, <2>5, <2>6, PicksDocumented
    <3>2. QED
      BY <2>2, <2>4, <2>6, <3>1 DEF BestTargetPicked
  <2>7. CASE t # None
    <3>1. t \in m.candidates /\ Rank(t, m, Counted)[1] # 4
      BY <2>5, <2>7
    <3>2. \A c \in m.candidates : ~Better(Rank(c, m, Documented), Rank(t, m, Counted))
      BY <2>3, <2>5, <2>7, <3>1, PicksDocumented
    <3>3. QED
      BY <2>2, <2>4, <2>7, <3>1, <3>2 DEF BestTargetPicked
  <2>8. QED
    BY <2>6, <2>7
<1>2. QED
  BY AskedAlways, <1>1, PTL
=============================================================================
