----------------------------- MODULE RuleProofs -----------------------------
(***************************************************************************)
(* What the rules of deadline.rs and pipeline.rs answer, for every text and *)
(* every instant: an instant or None, a candidate or None.                  *)
(***************************************************************************)
EXTENDS MailRules, TLAPS, WellFoundedInduction, FiniteSetTheorems

-----------------------------------------------------------------------------
(* Relative hints *)

LEMMA SpanType ==
  ASSUME NEW n, NEW unit
  PROVE  /\ Span(n, unit) \in Nat \cup {None}
         /\ Span(n, unit) # None => Span(n, unit) > 0
BY InferenceAssumption DEF Span, MaxHours, MaxDays, Hour, Minute, Day

LEMMA FirstSpanType ==
  ASSUME NEW captures
  PROVE  /\ FirstSpan(captures) \in Nat \cup {None}
         /\ FirstSpan(captures) # None => FirstSpan(captures) > 0
<1> DEFINE good == {k \in DOMAIN captures :
                 /\ captures[k] # None
                 /\ Span(captures[k].n, captures[k].unit) # None}
           k == CHOOSE k \in good : \A j \in good : k <= j
<1>1. FirstSpan(captures) = IF good = {} THEN None ELSE Span(captures[k].n, captures[k].unit)
  BY DEF FirstSpan
<1>2. QED
  BY <1>1, SpanType

LEMMA HintType ==
  ASSUME NEW text
  PROVE  /\ MatchRelativeHint(text) \in Nat \cup {None}
         /\ MatchRelativeHint(text) # None => MatchRelativeHint(text) > 0
BY FirstSpanType DEF MatchRelativeHint, MatchActionHint, MatchLinkExpiryHint

LEMMA RelativeType ==
  ASSUME NEW mail, mail.sent \in Int \cup {None}, mail.received \in Int \cup {None}
  PROVE  InferRelativeDeadline(mail) \in Int \cup {None}
<1> DEFINE span == MatchRelativeHint(mail.text)
<1>1. span \in Nat \cup {None}
  BY HintType
<1> HIDE DEF span
<1>2. Base(mail) \in Int \cup {None}
  BY DEF Base
<1>3. InferRelativeDeadline(mail)
        = IF span = None \/ Base(mail) = None THEN None ELSE Base(mail) + span
  BY DEF InferRelativeDeadline, span
<1>4. QED
  BY <1>1, <1>2, <1>3

-----------------------------------------------------------------------------
(* Explicit dates *)

\* A set of numbers with an upper bound has a greatest one.
LEMMA GreatestOf ==
  ASSUME NEW n \in Nat, NEW S, S \subseteq 0 .. n, S # {}
  PROVE  \E u \in S : \A v \in S : v <= u
<1> DEFINE T == {n - u : u \in S}
<1>1. T \subseteq Nat /\ T # {}
  <2>1. \A u \in S : n - u \in Nat
    OBVIOUS
  <2>2. QED
    BY <2>1
<1>2. PICK t \in T : \A s \in T : ~(<<s, t>> \in OpToRel(<, Nat))
  BY <1>1, NatLessThanWellFounded, WFMin
<1>3. ASSUME NEW s \in T PROVE t <= s
  <2>1. s \in Nat /\ t \in Nat
    BY <1>1
  <2>2. ~(s < t)
    BY <1>2, <2>1 DEF OpToRel
  <2>3. QED
    BY <2>1, <2>2
<1>4. PICK u \in S : t = n - u
  OBVIOUS
<1>5. \A v \in S : u >= v
  BY <1>3, <1>4
<1>6. QED
  BY <1>5

\* Every day belongs to a year.
LEMMA YearIsYear ==
  ASSUME NEW t \in Nat
  PROVE  /\ YearOf(t) \in Nat
         /\ YearStart(YearOf(t)) <= t \div Day /\ t \div Day < YearStart(YearOf(t) + 1)
<1> DEFINE d == t \div Day
           n == d \div 365
           S == {y \in 0 .. n : YearStart(y) <= d}
<1>1. d \in Nat /\ n \in Nat /\ 365 * n <= d /\ d < 365 * n + 365
  BY DEF Day, Hour, Minute
<1> HIDE DEF d, n
<1>2. 0 \in S
  BY <1>1 DEF YearStart
<1>3. PICK y \in S : \A v \in S : v <= y
  BY <1>1, <1>2, GreatestOf
<1>4. d < YearStart(y + 1)
  <2>1. CASE y = n
    BY <1>1, <2>1 DEF YearStart
  <2>2. CASE y < n
    <3>1. y + 1 \in 0 .. n /\ ~(y + 1 <= y)
      BY <1>1, <1>3, <2>2
    <3>2. ~(YearStart(y + 1) <= d)
      BY <1>3, <3>1
    <3>3. YearStart(y + 1) \in Int
      BY <3>1 DEF YearStart
    <3>4. QED
      BY <1>1, <3>2, <3>3
  <2>3. QED
    BY <1>1, <1>3, <2>1, <2>2
<1>5. \E z \in 0 .. n : YearStart(z) <= d /\ d < YearStart(z + 1)
  BY <1>3, <1>4
<1>6. YearOf(t) = CHOOSE z \in 0 .. n : YearStart(z) <= d /\ d < YearStart(z + 1)
  BY DEF YearOf, d, n
<1>7. YearOf(t) \in 0 .. n /\ YearStart(YearOf(t)) <= d /\ d < YearStart(YearOf(t) + 1)
  BY <1>5, <1>6
<1>8. QED
  BY <1>1, <1>7 DEF d

LEMMA AtType ==
  ASSUME NEW y \in Int, NEW d, NEW time
  PROVE  At(y, d, time) \in Int \cup {None}
<1> DEFINE real == d \in 1 .. 366 /\ time \in 0 .. Day - 1
           nth  == IF d > 60 /\ ~Leap(y) THEN d - 2 ELSE d - 1
<1>1. CASE ~real
  BY <1>1 DEF At
<1>2. CASE real
  <2>1. nth \in Int /\ time \in Int /\ YearStart(y) \in Int
    BY <1>2 DEF YearStart, Day, Hour, Minute
  <2>2. (YearStart(y) + nth) * Day + time \in Int
    <3> HIDE DEF nth
    <3> QED
      BY <2>1 DEF Day, Hour, Minute
  <2>3. At(y, d, time) \in {None, (YearStart(y) + nth) * Day + time}
    BY DEF At
  <2>4. QED
    BY <2>2, <2>3
<1>3. QED
  BY <1>1, <1>2

LEMMA OccurrenceType ==
  ASSUME NEW now \in Nat, NEW d, NEW time
  PROVE  NextOccurrence(d, time, now) \in Int \cup {None}
<1>1. PICK y \in Nat : y = YearOf(now)
  BY YearIsYear
<1>2. y \in Int /\ y + 1 \in Int
  OBVIOUS
<1>3. At(y, d, time) \in Int \cup {None} /\ At(y + 1, d, time) \in Int \cup {None}
  BY <1>2, AtType
<1>4. QED
  BY <1>1, <1>3 DEF NextOccurrence

\* What the patterns of a text can have captured, as far as a date is read
\* from it.
Dated(text) ==
  /\ text.full \in Int \cup {None}
  /\ text.date # None => text.date.year \in Int \cup {None}
  /\ text.clock # None => text.clock.h \in Int /\ text.clock.min \in Int

LEMMA HumanType ==
  ASSUME NEW now \in Nat, NEW text, Dated(text)
  PROVE  ParseHumanDatetime(text, now) \in Int \cup {None}
<1>1. CASE text.full # None
  BY <1>1 DEF ParseHumanDatetime, Dated
<1>2. CASE text.full = None /\ text.monthDay # None
  BY <1>2, OccurrenceType DEF ParseHumanDatetime
<1>3. CASE text.full = None /\ text.monthDay = None
  <2>1. CASE text.date # None /\ text.date.deadlineWord
    BY <1>3, <2>1, OccurrenceType, AtType DEF ParseHumanDatetime, Dated
  <2>2. CASE (text.date = None \/ ~text.date.deadlineWord) /\ text.clock # None
    <3> DEFINE time == ClockTime(text.clock)
               today  == (now \div Day) * Day + time
    <3>1. ParseHumanDatetime(text, now)
            = IF time >= Day THEN None ELSE IF today >= now THEN today ELSE today + Day
      BY <1>3, <2>2 DEF ParseHumanDatetime
    <3>2. time \in Int
      BY <2>2 DEF ClockTime, Dated, Hour, Minute, Day
    <3>3. today \in Int /\ today + Day \in Int
      BY <3>2 DEF Day, Hour, Minute
    <3>4. QED
      BY <3>1, <3>3
  <2>3. CASE (text.date = None \/ ~text.date.deadlineWord) /\ text.clock = None
    BY <1>3, <2>3 DEF ParseHumanDatetime
  <2>4. QED
    BY <2>1, <2>2, <2>3
<1>4. QED
  BY <1>1, <1>2, <1>3

\* What a language model answers: nothing, or an instant.
Told == {None} \cup [rfc : {TRUE}, at : Int]

LEMMA InferType ==
  ASSUME NEW now \in Nat, NEW given \in Told, NEW mail, Dated(mail.text),
         mail.sent \in Int \cup {None}, mail.received \in Int \cup {None}
  PROVE  InferDeadline(given, mail, now) \in Int \cup {None}
<1> DEFINE computed == InferRelativeDeadline(mail)
           human    == ParseHumanDatetime(mail.text, now)
<1>1. computed \in Int \cup {None} /\ human \in Int \cup {None}
  BY RelativeType, HumanType
<1>2. CASE given # None
  <2>1. given.rfc = TRUE /\ given.at \in Int
    BY <1>2 DEF Told
  <2>2. InferDeadline(given, mail, now) \in {computed, given.at}
    BY <1>2, <2>1 DEF InferDeadline
  <2>3. QED
    BY <1>1, <2>1, <2>2
<1>3. CASE given = None
  <2>1. InferDeadline(given, mail, now) \in {computed, human}
    BY <1>3 DEF InferDeadline
  <2>2. QED
    BY <1>1, <2>1
<1>4. QED
  BY <1>2, <1>3

-----------------------------------------------------------------------------
(* The target of a merge *)

\* Rows of distinct items below a bound.
LEMMA FirstIsMember ==
  ASSUME NEW n \in Nat, NEW rows, rows # {}, \A r \in rows : r.id \in 0 .. n
  PROVE  FirstOf(rows) \in rows /\ LastOf(rows) \in rows
<1> DEFINE S == {r.id : r \in rows}
           T == {n - r.id : r \in rows}
<1>1. S \subseteq 0 .. n /\ S # {} /\ T \subseteq 0 .. n /\ T # {}
  OBVIOUS
<1>2. PICK u \in S : \A v \in S : v <= u
  BY <1>1, GreatestOf
<1>3. PICK w \in T : \A v \in T : v <= w
  BY <1>1, GreatestOf
<1>4. PICK r \in rows : r.id = u
  OBVIOUS
<1>5. \A s \in rows : s.id <= r.id
  BY <1>2, <1>4
<1>6. PICK q \in rows : n - q.id = w
  OBVIOUS
<1>7. \A s \in rows : q.id <= s.id
  <2>1. ASSUME NEW s \in rows PROVE q.id <= s.id
    <3>1. n - s.id <= n - q.id
      BY <1>3, <1>6
    <3>2. n \in Int /\ s.id \in Int /\ q.id \in Int
      OBVIOUS
    <3>3. QED
      BY <3>1, <3>2
  <2>2. QED
    BY <2>1
<1>8. QED
  BY <1>4, <1>5, <1>6, <1>7 DEF FirstOf, LastOf

\* Of finitely many rows one has the least number: the one with the fewest
\* before it.
LEMMA LeastExists ==
  ASSUME NEW rows, IsFiniteSet(rows), rows # {}, NEW f, \A r \in rows : f[r] \in Int
  PROVE  \E r \in rows : \A s \in rows : f[r] <= f[s]
<1> DEFINE Before(r) == {s \in rows : f[s] < f[r]}
           N == {Cardinality(Before(r)) : r \in rows}
<1>1. \A r \in rows : IsFiniteSet(Before(r)) /\ Cardinality(Before(r)) \in Nat
  <2>1. \A r \in rows : Before(r) \in SUBSET rows
    OBVIOUS
  <2>2. QED
    BY <2>1, FS_Subset, FS_CardinalityType
<1>2. N \subseteq Nat /\ N # {}
  BY <1>1
<1>3. PICK k \in N : \A j \in N : ~(<<j, k>> \in OpToRel(<, Nat))
  BY <1>2, NatLessThanWellFounded, WFMin
<1>4. PICK r \in rows : k = Cardinality(Before(r))
  OBVIOUS
<1>5. ASSUME NEW s \in rows, ~(f[r] <= f[s]) PROVE FALSE
  <2>1. f[s] < f[r]
    BY <1>5
  <2>2. Before(s) \in SUBSET Before(r) /\ s \in Before(r) /\ s \notin Before(s)
    BY <2>1
  <2> DEFINE a == Before(s)
             b == Before(r)
             j == Cardinality(a)
  <2>3. j \in N /\ j \in Nat /\ k \in Nat
    BY <1>1, <1>4
  <2>4. j <= k /\ j # k
    <3>1. IsFiniteSet(b) /\ a \in SUBSET b /\ a # b
      BY <1>1, <2>2
    <3>2. Cardinality(a) <= Cardinality(b) /\ (Cardinality(b) = Cardinality(a) => b = a)
      BY <3>1, FS_Subset
    <3>3. QED
      BY <1>4, <3>1, <3>2
  <2>5. j < k
    <3> HIDE DEF j
    <3> QED
      BY <2>3, <2>4
  <2>6. <<j, k>> \in OpToRel(<, Nat)
    BY <2>3, <2>5 DEF OpToRel
  <2>7. QED
    BY <1>3, <2>3, <2>6
<1>6. QED
  BY <1>5

LEMMA EarliestExists ==
  ASSUME NEW rows, IsFiniteSet(rows), rows # {}, \A r \in rows : r.deadline \in Int
  PROVE  \E r \in rows : \A s \in rows : r.deadline <= s.deadline
<1>1. PICK f : f = [r \in rows |-> r.deadline]
  OBVIOUS
<1>2. \A r \in rows : f[r] = r.deadline /\ f[r] \in Int
  BY <1>1
<1>3. PICK r \in rows : \A s \in rows : f[r] <= f[s]
  BY <1>2, LeastExists
<1>4. QED
  BY <1>2, <1>3

\* pick_merge_target answers with one of the candidates.
LEMMA TargetIsCandidate ==
  ASSUME NEW n \in Nat, NEW rows, IsFiniteSet(rows),
         \A r \in rows : r.id \in 0 .. n /\ r.deadline \in Int \cup {None},
         NEW deadline, NEW force, NEW now
  PROVE  PickMergeTarget(rows, deadline, force, now) \in rows \cup {None}
<1> DEFINE dated   == {c \in rows : c.deadline # None}
           undated == rows \ dated
           same    == {c \in dated : deadline # None /\ SameMatter(c.deadline, deadline)}
           ahead   == {c \in dated : c.deadline >= now}
           target  == PickMergeTarget(rows, deadline, force, now)
<1>1. \A s : s \subseteq rows /\ s # {} => FirstOf(s) \in rows /\ LastOf(s) \in rows
  BY FirstIsMember
<1>2. ASSUME ahead # {} PROVE Earliest(ahead) \in rows
  <2> DEFINE best == {r \in ahead : \A s \in ahead : r.deadline <= s.deadline}
  <2>1. IsFiniteSet(ahead) /\ \A r \in ahead : r.deadline \in Int
    <3>1. ahead \in SUBSET rows
      OBVIOUS
    <3>2. QED
      BY <3>1, FS_Subset
  <2>2. best # {} /\ best \subseteq rows
    BY <1>2, <2>1, EarliestExists
  <2>3. FirstOf(best) \in rows
    BY <1>1, <2>2
  <2>4. QED
    BY <2>3 DEF Earliest
<1>3. \/ target = None
      \/ same # {} /\ target = FirstOf(same)
      \/ undated # {} /\ target = FirstOf(undated)
      \/ rows # {} /\ (target = FirstOf(rows) \/ target = LastOf(rows))
      \/ ahead # {} /\ target = Earliest(ahead)
  <2> HIDE DEF same, undated, ahead
  <2>1. target = CASE deadline # None /\ same # {} -> FirstOf(same)
        [] deadline # None /\ same = {} /\ undated # {} -> FirstOf(undated)
        [] deadline # None /\ same = {} /\ undated = {} /\ force /\ rows # {}
             -> FirstOf(rows)
        [] deadline = None /\ ahead # {} -> Earliest(ahead)
        [] deadline = None /\ ahead = {} /\ rows # {} -> LastOf(rows)
        [] OTHER -> None
    BY DEF PickMergeTarget, same, undated, ahead
  <2>2. QED
    BY <2>1
<1>4. QED
  BY <1>1, <1>2, <1>3
=============================================================================
