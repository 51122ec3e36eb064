------------------------- MODULE DeadlineInference -------------------------
(***************************************************************************)
(* deadline.rs: how a deadline is read out of a mail.  The regular          *)
(* expressions are abstracted to what they capture: a text is a record of   *)
(* the numbers, units and dates its patterns find, None where a pattern     *)
(* does not match.  Instants and durations are seconds of the configured    *)
(* time zone, which is taken to have no clock changes; a calendar day is    *)
(* its number in a leap year (60 is 29 February, 0 stands for dates such as *)
(* 31 April), so that a day may be missing from a year.                     *)
(***************************************************************************)
EXTENDS Integers

CONSTANT None      \* an absent optional value

ASSUME InferenceAssumption == None \notin Int

Minute == 60
Hour   == 60 * Minute
Day    == 24 * Hour

MaxHours == 24 * 30     \* the largest number of hours a hint may name
MaxDays  == 90          \* the largest number of days

-----------------------------------------------------------------------------
(* relative hints: "within N hours", "the link expires in N days" *)

\* n units as a duration, None outside the limits.
Span(n, unit) ==
  CASE unit = "hours" /\ n \in 1 .. MaxHours -> n * Hour
    [] unit = "days"  /\ n \in 1 .. MaxDays  -> n * Day
    [] OTHER -> None

\* The first of the captures, in the order they are tried, that is in range.
FirstSpan(captures) ==
  LET good == {k \in DOMAIN captures :
                 /\ captures[k] # None
                 /\ Span(captures[k].n, captures[k].unit) # None}
  IN  IF good = {} THEN None
      ELSE LET k == CHOOSE k \in good : \A j \in good : k <= j
           IN  Span(captures[k].n, captures[k].unit)

\* match_action_hint: hours, then days, then the English form.
MatchActionHint(text) == FirstSpan(text.action)

\* match_link_expiry_hint: "fails after", then "valid for", then English.
MatchLinkExpiryHint(text) == FirstSpan(text.expiry)

\* Mutant of MatchRelativeHint: the expiry of a link goes first.
ExpiryFirst(text) ==
  IF MatchLinkExpiryHint(text) # None THEN MatchLinkExpiryHint(text)
  ELSE MatchActionHint(text)

MatchRelativeHint(text) ==
  IF MatchActionHint(text) # None THEN MatchActionHint(text)
  ELSE MatchLinkExpiryHint(text)

\* The moment the hint counts from: when the mail was sent, else received.
Base(mail) == IF mail.sent # None THEN mail.sent ELSE mail.received

InferRelativeDeadline(mail) ==
  LET span == MatchRelativeHint(mail.text)
  IN  IF span = None \/ Base(mail) = None THEN None ELSE Base(mail) + span

-----------------------------------------------------------------------------
(* explicit dates *)

Leap(y)      == y % 4 = 0
YearStart(y) == 365 * y + ((y + 3) \div 4)
YearOf(t)    == LET d == t \div Day
                IN  CHOOSE y \in 0 .. (d \div 365) :
                      YearStart(y) <= d /\ d < YearStart(y + 1)

\* with_ymd_and_hms: None when the year has no such day or the day no such
\* time.
At(y, d, time) ==
  IF d \notin 1 .. 366 \/ time \notin 0 .. Day - 1 \/ (d = 60 /\ ~Leap(y))
  THEN None
  ELSE (YearStart(y) + (IF d > 60 /\ ~Leap(y) THEN d - 2 ELSE d - 1)) * Day
       + time

\* The time of the day that is written, afternoon and evening hours below twelve
\* being twelve later; Day, which is none, for one such as 25:00 or 9:75.
ClockTime(c) ==
  LET h == IF c.pm /\ c.h < 12 THEN c.h + 12 ELSE c.h
  IN  IF h > 23 \/ c.min > 59 THEN Day ELSE h * Hour + c.min * Minute

\* A day without a year is this year's, or next year's when that is past.
\* Mutant: always this year's.
ThisYear(d, time, now) == At(YearOf(now), d, time)

NextOccurrence(d, time, now) ==
  LET this == At(YearOf(now), d, time)
  IN  IF this # None /\ this < now THEN At(YearOf(now) + 1, d, time)
      ELSE this

\* parse_human_datetime: a full date and time; else month, day and time; else
\* a bare date near a word for "deadline", taken to the end of its day; else a
\* time alone.  A form that matches but names no real date ends the search,
\* except for the first.  `full` is the instant, or None for no real date.
ParseHumanDatetime(text, now) ==
  CASE text.full # None -> text.full
    [] text.full = None /\ text.monthDay # None ->
         NextOccurrence(text.monthDay.d, ClockTime(text.monthDay), now)
    [] /\ text.full = None /\ text.monthDay = None
       /\ text.date # None /\ text.date.deadlineWord ->
         IF text.date.year = None
         THEN NextOccurrence(text.date.d, Day - 1, now)
         ELSE At(text.date.year, text.date.d, Day - 1)
    [] /\ text.full = None /\ text.monthDay = None
       /\ (text.date = None \/ ~text.date.deadlineWord)
       /\ text.clock # None ->
         LET time  == ClockTime(text.clock)
             today == (now \div Day) * Day + time
         IN  IF time >= Day THEN None
             ELSE IF today >= now THEN today ELSE today + Day
    [] OTHER -> None

-----------------------------------------------------------------------------
\* The model's date and the one computed from the hint mean the same span.
\* Mutant: however far apart.
AlwaysOff(a, b, span) == a # b

\* Whole minutes of a duration, as num_minutes() counts them: a started one does
\* not count.
NumMinutes(d) == d \div Minute

SlightlyOff(a, b, span) ==
  LET diff  == NumMinutes(IF a >= b THEN a - b ELSE b - a)
      half  == NumMinutes(span) \div 2
      limit == IF half > 30 THEN half ELSE 30
  IN  diff > 1 /\ diff <= limit

\* Mutant of InferDeadline: the span counts from the moment of reading.
InferFromNow(given, mail, now) ==
  LET span  == MatchRelativeHint(mail.text)
      human == ParseHumanDatetime(mail.text, now)
  IN  CASE given # None /\ given.rfc -> given.at
        [] (given = None \/ ~given.rfc) /\ human # None -> human
        [] (given = None \/ ~given.rfc) /\ human = None /\ span # None -> now + span
        [] OTHER -> None

\* infer_deadline.  `given` is what the language model extracted: None, an
\* RFC 3339 instant [rfc |-> TRUE, at |-> t], or some other wording, itself a
\* text [rfc |-> FALSE, text |-> x].
InferDeadline(given, mail, now) ==
  LET computed == InferRelativeDeadline(mail)
      human    == ParseHumanDatetime(mail.text, now)
      wording  == IF given = None \/ given.rfc THEN None
                  ELSE ParseHumanDatetime(given.text, now)
  IN  CASE given # None /\ given.rfc ->
             IF /\ computed # None /\ human = None
                /\ SlightlyOff(given.at, computed, MatchRelativeHint(mail.text))
             THEN computed ELSE given.at
        [] (given = None \/ ~given.rfc) /\ wording # None -> wording
        [] (given = None \/ ~given.rfc) /\ wording = None /\ human # None -> human
        [] OTHER -> computed
=============================================================================
