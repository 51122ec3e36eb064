----------------------------- MODULE MailRules -----------------------------
(***************************************************************************)
(* The stateless decisions of pipeline.rs: which mails are promotion or     *)
(* feedback, which categories make an item, and which existing item a new   *)
(* one is merged into.  The lists of marker words are flags of the mail:    *)
(*   promoSubject, promoBody, campus, status, strong   (is_promo_email)     *)
(*   feedback, schedule                                (is_feedback_email)  *)
(*   subject, timeWord                                 (subject_has_time)   *)
(***************************************************************************)
EXTENDS DeadlineInference, FiniteSets

\* CORE_TODO_CATEGORIES as one: interview, written_test and assessment are
\* treated alike.  The others are the seeds that differ in what they create.
Categories == {"core", "todo", "notification", "career_promo", "misc"}
IsCore(cat) == cat = "core"

\* create_item and kind of the seeded rows: career_promo and notification
\* create nothing whatever the configuration says.
CreatesItem(cat) == cat \in {"core", "todo"}
KindIsTodo(cat)  == cat \in {"core", "todo"}

IsPromo(m) ==
  /\ m.promoSubject \/ ~m.status
  /\ ~m.strong
  /\ MatchActionHint(m.text) = None
  /\ m.promoSubject \/ (m.promoBody /\ m.campus)

\* apply_remind_plan: whether the reminders are those of an expiring link.
LinkExpiry(text) ==
  MatchLinkExpiryHint(text) # None /\ MatchActionHint(text) = None

IsFeedback(m) == m.feedback /\ ~m.schedule

SubjectHasTime(m, now) ==
  \/ MatchRelativeHint(m.subject) # None
  \/ ParseHumanDatetime(m.subject, now) # None
  \/ m.timeWord

-----------------------------------------------------------------------------
(* pick_merge_target *)

\* Whole hours between two instants, as num_hours().abs() counts them: a
\* started hour does not count.
HoursApart(a, b) == (IF a >= b THEN a - b ELSE b - a) \div Hour

\* Mutant of SameMatter: any day within the limit of hours, same day or not.
WithinADay(a, b) == HoursApart(a, b) < 24

\* The same day, or at most 24 whole hours apart.
SameMatter(a, b) == a \div Day = b \div Day \/ HoursApart(a, b) <= 24

FirstOf(rows) == CHOOSE r \in rows : \A s \in rows : r.id <= s.id
LastOf(rows)  == CHOOSE r \in rows : \A s \in rows : s.id <= r.id
Earliest(rows) ==
  FirstOf({r \in rows : \A s \in rows : r.deadline <= s.deadline})

\* The candidate that a new item is merged into, or None.
PickMergeTarget(candidates, deadline, force, now) ==
  LET dated   == {c \in candidates : c.deadline # None}
      undated == candidates \ dated
      same    == {c \in dated : deadline # None /\ SameMatter(c.deadline, deadline)}
      ahead   == {c \in dated : c.deadline >= now}
  IN  CASE deadline # None /\ same # {} -> FirstOf(same)
        [] deadline # None /\ same = {} /\ undated # {} -> FirstOf(undated)
        [] deadline # None /\ same = {} /\ undated = {} /\ force /\ candidates # {}
             -> FirstOf(candidates)
        [] deadline = None /\ ahead # {} -> Earliest(ahead)
        [] deadline = None /\ ahead = {} /\ candidates # {} -> LastOf(candidates)
        [] OTHER -> None
=============================================================================
