---------------------------- MODULE ReminderPlan ----------------------------
(***************************************************************************)
(* When an item is to be reminded (notifier.rs).  Time is an integer count  *)
(* of units since midnight of day 0 in the configured time zone; an offset  *)
(* that changes inside a plan (daylight saving) is not represented, so the  *)
(* local-to-UTC conversion at the end of compute_remind_at is a shift that  *)
(* no comparison sees.                                                      *)
(***************************************************************************)
EXTENDS Integers

CONSTANTS
  Day,          \* units in 24 hours
  LeadTime,     \* reminder.lead_time as an offset into the day
  DaysBefore,   \* reminder.days_before
  TwoHours,     \* distance of the second reminder from the deadline
  None          \* an absent optional value (Option::None, SQL NULL)

ASSUME PlanAssumption ==
  /\ Day \in Nat \ {0}
  /\ LeadTime \in 0 .. Day - 1
  /\ DaysBefore \in Int
  /\ TwoHours \in Nat \ {0}
  /\ None \notin Int

Policies == {"normal", "urgent", "link_expiry"}

\* deadline - days_before days, at lead_time of that day
ComputeRemindAt(deadline) ==
  ((deadline \div Day) - DaysBefore) * Day + LeadTime

\* hours before the deadline: only "two hours" is ever asked for
ComputeHoursBefore(deadline) == deadline - TwoHours

\* Mutant of DecideRemindPolicy: the last case keeps the empty string that
\* build_item starts with.
PolicyOrEmpty(deadline, linkExpiry, now) ==
  IF deadline = None THEN "normal"
  ELSE IF linkExpiry THEN "link_expiry"
  ELSE IF deadline > now /\ deadline - now <= Day THEN "urgent"
  ELSE ""

\* The policy chosen when an item gets its deadline.
DecideRemindPolicy(deadline, linkExpiry, now) ==
  IF deadline = None THEN "normal"
  ELSE IF linkExpiry THEN "link_expiry"
  ELSE IF deadline > now /\ deadline - now <= Day THEN "urgent"
  ELSE "normal"

\* The instants at which an item is to be reminded.  The code returns them
\* sorted and without repetition: a set, read in ascending order.
ReminderTimes(item) ==
  IF item.deadline = None THEN {}
  ELSE IF item.policy \in {"urgent", "link_expiry"}
       THEN {item.created, ComputeHoursBefore(item.deadline)}
       ELSE {ComputeRemindAt(item.deadline)}
=============================================================================
