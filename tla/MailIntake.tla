----------------------------- MODULE MailIntake -----------------------------
(***************************************************************************)
(* What the mail pipeline promises about a mailbox, whatever is done with   *)
(* the mails: a mail waits from its arrival until it is taken, it is taken  *)
(* once, and the mark up to which the mailbox was read passes over no mail  *)
(* that still waits.                                                        *)
(***************************************************************************)
EXTENDS Integers

CONSTANT None      \* the mark before the first reading

VARIABLES
  seen,       \* numbers of the mails in the mailbox
  waiting,    \* those not yet taken
  last,       \* the greatest number given to a mail
  mark        \* the number up to which the mailbox was read

vars == <<seen, waiting, last, mark>>

Init == seen = {} /\ waiting = {} /\ last = 0 /\ mark = None

\* A new mail, or one more copy of a mail that was taken.
Arrive ==
  /\ last' = last + 1 /\ seen' = seen \cup {last'}
  /\ waiting' \in {waiting, waiting \cup {last'}}
  /\ UNCHANGED mark

Leave(u) ==
  /\ seen' = seen \ {u} /\ waiting' = waiting \ {u} /\ UNCHANGED <<last, mark>>

\* All copies of a mail are taken together.
Take(copies) ==
  /\ copies # {} /\ waiting' = waiting \ copies /\ UNCHANGED <<seen, last, mark>>

Advance(u) ==
  /\ \A v \in waiting : u < v
  /\ mark' = u /\ UNCHANGED <<seen, waiting, last>>

Next ==
  \/ Arrive
  \/ \E u \in seen : Leave(u)
  \/ \E copies \in SUBSET waiting : Take(copies)
  \/ \E u \in 1 .. last : Advance(u)

Spec == Init /\ [][Next]_vars
=============================================================================
