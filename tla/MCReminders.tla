---------------------------- MODULE MCReminders ----------------------------
(***************************************************************************)
(* Instances of Reminders small enough for TLC.  With a day of three units, *)
(* a deadline of 3 given at time 0 is urgent (slots 0 and 1), one of 4 is   *)
(* normal (slot 1) and becomes urgent when it is given later.               *)
(***************************************************************************)
EXTENDS Reminders, TLC

CONSTANTS k1, k2, s1, e1

Urgent         == {3}
UrgentOrNone   == {3, None}
UrgentOrNormal == {3, 4}
FarUrgent      == {6}
NoDeadline     == {None}

Symmetry == Permutations(Checkers)
=============================================================================
