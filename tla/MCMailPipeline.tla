--------------------------- MODULE MCMailPipeline ---------------------------
(* Mails for the pipeline: two invitations of one company, a mail shot with a
   date, a survey, an answer to a reminder, and a mail that does not parse. *)
EXTENDS MailPipeline

Plain == [action |-> <<>>, expiry |-> <<>>, full |-> None, monthDay |-> None,
          date |-> None, clock |-> None]
Within(hours) == [Plain EXCEPT !.action = <<[n |-> hours, unit |-> "hours"]>>]

At5 == 5 * Day
Invitation ==
  [promoSubject |-> FALSE, promoBody |-> FALSE, campus |-> FALSE, status |-> FALSE,
   strong |-> TRUE, feedback |-> FALSE, schedule |-> FALSE, timeWord |-> FALSE,
   text |-> Plain, subject |-> Plain, ok |-> TRUE, own |-> FALSE, topic |-> 1,
   party |-> "acme", reply |-> None, answers |-> {"core"},
   told |-> [rfc |-> TRUE, at |-> At5 + Day], force |-> FALSE, sent |-> At5 - Hour]

AllTraits ==
  [invite  |-> Invitation,
   remind  |-> [Invitation EXCEPT !.topic = 2, !.told = None, !.text = Within(20)],
   shot    |-> [Invitation EXCEPT !.strong = FALSE, !.promoSubject = TRUE, !.topic = 3],
   survey  |-> [Invitation EXCEPT !.strong = FALSE, !.feedback = TRUE, !.topic = 4,
                  !.told = None],
   done    |-> [Invitation EXCEPT !.topic = 5, !.answers = {"notification"},
                  !.party = None, !.told = None, !.reply = "completed"],
   broken  |-> [Invitation EXCEPT !.ok = FALSE],
   old     |-> [Invitation EXCEPT !.topic = 6, !.answers = {"todo", "misc"},
                  !.party = None, !.told = None, !.sent = At5 - 9 * Day]]

TwoMails == {"invite", "remind"}
PairMails == {"invite", "done"}
AllMails == DOMAIN AllTraits
RangeStart == At5 - 3 * Day

\* The first mailbox was read up to its first mail, or there is no such cursor.
LegacyPair == {None, 1}
=============================================================================
