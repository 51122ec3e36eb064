---------------------------- MODULE MCRuleCases ----------------------------
(* Questions around the edges of the rules: the limits of the hints, the last
   second of the minute at which a correction ends, the turn of a year,
   29 February, afternoon hours, and the 24th and 25th hour. *)
EXTENDS RuleCases, Sequences

Cap(n, unit) == [n |-> n, unit |-> unit]
Plain == [action |-> <<>>, expiry |-> <<>>, full |-> None, monthDay |-> None,
          date |-> None, clock |-> None]

\* Year 3 is followed by the leap year 4: its last evening, and a morning
\* before and after 29 February of year 4.
Nows == {At(3, 366, 23 * Hour), At(4, 59, 9 * Hour), At(4, 61, 9 * Hour)}

Actions == {<<>>, <<Cap(2, "hours")>>, <<Cap(720, "hours"), Cap(3, "days")>>,
            <<Cap(721, "hours"), Cap(90, "days")>>,
            <<None, Cap(91, "days"), Cap(48, "hours")>>, <<Cap(0, "hours")>>}
Expiries == {<<>>, <<Cap(72, "hours")>>, <<Cap(999, "hours"), Cap(7, "days")>>}
MonthDays ==
  {None} \cup [d : {0, 59, 60, 61, 366}, h : {9, 12, 13, 25}, min : {0}, pm : BOOLEAN]
Dates == {None} \cup [year : {None, 4}, d : {60, 366}, deadlineWord : BOOLEAN]
Clocks == {None} \cup [h : {9, 12, 24}, min : {30, 60}, pm : BOOLEAN]

Hinted == {[Plain EXCEPT !.action = a, !.expiry = e] : a \in Actions, e \in Expiries}
Dated  == {[Plain EXCEPT !.monthDay = m] : m \in MonthDays}
            \cup {[Plain EXCEPT !.date = d, !.clock = c] : d \in Dates, c \in Clocks}
Both   == {[Plain EXCEPT !.action = a, !.monthDay = m] :
             a \in Actions, m \in {n \in MonthDays : n # None /\ n.h = 9}}

Sents == {None} \cup {At(4, 58, 20 * Hour)}
Mails == [text : Hinted \cup Dated \cup Both, sent : Sents,
          received : {At(4, 58, 21 * Hour)}]

\* Answers around two hours after a mail of 20:00: on it, one, almost two and two
\* minutes late, an hour, almost an hour and a minute, and all of that late.
Offs == {0, Minute, 2 * Minute - 1, 2 * Minute, Hour, Hour + Minute - 1, Hour + Minute}

Givens == {None} \cup [rfc : {TRUE},
                       at : {At(4, 58, 22 * Hour) + k : k \in Offs}
                              \cup {At(4, 60, 20 * Hour), At(4, 61, 12 * Hour)}]
            \cup [rfc : {FALSE}, text : {[Plain EXCEPT !.full = At(4, 70, 600)],
                                          Plain}]

AllInferCases == [given : Givens, mail : Mails, now : Nows]

\* Items 24 hours and up to 25 hours after ten o'clock, and further ones.
Ten == 10 * Hour
Rows == {{[id |-> 1, deadline |-> a], [id |-> 2, deadline |-> b]} :
           a, b \in {None, Ten, Ten + Day, Ten + Day + 1, Ten + Day + Hour - 1,
                     Ten + Day + Hour, 3 * Day}}
AllMergeCases ==
  [candidates : Rows \cup {{}}, deadline : {None, 0, Ten, 36 * Hour}, force : BOOLEAN,
   now : {0, Ten + Day + 1}]
=============================================================================
