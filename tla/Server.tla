------------------------------- MODULE Server -------------------------------
(***************************************************************************)
(* The process (main.rs): it opens the databases, seeds them, and runs the  *)
(* poll loop, the scheduler (scheduler.rs) and the account requests side by *)
(* side until it ends; then it may be started again.  What a poll or a      *)
(* check does to mails, items and logs is MailPipeline's and Reminders'.    *)
(***************************************************************************)
EXTENDS LegacySplit, Accounts

CONSTANTS
  CheckTimes,    \* minutes that are daily check times
  MaxClock,      \* bound: the last minute
  MaxFaults      \* bound: ends of the process and failed database calls

ASSUME ServerAssumption ==
  CheckTimes \subseteq Nat /\ MaxClock \in Nat /\ MaxFaults \in Nat

VARIABLES
  poll,          \* [list, at]: accounts still to come in this round, and the one in progress
  tick,          \* [pc, at]: the scheduler's tick and its time
  clock,
  marks,         \* check times with a row check_fired:<time> in kv
  checks,        \* minute -> full checks that ended well
  faults         \* ends of the process and failed writes of a mark so far

schedulerVars == <<tick, marks, checks>>
vars == <<openingVars, accountVars, poll, clock, schedulerVars, faults>>

NoPoll == [list |-> <<>>, at |-> None]
NoTick == [pc |-> "idle", at |-> None]

Init ==
  /\ OpeningInit /\ AccountsInit
  /\ poll = NoPoll /\ tick = NoTick /\ clock = 0
  /\ marks = {} /\ checks = [m \in 0 .. MaxClock |-> 0] /\ faults = 0

-----------------------------------------------------------------------------
(* Starting *)

\* The legacy accounts, when the database had any: the default one.
CopyAccounts ==
  \/ UNCHANGED <<accounts, nextAccount>>
  \/ \E row \in AccountRow :
       /\ row.default /\ accounts' = WithRow(row) /\ nextAccount' = nextAccount + 1

Copy ==
  /\ CopyTable
  /\ IF Tables[copied'] = "accounts" THEN CopyAccounts ELSE UNCHANGED <<accounts, nextAccount>>
  /\ UNCHANGED <<request, requests>>

\* An empty table gets the account of the configuration as its default.
SeedAccount ==
  IF accounts # <<>> THEN UNCHANGED <<accounts, nextAccount>>
  ELSE /\ \E usable \in BOOLEAN :
            accounts' = WithRow([enabled |-> TRUE, default |-> TRUE, usable |-> usable])
       /\ nextAccount' = nextAccount + 1

Open ==
  /\ \/ Copy
     \/ Seed /\ SeedAccount /\ UNCHANGED <<request, requests>>
     \/ (Start \/ Check \/ CreateMail \/ CreateTodo \/ Rename \/ OpenFiles)
          /\ UNCHANGED accountVars
  /\ UNCHANGED <<poll, clock, schedulerVars, faults>>

\* The end takes every request, poll and tick with it; it may part the two
\* statements of set_default_account.
Stop ==
  /\ End /\ faults < MaxFaults /\ faults' = faults + 1
  /\ \/ UNCHANGED accounts
     \/ (\E r \in Requesters : At(r, "default")) /\ accounts' = Cleared
  /\ request' = [r \in Requesters |-> NoRequest]
  /\ poll' = NoPoll /\ tick' = NoTick
  /\ UNCHANGED <<nextAccount, requests, clock, marks, checks>>

-----------------------------------------------------------------------------
(* Polling *)

keepPoll == UNCHANGED <<openingVars, accountVars, clock, schedulerVars, faults>>

\* Mutant of PollRound: all accounts, not the enabled ones.
PollAll ==
  /\ phase = "serve" /\ poll = NoPoll
  /\ poll' = [poll EXCEPT !.list = [i \in DOMAIN ListAccounts(DOMAIN accounts) |->
       [id |-> ListAccounts(DOMAIN accounts)[i], usable |-> TRUE]]]
  /\ keepPoll

\* Each round reads the enabled accounts anew.
PollRound ==
  /\ phase = "serve" /\ poll = NoPoll /\ EnabledAccounts # {}
  /\ LET ids == ListAccounts(EnabledAccounts)
     IN  poll' = [poll EXCEPT !.list = [i \in DOMAIN ids |->
           [id |-> ids[i], usable |-> accounts[ids[i]].usable]]]
  /\ keepPoll

\* The next of the accounts as they were listed; one no client can be built
\* for is passed over.
PollAccount ==
  /\ phase = "serve" /\ poll.at = None /\ poll.list # <<>>
  /\ poll' = [list |-> Tail(poll.list),
              at |-> IF Head(poll.list).usable THEN Head(poll.list).id ELSE None]
  /\ keepPoll

\* Mutant of PollDone: an error gives up the round.
PollBreaks ==
  /\ poll.at # None
  /\ poll' \in {NoPoll, [poll EXCEPT !.at = None]}
  /\ keepPoll

\* A result or an error: the error is logged, and the next account follows.
PollDone == poll.at # None /\ poll' = [poll EXCEPT !.at = None] /\ keepPoll

-----------------------------------------------------------------------------
(* The scheduler *)

keepTick == UNCHANGED <<openingVars, accountVars, poll, clock>>

\* Mutant of Due: a check time is due as long as its minute lasts.
DueAllMinute == clock \in CheckTimes

Due == clock \in CheckTimes /\ clock \notin marks

Tick ==
  /\ phase = "serve" /\ tick.pc = "idle"
  /\ tick' = [pc |-> IF Due THEN "full" ELSE "scan", at |-> clock]
  /\ keepTick /\ UNCHANGED <<marks, checks, faults>>

\* Mutant of FullCheck: an error ends the loop.
FullCheckOrStop ==
  /\ tick.pc = "full"
  /\ \/ /\ tick' = [tick EXCEPT !.pc = "mark"]
        /\ checks' = [checks EXCEPT ![tick.at] = @ + 1]
     \/ tick' = [tick EXCEPT !.pc = "ended"] /\ UNCHANGED checks
  /\ keepTick /\ UNCHANGED <<marks, faults>>

\* An error ends the tick before the mark and the scan.
FullCheck ==
  /\ tick.pc = "full"
  /\ \/ /\ tick' = [tick EXCEPT !.pc = "mark"]
        /\ checks' = [checks EXCEPT ![tick.at] = @ + 1]
     \/ tick' = NoTick /\ UNCHANGED checks
  /\ keepTick /\ UNCHANGED <<marks, faults>>

MarkMade == tick' = [tick EXCEPT !.pc = "scan"] /\ UNCHANGED faults

\* Mutant of Mark: the mark is made of the time at which the check ended.
MarkNow ==
  /\ tick.pc = "mark" /\ marks' = marks \cup {clock}
  /\ MarkMade /\ keepTick /\ UNCHANGED checks

Mark ==
  /\ tick.pc = "mark" /\ marks' = marks \cup {tick.at}
  /\ MarkMade /\ keepTick /\ UNCHANGED checks

\* kv_set fails: the tick ends, and the next one finds no mark.
MarkFails ==
  /\ tick.pc = "mark" /\ faults < MaxFaults /\ faults' = faults + 1
  /\ tick' = NoTick /\ keepTick /\ UNCHANGED <<marks, checks>>

\* The check of every tick; its error is logged by the loop.
Scan == tick.pc = "scan" /\ tick' = NoTick /\ keepTick /\ UNCHANGED <<marks, checks, faults>>

Advance ==
  /\ clock < MaxClock /\ clock' = clock + 1
  /\ UNCHANGED <<openingVars, accountVars, poll, schedulerVars, faults>>

-----------------------------------------------------------------------------
Poll == PollRound \/ PollAccount \/ PollDone
Schedule == Tick \/ FullCheck \/ Mark \/ MarkFails \/ Scan
Request ==
  /\ phase = "serve" /\ \E r \in Requesters : AccountRequest(r)
  /\ UNCHANGED <<openingVars, poll, clock, schedulerVars, faults>>

Next == Open \/ Stop \/ Poll \/ Schedule \/ Request \/ Advance

Spec == Init /\ [][Next]_vars

\* Time passes, and the two loops go on.  Every step of a check ends, that of
\* SMTP by its timeout.  Nothing is assumed of an exchange with an IMAP server,
\* which has no timeout (PollDone).
FairSpec ==
  Spec /\ WF_vars(PollRound \/ PollAccount) /\ WF_vars(Schedule) /\ WF_vars(Advance)

-----------------------------------------------------------------------------
(* Properties *)

\* The shape of the state.
TypeOK ==
  /\ AccountsTypeOK
  /\ phase \in {"down", "check", "mail", "todo", "copy", "open", "seed", "serve"}
  /\ copied \in 0 .. Len(Tables)
  /\ poll.at \in {None} \cup 1 .. nextAccount - 1
  /\ \A i \in DOMAIN poll.list : poll.list[i].id \in 1 .. nextAccount - 1
  /\ tick.pc \in {"idle", "full", "mark", "scan"} /\ tick.at \in {None} \cup 0 .. MaxClock
  /\ marks \subseteq CheckTimes /\ clock \in 0 .. MaxClock

\* The accounts of the legacy database come into a table that has none yet: INSERT
\* OR IGNORE would leave out those whose id another row has.  A split that was cut
\* short is therefore not taken up again over the accounts that the program, or
\* the first attempt, has made since (db.rs:214, 242-248).
CopiedIntoEmpty == phase = "copy" /\ copied < 2 => accounts = <<>>

Quiet == \A r \in Requesters : At(r, "idle")

\* Reminders always have a sender, when the account requests come one at a time:
\* while the program runs there is an account (api.rs:1093-1095 refuses to delete
\* the last one), never two are the default one, and between the requests one is,
\* unless an end of the process has cut a request short (api.rs:1040-1043,
\* 1101-1105).
OneDefault ==
  Cardinality(Requesters) = 1 =>
    /\ Cardinality(Defaults) <= 1
    /\ phase = "serve" => accounts # <<>>
    /\ phase = "serve" /\ Quiet /\ faults = 0 => Defaults # {}

\* A check time has a mark only when a full check has run at it
\* (scheduler.rs:36-42).
MarkedIsChecked == \A m \in marks : checks[m] > 0

\* A check time is checked once, and again only when the process ended, or the
\* database failed, between the check and its mark (scheduler.rs:6).
OncePerCheckTime == \A m \in CheckTimes \cap DOMAIN checks : checks[m] <= 1 + faults

Polled(a) == a \in EnabledAccounts /\ accounts[a].usable

\* No IMAP server keeps its client waiting for ever.  One that does stops the
\* single loop in its await (main.rs:196), for every other account too.
ServersAnswer == []<>(poll.at = None)

\* As long as the servers answer, an account that stays enabled is polled again
\* and again, whatever errors the others end in (main.rs:218-220).
EnabledIsPolled ==
  ServersAnswer =>
    \A a \in 1 .. MaxAccounts :
      <>[](phase = "serve" /\ Polled(a)) => []<>(poll.at = a)

\* As long as the servers answer, an account that stays disabled, or is deleted,
\* is no longer polled once the round that listed it is over (main.rs:161).
DisabledFallsSilent ==
  ServersAnswer =>
    \A a \in 1 .. MaxAccounts :
      <>[](a \notin EnabledAccounts) => <>[](poll.at # a)

\* The scan for reminders comes again and again although checks fail
\* (scheduler.rs:48-49, 69-71).
ScansGoOn == <>[](phase = "serve") => []<>(tick.pc = "scan")
=============================================================================
