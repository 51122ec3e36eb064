---------------------------- MODULE ServerProofs ----------------------------
(***************************************************************************)
(* The safety of starting, ending and restarting the process: for any check *)
(* times, any clock and any number of ends of the process.                  *)
(***************************************************************************)
EXTENDS Server, FiniteSetTheorems, TLAPS

USE DEF Step

-----------------------------------------------------------------------------
(* What the opening and the faults count *)

\* The count of the copied tables and that of the faults.
TallyInv == faults \in Nat /\ copied \in 0 .. Len(Tables)

LEMMA EightTables == Len(Tables) = 8
BY DEF Tables

LEMMA TallyInit == Init => TallyInv
BY EightTables DEF Init, OpeningInit, TallyInv

LEMMA TallyOpen ==
  ASSUME TallyInv, Open
  PROVE  TallyInv'
<1>1. UNCHANGED faults
  BY DEF Open
<1>2. CASE Start
  BY <1>1, <1>2 DEF TallyInv, Start
<1>3. CASE Check
  BY <1>1, <1>3 DEF TallyInv, Check, SplitDue
<1>4. CASE CreateMail
  BY <1>1, <1>4 DEF TallyInv, CreateMail
<1>5. CASE CreateTodo
  BY <1>1, <1>5, EightTables DEF TallyInv, CreateTodo
<1>6. CASE CopyTable
  BY <1>1, <1>6, EightTables DEF TallyInv, CopyTable
<1>7. CASE Rename
  BY <1>1, <1>7 DEF TallyInv, Rename
<1>8. CASE OpenFiles
  BY <1>1, <1>8 DEF TallyInv, OpenFiles
<1>9. CASE Seed
  BY <1>1, <1>9 DEF TallyInv, Seed
<1>10. QED
  BY <1>2, <1>3, <1>4, <1>5, <1>6, <1>7, <1>8, <1>9 DEF Open, Copy

LEMMA TallyStep ==
  ASSUME TallyInv, [Next]_vars
  PROVE  TallyInv'
<1>1. CASE Open
  BY <1>1, TallyOpen
<1>2. CASE Stop
  BY <1>2 DEF Stop, End, TallyInv
<1>3. CASE Poll
  BY <1>3 DEF Poll, PollRound, PollAccount, PollDone, keepPoll, openingVars, TallyInv
<1>4. CASE Schedule
  BY <1>4 DEF Schedule, Tick, FullCheck, Mark, MarkFails, Scan, MarkMade, keepTick,
              openingVars, TallyInv
<1>5. CASE Request \/ Advance \/ UNCHANGED vars
  BY <1>5 DEF Request, Advance, vars, openingVars, TallyInv
<1>6. QED
  BY <1>1, <1>2, <1>3, <1>4, <1>5 DEF Next

-----------------------------------------------------------------------------
(* The daily check *)

\* A tick about to write its mark has checked; a minute without a mark was
\* checked once for the tick in progress at most, and once more for each fault.
TickInv ==
  /\ faults \in Nat /\ clock \in 0 .. MaxClock
  /\ tick = [pc |-> tick.pc, at |-> tick.at]
  /\ tick.pc \in {"full", "mark", "scan"} => tick.at \in 0 .. MaxClock
  /\ checks \in [0 .. MaxClock -> Nat]
  /\ tick.pc = "mark" => checks[tick.at] > 0
  /\ tick.pc = "full" => tick.at \notin marks
  /\ \A m \in marks : m \in 0 .. MaxClock /\ checks[m] > 0

Once ==
  \A m \in 0 .. MaxClock :
    /\ checks[m] <= faults + 1
    /\ m \notin marks /\ ~(tick.pc = "mark" /\ tick.at = m) => checks[m] <= faults

LEMMA SchedulerInit == Init => TickInv /\ Once
BY ServerAssumption DEF Init, TickInv, Once, NoTick

\* Nothing of the scheduler changes, or its tick is given up.
Rests ==
  /\ UNCHANGED <<marks, checks>> /\ clock' \in 0 .. MaxClock
  /\ \/ tick' = tick /\ UNCHANGED faults
     \/ tick' = NoTick /\ faults' = faults + 1

LEMMA RestsKeeps ==
  ASSUME TickInv, Once, Rests
  PROVE  TickInv' /\ Once'
<1>1. CASE tick' = tick /\ UNCHANGED faults
  BY <1>1 DEF Rests, TickInv, Once
<1>2. CASE tick' = NoTick /\ faults' = faults + 1
  <2>1. TickInv'
    BY <1>2 DEF Rests, TickInv, NoTick
  <2>2. Once'
    BY <1>2 DEF Rests, TickInv, Once
  <2>3. QED
    BY <2>1, <2>2
<1>3. QED
  BY <1>1, <1>2 DEF Rests

LEMMA ScheduleKeeps ==
  ASSUME TickInv, Once, Schedule
  PROVE  TickInv' /\ Once'
<1>1. CASE Tick
  <2>1. /\ tick' = [pc |-> IF Due THEN "full" ELSE "scan", at |-> clock] /\ tick.pc = "idle"
        /\ UNCHANGED <<marks, checks, faults, clock>>
    BY <1>1 DEF Tick, keepTick
  <2>2. QED
    BY <2>1 DEF TickInv, Once, Due
<1>2. CASE FullCheck
  <2>1. /\ tick.pc = "full" /\ tick.at \in 0 .. MaxClock /\ tick.at \notin marks
        /\ UNCHANGED <<marks, faults, clock>>
    BY <1>2 DEF FullCheck, keepTick, TickInv
  <2>2. CASE tick' = NoTick /\ UNCHANGED checks
    BY <2>1, <2>2 DEF TickInv, Once, NoTick
  <2>3. CASE /\ tick' = [tick EXCEPT !.pc = "mark"]
             /\ checks' = [checks EXCEPT ![tick.at] = @ + 1]
    <3>1. tick' = [pc |-> "mark", at |-> tick.at]
      BY <2>3 DEF TickInv
    <3>2. /\ checks' \in [0 .. MaxClock -> Nat] /\ checks'[tick.at] = checks[tick.at] + 1
          /\ \A m \in 0 .. MaxClock : m # tick.at => checks'[m] = checks[m]
      BY <2>1, <2>3 DEF TickInv
    <3>3. TickInv'
      BY <2>1, <3>1, <3>2 DEF TickInv
    <3>4. Once'
      BY <2>1, <3>1, <3>2 DEF TickInv, Once
    <3>5. QED
      BY <3>3, <3>4
  <2>4. QED
    BY <1>2, <2>2, <2>3 DEF FullCheck
<1>3. CASE Mark
  <2>1. /\ tick.pc = "mark" /\ tick.at \in 0 .. MaxClock
        /\ marks' = marks \cup {tick.at} /\ tick' = [pc |-> "scan", at |-> tick.at]
        /\ UNCHANGED <<checks, faults, clock>>
    BY <1>3 DEF Mark, MarkMade, keepTick, TickInv
  <2>2. QED
    BY <2>1 DEF TickInv, Once
<1>4. CASE MarkFails
  BY <1>4, RestsKeeps DEF MarkFails, keepTick, Rests, TickInv
<1>5. CASE Scan
  <2>1. tick.pc = "scan" /\ tick' = NoTick /\ UNCHANGED <<marks, checks, faults, clock>>
    BY <1>5 DEF Scan, keepTick
  <2>2. QED
    BY <2>1 DEF TickInv, Once, NoTick
<1>6. QED
  BY <1>1, <1>2, <1>3, <1>4, <1>5 DEF Schedule

LEMMA SchedulerStep ==
  ASSUME TickInv, Once, [Next]_vars
  PROVE  TickInv' /\ Once'
<1>1. CASE Open \/ Request \/ Poll \/ UNCHANGED vars
  BY <1>1, RestsKeeps
  DEF Open, Request, Poll, PollRound, PollAccount, PollDone, keepPoll, schedulerVars, vars,
      Rests, TickInv
<1>2. CASE Stop
  BY <1>2, RestsKeeps DEF Stop, Rests, TickInv
<1>3. CASE Advance
  BY <1>3, RestsKeeps, ServerAssumption DEF Advance, schedulerVars, Rests, TickInv
<1>4. CASE Schedule
  BY <1>4, ScheduleKeeps
<1>5. QED
  BY <1>1, <1>2, <1>3, <1>4 DEF Next

LEMMA SchedulerInv == Spec => [](TickInv /\ Once)
<1>1. (TickInv /\ Once) /\ [Next]_vars => (TickInv /\ Once)'
  BY SchedulerStep
<1>2. QED
  BY SchedulerInit, <1>1, PTL DEF Spec

\* A check time has its mark only after a full check has run, also when the
\* minute passed during the check (scheduler.rs:33-42).
THEOREM MarksFollowChecks == Spec => []MarkedIsChecked
<1>1. TickInv => MarkedIsChecked
  BY DEF TickInv, MarkedIsChecked
<1>2. QED
  BY SchedulerInv, <1>1, PTL

\* A check time is checked once, and once more at most for each end of the
\* process or failed write of the mark (scheduler.rs:33-42).
THEOREM CheckedOnce == Spec => []OncePerCheckTime
<1>1. TickInv /\ Once => OncePerCheckTime
  BY ServerAssumption DEF TickInv, Once, OncePerCheckTime
<1>2. QED
  BY SchedulerInv, <1>1, PTL

-----------------------------------------------------------------------------
(* The accounts, when the requests come one at a time *)

IsRequest(q) == q = [pc |-> q.pc, id |-> q.id, held |-> q.held]
IsTable(t) == t = [a \in DOMAIN t |-> t[a]]

\* Another account is there while one is being deleted; no request is in
\* progress before the program serves.
AccountsInv ==
  /\ nextAccount \in Nat \ {0} /\ DOMAIN accounts \subseteq 1 .. nextAccount - 1
  /\ IsTable(accounts)
  /\ DOMAIN request = Requesters /\ \A r \in Requesters : IsRequest(request[r])
  /\ phase = "serve" => DOMAIN accounts # {}
  /\ phase # "serve" => Quiet
  /\ \A r \in Requesters :
       request[r].pc = "delete" => DOMAIN accounts \ {request[r].id} # {}

LEMMA NoRequestIsOne == IsRequest(NoRequest) /\ NoRequest.pc = "idle"
BY DEF IsRequest, NoRequest

LEMMA EmptyTable ==
  ASSUME NEW t, IsTable(t), DOMAIN t = {}
  PROVE  t = <<>>
BY DEF IsTable

LEMMA AccountsInitially == Init => AccountsInv
BY NoRequestIsOne DEF Init, AccountsInit, OpeningInit, AccountsInv, IsTable, Quiet, At

LEMMA OtherAccount ==
  ASSUME NEW a, MayDelete(a)
  PROVE  DOMAIN accounts \ {a} # {}
<1>1. SUFFICES ASSUME DOMAIN accounts = {a} PROVE FALSE
  BY DEF MayDelete
<1>2. Cardinality({a}) = 1
  BY FS_Singleton
<1>3. QED
  BY <1>1, <1>2 DEF MayDelete

LEMMA RowAdded ==
  ASSUME AccountsInv, NEW row, accounts' = WithRow(row), nextAccount' = nextAccount + 1
  PROVE  /\ nextAccount' \in Nat \ {0} /\ DOMAIN accounts' \subseteq 1 .. nextAccount' - 1
         /\ IsTable(accounts') /\ DOMAIN accounts' = DOMAIN accounts \cup {nextAccount}
BY DEF AccountsInv, WithRow, IsTable

LEMMA AccountsOpen ==
  ASSUME AccountsInv, Open
  PROVE  AccountsInv'
<1>1. phase # "serve" /\ UNCHANGED request
  BY DEF Open, Copy, CopyTable, Start, Check, CreateMail, CreateTodo, Rename, OpenFiles, Seed,
         accountVars
<1>2. Quiet /\ Quiet'
  BY <1>1 DEF AccountsInv, Quiet, At
<1>3. CASE Seed /\ SeedAccount
  <2>1. CASE accounts # <<>> /\ UNCHANGED <<accounts, nextAccount>>
    <3>1. DOMAIN accounts # {}
      BY <2>1, EmptyTable DEF AccountsInv
    <3>2. QED
      BY <1>1, <1>2, <2>1, <3>1 DEF AccountsInv, Quiet, At
  <2>2. CASE \E row : accounts' = WithRow(row) /\ nextAccount' = nextAccount + 1
    BY <1>1, <1>2, <2>2, RowAdded DEF AccountsInv, Quiet, At
  <2>3. QED
    BY <1>3, <2>1, <2>2 DEF SeedAccount
<1>4. CASE phase' # "serve" /\ UNCHANGED <<accounts, nextAccount>>
  BY <1>1, <1>2, <1>4 DEF AccountsInv, Quiet, At
<1>5. CASE phase' # "serve" /\ \E row : accounts' = WithRow(row) /\ nextAccount' = nextAccount + 1
  BY <1>1, <1>2, <1>5, RowAdded DEF AccountsInv, Quiet, At
<1>6. QED
  BY <1>3, <1>4, <1>5
  DEF Open, Copy, CopyTable, CopyAccounts, Start, Check, CreateMail, CreateTodo, Rename,
      OpenFiles, accountVars

\* A request that keeps the accounts' ids, and is not about to delete one.
Tame(r) ==
  /\ UNCHANGED <<phase, nextAccount>>
  /\ DOMAIN accounts' = DOMAIN accounts /\ IsTable(accounts')
  /\ DOMAIN request' = Requesters /\ IsRequest(request'[r]) /\ request'[r].pc # "delete"

LEMMA BeginIsRequest ==
  ASSUME AccountsInv, NEW r \in Requesters, NEW pc, NEW id, NEW held, Begin(r, pc, id, held)
  PROVE  /\ DOMAIN request' = Requesters /\ IsRequest(request'[r])
         /\ request'[r].pc = pc /\ request'[r].id = id
BY DEF AccountsInv, Begin, IsRequest

LEMMA MoveIsRequest ==
  ASSUME AccountsInv, NEW r \in Requesters, NEW pc, Move(r, pc)
  PROVE  DOMAIN request' = Requesters /\ IsRequest(request'[r]) /\ request'[r].pc = pc
BY DEF AccountsInv, Move, IsRequest

LEMMA AnswerIsRequest ==
  ASSUME AccountsInv, NEW r \in Requesters, Answer(r)
  PROVE  DOMAIN request' = Requesters /\ IsRequest(request'[r]) /\ request'[r].pc = "idle"
BY NoRequestIsOne DEF AccountsInv, Answer

LEMMA TameKeeps ==
  ASSUME AccountsInv, NEW r, Requesters = {r}, phase = "serve", Tame(r)
  PROVE  AccountsInv'
BY DEF AccountsInv, Tame

LEMMA RequestKeeps ==
  ASSUME AccountsInv, NEW r, Requesters = {r}, phase = "serve", UNCHANGED phase,
         AccountRequest(r)
  PROVE  AccountsInv'
<1>1. r \in Requesters
  OBVIOUS
<1>2. ASSUME CreateAccount(r) PROVE AccountsInv'
  <2>1. PICK row : accounts' = WithRow(row) /\ nextAccount' = nextAccount + 1
    BY <1>2 DEF CreateAccount
  <2>2. Begin(r, "adopt", nextAccount, None)
    BY <1>2 DEF CreateAccount
  <2>3. DOMAIN request' = Requesters /\ IsRequest(request'[r]) /\ request'[r].pc = "adopt"
    BY <1>1, <2>2, BeginIsRequest
  <2>4. QED
    BY <2>1, <2>3, RowAdded DEF AccountsInv
<1>3. ASSUME AdoptIfFirst(r) PROVE AccountsInv'
  <2>1. Tame(r)
    BY <1>1, <1>3, MoveIsRequest, AnswerIsRequest DEF AdoptIfFirst, Tame, AccountsInv
  <2>2. QED
    BY <2>1, TameKeeps
<1>4. ASSUME SetDefault(r) PROVE AccountsInv'
  <2>1. DOMAIN accounts' = DOMAIN accounts /\ IsTable(accounts') /\ UNCHANGED nextAccount
    BY <1>4 DEF SetDefault, Marked, IsTable
  <2>2. Tame(r)
    BY <1>1, <1>4, <2>1, AnswerIsRequest DEF SetDefault, Tame
  <2>3. QED
    BY <2>2, TameKeeps
<1>5. ASSUME UpdateAccount(r) PROVE AccountsInv'
  <2>1. DOMAIN accounts' = DOMAIN accounts /\ IsTable(accounts') /\ UNCHANGED nextAccount
    BY <1>5 DEF UpdateAccount, IsTable, AccountsInv
  <2>2. Tame(r)
    BY <1>1, <1>5, <2>1, AnswerIsRequest DEF UpdateAccount, Tame
  <2>3. QED
    BY <2>2, TameKeeps
<1>6. ASSUME DeleteAccount(r) PROVE AccountsInv'
  <2>1. /\ DOMAIN accounts' = DOMAIN accounts \ {request[r].id} /\ IsTable(accounts')
        /\ UNCHANGED nextAccount /\ request[r].pc = "delete"
    BY <1>6 DEF DeleteAccount, IsTable, At
  <2>2. DOMAIN accounts' # {}
    BY <1>1, <2>1 DEF AccountsInv
  <2>3. DOMAIN request' = Requesters /\ IsRequest(request'[r]) /\ request'[r].pc # "delete"
    BY <1>1, <1>6, MoveIsRequest, AnswerIsRequest DEF DeleteAccount
  <2>4. QED
    BY <2>1, <2>2, <2>3 DEF AccountsInv
<1>7. ASSUME PickFirst(r) PROVE AccountsInv'
  <2>1. UNCHANGED <<accounts, nextAccount>>
    BY <1>7 DEF PickFirst
  <2>2. PICK q : q = request[r]
    OBVIOUS
  <2>3. PICK id : id = ListAccounts(DOMAIN accounts)[1]
    OBVIOUS
  <2>4. PICK d : d = [q EXCEPT !.pc = "default", !.id = id]
    OBVIOUS
  <2>5. Answer(r) \/ request' = [request EXCEPT ![r] = d]
    BY <1>7, <2>2, <2>3, <2>4 DEF PickFirst
  <2>6. IsRequest(d) /\ d.pc = "default"
    <3>1. IsRequest(q)
      BY <1>1, <2>2 DEF AccountsInv
    <3>2. QED
      BY <2>4, <3>1 DEF IsRequest
  <2>7. DOMAIN request' = Requesters /\ IsRequest(request'[r]) /\ request'[r].pc # "delete"
    BY <1>1, <2>5, <2>6, AnswerIsRequest DEF AccountsInv
  <2>8. Tame(r)
    BY <2>1, <2>7 DEF Tame, AccountsInv
  <2>9. QED
    BY <2>8, TameKeeps
<1>8. ASSUME NEW a \in DOMAIN accounts, AskDefault(r, a) \/ ReadForUpdate(r, a)
      PROVE  AccountsInv'
  <2>1. UNCHANGED <<accounts, nextAccount>>
    BY <1>8 DEF AskDefault, ReadForUpdate
  <2>2. PICK pc, held : pc # "delete" /\ Begin(r, pc, a, held)
    BY <1>8, Zenon DEF AskDefault, ReadForUpdate
  <2>3. Tame(r)
    BY <1>1, <2>1, <2>2, BeginIsRequest DEF Tame, AccountsInv
  <2>4. QED
    BY <2>3, TameKeeps
<1>9. ASSUME NEW a \in DOMAIN accounts, AskDelete(r, a)
      PROVE  AccountsInv'
  <2>1. UNCHANGED <<accounts, nextAccount>> /\ DOMAIN accounts \ {a} # {}
    BY <1>9, OtherAccount DEF AskDelete
  <2>2. PICK held : Begin(r, "delete", a, held)
    BY <1>9 DEF AskDelete
  <2>3. /\ DOMAIN request' = Requesters /\ IsRequest(request'[r]) /\ request'[r].id = a
    BY <1>1, <2>2, BeginIsRequest
  <2>4. QED
    BY <2>1, <2>3 DEF AccountsInv
<1>10. QED
  BY <1>2, <1>3, <1>4, <1>5, <1>6, <1>7, <1>8, <1>9 DEF AccountRequest

LEMMA AccountsStep ==
  ASSUME AccountsInv, NEW r, Requesters = {r}, [Next]_vars
  PROVE  AccountsInv'
<1>1. CASE Open
  BY <1>1, AccountsOpen
<1>2. CASE Stop
  <2>1. /\ DOMAIN accounts' = DOMAIN accounts /\ IsTable(accounts')
        /\ UNCHANGED nextAccount /\ phase' = "down"
        /\ request' = [q \in Requesters |-> NoRequest]
    BY <1>2 DEF Stop, End, Cleared, IsTable, AccountsInv
  <2>2. QED
    BY <2>1, NoRequestIsOne DEF AccountsInv, Quiet, At
<1>3. CASE Request
  BY <1>3, RequestKeeps DEF Request, openingVars
<1>4. CASE UNCHANGED <<phase, accountVars>>
  BY <1>4 DEF accountVars, AccountsInv, Quiet, At
<1>5. CASE Poll
  BY <1>4, <1>5 DEF Poll, PollRound, PollAccount, PollDone, keepPoll, openingVars
<1>6. CASE Schedule
  BY <1>4, <1>6 DEF Schedule, Tick, FullCheck, Mark, MarkFails, Scan, MarkMade, keepTick,
                    openingVars
<1>7. CASE Advance \/ UNCHANGED vars
  BY <1>4, <1>7 DEF Advance, vars, openingVars
<1>8. QED
  BY <1>1, <1>2, <1>3, <1>5, <1>6, <1>7 DEF Next

-----------------------------------------------------------------------------
(* The list of accounts *)

\* The flags are Booleans, and the ids numbers.
Flagged ==
  /\ DOMAIN accounts \subseteq Nat /\ IsFiniteSet(DOMAIN accounts)
  /\ \A a \in DOMAIN accounts : accounts[a].default \in BOOLEAN

LEMMA RankGrows ==
  ASSUME Flagged, NEW ids \in SUBSET DOMAIN accounts, NEW a \in ids, NEW b \in ids,
         ListBefore(a, b)
  PROVE  /\ Rank(ids, a) \in Nat /\ Rank(ids, b) \in Nat
         /\ Rank(ids, a) < Rank(ids, b)
<1> DEFINE Before(c) == {x \in ids : ListBefore(x, c)}
<1>1. IsFiniteSet(ids)
  BY FS_Subset DEF Flagged
<1>2. \A x \in ids : x \in Nat /\ accounts[x].default \in BOOLEAN
  BY DEF Flagged
<1>3. Before(a) \subseteq Before(b)
  BY <1>2 DEF ListBefore
<1>4. a \in Before(b) /\ a \notin Before(a)
  BY <1>2 DEF ListBefore
<1> HIDE DEF Before
<1>5. IsFiniteSet(Before(a)) /\ IsFiniteSet(Before(b))
  BY <1>1, FS_Subset DEF Before
<1>6. Cardinality(Before(a)) \in Nat /\ Cardinality(Before(b)) \in Nat
  BY <1>5, FS_CardinalityType
<1>7. /\ Cardinality(Before(a)) <= Cardinality(Before(b))
      /\ Cardinality(Before(a)) = Cardinality(Before(b)) => Before(a) = Before(b)
  BY <1>3, <1>5, FS_Subset
<1>8. Cardinality(Before(a)) < Cardinality(Before(b))
  BY <1>4, <1>6, <1>7
<1>9. QED
  BY <1>6, <1>8 DEF Rank, Before

\* The ranks of n accounts are the numbers below n.
LEMMA RankBelow ==
  ASSUME Flagged, NEW ids \in SUBSET DOMAIN accounts, NEW a \in ids
  PROVE  Rank(ids, a) \in 0 .. Cardinality(ids) - 1
<1> DEFINE Before == {x \in ids : ListBefore(x, a)}
<1>1. IsFiniteSet(ids)
  BY FS_Subset DEF Flagged
<1>2. Before \subseteq ids /\ a \notin Before
  BY DEF Flagged, ListBefore
<1> HIDE DEF Before
<1>3. IsFiniteSet(Before) /\ Cardinality(Before) <= Cardinality(ids)
      /\ (Cardinality(Before) = Cardinality(ids) => Before = ids)
  BY <1>1, <1>2, FS_Subset
<1>4. Cardinality(Before) \in Nat /\ Cardinality(ids) \in Nat
  BY <1>1, <1>3, FS_CardinalityType
<1>5. Cardinality(Before) < Cardinality(ids)
  BY <1>2, <1>3, <1>4
<1>6. Cardinality(Before) \in 0 .. Cardinality(ids) - 1
  BY <1>4, <1>5
<1>7. QED
  BY <1>6 DEF Rank, Before

LEMMA ListedIsAccount ==
  ASSUME Flagged, NEW ids \in SUBSET DOMAIN accounts, NEW i \in 1 .. Cardinality(ids)
  PROVE  ListAccounts(ids)[i] \in ids
<1>1. IsFiniteSet(ids)
  BY FS_Subset DEF Flagged
<1>2. PICK n \in Nat : n = Cardinality(ids)
  BY <1>1, FS_CardinalityType
<1>3. PICK rank : rank = [a \in ids |-> Rank(ids, a)]
  OBVIOUS
<1>4. rank \in [ids -> 0 .. n - 1]
  BY <1>2, <1>3, RankBelow
<1>5. \A a, b \in ids : a # b => rank[a] # rank[b]
  <2>1. SUFFICES ASSUME NEW a \in ids, NEW b \in ids, a # b PROVE rank[a] # rank[b]
    OBVIOUS
  <2>2. ListBefore(a, b) \/ ListBefore(b, a)
    BY <2>1 DEF Flagged, ListBefore
  <2>3. CASE ListBefore(a, b)
    BY <1>3, <2>3, RankGrows
  <2>4. CASE ListBefore(b, a)
    BY <1>3, <2>4, RankGrows
  <2>5. QED
    BY <2>2, <2>3, <2>4
<1>6. rank \in Injection(ids, 0 .. n - 1)
  BY <1>4, <1>5 DEF Injection, IsInjective
<1>7. IsFiniteSet(0 .. n - 1) /\ Cardinality(0 .. n - 1) = n
  <2>1. PICK m \in Int : m = n - 1
    BY <1>2
  <2>2. IsFiniteSet(0 .. m) /\ Cardinality(0 .. m) = IF 0 > m THEN 0 ELSE m - 0 + 1
    BY FS_Interval
  <2>3. (IF 0 > m THEN 0 ELSE m - 0 + 1) = n
    BY <1>2, <2>1
  <2>4. QED
    BY <2>1, <2>2, <2>3
<1>8. rank \in Surjection(ids, 0 .. n - 1)
  BY <1>2, <1>6, <1>7, FS_Injection
<1>9. i \in 1 .. n /\ i - 1 \in 0 .. n - 1
  BY <1>2
<1>10. \E a \in ids : rank[a] = i - 1
  BY <1>8, <1>9 DEF Surjection
<1>11. (CHOOSE a \in ids : Rank(ids, a) = i - 1) \in ids
  BY <1>3, <1>10
<1>12. QED
  BY <1>2, <1>9, <1>11 DEF ListAccounts

-----------------------------------------------------------------------------
(* Types, with any number of requests at once *)

RowsTyped ==
  /\ nextAccount \in Nat \ {0} /\ DOMAIN accounts \subseteq 1 .. nextAccount - 1
  /\ IsTable(accounts) /\ \A a \in DOMAIN accounts : accounts[a] \in AccountRow

RequestTyped(q) ==
  /\ IsRequest(q)
  /\ q.pc \in {"idle", "adopt", "default", "update", "delete", "first"}
  /\ q.id \in {None} \cup 1 .. nextAccount - 1
  /\ q.held \in {None} \cup AccountRow /\ (q.pc = "update" => q.held \in AccountRow)

RequestsTyped == DOMAIN request = Requesters /\ \A r \in Requesters : RequestTyped(request[r])

PollTyped ==
  /\ poll = [list |-> poll.list, at |-> poll.at]
  /\ poll.list \in Seq([id : Nat, usable : BOOLEAN])
  /\ \A i \in DOMAIN poll.list : poll.list[i].id \in 1 .. nextAccount - 1
  /\ poll.at \in {None} \cup 1 .. nextAccount - 1

TickTyped ==
  /\ clock \in 0 .. MaxClock /\ marks \subseteq CheckTimes
  /\ tick = [pc |-> tick.pc, at |-> tick.at]
  /\ tick.pc \in {"idle", "full", "mark", "scan"} /\ tick.at \in {None} \cup 0 .. MaxClock
  /\ tick.pc \in {"full", "mark"} => tick.at \in CheckTimes

Phases == {"down", "check", "mail", "todo", "copy", "open", "seed", "serve"}

Types == RowsTyped /\ RequestsTyped /\ PollTyped /\ TickTyped /\ phase \in Phases

LEMMA NoRequestTyped == RequestTyped(NoRequest)
BY DEF RequestTyped, IsRequest, NoRequest

LEMMA TypesInit == Init => Types
BY ServerAssumption, NoRequestTyped
   DEF Init, OpeningInit, AccountsInit, NoPoll, NoTick, Types, RowsTyped, RequestsTyped,
       PollTyped, TickTyped, Phases, IsTable

\* No row goes back to an earlier id.
Ahead == nextAccount' \in Nat /\ nextAccount' >= nextAccount

LEMMA RequestTypedKept ==
  ASSUME RowsTyped, Ahead, NEW q, RequestTyped(q)
  PROVE  RequestTyped(q)'
BY DEF RowsTyped, Ahead, RequestTyped, AccountRow

LEMMA RowAddedTyped ==
  ASSUME RowsTyped, NEW row \in AccountRow, accounts' = WithRow(row),
         nextAccount' = nextAccount + 1
  PROVE  RowsTyped' /\ Ahead
<1>1. nextAccount' \in Nat \ {0} /\ nextAccount' - 1 = nextAccount
  BY DEF RowsTyped
<1>2. DOMAIN accounts' = DOMAIN accounts \cup {nextAccount}
  BY DEF WithRow
<1>3. DOMAIN accounts' \subseteq 1 .. nextAccount' - 1
  BY <1>1, <1>2 DEF RowsTyped
<1>4. \A a \in DOMAIN accounts' : accounts'[a] \in AccountRow
  BY DEF WithRow, RowsTyped
<1>5. RowsTyped'
  BY <1>1, <1>3, <1>4 DEF RowsTyped, AccountRow, WithRow, IsTable
<1>6. QED
  BY <1>5 DEF RowsTyped, Ahead

\* The rows keep their ids, or some of them, and their shape.
LEMMA RowsKeptTyped ==
  ASSUME RowsTyped, DOMAIN accounts' \subseteq DOMAIN accounts, IsTable(accounts'),
         UNCHANGED nextAccount, \A a \in DOMAIN accounts' : accounts'[a] \in AccountRow
  PROVE  RowsTyped' /\ Ahead
BY DEF RowsTyped, Ahead, AccountRow, IsTable

LEMMA FlagTyped ==
  ASSUME NEW row \in AccountRow, NEW flag \in BOOLEAN
  PROVE  [row EXCEPT !.default = flag] \in AccountRow
BY DEF AccountRow

LEMMA ClearedTyped ==
  ASSUME RowsTyped, accounts' = Cleared, UNCHANGED nextAccount
  PROVE  RowsTyped' /\ Ahead
<1>1. DOMAIN accounts' = DOMAIN accounts /\ IsTable(accounts')
  BY DEF Cleared, IsTable
<1>2. \A a \in DOMAIN accounts' : accounts'[a] \in AccountRow
  BY FlagTyped DEF Cleared, RowsTyped
<1>3. QED
  BY <1>1, <1>2, RowsKeptTyped

LEMMA MarkedTyped ==
  ASSUME RowsTyped, NEW id, accounts' = Marked(id), UNCHANGED nextAccount
  PROVE  RowsTyped' /\ Ahead
<1>1. DOMAIN accounts' = DOMAIN accounts /\ IsTable(accounts')
  BY DEF Marked, IsTable
<1>2. ASSUME NEW a \in DOMAIN accounts PROVE accounts'[a] \in AccountRow
  <2>1. PICK flag \in BOOLEAN : flag = (a = id)
    OBVIOUS
  <2>2. accounts'[a] = [accounts[a] EXCEPT !.default = flag]
    BY <2>1 DEF Marked
  <2>3. QED
    BY <2>2, FlagTyped DEF RowsTyped
<1>3. QED
  BY <1>1, <1>2, RowsKeptTyped

\* A request's step, with the request q after it.
LEMMA OneRequestTyped ==
  ASSUME RowsTyped, RequestsTyped, Ahead, NEW r \in Requesters, NEW q, RequestTyped(q)',
         request' = [request EXCEPT ![r] = q]
  PROVE  RequestsTyped'
<1>1. \A p : RequestTyped(p) => RequestTyped(p)'
  BY RequestTypedKept
<1>2. ASSUME NEW s \in Requesters PROVE RequestTyped(request[s])'
  <2>1. PICK p : p = request'[s]
    OBVIOUS
  <2>2. p = q \/ p = request[s]
    BY <2>1 DEF RequestsTyped
  <2>3. RequestTyped(p)'
    BY <1>1, <2>2 DEF RequestsTyped
  <2>4. QED
    BY <2>1, <2>3 DEF RequestTyped
<1>3. QED
  BY <1>2 DEF RequestsTyped

LEMMA AnswerTyped ==
  ASSUME RowsTyped, RequestsTyped, Ahead, NEW r \in Requesters, Answer(r)
  PROVE  RequestsTyped'
<1>1. RequestTyped(NoRequest)'
  BY DEF RequestTyped, IsRequest, NoRequest
<1>2. QED
  BY <1>1, OneRequestTyped DEF Answer

LEMMA MoveTyped ==
  ASSUME RowsTyped, RequestsTyped, Ahead, NEW r \in Requesters,
         NEW pc \in {"default", "first"}, Move(r, pc)
  PROVE  RequestsTyped'
<1>1. PICK p : p = request[r]
  OBVIOUS
<1>2. PICK q : q = [p EXCEPT !.pc = pc]
  OBVIOUS
<1>3. RequestTyped(p)
  BY <1>1 DEF RequestsTyped
<1>4. IsRequest(q) /\ q.pc = pc /\ q.id = p.id /\ q.held = p.held
  BY <1>2, <1>3 DEF RequestTyped, IsRequest
<1>5. RequestTyped(q)
  BY <1>3, <1>4 DEF RequestTyped
<1>6. RequestTyped(q)'
  BY <1>5, RequestTypedKept
<1>7. request' = [request EXCEPT ![r] = q]
  BY <1>1, <1>2 DEF Move
<1>8. QED
  BY <1>6, <1>7, OneRequestTyped

LEMMA BeginTyped ==
  ASSUME RowsTyped, RequestsTyped, Ahead, NEW r \in Requesters,
         NEW pc \in {"adopt", "default", "update", "delete"}, NEW id \in 1 .. nextAccount' - 1,
         NEW held \in {None} \cup AccountRow, pc = "update" => held \in AccountRow,
         Begin(r, pc, id, held)
  PROVE  RequestsTyped'
<1>1. PICK q : q = [pc |-> pc, id |-> id, held |-> held]
  OBVIOUS
<1>2. IsRequest(q) /\ q.pc = pc /\ q.id = id /\ q.held = held
  BY <1>1 DEF IsRequest
<1>3. RequestTyped(q)'
  BY <1>2 DEF RequestTyped, IsRequest, AccountRow
<1>4. request' = [request EXCEPT ![r] = q]
  BY <1>1 DEF Begin
<1>5. QED
  BY <1>3, <1>4, OneRequestTyped

LEMMA RowsFlagged ==
  ASSUME RowsTyped
  PROVE  Flagged
<1>1. PICK n \in Int : n = nextAccount - 1
  BY DEF RowsTyped
<1>2. IsFiniteSet(1 .. n) /\ DOMAIN accounts \subseteq 1 .. n
  BY <1>1, FS_Interval DEF RowsTyped
<1>3. IsFiniteSet(DOMAIN accounts)
  BY <1>2, FS_Subset
<1>4. QED
  BY <1>1, <1>2, <1>3 DEF Flagged, RowsTyped, AccountRow

LEMMA RequestTypes ==
  ASSUME RowsTyped, RequestsTyped, NEW r \in Requesters, AccountRequest(r)
  PROVE  RowsTyped' /\ RequestsTyped' /\ Ahead
<1>1. PICK q : q = request[r]
  OBVIOUS
<1>2. RequestTyped(q)
  BY <1>1 DEF RequestsTyped
<1>3. UNCHANGED <<accounts, nextAccount>> => RowsTyped' /\ Ahead
  BY DEF RowsTyped, Ahead, AccountRow, IsTable
<1>4. CASE CreateAccount(r)
  <2>1. PICK enabled \in BOOLEAN, usable \in BOOLEAN :
          accounts' = WithRow([enabled |-> enabled, default |-> FALSE, usable |-> usable])
    BY <1>4 DEF CreateAccount
  <2>2. PICK row \in AccountRow :
          row = [enabled |-> enabled, default |-> FALSE, usable |-> usable]
    BY DEF AccountRow
  <2>3. nextAccount' = nextAccount + 1 /\ Begin(r, "adopt", nextAccount, None)
    BY <1>4 DEF CreateAccount
  <2>4. RowsTyped' /\ Ahead
    BY <2>1, <2>2, <2>3, RowAddedTyped
  <2>5. nextAccount \in 1 .. nextAccount' - 1
    BY <2>3 DEF RowsTyped
  <2>6. QED
    BY <2>3, <2>4, <2>5, BeginTyped
<1>5. CASE AdoptIfFirst(r)
  BY <1>3, <1>5, MoveTyped, AnswerTyped DEF AdoptIfFirst
<1>6. CASE SetDefault(r)
  BY <1>6, MarkedTyped, AnswerTyped DEF SetDefault
<1>7. CASE UpdateAccount(r)
  <2>1. /\ accounts' = IF q.id \in DOMAIN accounts
                       THEN [accounts EXCEPT ![q.id] = q.held] ELSE accounts
        /\ Answer(r) /\ UNCHANGED nextAccount /\ q.pc = "update"
    BY <1>1, <1>7 DEF UpdateAccount, At
  <2>2. q.held \in AccountRow
    BY <1>2, <2>1 DEF RequestTyped
  <2>3. DOMAIN accounts' = DOMAIN accounts /\ IsTable(accounts')
    BY <2>1 DEF RowsTyped, IsTable
  <2>4. \A a \in DOMAIN accounts' : accounts'[a] \in AccountRow
    BY <2>1, <2>2 DEF RowsTyped
  <2>5. RowsTyped' /\ Ahead
    BY <2>1, <2>3, <2>4, RowsKeptTyped
  <2>6. QED
    BY <2>1, <2>5, AnswerTyped
<1>8. CASE DeleteAccount(r)
  <2>1. /\ accounts' = [a \in DOMAIN accounts \ {q.id} |-> accounts[a]]
        /\ Move(r, "first") \/ Answer(r)
        /\ UNCHANGED nextAccount
    BY <1>1, <1>8 DEF DeleteAccount
  <2>2. RowsTyped' /\ Ahead
    BY <2>1, RowsKeptTyped DEF RowsTyped, IsTable
  <2>3. QED
    BY <2>1, <2>2, MoveTyped, AnswerTyped
<1>9. CASE PickFirst(r)
  <2>1. UNCHANGED <<accounts, nextAccount>> /\ q.pc = "first"
    BY <1>1, <1>9 DEF PickFirst, At
  <2>2. CASE Answer(r)
    BY <1>3, <2>1, <2>2, AnswerTyped
  <2>3. CASE accounts # <<>>
    <3>1. PICK id : id = ListAccounts(DOMAIN accounts)[1]
      OBVIOUS
    <3>2. DOMAIN accounts # {} => id \in DOMAIN accounts
      <4>1. Flagged
        BY RowsFlagged
      <4>2. SUFFICES ASSUME DOMAIN accounts # {} PROVE id \in DOMAIN accounts
        OBVIOUS
      <4>3. Cardinality(DOMAIN accounts) \in Nat /\ Cardinality(DOMAIN accounts) # 0
        BY <4>1, <4>2, FS_CardinalityType, FS_EmptySet DEF Flagged
      <4>4. 1 \in 1 .. Cardinality(DOMAIN accounts)
        BY <4>3
      <4>5. QED
        BY <3>1, <4>1, <4>4, ListedIsAccount
    <3>3. DOMAIN accounts # {}
      BY <2>3, EmptyTable DEF RowsTyped
    <3>4. PICK d : d = [q EXCEPT !.pc = "default", !.id = id]
      OBVIOUS
    <3>5. request' = [request EXCEPT ![r] = d]
      BY <1>1, <1>9, <2>3, <3>1, <3>4 DEF PickFirst
    <3>6. IsRequest(d) /\ d.pc = "default" /\ d.id = id /\ d.held = q.held
      BY <1>2, <3>4 DEF RequestTyped, IsRequest
    <3>7. RequestTyped(d)
      BY <1>2, <3>2, <3>3, <3>6 DEF RequestTyped, RowsTyped
    <3>8. QED
      BY <1>3, <2>1, <3>5, <3>7, RequestTypedKept, OneRequestTyped
  <2>4. QED
    BY <1>9, <2>2, <2>3 DEF PickFirst
<1>10. ASSUME NEW a \in DOMAIN accounts, AskDefault(r, a) \/ ReadForUpdate(r, a) \/ AskDelete(r, a)
       PROVE  RowsTyped' /\ RequestsTyped' /\ Ahead
  <2>1. UNCHANGED <<accounts, nextAccount>>
    BY <1>10 DEF AskDefault, ReadForUpdate, AskDelete
  <2>2. PICK old \in AccountRow : old = accounts[a]
    BY DEF RowsTyped
  <2>3. /\ [old EXCEPT !.enabled = ~old.enabled] \in AccountRow
        /\ [old EXCEPT !.usable = ~old.usable] \in AccountRow
    BY <2>2 DEF AccountRow
  <2>4. a \in 1 .. nextAccount' - 1
    BY <2>1 DEF RowsTyped
  <2>5. CASE AskDefault(r, a)
    BY <1>3, <2>1, <2>4, <2>5, BeginTyped DEF AskDefault
  <2>6. CASE ReadForUpdate(r, a)
    <3>1. PICK row \in {[old EXCEPT !.enabled = ~@], [old EXCEPT !.usable = ~@]} :
            Begin(r, "update", a, row)
      BY <2>2, <2>6 DEF ReadForUpdate
    <3>2. row \in AccountRow
      BY <2>3, <3>1
    <3>3. QED
      BY <1>3, <2>1, <2>4, <3>1, <3>2, BeginTyped
  <2>7. CASE AskDelete(r, a)
    BY <1>3, <2>1, <2>2, <2>4, <2>7, BeginTyped DEF AskDelete
  <2>8. QED
    BY <1>10, <2>5, <2>6, <2>7
<1>11. QED
  BY <1>4, <1>5, <1>6, <1>7, <1>8, <1>9, <1>10 DEF AccountRequest

LEMMA SameRows ==
  ASSUME RowsTyped, UNCHANGED <<accounts, nextAccount>>
  PROVE  RowsTyped' /\ Ahead
BY DEF RowsTyped, Ahead, AccountRow, IsTable

LEMMA SameRequests ==
  ASSUME RowsTyped, RequestsTyped, Ahead, UNCHANGED request
  PROVE  RequestsTyped'
<1>1. ASSUME NEW r \in Requesters PROVE RequestTyped(request[r])'
  <2>1. PICK q : q = request[r]
    OBVIOUS
  <2>2. RequestTyped(q)'
    BY <2>1, RequestTypedKept DEF RequestsTyped
  <2>3. QED
    BY <2>1, <2>2 DEF RequestTyped
<1>2. QED
  BY <1>1 DEF RequestsTyped

LEMMA SamePoll ==
  ASSUME RowsTyped, PollTyped, Ahead, UNCHANGED poll
  PROVE  PollTyped'
BY DEF RowsTyped, PollTyped, Ahead

LEMMA OpenTypes ==
  ASSUME Types, Open
  PROVE  Types'
<1>1. UNCHANGED <<poll, clock, tick, marks>>
  BY DEF Open, schedulerVars
<1>2. UNCHANGED request
  BY DEF Open, Copy, accountVars
<1>3. \/ UNCHANGED <<accounts, nextAccount>>
      \/ \E row \in AccountRow : accounts' = WithRow(row) /\ nextAccount' = nextAccount + 1
  <2>1. ASSUME CopyAccounts
        PROVE  \/ UNCHANGED <<accounts, nextAccount>>
               \/ \E row \in AccountRow : accounts' = WithRow(row) /\ nextAccount' = nextAccount + 1
    BY <2>1 DEF CopyAccounts
  <2>2. ASSUME SeedAccount
        PROVE  \/ UNCHANGED <<accounts, nextAccount>>
               \/ \E row \in AccountRow : accounts' = WithRow(row) /\ nextAccount' = nextAccount + 1
    <3>1. \A usable \in BOOLEAN : [enabled |-> TRUE, default |-> TRUE, usable |-> usable] \in AccountRow
      BY DEF AccountRow
    <3>2. QED
      BY <2>2, <3>1 DEF SeedAccount
  <2>3. QED
    BY <2>1, <2>2 DEF Open, Copy, accountVars
<1>4. RowsTyped' /\ Ahead
  BY <1>3, SameRows, RowAddedTyped DEF Types
<1>5. RequestsTyped' /\ PollTyped'
  BY <1>1, <1>2, <1>4, SameRequests, SamePoll DEF Types
<1>6. phase' \in Phases
  BY DEF Open, Copy, CopyTable, Start, Check, CreateMail, CreateTodo, Rename, OpenFiles, Seed, Phases
<1>7. QED
  BY <1>1, <1>4, <1>5, <1>6 DEF Types, TickTyped

LEMMA StopTypes ==
  ASSUME Types, Stop
  PROVE  Types'
<1>1. /\ UNCHANGED nextAccount /\ (accounts' = accounts \/ accounts' = Cleared)
      /\ request' = [r \in Requesters |-> NoRequest]
      /\ poll' = NoPoll /\ tick' = NoTick /\ UNCHANGED <<clock, marks>> /\ phase' = "down"
  BY DEF Stop, End
<1>2. RowsTyped' /\ Ahead
  BY <1>1, SameRows, ClearedTyped DEF Types
<1>3. RequestTyped(NoRequest)'
  BY DEF RequestTyped, IsRequest, NoRequest
<1>4. RequestsTyped'
  BY <1>1, <1>3 DEF RequestsTyped, RequestTyped
<1>5. PollTyped' /\ TickTyped' /\ phase' \in Phases
  BY <1>1 DEF Types, PollTyped, TickTyped, NoPoll, NoTick, Phases
<1>6. QED
  BY <1>2, <1>4, <1>5 DEF Types

LEMMA PollTypes ==
  ASSUME Types, Poll
  PROVE  PollTyped'
<1>1. UNCHANGED nextAccount
  BY DEF Poll, PollRound, PollAccount, PollDone, keepPoll, accountVars
<1>2. PICK p : p = poll
  OBVIOUS
<1>3. /\ p = [list |-> p.list, at |-> p.at] /\ p.list \in Seq([id : Nat, usable : BOOLEAN])
      /\ \A i \in DOMAIN p.list : p.list[i].id \in 1 .. nextAccount - 1
      /\ p.at \in {None} \cup 1 .. nextAccount - 1
  BY <1>2 DEF Types, PollTyped
<1>4. CASE PollRound
  <2>1. PICK ids : ids = ListAccounts(EnabledAccounts)
    OBVIOUS
  <2>2. PICK list : list = [i \in DOMAIN ids |-> [id |-> ids[i], usable |-> accounts[ids[i]].usable]]
    OBVIOUS
  <2>3. poll' = [p EXCEPT !.list = list]
    BY <1>2, <1>4, <2>1, <2>2 DEF PollRound
  <2>4. Flagged /\ EnabledAccounts \in SUBSET DOMAIN accounts
    BY RowsFlagged DEF Types, EnabledAccounts
  <2>5. PICK n \in Nat : n = Cardinality(EnabledAccounts)
    BY <2>4, FS_Subset, FS_CardinalityType DEF Flagged
  <2>6. DOMAIN ids = 1 .. n /\ \A i \in 1 .. n : ids[i] \in DOMAIN accounts
    BY <2>1, <2>4, <2>5, ListedIsAccount DEF ListAccounts
  <2>7. ASSUME NEW i \in 1 .. n
        PROVE  /\ list[i] \in [id : Nat, usable : BOOLEAN]
               /\ list[i].id \in 1 .. nextAccount - 1
    <3>1. ids[i] \in 1 .. nextAccount - 1 /\ ids[i] \in Nat
      BY <2>6 DEF Types, RowsTyped
    <3>2. accounts[ids[i]].usable \in BOOLEAN
      BY <2>6 DEF Types, RowsTyped, AccountRow
    <3>3. list[i] = [id |-> ids[i], usable |-> accounts[ids[i]].usable]
      BY <2>2, <2>6
    <3>4. QED
      BY <3>1, <3>2, <3>3
  <2>8. DOMAIN list = 1 .. n
    BY <2>2, <2>6
  <2>9. list \in [1 .. n -> [id : Nat, usable : BOOLEAN]]
    <3>1. list = [i \in 1 .. n |-> list[i]]
      BY <2>2, <2>8
    <3>2. QED
      BY <2>7, <3>1
  <2>10. list \in Seq([id : Nat, usable : BOOLEAN])
    <3>1. PICK S : S = [id : Nat, usable : BOOLEAN]
      OBVIOUS
    <3>2. list \in [1 .. n -> S]
      BY <2>9, <3>1
    <3>3. list \in Seq(S)
      BY <2>5, <3>2
    <3>4. QED
      BY <3>1, <3>3
  <2>11. poll' = [list |-> list, at |-> p.at]
    BY <1>3, <2>3
  <2>12. QED
    BY <1>1, <1>3, <2>7, <2>8, <2>10, <2>11 DEF PollTyped
<1>5. CASE PollAccount
  <2>1. p.list # <<>>
    BY <1>2, <1>5 DEF PollAccount
  <2>2. PICK rest : rest = Tail(p.list)
    OBVIOUS
  <2>3. PICK head : head = p.list[1]
    OBVIOUS
  <2>4. /\ rest \in Seq([id : Nat, usable : BOOLEAN])
        /\ \A i \in DOMAIN rest : i + 1 \in DOMAIN p.list /\ rest[i] = p.list[i + 1]
        /\ 1 \in DOMAIN p.list
    BY <1>3, <2>1, <2>2
  <2>5. \A i \in DOMAIN rest : rest[i].id \in 1 .. nextAccount - 1
    BY <1>3, <2>4
  <2>6. head.id \in 1 .. nextAccount - 1
    BY <1>3, <2>3, <2>4
  <2>7. PICK at : at = IF head.usable THEN head.id ELSE None
    OBVIOUS
  <2>8. poll' = [list |-> rest, at |-> at]
    BY <1>2, <1>3, <1>5, <2>1, <2>2, <2>3, <2>7 DEF PollAccount
  <2>9. QED
    BY <1>1, <2>4, <2>5, <2>6, <2>7, <2>8 DEF PollTyped
<1>6. CASE PollDone
  <2>1. poll' = [list |-> p.list, at |-> None]
    BY <1>2, <1>3, <1>6 DEF PollDone
  <2>2. QED
    BY <1>1, <1>3, <2>1 DEF PollTyped
<1>7. QED
  BY <1>4, <1>5, <1>6 DEF Poll

LEMMA TickTypes ==
  ASSUME Types, Schedule
  PROVE  TickTyped'
<1>1. PICK t : t = tick
  OBVIOUS
<1>2. t = [pc |-> t.pc, at |-> t.at] /\ t.at \in {None} \cup 0 .. MaxClock
  BY <1>1 DEF Types, TickTyped
<1>3. UNCHANGED clock
  BY DEF Schedule, Tick, FullCheck, Mark, MarkFails, Scan, MarkMade, keepTick
<1>4. CASE Tick
  <2>1. tick' = [pc |-> IF Due THEN "full" ELSE "scan", at |-> clock] /\ UNCHANGED marks
    BY <1>4 DEF Tick
  <2>2. QED
    BY <1>3, <2>1 DEF Types, TickTyped, Due
<1>5. CASE tick' = NoTick /\ UNCHANGED marks
  BY <1>3, <1>5 DEF Types, TickTyped, NoTick
<1>6. CASE FullCheck /\ tick' # NoTick
  <2>1. tick' = [t EXCEPT !.pc = "mark"] /\ t.pc = "full" /\ UNCHANGED marks
    BY <1>1, <1>6 DEF FullCheck
  <2>2. tick' = [pc |-> "mark", at |-> t.at]
    BY <1>2, <2>1
  <2>3. QED
    BY <1>1, <1>3, <2>1, <2>2 DEF Types, TickTyped
<1>7. CASE Mark
  <2>1. tick' = [t EXCEPT !.pc = "scan"] /\ t.pc = "mark" /\ marks' = marks \cup {t.at}
    BY <1>1, <1>7 DEF Mark, MarkMade
  <2>2. tick' = [pc |-> "scan", at |-> t.at]
    BY <1>2, <2>1
  <2>3. QED
    BY <1>1, <1>3, <2>1, <2>2 DEF Types, TickTyped
<1>8. QED
  BY <1>4, <1>5, <1>6, <1>7 DEF Schedule, FullCheck, MarkFails, Scan

LEMMA TypesStep ==
  ASSUME Types, [Next]_vars
  PROVE  Types'
<1>1. CASE Poll
  <2>1. UNCHANGED <<accounts, nextAccount, request, tick, marks, clock, phase>>
    BY <1>1 DEF Poll, PollRound, PollAccount, PollDone, keepPoll, accountVars, openingVars,
                schedulerVars
  <2>2. RowsTyped' /\ RequestsTyped'
    BY <2>1, SameRows, SameRequests DEF Types
  <2>3. QED
    BY <1>1, <2>1, <2>2, PollTypes DEF Types, TickTyped
<1>2. CASE Schedule
  <2>1. UNCHANGED <<accounts, nextAccount, request, poll, phase>>
    BY <1>2 DEF Schedule, Tick, FullCheck, Mark, MarkFails, Scan, MarkMade, keepTick,
                accountVars, openingVars
  <2>2. RowsTyped' /\ RequestsTyped' /\ PollTyped'
    BY <2>1, SameRows, SameRequests, SamePoll DEF Types
  <2>3. QED
    BY <1>2, <2>1, <2>2, TickTypes DEF Types
<1>3. CASE Request
  <2>1. PICK r \in Requesters : AccountRequest(r)
    BY <1>3 DEF Request
  <2>2. UNCHANGED <<poll, tick, marks, clock, phase>>
    BY <1>3 DEF Request, openingVars, schedulerVars
  <2>3. RowsTyped' /\ RequestsTyped' /\ Ahead
    BY <2>1, RequestTypes DEF Types
  <2>4. QED
    BY <2>2, <2>3, SamePoll DEF Types, TickTyped
<1>4. CASE Advance \/ UNCHANGED vars
  <2>1. UNCHANGED <<accounts, nextAccount, request, poll, tick, marks, phase>>
    BY <1>4 DEF Advance, vars, openingVars, accountVars, schedulerVars
  <2>2. clock' \in 0 .. MaxClock
    BY <1>4, ServerAssumption DEF Advance, vars, Types, TickTyped
  <2>3. RowsTyped' /\ RequestsTyped' /\ PollTyped'
    BY <2>1, SameRows, SameRequests, SamePoll DEF Types
  <2>4. QED
    BY <2>1, <2>2, <2>3 DEF Types, TickTyped
<1>5. QED
  BY <1>1, <1>2, <1>3, <1>4, OpenTypes, StopTypes DEF Next

LEMMA TypesHold == Spec => []Types
BY TypesInit, TypesStep, PTL DEF Spec

\* The state keeps its shape with any number of requests at once, and through
\* ends of the process: a poll and a request in progress name accounts that
\* were given their ids, and marks are made of check times only.
THEOREM ServerTypes == Spec => []TypeOK
<1>1. Types /\ TallyInv => TypeOK
  BY DEF Types, RowsTyped, RequestsTyped, RequestTyped, PollTyped, TickTyped, Phases,
         TallyInv, TypeOK, AccountsTypeOK
<1>2. TallyInv /\ [Next]_vars => TallyInv'
  BY TallyStep
<1>3. QED
  BY TypesHold, TallyInit, <1>1, <1>2, PTL DEF Spec

-----------------------------------------------------------------------------
(* The default account, when the requests come one at a time *)

\* No account is there before its file is, nor before the second table of the
\* legacy database is copied: the row copied or seeded is the only one.
FilesInv ==
  /\ phase = "mail" => ~mailFile
  /\ phase \in {"todo", "copy", "seed", "serve"} => mailFile
  /\ ~mailFile => DOMAIN accounts = {}
  /\ phase = "todo" => DOMAIN accounts = {}
  /\ phase = "copy" /\ copied < 2 => DOMAIN accounts = {}

\* What a request read of its account is still so.
HeldInv(q) ==
  /\ q.pc \in {"adopt", "default", "update", "delete"} => q.id \in DOMAIN accounts
  /\ q.pc \in {"update", "delete"} => q.held.default = accounts[q.id].default

OneMarked ==
  \A a, b \in DOMAIN accounts : accounts[a].default /\ accounts[b].default => a = b
SomeMarked == \E a \in DOMAIN accounts : accounts[a].default

\* Only a request that is about to mark another account finds none marked.
Lacking(q) == q.pc \in {"default", "first"}
MarkedInv(q) ==
  /\ OneMarked
  /\ faults = 0 /\ phase # "serve" /\ DOMAIN accounts # {} => SomeMarked
  /\ faults = 0 /\ phase = "serve" => SomeMarked \/ Lacking(q)

DefaultInv(r) == FilesInv /\ HeldInv(request[r]) /\ MarkedInv(request[r])

LEMMA DefaultInit ==
  ASSUME NEW r \in Requesters, Init
  PROVE  DefaultInv(r)
BY DEF Init, OpeningInit, AccountsInit, NoRequest, DefaultInv, FilesInv, HeldInv, MarkedInv,
       OneMarked, SomeMarked

LEMMA TableTwo == Tables[2] = "accounts" /\ \A i \in 1 .. 8 : i # 2 => Tables[i] # "accounts"
BY DEF Tables

\* One row, the default one, comes into an empty table.
LEMMA FirstRow ==
  ASSUME NEW row \in AccountRow, row.default, DOMAIN accounts = {}, accounts' = WithRow(row)
  PROVE  OneMarked' /\ SomeMarked'
BY DEF WithRow, OneMarked, SomeMarked

LEMMA SameMarks ==
  ASSUME UNCHANGED accounts
  PROVE  (OneMarked => OneMarked') /\ (SomeMarked => SomeMarked')
BY DEF OneMarked, SomeMarked

\* What a step of the opening does to the accounts.
LEMMA OpenRows ==
  ASSUME TallyInv, FilesInv, Types, Open
  PROVE  \/ UNCHANGED accounts /\ (phase' = "serve" => DOMAIN accounts # {})
         \/ DOMAIN accounts = {} /\ OneMarked' /\ SomeMarked'
<1>1. CASE Seed /\ SeedAccount
  <2>1. CASE accounts = <<>>
    <3>1. PICK usable \in BOOLEAN :
            accounts' = WithRow([enabled |-> TRUE, default |-> TRUE, usable |-> usable])
      BY <1>1, <2>1 DEF SeedAccount
    <3>2. PICK row \in AccountRow : row = [enabled |-> TRUE, default |-> TRUE, usable |-> usable]
      BY DEF AccountRow
    <3>3. row.default /\ accounts' = WithRow(row) /\ DOMAIN accounts = {}
      BY <2>1, <3>1, <3>2
    <3>4. QED
      BY <3>3, FirstRow
  <2>2. CASE accounts # <<>>
    <3>1. DOMAIN accounts # {}
      BY <2>2, EmptyTable DEF Types, RowsTyped
    <3>2. QED
      BY <1>1, <2>2, <3>1 DEF SeedAccount
  <2>3. QED
    BY <2>1, <2>2
<1>2. CASE CopyTable /\ Tables[copied'] = "accounts" /\ CopyAccounts
  <2>1. copied' = copied + 1 /\ copied \in 0 .. 7 /\ phase = "copy" /\ phase' = "copy"
    BY <1>2, EightTables DEF CopyTable, TallyInv
  <2>2. copied = 1
    BY <1>2, <2>1, TableTwo
  <2>3. DOMAIN accounts = {}
    BY <2>1, <2>2 DEF FilesInv
  <2>4. QED
    BY <1>2, <2>1, <2>3, FirstRow DEF CopyAccounts
<1>3. CASE phase' # "serve" /\ UNCHANGED accounts
  BY <1>3
<1>4. QED
  BY <1>1, <1>2, <1>3
  DEF Open, Copy, CopyTable, Start, Check, CreateMail, CreateTodo, Rename, OpenFiles, accountVars

LEMMA OpenFilesInv ==
  ASSUME TallyInv, FilesInv, Types, Open
  PROVE  FilesInv'
<1>1. CASE CopyTable
  <2>1. /\ copied' = copied + 1 /\ copied \in 0 .. 7 /\ phase = "copy" /\ phase' = "copy"
        /\ mailFile /\ UNCHANGED mailFile
    BY <1>1, EightTables DEF CopyTable, TallyInv, FilesInv
  <2>2. CASE copied = 0
    <3>1. Tables[copied'] # "accounts"
      BY <2>1, <2>2, TableTwo
    <3>2. UNCHANGED accounts
      BY <1>1, <2>1, <3>1
      DEF Open, Copy, Start, Check, CreateMail, CreateTodo, Rename, OpenFiles, Seed, accountVars
    <3>3. QED
      BY <2>1, <2>2, <3>2 DEF FilesInv
  <2>3. CASE copied # 0
    BY <2>1, <2>3 DEF FilesInv
  <2>4. QED
    BY <2>2, <2>3
<1>2. CASE Seed /\ SeedAccount
  BY <1>2 DEF Seed, FilesInv
<1>3. CASE UNCHANGED accounts /\ (Start \/ Check \/ CreateMail \/ CreateTodo \/ Rename \/ OpenFiles)
  BY <1>3 DEF Start, Check, SplitDue, CreateMail, CreateTodo, Rename, OpenFiles, FilesInv
<1>4. QED
  BY <1>1, <1>2, <1>3 DEF Open, Copy, accountVars

LEMMA FilesStep ==
  ASSUME TallyInv, FilesInv, Types, [Next]_vars
  PROVE  FilesInv'
<1>1. CASE Open
  BY <1>1, OpenFilesInv
<1>2. CASE Stop
  BY <1>2 DEF Stop, End, Cleared, FilesInv
<1>3. CASE Request
  BY <1>3 DEF Request, openingVars, FilesInv
<1>4. CASE UNCHANGED <<phase, mailFile, copied, accounts>>
  BY <1>4 DEF FilesInv
<1>5. QED
  BY <1>1, <1>2, <1>3, <1>4
  DEF Next, Poll, PollRound, PollAccount, PollDone, keepPoll, Schedule, Tick, FullCheck, Mark,
      MarkFails, Scan, MarkMade, keepTick, Advance, vars, openingVars, accountVars

\* Wherever the split of the legacy database is cut short, however often the
\* program is started again and whatever requests are made between: its accounts
\* are copied into a table that has none (db.rs:206-296).
THEOREM CopyMeetsNoRows == Spec => []CopiedIntoEmpty
<1>1. Init => FilesInv
  BY DEF Init, OpeningInit, AccountsInit, FilesInv
<1>2. Types /\ FilesInv => CopiedIntoEmpty
  BY EmptyTable DEF Types, RowsTyped, FilesInv, CopiedIntoEmpty
<1>3. TallyInv /\ FilesInv /\ Types /\ [Next]_vars => FilesInv'
  BY FilesStep
<1>4. TallyInv /\ [Next]_vars => TallyInv'
  BY TallyStep
<1>5. QED
  BY TypesHold, TallyInit, <1>1, <1>2, <1>3, <1>4, PTL DEF Spec

LEMMA DefaultOpen ==
  ASSUME NEW r, Requesters = {r}, TallyInv, Types, AccountsInv, DefaultInv(r), Open
  PROVE  DefaultInv(r)'
<1>1. UNCHANGED <<request, faults>> /\ phase # "serve"
  BY DEF Open, Copy, CopyTable, Start, Check, CreateMail, CreateTodo, Rename, OpenFiles, Seed,
         accountVars
<1>2. PICK q : q = request[r]
  OBVIOUS
<1>3. q.pc = "idle"
  BY <1>1, <1>2 DEF AccountsInv, Quiet, At
<1>4. HeldInv(q)' /\ ~Lacking(q)
  BY <1>3 DEF HeldInv, Lacking
<1>5. MarkedInv(q)'
  <2>1. MarkedInv(q)
    BY <1>2 DEF DefaultInv
  <2>2. CASE UNCHANGED accounts /\ (phase' = "serve" => DOMAIN accounts # {})
    <3>1. OneMarked' /\ (SomeMarked => SomeMarked')
      BY <2>1, <2>2, SameMarks DEF MarkedInv
    <3>2. QED
      BY <1>1, <2>1, <2>2, <3>1 DEF MarkedInv
  <2>3. CASE OneMarked' /\ SomeMarked'
    BY <2>3 DEF MarkedInv
  <2>4. QED
    BY <2>2, <2>3, OpenRows DEF DefaultInv
<1>6. FilesInv'
  BY OpenFilesInv DEF DefaultInv
<1>7. QED
  BY <1>1, <1>2, <1>4, <1>5, <1>6 DEF DefaultInv, HeldInv, MarkedInv, Lacking

LEMMA DefaultStop ==
  ASSUME NEW r, Requesters = {r}, TallyInv, Types, DefaultInv(r), Stop
  PROVE  DefaultInv(r)'
<1>1. /\ (accounts' = accounts \/ accounts' = Cleared)
      /\ request' = [s \in Requesters |-> NoRequest] /\ faults' = faults + 1
      /\ phase' = "down" /\ UNCHANGED mailFile
  BY DEF Stop, End
<1>2. DOMAIN accounts' = DOMAIN accounts
  BY <1>1 DEF Cleared
<1>3. faults' # 0
  BY <1>1 DEF TallyInv
<1>4. OneMarked'
  BY <1>1 DEF DefaultInv, MarkedInv, OneMarked, Cleared, Types, RowsTyped, AccountRow
<1>5. request'[r].pc = "idle"
  BY <1>1 DEF NoRequest
<1>6. QED
  BY <1>1, <1>2, <1>3, <1>4, <1>5 DEF DefaultInv, FilesInv, HeldInv, MarkedInv

\* The request that makes the step, before it (q) and after it (p).
LEMMA DefaultRequest ==
  ASSUME NEW r, Requesters = {r}, Types, AccountsInv, DefaultInv(r), phase = "serve",
         UNCHANGED <<openingVars, faults>>, AccountRequest(r)
  PROVE  DefaultInv(r)'
<1>1. PICK q : q = request[r]
  OBVIOUS
<1>2. PICK p : p = request'[r]
  OBVIOUS
<1>3. /\ RequestTyped(q) /\ HeldInv(q) /\ MarkedInv(q) /\ RowsTyped
      /\ r \in DOMAIN request
  BY <1>1 DEF Types, RequestsTyped, DefaultInv
<1>4. UNCHANGED <<phase, faults, mailFile, copied>> /\ mailFile
  BY DEF openingVars, DefaultInv, FilesInv
<1>5. SUFFICES HeldInv(p)' /\ MarkedInv(p)'
  BY <1>2, <1>4 DEF DefaultInv, FilesInv, HeldInv, MarkedInv, Lacking
<1>6. ASSUME NEW d, request' = [request EXCEPT ![r] = d] PROVE p = d
  BY <1>2, <1>3, <1>6
<1>7. Answer(r) => p = NoRequest
  BY <1>6 DEF Answer
<1>8. NoRequest.pc = "idle"
  BY DEF NoRequest
<1>9. IsRequest(q)
  BY <1>3 DEF RequestTyped
<1>10. CASE CreateAccount(r)
  <2>1. PICK enabled \in BOOLEAN, usable \in BOOLEAN :
          accounts' = WithRow([enabled |-> enabled, default |-> FALSE, usable |-> usable])
    BY <1>10 DEF CreateAccount
  <2>2. PICK row : row = [enabled |-> enabled, default |-> FALSE, usable |-> usable]
    OBVIOUS
  <2>3. row.default = FALSE /\ accounts' = WithRow(row)
    BY <2>1, <2>2
  <2>4. q.pc = "idle" /\ p.pc = "adopt" /\ p.id = nextAccount
    <3>1. q.pc = "idle" /\ Begin(r, "adopt", nextAccount, None)
      BY <1>1, <1>10 DEF CreateAccount, Begin, At
    <3>2. p = [pc |-> "adopt", id |-> nextAccount, held |-> None]
      BY <1>6, <3>1 DEF Begin
    <3>3. QED
      BY <3>1, <3>2
  <2>5. DOMAIN accounts' = DOMAIN accounts \cup {nextAccount} /\ nextAccount \notin DOMAIN accounts
    BY <2>3, <1>3 DEF WithRow, RowsTyped
  <2>6. /\ \A a \in DOMAIN accounts : accounts'[a] = accounts[a]
        /\ accounts'[nextAccount].default = FALSE
    BY <2>3, <2>5 DEF WithRow
  <2>7. OneMarked' /\ (faults = 0 => SomeMarked')
    <3>1. OneMarked /\ (faults = 0 => SomeMarked)
      BY <1>3, <2>4 DEF MarkedInv, Lacking
    <3>2. OneMarked'
      BY <2>5, <2>6, <3>1 DEF OneMarked
    <3>3. SomeMarked => SomeMarked'
      BY <2>5, <2>6 DEF SomeMarked
    <3>4. QED
      BY <3>1, <3>2, <3>3
  <2>8. QED
    BY <1>4, <2>4, <2>5, <2>7 DEF HeldInv, MarkedInv
<1>11. CASE AdoptIfFirst(r)
  <2>1. UNCHANGED accounts /\ q.pc = "adopt" /\ (Defaults = {} \/ Answer(r))
    BY <1>1, <1>11 DEF AdoptIfFirst, At
  <2>2. CASE Answer(r)
    BY <1>3, <1>4, <1>7, <1>8, <2>1, <2>2, SameMarks DEF HeldInv, MarkedInv, Lacking
  <2>3. CASE Defaults = {}
    <3>1. PICK d : d = [q EXCEPT !.pc = "default"]
      OBVIOUS
    <3>2. request' = [request EXCEPT ![r] = d]
      BY <1>1, <1>11, <2>3, <3>1 DEF AdoptIfFirst, Move
    <3>3. p.pc = "default" /\ p.id = q.id
      BY <1>6, <1>9, <3>1, <3>2 DEF IsRequest
    <3>4. QED
      BY <1>3, <1>4, <2>1, <3>3, SameMarks DEF HeldInv, MarkedInv, Lacking
  <2>4. QED
    BY <2>1, <2>2, <2>3
<1>12. CASE SetDefault(r)
  <2>1. accounts' = Marked(q.id) /\ q.pc = "default" /\ p.pc = "idle"
    BY <1>1, <1>7, <1>8, <1>12 DEF SetDefault, At
  <2>2. q.id \in DOMAIN accounts
    BY <1>3, <2>1 DEF HeldInv
  <2>3. /\ DOMAIN accounts' = DOMAIN accounts
        /\ \A a \in DOMAIN accounts : accounts'[a].default = (a = q.id)
    BY <1>3, <2>1 DEF Marked, RowsTyped, AccountRow
  <2>4. OneMarked' /\ SomeMarked'
    BY <2>2, <2>3 DEF OneMarked, SomeMarked
  <2>5. QED
    BY <1>4, <2>1, <2>4 DEF HeldInv, MarkedInv
<1>13. CASE UpdateAccount(r)
  <2>1. /\ accounts' = IF q.id \in DOMAIN accounts
                       THEN [accounts EXCEPT ![q.id] = q.held] ELSE accounts
        /\ q.pc = "update" /\ p.pc = "idle"
    BY <1>1, <1>7, <1>8, <1>13 DEF UpdateAccount, At
  <2>2. q.id \in DOMAIN accounts /\ q.held.default = accounts[q.id].default
    BY <1>3, <2>1 DEF HeldInv
  <2>3. /\ DOMAIN accounts' = DOMAIN accounts
        /\ \A a \in DOMAIN accounts : accounts'[a].default = accounts[a].default
    BY <1>3, <2>1, <2>2 DEF RowsTyped
  <2>4. (OneMarked => OneMarked') /\ (SomeMarked => SomeMarked')
    BY <2>3 DEF OneMarked, SomeMarked
  <2>5. QED
    BY <1>3, <1>4, <2>1, <2>4 DEF HeldInv, MarkedInv, Lacking
<1>14. CASE DeleteAccount(r)
  <2>1. /\ accounts' = [a \in DOMAIN accounts \ {q.id} |-> accounts[a]] /\ q.pc = "delete"
        /\ IF q.held.default THEN Move(r, "first") ELSE Answer(r)
    BY <1>1, <1>14 DEF DeleteAccount, At
  <2>2. q.id \in DOMAIN accounts /\ q.held.default = accounts[q.id].default
    BY <1>3, <2>1 DEF HeldInv
  <2>3. OneMarked'
    BY <1>3, <2>1 DEF MarkedInv, OneMarked
  <2>4. CASE q.held.default
    <3>1. PICK d : d = [q EXCEPT !.pc = "first"]
      OBVIOUS
    <3>2. request' = [request EXCEPT ![r] = d]
      BY <1>1, <2>1, <2>4, <3>1 DEF Move
    <3>3. p.pc = "first"
      BY <1>6, <1>9, <3>1, <3>2 DEF IsRequest
    <3>4. QED
      BY <1>4, <2>3, <3>3 DEF HeldInv, MarkedInv, Lacking
  <2>5. CASE ~q.held.default
    <3>1. p.pc = "idle"
      BY <1>7, <1>8, <2>1, <2>5
    <3>2. SomeMarked => SomeMarked'
      BY <2>1, <2>2, <2>5 DEF SomeMarked
    <3>3. QED
      BY <1>3, <1>4, <2>1, <2>3, <3>1, <3>2 DEF HeldInv, MarkedInv, Lacking
  <2>6. QED
    BY <2>4, <2>5
<1>15. CASE PickFirst(r)
  <2>1. UNCHANGED accounts /\ q.pc = "first"
    BY <1>1, <1>15 DEF PickFirst, At
  <2>2. DOMAIN accounts # {}
    BY DEF AccountsInv
  <2>3. PICK id : id = ListAccounts(DOMAIN accounts)[1]
    OBVIOUS
  <2>4. id \in DOMAIN accounts
    <3>1. Flagged
      BY <1>3, RowsFlagged
    <3>2. Cardinality(DOMAIN accounts) \in Nat /\ Cardinality(DOMAIN accounts) # 0
      BY <2>2, <3>1, FS_CardinalityType, FS_EmptySet DEF Flagged
    <3>3. 1 \in 1 .. Cardinality(DOMAIN accounts)
      BY <3>2
    <3>4. QED
      BY <2>3, <3>1, <3>3, ListedIsAccount
  <2>5. accounts # <<>>
    <3>1. DOMAIN <<>> = {}
      OBVIOUS
    <3>2. QED
      BY <2>2, <3>1
  <2>6. PICK d : d = [q EXCEPT !.pc = "default", !.id = id]
    OBVIOUS
  <2>7. request' = [request EXCEPT ![r] = d]
    BY <1>1, <1>15, <2>3, <2>5, <2>6 DEF PickFirst
  <2>8. p.pc = "default" /\ p.id = id
    BY <1>6, <1>9, <2>6, <2>7 DEF IsRequest
  <2>9. QED
    BY <1>3, <1>4, <2>1, <2>4, <2>8, SameMarks DEF HeldInv, MarkedInv, Lacking
<1>16. ASSUME NEW a \in DOMAIN accounts, AskDefault(r, a) \/ ReadForUpdate(r, a) \/ AskDelete(r, a)
       PROVE  HeldInv(p)' /\ MarkedInv(p)'
  <2>1. UNCHANGED accounts
    BY <1>16 DEF AskDefault, ReadForUpdate, AskDelete
  <2>2. PICK old \in AccountRow : old = accounts[a]
    BY <1>3 DEF RowsTyped
  <2>3. PICK pc, held :
          /\ Begin(r, pc, a, held)
          /\ pc \in {"update", "delete"} => held.default = old.default
    <3>1. CASE AskDefault(r, a)
      BY <3>1 DEF AskDefault
    <3>2. CASE ReadForUpdate(r, a)
      <4>1. PICK row \in {[old EXCEPT !.enabled = ~@], [old EXCEPT !.usable = ~@]} :
              Begin(r, "update", a, row)
        BY <2>2, <3>2 DEF ReadForUpdate
      <4>2. row.default = old.default
        BY <4>1 DEF AccountRow
      <4>3. QED
        BY <4>1, <4>2
    <3>3. CASE AskDelete(r, a)
      BY <2>2, <3>3 DEF AskDelete
    <3>4. QED
      BY <1>16, <3>1, <3>2, <3>3
  <2>4. q.pc = "idle" /\ p.pc = pc /\ p.id = a /\ p.held = held
    <3>1. p = [pc |-> pc, id |-> a, held |-> held]
      BY <1>6, <2>3 DEF Begin
    <3>2. q.pc = "idle"
      BY <1>1, <2>3 DEF Begin, At
    <3>3. QED
      BY <3>1, <3>2
  <2>5. QED
    BY <1>3, <1>4, <2>1, <2>2, <2>3, <2>4, SameMarks DEF HeldInv, MarkedInv, Lacking
<1>17. QED
  BY <1>10, <1>11, <1>12, <1>13, <1>14, <1>15, <1>16 DEF AccountRequest

LEMMA DefaultStep ==
  ASSUME NEW r, Requesters = {r}, TallyInv, Types, AccountsInv, DefaultInv(r), [Next]_vars
  PROVE  DefaultInv(r)'
<1>1. CASE Request
  <2>1. AccountRequest(r) /\ phase = "serve" /\ UNCHANGED <<openingVars, faults>>
    BY <1>1 DEF Request
  <2>2. QED
    BY <2>1, DefaultRequest
<1>2. CASE UNCHANGED <<phase, mailFile, copied, accounts, request>> /\ (faults' = 0 => faults = 0)
  BY <1>2 DEF DefaultInv, FilesInv, HeldInv, MarkedInv, OneMarked, SomeMarked, Lacking
<1>3. CASE Poll
  BY <1>2, <1>3 DEF Poll, PollRound, PollAccount, PollDone, keepPoll, openingVars, accountVars
<1>4. CASE Schedule
  <2>1. UNCHANGED <<phase, mailFile, copied, accounts, request>>
    BY <1>4 DEF Schedule, Tick, FullCheck, Mark, MarkFails, Scan, MarkMade, keepTick,
                openingVars, accountVars
  <2>2. faults' = faults \/ faults' = faults + 1
    BY <1>4 DEF Schedule, Tick, FullCheck, Mark, MarkFails, Scan, MarkMade
  <2>3. QED
    BY <1>2, <2>1, <2>2 DEF TallyInv
<1>5. CASE Advance \/ UNCHANGED vars
  BY <1>2, <1>5 DEF Advance, vars, openingVars, accountVars
<1>6. QED
  BY <1>1, <1>3, <1>4, <1>5, DefaultOpen, DefaultStop DEF Next

LEMMA OneOrNone ==
  ASSUME Types, OneMarked
  PROVE  Cardinality(Defaults) <= 1
<1>1. Defaults = {} \/ \E a : Defaults = {a}
  BY DEF Defaults, OneMarked
<1>2. CASE Defaults = {}
  BY <1>2, FS_EmptySet
<1>3. CASE \E a : Defaults = {a}
  BY <1>3, FS_Singleton
<1>4. QED
  BY <1>1, <1>2, <1>3

\* With requests that come one at a time there is always an account while the
\* program runs, and between them one that is the default; never are there two, whatever end of the process cuts a request or the
\* opening short (api.rs:1040-1043, 1101-1105; main.rs:139-151).
THEOREM OneSender == Spec => []OneDefault
<1>1. CASE Cardinality(Requesters) = 1
  <2>1. PICK r : Requesters = {r}
    BY <1>1, AccountsAssumption, FS_Singleton
  <2>2. Init => DefaultInv(r)
    BY <2>1, DefaultInit
  <2>3. AccountsInv /\ [Next]_vars => AccountsInv'
    BY <2>1, AccountsStep
  <2>4. TallyInv /\ Types /\ AccountsInv /\ DefaultInv(r) /\ [Next]_vars => DefaultInv(r)'
    BY <2>1, DefaultStep
  <2>5. Types /\ AccountsInv /\ DefaultInv(r) => OneDefault
    <3>1. SUFFICES ASSUME Types, AccountsInv, DefaultInv(r) PROVE OneDefault
      OBVIOUS
    <3>2. Cardinality(Defaults) <= 1
      BY <3>1, OneOrNone DEF DefaultInv, MarkedInv
    <3>3. phase = "serve" /\ Quiet /\ faults = 0 => SomeMarked
      BY <2>1, <3>1 DEF DefaultInv, MarkedInv, Lacking, Quiet, At
    <3>4. QED
      BY <3>1, <3>2, <3>3 DEF AccountsInv, OneDefault, SomeMarked, Defaults
  <2>6. TallyInv /\ [Next]_vars => TallyInv'
    BY TallyStep
  <2>7. QED
    BY TypesHold, TallyInit, AccountsInitially, <2>2, <2>3, <2>4, <2>5, <2>6, PTL DEF Spec
<1>2. CASE Cardinality(Requesters) # 1
  <2>1. OneDefault
    BY <1>2 DEF OneDefault
  <2>2. QED
    BY <2>1, PTL
<1>3. QED
  BY <1>1, <1>2
=============================================================================
