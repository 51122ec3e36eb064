------------------------------ MODULE Accounts ------------------------------
(***************************************************************************)
(* The mail accounts and the requests that change them (the account         *)
(* handlers of api.rs over db.rs).  Each database call of a handler is a    *)
(* step; what a handler read before is held in its request.                 *)
(***************************************************************************)
EXTENDS Naturals, FiniteSets, SequencesExt, FiniteSetsExt

CONSTANTS
  None,
  Requesters,    \* requests that may be in progress at a time
  MaxAccounts,   \* bound: row ids
  MaxRequests    \* bound: requests begun

ASSUME AccountsAssumption ==
  IsFiniteSet(Requesters) /\ MaxAccounts \in Nat \ {0} /\ MaxRequests \in Nat

VARIABLES
  accounts,      \* row id -> [enabled, default, usable], the rows that exist
  nextAccount,   \* AUTOINCREMENT: an id is never given twice
  request,       \* requester -> [pc, id, held]
  requests       \* requests begun

accountVars == <<accounts, nextAccount, request, requests>>

\* "usable": the SMTP client can be built from the row.
AccountRow == [enabled : BOOLEAN, default : BOOLEAN, usable : BOOLEAN]

NoRequest == [pc |-> "idle", id |-> None, held |-> None]

AccountsInit ==
  /\ accounts = <<>> /\ nextAccount = 1
  /\ request = [r \in Requesters |-> NoRequest] /\ requests = 0

AccountsTypeOK ==
  /\ nextAccount \in Nat \ {0}
  /\ DOMAIN accounts \subseteq 1 .. nextAccount - 1
  /\ \A a \in DOMAIN accounts : accounts[a] \in AccountRow
  /\ \A r \in Requesters :
       /\ request[r].pc \in {"idle", "adopt", "default", "update", "delete", "first"}
       /\ request[r].id \in {None} \cup 1 .. nextAccount - 1
       /\ request[r].held \in {None} \cup AccountRow

-----------------------------------------------------------------------------
Defaults == {a \in DOMAIN accounts : accounts[a].default}

\* ORDER BY is_default DESC, id.
ListBefore(a, b) ==
  IF accounts[a].default = accounts[b].default THEN a < b ELSE accounts[a].default

\* The i-th account is the one with i - 1 before it.
Rank(ids, a) == Cardinality({b \in ids : ListBefore(b, a)})
ListAccounts(ids) == [i \in 1 .. Cardinality(ids) |-> CHOOSE a \in ids : Rank(ids, a) = i - 1]

EnabledAccounts == {a \in DOMAIN accounts : accounts[a].enabled}

WithRow(row) == [a \in DOMAIN accounts \cup {nextAccount} |->
                   IF a = nextAccount THEN row ELSE accounts[a]]

At(r, pc) == request[r].pc = pc
Begin(r, pc, id, held) ==
  /\ At(r, "idle") /\ requests < MaxRequests /\ requests' = requests + 1
  /\ request' = [request EXCEPT ![r] = [pc |-> pc, id |-> id, held |-> held]]
Move(r, pc) == request' = [request EXCEPT ![r].pc = pc] /\ UNCHANGED requests
Answer(r) == request' = [request EXCEPT ![r] = NoRequest] /\ UNCHANGED requests

CreateAccount(r) ==
  /\ nextAccount <= MaxAccounts
  /\ \E enabled, usable \in BOOLEAN :
       accounts' = WithRow([enabled |-> enabled, default |-> FALSE, usable |-> usable])
  /\ nextAccount' = nextAccount + 1
  /\ Begin(r, "adopt", nextAccount, None)

\* The first account becomes the default one.
AdoptIfFirst(r) ==
  /\ At(r, "adopt")
  /\ IF Defaults = {} THEN Move(r, "default") ELSE Answer(r)
  /\ UNCHANGED <<accounts, nextAccount>>

AskDefault(r, a) ==
  /\ a \in DOMAIN accounts /\ Begin(r, "default", a, None)
  /\ UNCHANGED <<accounts, nextAccount>>

\* Mutant of Marked: the old default is not cleared.
MarkedToo(id) == [a \in DOMAIN accounts |-> [accounts[a] EXCEPT !.default = @ \/ a = id]]

\* set_default_account: all rows are cleared, then the row is marked, under
\* one lock but in two transactions.
Cleared == [a \in DOMAIN accounts |-> [accounts[a] EXCEPT !.default = FALSE]]
Marked(id) == [a \in DOMAIN accounts |-> [accounts[a] EXCEPT !.default = (a = id)]]

SetDefault(r) ==
  /\ At(r, "default") /\ accounts' = Marked(request[r].id)
  /\ Answer(r) /\ UNCHANGED nextAccount

ReadForUpdate(r, a) ==
  /\ a \in DOMAIN accounts
  /\ \E row \in {[accounts[a] EXCEPT !.enabled = ~@], [accounts[a] EXCEPT !.usable = ~@]} :
       Begin(r, "update", a, row)
  /\ UNCHANGED <<accounts, nextAccount>>

\* Every column is written, the default flag as it was read.
UpdateAccount(r) ==
  /\ At(r, "update")
  /\ accounts' = IF request[r].id \in DOMAIN accounts
                 THEN [accounts EXCEPT ![request[r].id] = request[r].held] ELSE accounts
  /\ Answer(r) /\ UNCHANGED nextAccount

MayDelete(a) == Cardinality(DOMAIN accounts) > 1 /\ a \in DOMAIN accounts

AskDelete(r, a) ==
  /\ MayDelete(a) /\ Begin(r, "delete", a, accounts[a])
  /\ UNCHANGED <<accounts, nextAccount>>

DeleteAccount(r) ==
  /\ At(r, "delete")
  /\ accounts' = [a \in DOMAIN accounts \ {request[r].id} |-> accounts[a]]
  /\ IF request[r].held.default THEN Move(r, "first") ELSE Answer(r)
  /\ UNCHANGED nextAccount

\* The first of the accounts left is the next default.
PickFirst(r) ==
  /\ At(r, "first")
  /\ IF accounts = <<>> THEN Answer(r)
     ELSE /\ request' = [request EXCEPT ![r].pc = "default",
                                        ![r].id = ListAccounts(DOMAIN accounts)[1]]
          /\ UNCHANGED requests
  /\ UNCHANGED <<accounts, nextAccount>>

AccountRequest(r) ==
  \/ CreateAccount(r) \/ AdoptIfFirst(r) \/ SetDefault(r) \/ UpdateAccount(r)
  \/ DeleteAccount(r) \/ PickFirst(r)
  \/ \E a \in DOMAIN accounts : AskDefault(r, a) \/ ReadForUpdate(r, a) \/ AskDelete(r, a)
=============================================================================
