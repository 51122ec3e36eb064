---------------------------- MODULE LegacySplit ----------------------------
(***************************************************************************)
(* Opening the databases (Db::open, db.rs): the rows of the single legacy   *)
(* database are copied into the two new ones, table by table, and the       *)
(* legacy file is renamed.  The copies are separate statements, so the      *)
(* process may end between any two of them; what the next start does is     *)
(* decided by the files it finds.                                           *)
(***************************************************************************)
EXTENDS Naturals, Sequences

VARIABLES
  phase,       \* where the process is: "down", a step of the opening, "serve"
  legacy,      \* the legacy file exists
  backup,      \* it exists under its new name
  mailFile, todoFile,   \* the new files exist
  copied       \* number of legacy tables whose rows are in the new files

openingVars == <<phase, legacy, backup, mailFile, todoFile, copied>>

\* The order of the INSERT ... SELECT statements.
Tables == <<"emails", "accounts", "agent_runs", "kv",
            "items", "send_log", "categories", "approvals">>

\* A first start: with a database of an older version, or with nothing.
OpeningInit ==
  /\ phase = "down" /\ legacy \in BOOLEAN
  /\ backup = FALSE /\ mailFile = FALSE /\ todoFile = FALSE /\ copied = 0

-----------------------------------------------------------------------------
Step(from, to) == phase = from /\ phase' = to

Start ==
  /\ Step("down", "check")
  /\ UNCHANGED <<legacy, backup, mailFile, todoFile, copied>>

\* Mutant of SplitDue: a split that was cut short is tried again.
SplitUntilDone == legacy

SplitDue == legacy /\ ~mailFile /\ ~todoFile

Check ==
  /\ Step("check", IF SplitDue THEN "mail" ELSE "open")
  /\ UNCHANGED <<legacy, backup, mailFile, todoFile, copied>>

CreateMail ==
  /\ Step("mail", "todo") /\ mailFile' = TRUE
  /\ UNCHANGED <<legacy, backup, todoFile, copied>>

CreateTodo ==
  /\ Step("todo", "copy") /\ todoFile' = TRUE /\ copied' = 0
  /\ UNCHANGED <<legacy, backup, mailFile>>

CopyTable ==
  /\ Step("copy", "copy") /\ copied < Len(Tables) /\ copied' = copied + 1
  /\ UNCHANGED <<legacy, backup, mailFile, todoFile>>

Rename ==
  /\ Step("copy", "open") /\ copied = Len(Tables)
  /\ legacy' = FALSE /\ backup' = TRUE
  /\ UNCHANGED <<mailFile, todoFile, copied>>

\* Opening a file that is not there creates it; the schemas are completed.
OpenFiles ==
  /\ Step("open", "seed") /\ mailFile' = TRUE /\ todoFile' = TRUE
  /\ UNCHANGED <<legacy, backup, copied>>

Seed ==
  /\ Step("seed", "serve")
  /\ UNCHANGED <<legacy, backup, mailFile, todoFile, copied>>

\* The process ends: it is killed, or a call fails and main returns the error.
End ==
  /\ phase # "down" /\ phase' = "down"
  /\ UNCHANGED <<legacy, backup, mailFile, todoFile, copied>>
=============================================================================
