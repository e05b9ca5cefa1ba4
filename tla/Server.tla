------------------------------- MODULE Server -------------------------------
(***************************************************************************)
(* The life of the server process: it migrates the database at every start *)
(* (Migrations), then works for the connected Google account (OAuthToken)  *)
(* in the table that the migrations or the schema sync created, and stops  *)
(* at any time, in the middle of a start as well.                          *)
(***************************************************************************)
EXTENDS Migrations

CONSTANTS
    Accounts, Admins, Clients, MaxTokens, MaxTurns,
    MaxEvents       \* bound on failing statements and turns together

VARIABLES token, lastToken, session, consent, client, chosen, lost, turns

accountVars == <<token, lastToken, session, consent, client, chosen, lost, turns>>
serverVars == <<vars, accountVars>>

Account == INSTANCE OAuthToken WITH hasTable <- "google_tokens" \in tables

ASSUME ServerAssumption == Account!TokenAssumption /\ MaxEvents \in Nat

ServerInit == Init /\ Account!Init /\ faults + turns = MaxEvents

StartUp == (Start \/ StartStep) /\ UNCHANGED accountVars

Work ==
    /\ phase = "serving"
    /\ Account!AccountStep
    /\ UNCHANGED vars

StopServer == Stop /\ Account!Restart

Next == StartUp \/ Work \/ StopServer

Spec == ServerInit /\ [][Next]_serverVars

----------------------------------------------------------------------------
Phases == {"down", "look_for_table", "create_table", "look_for_tickets", "preseed",
           "files", "sync", "serving"}

Savers == [pc : {"source", "delete", "insert"}, account : Accounts,
           from : {"pass", "callback"}, late : BOOLEAN]

(* The types; schema_migrations lists nothing before it exists.             *)
TypeOK ==
    /\ phase \in Phases
    /\ at \in 1 .. Len(Files)
    /\ fresh \in BOOLEAN
    /\ tables \subseteq Tables
    /\ tracking \in BOOLEAN
    /\ recorded \subseteq (IF tracking THEN FileNames ELSE {})
    /\ faults \in 0 .. MaxFaults
    /\ starts \in 0 .. MaxStarts
    /\ past \in [existing : BOOLEAN, commits : [FileNames -> Nat], clean : BOOLEAN,
                 misled : BOOLEAN]
    /\ lastToken \in 0 .. MaxTokens
    /\ DOMAIN token \subseteq 1 .. lastToken
    /\ \A id \in DOMAIN token : token[id] \in [account : Accounts, late : BOOLEAN]
    /\ session \in [Admins -> 0 .. MaxTurns]
    /\ consent \in [Admins -> 0 .. MaxTurns]
    /\ client \in [Clients -> {Account!Idle} \cup Savers]
    /\ chosen \in Accounts \cup {Account!NoAccount}
    /\ lost \in BOOLEAN
    /\ turns \in 0 .. MaxTurns

(* Whatever fails and wherever a start is cut short, no migration is        *)
(* committed twice, even if the look for it in schema_migrations fails, and *)
(* one that is committed is recorded and has left its tables.               *)
AppliedOnce ==
    \A f \in FileNames :
       /\ past.commits[f] <= 1
       /\ past.commits[f] = 1 => f \in recorded /\ Creates[f] \subseteq tables

(* However earlier starts failed or stopped, one without a failure leaves   *)
(* no migration behind: all are recorded, and all were committed but for    *)
(* the baseline of a database that existed before.  That a brand-new        *)
(* database is taken for an existing one, and never seeded, takes a failure *)
(* to look for or to create schema_migrations at some time.                 *)
CleanStartCatchesUp ==
    phase = "serving" /\ past.clean /\ ~past.misled =>
       \A f \in FileNames :
          /\ f \in recorded
          /\ past.commits[f] = 1 \/ (past.existing /\ f \in Baseline)

(* "On an existing production DB, the runner automatically detects          *)
(* pre-existing tables and skips old migrations" (README.md:124).           *)
SkipsOldMigrations == past.existing => \A f \in Baseline : past.commits[f] = 0

(* Once an account is connected its token is there, through renewals by     *)
(* passes, further logins, restarts and schema syncs, but while a save is   *)
(* between its two statements or after one ended there.                     *)
StaysConnected ==
    chosen # Account!NoAccount /\ ~lost =>
       Account!HasToken \/ \E c \in Clients : client[c].pc = "insert"

(* The sheets are used with the account that was connected last, and with   *)
(* none once a disconnect has emptied the table; one whose DELETE fails     *)
(* leaves the account in use, though the admin is told otherwise.  Another  *)
(* account, or an account after the table was emptied, comes only from a    *)
(* pass that got its token before and renewed it late.                      *)
UsesTheChosenAccount ==
    Account!HasToken => Account!Latest.account = chosen \/ Account!Latest.late
=============================================================================
