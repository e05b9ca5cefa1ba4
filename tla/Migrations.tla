----------------------------- MODULE Migrations -----------------------------
(***************************************************************************)
(* A start of the server, cmd/main.go: runMigrations applies the files of  *)
(* migrations/ that schema_migrations does not list, then syncSchema       *)
(* creates the tables of the models that are still missing, and then the   *)
(* server serves.  Errors are logged and passed over: a failed query       *)
(* counts as 0, a failed file is rolled back and the next one is tried.    *)
(*                                                                         *)
(* A migration is what it needs and what it creates.  All of them use IF   *)
(* NOT EXISTS and ON CONFLICT DO NOTHING, so that one fails where a table  *)
(* is missing, unless the database refuses a statement for reasons of its  *)
(* own; those that insert seed rows do so for a table that syncSchema made *)
(* as well.                                                                *)
(***************************************************************************)
EXTENDS Naturals, Sequences

CONSTANTS
    Files,          \* the files of migrations/, sorted
    Needs,          \* the tables of other files that each file refers to
    Creates,        \* the tables each file creates
    Baseline,       \* the files that count as applied on an existing database
    ModelTables,    \* the tables of the models, orm.RegisterModel
    Faults,         \* the statements that may fail, see below
    MaxFaults,      \* bound on failing statements
    MaxStarts       \* bound on starts of the server

FaultKinds == {"look_for_table", "create_table", "look_for_tickets", "preseed",
               "look_for_file", "transaction", "sync"}

FileNames == {Files[i] : i \in DOMAIN Files}
TablesBefore(i) == UNION {Creates[Files[j]] : j \in 1 .. (i - 1)}
Tables == ModelTables \cup UNION {Creates[f] : f \in FileNames}

(* The files are numbered so that each comes after the ones it refers to.   *)
ASSUME MigrationsAssumption ==
    /\ Files \in Seq(FileNames) /\ Files # <<>>
    /\ \A i \in DOMAIN Files : Needs[Files[i]] \subseteq TablesBefore(i)
    /\ \A i, j \in DOMAIN Files : Files[i] = Files[j] => i = j
    /\ Baseline \subseteq FileNames
    /\ "tickets" \in Tables
    /\ Faults \subseteq FaultKinds
    /\ MaxFaults \in Nat
    /\ MaxStarts \in Nat

VARIABLES
    phase,      \* what the server is doing
    at,         \* the next file to look at
    fresh,      \* freshMigrationTable
    tables,     \* the tables in the database, schema_migrations apart
    tracking,   \* whether schema_migrations exists
    recorded,   \* the files it lists
    faults,     \* failures left
    starts,     \* starts left
    past        \* what happened so far; not in the database

vars == <<phase, at, fresh, tables, tracking, recorded, faults, starts, past>>
database == <<tables, tracking, recorded>>

BaselineTables == UNION {Creates[f] : f \in Baseline}

(* A brand-new database, or one in production since before migrations were  *)
(* tracked.  The past tells whether it was in production, how often each    *)
(* file was committed, whether a statement has failed since the start, and  *)
(* whether schema_migrations could not be looked for or created once.       *)
Init ==
    /\ phase = "down"
    /\ at = 1
    /\ fresh = FALSE
    /\ tracking = FALSE
    /\ recorded = {}
    /\ faults \in 0 .. MaxFaults
    /\ starts = MaxStarts
    /\ \E existing \in BOOLEAN :
          /\ tables = IF existing THEN BaselineTables ELSE {}
          /\ past = [existing |-> existing, commits |-> [f \in FileNames |-> 0],
                     clean |-> TRUE, misled |-> FALSE]

FaultOf(kind) == kind \in Faults /\ faults > 0 /\ faults' = faults - 1

AfterFault(kind) ==
    [past EXCEPT !.clean = FALSE,
                 !.misled = @ \/ kind \in {"look_for_table", "create_table"}]

Fails(kind) == FaultOf(kind) /\ past' = AfterFault(kind)
Succeeds == UNCHANGED <<faults, past>>

Start ==
    /\ phase = "down"
    /\ starts > 0
    /\ starts' = starts - 1
    /\ phase' = "look_for_table"
    /\ past' = [past EXCEPT !.clean = TRUE]
    /\ UNCHANGED <<at, fresh, database, faults>>

LookForTable ==
    /\ phase = "look_for_table"
    /\ \/ Succeeds /\ fresh' = ~tracking
       \/ Fails("look_for_table") /\ fresh' = TRUE
    /\ phase' = "create_table"
    /\ UNCHANGED <<at, database, starts>>

\* Mutant: the files are applied all the same.
TryFiles == "files"

(* runMigrations returns if schema_migrations cannot be created.            *)
WithoutTable == "sync"

CreateTable ==
    /\ phase = "create_table"
    /\ at' = 1
    /\ \/ Succeeds /\ tracking' = TRUE
          /\ phase' = IF fresh THEN "look_for_tickets" ELSE "files"
       \/ Fails("create_table") /\ phase' = WithoutTable /\ UNCHANGED tracking
    /\ UNCHANGED <<fresh, tables, recorded, starts>>

LookForTickets ==
    /\ phase = "look_for_tickets"
    /\ \/ Succeeds /\ phase' = IF "tickets" \in tables THEN "preseed" ELSE "files"
       \/ Fails("look_for_tickets") /\ phase' = "files"
    /\ UNCHANGED <<at, fresh, database, starts>>

GoOn(after) ==
    IF at < Len(Files) THEN at' = at + 1 /\ UNCHANGED phase
                       ELSE at' = 1 /\ phase' = after

Preseed ==
    /\ phase = "preseed"
    /\ IF Files[at] \in Baseline
       THEN \/ Succeeds /\ recorded' = recorded \cup {Files[at]}
            \/ Fails("preseed") /\ UNCHANGED recorded
       ELSE Succeeds /\ UNCHANGED recorded
    /\ GoOn("files")
    /\ UNCHANGED <<fresh, tables, tracking, starts>>

\* Mutant: a second row for a file is no error.
CanCommitAgain(f) == Needs[f] \subseteq tables

(* The statements of a file and its row in schema_migrations, whose primary *)
(* key refuses a file that is there already, are one transaction.           *)
CanCommit(f) == Needs[f] \subseteq tables /\ f \notin recorded

\* Mutant: the file is recorded outside of the transaction.
ApplyAndRecord(f, before) ==
    /\ recorded' = recorded \cup {f}
    /\ tables' = IF CanCommit(f) THEN tables \cup Creates[f] ELSE tables
    /\ past' = IF CanCommit(f) THEN [before EXCEPT !.commits[f] = @ + 1] ELSE before

Apply(f, before) ==
    IF CanCommit(f)
    THEN /\ tables' = tables \cup Creates[f]
         /\ recorded' = recorded \cup {f}
         /\ past' = [before EXCEPT !.commits[f] = @ + 1]
    ELSE UNCHANGED <<tables, recorded>> /\ past' = before

(* Where the look for a file fails, a file that is listed is tried again.   *)
ApplyFile ==
    /\ phase = "files"
    /\ LET f == Files[at] IN
       \/ f \in recorded /\ Succeeds /\ UNCHANGED <<tables, recorded>>
       \/ f \notin recorded /\ Apply(f, past) /\ UNCHANGED faults
       \/ f \in recorded /\ FaultOf("look_for_file") /\ Apply(f, AfterFault("look_for_file"))
       \/ f \notin recorded /\ Fails("transaction") /\ UNCHANGED <<tables, recorded>>
    /\ GoOn("sync")
    /\ UNCHANGED <<fresh, tracking, starts>>

(* RunSyncdb stops at the first table it cannot create.                     *)
SyncSchema ==
    /\ phase = "sync"
    /\ \/ Succeeds /\ tables' = tables \cup ModelTables
       \/ /\ Fails("sync")
          /\ \E some \in SUBSET (ModelTables \ tables) : tables' = tables \cup some
    /\ phase' = "serving"
    /\ UNCHANGED <<at, fresh, tracking, recorded, starts>>

Stop ==
    /\ phase # "down"
    /\ phase' = "down"
    /\ UNCHANGED <<at, fresh, database, faults, starts, past>>

StartStep ==
    \/ LookForTable
    \/ CreateTable
    \/ LookForTickets
    \/ Preseed
    \/ ApplyFile
    \/ SyncSchema
=============================================================================
