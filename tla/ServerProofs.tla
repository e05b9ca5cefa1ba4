---------------------------- MODULE ServerProofs ----------------------------
(***************************************************************************)
(* For any migrations, failures and stops, and for any number of accounts, *)
(* administrators, passes and saves: no migration is committed twice, a    *)
(* start without a failure leaves none behind, a connected account stays   *)
(* connected, and the sheets are used with the account connected last.     *)
(***************************************************************************)
EXTENDS Server, TLAPS

(* The sequence of the files, with its indices. *)
LEMMA FileFacts ==
    /\ Len(Files) \in Nat \ {0} /\ DOMAIN Files = 1 .. Len(Files)
    /\ \A i \in 1 .. Len(Files) : Files[i] \in FileNames
    /\ \A f \in FileNames : \E i \in 1 .. Len(Files) : f = Files[i]
BY MigrationsAssumption DEF MigrationsAssumption, FileNames

(* What a step of the account does is to its variables alone, and a step of *)
(* a start leaves them as they are.                                         *)
LEMMA Steps ==
    ASSUME [Next]_serverVars
    PROVE  \/ Start /\ UNCHANGED accountVars
           \/ StartStep /\ UNCHANGED accountVars
           \/ phase = "serving" /\ Account!AccountStep /\ UNCHANGED vars
           \/ Stop /\ Account!Restart
           \/ UNCHANGED serverVars
BY DEF Next, StartUp, Work, StopServer

----------------------------------------------------------------------------
(* Past the creation of schema_migrations the table is there. *)
TrackingInv == phase \in {"look_for_tickets", "preseed", "files"} => tracking

(* The row inserted last is there unless all are deleted. *)
NewestInv == token = <<>> \/ lastToken \in DOMAIN token

StartTypes ==
    /\ phase \in Phases
    /\ at \in 1 .. Len(Files)
    /\ fresh \in BOOLEAN
    /\ tables \subseteq Tables
    /\ tracking \in BOOLEAN
    /\ recorded \subseteq (IF tracking THEN FileNames ELSE {})
    /\ faults \in 0 .. MaxFaults
    /\ starts \in 0 .. MaxStarts
    /\ past \in [existing : BOOLEAN, commits : [FileNames -> Nat], clean : BOOLEAN,
                 misled : BOOLEAN]
    /\ TrackingInv

AccountTypes ==
    /\ lastToken \in 0 .. MaxTokens
    /\ DOMAIN token \subseteq 1 .. lastToken
    /\ \A id \in DOMAIN token : token[id] \in [account : Accounts, late : BOOLEAN]
    /\ session \in [Admins -> 0 .. MaxTurns]
    /\ consent \in [Admins -> 0 .. MaxTurns]
    /\ client \in [Clients -> {Account!Idle} \cup Savers]
    /\ chosen \in Accounts \cup {Account!NoAccount}
    /\ lost \in BOOLEAN
    /\ turns \in 0 .. MaxTurns
    /\ NewestInv

LEMMA SplitTypes == TypeOK /\ TrackingInv /\ NewestInv <=> StartTypes /\ AccountTypes
BY DEF TypeOK, StartTypes, AccountTypes

PastTypes == [existing : BOOLEAN, commits : [FileNames -> Nat], clean : BOOLEAN,
              misled : BOOLEAN]

(* A fault is one less, and the past tells of it. *)
LEMMA FaultTypes ==
    ASSUME StartTypes, NEW kind, Succeeds \/ Fails(kind)
    PROVE  /\ faults' \in 0 .. MaxFaults
           /\ past' \in PastTypes
           /\ past'.existing = past.existing /\ past'.commits = past.commits
           /\ past'.clean => past.clean /\ Succeeds
           /\ ~past'.misled =>
                 ~past.misled /\ (Succeeds \/ kind \notin {"look_for_table", "create_table"})
<1>1. past \in PastTypes /\ faults \in 0 .. MaxFaults
  BY DEF StartTypes, PastTypes
<1>2. CASE Succeeds
  BY <1>1, <1>2 DEF Succeeds
<1>3. CASE Fails(kind)
  <2>1. faults' \in 0 .. MaxFaults
    BY <1>1, <1>3, MigrationsAssumption DEF Fails, FaultOf, MigrationsAssumption
  <2> DEFINE misled == past.misled \/ kind \in {"look_for_table", "create_table"}
  <2>2. past' = [past EXCEPT !.clean = FALSE, !.misled = misled]
    BY <1>1, <1>3 DEF Fails, AfterFault, PastTypes
  <2>3. misled \in BOOLEAN
    OBVIOUS
  <2> HIDE DEF misled
  <2>4. /\ past' \in PastTypes /\ past'.misled = misled /\ past'.clean = FALSE
        /\ past'.existing = past.existing /\ past'.commits = past.commits
    BY <1>1, <2>2, <2>3 DEF PastTypes
  <2> QED BY <2>1, <2>4 DEF misled
<1> QED BY <1>2, <1>3

(* The types hold of the database before the first start. *)
LEMMA InitTypes == ServerInit => StartTypes /\ AccountTypes
<1> SUFFICES ASSUME ServerInit PROVE StartTypes /\ AccountTypes
  OBVIOUS
<1>1. StartTypes
  <2>1. BaselineTables \subseteq Tables
    BY MigrationsAssumption DEF MigrationsAssumption, BaselineTables, Tables
  <2>2. past \in PastTypes
    BY DEF ServerInit, Init, PastTypes
  <2>3. tables \subseteq Tables
    BY <2>1 DEF ServerInit, Init
  <2>4. at \in 1 .. Len(Files) /\ starts \in 0 .. MaxStarts
    BY FileFacts, MigrationsAssumption DEF ServerInit, Init, MigrationsAssumption
  <2> QED BY <2>2, <2>3, <2>4
       DEF ServerInit, Init, StartTypes, PastTypes, Phases, TrackingInv
<1>2. AccountTypes
  <2>1. Account!Init /\ MaxTokens \in Nat /\ MaxTurns \in Nat
    BY ServerAssumption DEF ServerInit, ServerAssumption, Account!TokenAssumption
  <2>2. DOMAIN token = {}
    BY <2>1 DEF Account!Init
  <2>3. client \in [Clients -> {Account!Idle} \cup Savers]
    BY <2>1 DEF Account!Init
  <2>4. lastToken = 0 /\ turns \in 0 .. MaxTurns /\ lost = FALSE
    BY <2>1 DEF Account!Init
  <2>5. session \in [Admins -> 0 .. MaxTurns] /\ consent \in [Admins -> 0 .. MaxTurns]
    BY <2>1 DEF Account!Init, Account!NoState
  <2>6. chosen \in Accounts \cup {Account!NoAccount}
    BY <2>1 DEF Account!Init
  <2>7. lastToken \in 0 .. MaxTokens
    BY <2>1, <2>4
  <2>8. DOMAIN token \subseteq 1 .. lastToken
    BY <2>2
  <2>9. \A id \in DOMAIN token : token[id] \in [account : Accounts, late : BOOLEAN]
    BY <2>2
  <2>10. lost \in BOOLEAN
    BY <2>4
  <2>11. token = <<>>
    BY <2>1 DEF Account!Init
  <2> QED BY <2>3, <2>4, <2>5, <2>6, <2>7, <2>8, <2>9, <2>10, <2>11 DEF AccountTypes, NewestInv
<1> QED BY <1>1, <1>2

(* A step of the start keeps its types; the tables only become more. *)
LEMMA StartStepTypes ==
    ASSUME StartTypes, Start \/ StartStep
    PROVE  StartTypes' /\ tables \subseteq tables'
<1> USE DEF StartTypes, Phases, TrackingInv
<1>1. past \in PastTypes
  BY DEF PastTypes
<1>2. CASE Start
  <2>1. [past EXCEPT !.clean = TRUE] \in PastTypes
    BY <1>1 DEF PastTypes
  <2>2. starts' \in 0 .. MaxStarts
    BY <1>2, MigrationsAssumption DEF Start, MigrationsAssumption
  <2> QED BY <1>2, <2>1, <2>2 DEF Start, database, PastTypes
<1>3. CASE LookForTable
  <2>1. Succeeds \/ Fails("look_for_table")
    BY <1>3 DEF LookForTable
  <2> QED BY <1>3, <2>1, FaultTypes DEF LookForTable, database, PastTypes
<1>4. CASE CreateTable
  <2>1. Succeeds \/ Fails("create_table")
    BY <1>4 DEF CreateTable
  <2>2. /\ faults' \in 0 .. MaxFaults /\ past' \in PastTypes /\ at' \in 1 .. Len(Files)
        /\ UNCHANGED <<fresh, tables, recorded, starts>>
    <3>1. faults' \in 0 .. MaxFaults /\ past' \in PastTypes
      BY <2>1, FaultTypes
    <3>2. at' = 1 /\ UNCHANGED <<fresh, tables, recorded, starts>>
      BY <1>4 DEF CreateTable
    <3>3. 1 \in 1 .. Len(Files)
      BY FileFacts
    <3> QED BY <3>1, <3>2, <3>3
  <2>3. /\ phase' \in {"look_for_tickets", "files", "sync"}
        /\ tracking' = TRUE \/ (phase' = "sync" /\ tracking' = tracking)
    BY <1>4 DEF CreateTable, WithoutTable
  <2>4. tracking' \in BOOLEAN
    BY <2>3
  <2>5. recorded' \subseteq (IF tracking' THEN FileNames ELSE {})
    <3>1. CASE tracking'
      <4>1. recorded \subseteq FileNames
        OBVIOUS
      <4> QED BY <2>2, <3>1, <4>1
    <3>2. CASE ~tracking'
      <4>1. tracking' = tracking
        BY <2>3, <3>2
      <4> QED BY <2>2, <3>2, <4>1
    <3> QED BY <3>1, <3>2
  <2>6. TrackingInv'
    BY <2>3
  <2> QED BY <2>2, <2>3, <2>4, <2>5, <2>6 DEF PastTypes
<1>5. CASE LookForTickets
  <2>1. Succeeds \/ Fails("look_for_tickets")
    BY <1>5 DEF LookForTickets
  <2> QED BY <1>5, <2>1, FaultTypes DEF LookForTickets, database, PastTypes
<1>6. ASSUME NEW after \in {"files", "sync"}, GoOn(after)
      PROVE  at' \in 1 .. Len(Files) /\ phase' \in {phase, after}
  BY <1>6, FileFacts DEF GoOn
<1>7. Files[at] \in FileNames
  BY FileFacts
<1>8. CASE Preseed
  <2>1. Succeeds \/ Fails("preseed")
    BY <1>8 DEF Preseed
  <2>2. /\ faults' \in 0 .. MaxFaults /\ past' \in PastTypes
        /\ recorded' \subseteq recorded \cup {Files[at]}
        /\ UNCHANGED <<fresh, tables, tracking, starts>>
    BY <1>8, <2>1, FaultTypes DEF Preseed
  <2>3. tracking /\ at' \in 1 .. Len(Files) /\ phase' \in {"preseed", "files"}
    BY <1>6, <1>8 DEF Preseed
  <2> QED BY <1>7, <2>2, <2>3 DEF PastTypes
<1>9. ASSUME NEW f \in FileNames, NEW before \in PastTypes, Apply(f, before), tracking
      PROVE  /\ past' \in PastTypes
             /\ tables \subseteq tables' /\ tables' \subseteq Tables
             /\ recorded' \subseteq FileNames
  <2>1. Creates[f] \subseteq Tables
    BY DEF Tables
  <2>2. [before EXCEPT !.commits[f] = @ + 1] \in PastTypes
    <3>1. [before.commits EXCEPT ![f] = @ + 1] \in [FileNames -> Nat]
      BY DEF PastTypes
    <3>2. [before EXCEPT !.commits = [before.commits EXCEPT ![f] = @ + 1]] \in PastTypes
      BY <3>1 DEF PastTypes
    <3> QED BY <3>2
  <2> QED BY <1>1, <1>9, <2>1, <2>2 DEF Apply
<1>10. CASE ApplyFile
  <2> DEFINE f == Files[at]
  <2>1. tracking /\ UNCHANGED <<fresh, tracking, starts>> /\ GoOn("sync")
    BY <1>10 DEF ApplyFile
  <2>2. /\ past' \in PastTypes /\ faults' \in 0 .. MaxFaults
        /\ tables \subseteq tables' /\ tables' \subseteq Tables
        /\ recorded' \subseteq FileNames
    <3>1. CASE Succeeds /\ UNCHANGED <<tables, recorded>>
      BY <1>1, <2>1, <3>1 DEF Succeeds
    <3>2. CASE Apply(f, past) /\ UNCHANGED faults
      BY <1>1, <1>7, <1>9, <2>1, <3>2
    <3>3. CASE FaultOf("look_for_file") /\ Apply(f, AfterFault("look_for_file"))
      <4>1. AfterFault("look_for_file") \in PastTypes
        BY <1>1 DEF AfterFault, PastTypes
      <4>2. faults' \in 0 .. MaxFaults
        BY <3>3, MigrationsAssumption DEF FaultOf, MigrationsAssumption
      <4> QED BY <1>7, <1>9, <2>1, <3>3, <4>1, <4>2
    <3>4. CASE Fails("transaction") /\ UNCHANGED <<tables, recorded>>
      BY <2>1, <3>4, FaultTypes
    <3> QED BY <1>10, <3>1, <3>2, <3>3, <3>4 DEF ApplyFile
  <2> QED BY <1>6, <1>10, <2>1, <2>2 DEF ApplyFile, PastTypes
<1>11. CASE SyncSchema
  <2>1. Succeeds \/ Fails("sync")
    BY <1>11 DEF SyncSchema
  <2>2. tables \subseteq tables' /\ tables' \subseteq Tables
    BY <1>11 DEF SyncSchema, Tables
  <2> QED BY <1>11, <2>1, <2>2, FaultTypes DEF SyncSchema, PastTypes
<1> QED BY <1>2, <1>3, <1>4, <1>5, <1>8, <1>10, <1>11 DEF StartStep

(* A client that is not idle is a save or a token source. *)
LEMMA BusyClient ==
    ASSUME AccountTypes, NEW c \in Clients
    PROVE  /\ client[c] # Account!Idle <=> client[c] \in Savers
           /\ client[c] # Account!Idle <=> client[c].pc \in {"source", "delete", "insert"}
BY DEF AccountTypes, Account!Idle, Savers

(* A client's next state is a saver or idle again. *)
LEMMA NextClient ==
    ASSUME AccountTypes, NEW c \in Clients, NEW doing \in {Account!Idle} \cup Savers,
           Account!Become(c, doing)
    PROVE  client' \in [Clients -> {Account!Idle} \cup Savers]
BY DEF AccountTypes, Account!Become

LEMMA OutdatedTypes ==
    ASSUME AccountTypes, NEW account
    PROVE  Account!Outdated(account) \in [Clients -> {Account!Idle} \cup Savers]
<1>1. \A d \in Savers : [d EXCEPT !.late = TRUE] \in Savers
  BY DEF Savers
<1> QED BY <1>1, BusyClient DEF AccountTypes, Account!Outdated

LEMMA SavedTypes ==
    ASSUME NEW doing \in Savers
    PROVE  Account!Saved(doing) \in {Account!Idle} \cup Savers
BY DEF Savers, Account!Saved

LEMMA TurnTypes == AccountTypes /\ Account!Turn => turns' \in 0 .. MaxTurns
BY ServerAssumption
   DEF AccountTypes, Account!Turn, ServerAssumption, Account!TokenAssumption

(* The latest row is the one inserted last. *)
LEMMA LatestIsNewest ==
    ASSUME AccountTypes, token # <<>>
    PROVE  /\ lastToken \in DOMAIN token /\ Account!Latest = token[lastToken]
           /\ Account!Latest \in [account : Accounts, late : BOOLEAN]
<1>1. lastToken \in DOMAIN token /\ \A other \in DOMAIN token : other <= lastToken
  BY DEF AccountTypes, NewestInv
<1>2. \A id \in DOMAIN token : (\A other \in DOMAIN token : other <= id) => id = lastToken
  BY <1>1 DEF AccountTypes
<1>3. Account!Latest = token[lastToken]
  BY <1>1, <1>2 DEF Account!Latest
<1> QED BY <1>1, <1>3 DEF AccountTypes

LEMMA AccountStepTypes ==
    ASSUME AccountTypes, Account!AccountStep \/ Account!Restart
    PROVE  AccountTypes'
<1> USE DEF AccountTypes, NewestInv
<1>1. ASSUME NEW a \in Admins, Account!GoogleConnect(a) PROVE AccountTypes'
  BY <1>1, TurnTypes DEF Account!GoogleConnect
<1>2. ASSUME NEW c \in Clients, NEW a \in Admins, Account!GoogleCallback(c, a)
      PROVE  AccountTypes'
  <2>1. client' \in [Clients -> {Account!Idle} \cup Savers]
    <3>1. ASSUME NEW account \in Accounts
          PROVE  [pc |-> "delete", account |-> account, from |-> "callback", late |-> FALSE]
                     \in Savers
      BY DEF Savers
    <3> QED BY <1>2, <3>1, NextClient DEF Account!GoogleCallback
  <2>2. session' \in [Admins -> 0 .. MaxTurns] /\ consent' \in [Admins -> 0 .. MaxTurns]
    <3>1. 0 \in 0 .. MaxTurns
      BY ServerAssumption DEF ServerAssumption, Account!TokenAssumption
    <3> QED BY <1>2, <3>1 DEF Account!GoogleCallback, Account!NoState
  <2> QED BY <1>2, <2>1, <2>2 DEF Account!GoogleCallback
<1>3. CASE Account!GoogleDisconnect
  <2>1. client' = client \/ client' \in [Clients -> {Account!Idle} \cup Savers]
    BY <1>3, OutdatedTypes DEF Account!GoogleDisconnect
  <2>2. token' = token \/ (token' = <<>> /\ DOMAIN token' = {})
    BY <1>3 DEF Account!GoogleDisconnect
  <2> QED BY <1>3, <2>1, <2>2, TurnTypes DEF Account!GoogleDisconnect
<1>4. ASSUME NEW c \in Clients, Account!Renew(c) \/ Account!EndPass(c)
      PROVE  AccountTypes'
  <2>1. ASSUME client[c] \in Savers PROVE [client[c] EXCEPT !.pc = "delete"] \in Savers
    BY <2>1 DEF Savers
  <2>2. client' \in [Clients -> {Account!Idle} \cup Savers]
    BY <1>4, <2>1, BusyClient, NextClient DEF Account!Renew, Account!EndPass
  <2> QED BY <1>4, <2>2 DEF Account!Renew, Account!EndPass
<1>5. ASSUME NEW c \in Clients, Account!DeleteRows(c) PROVE AccountTypes'
  <2>1. client[c] \in Savers
    BY <1>5, BusyClient DEF Account!DeleteRows
  <2>2. [client[c] EXCEPT !.pc = "insert"] \in Savers
    BY <2>1 DEF Savers
  <2>3. client' \in [Clients -> {Account!Idle} \cup Savers]
    BY <1>5, <2>2, NextClient DEF Account!DeleteRows
  <2>4. token' = <<>> /\ DOMAIN token' = {}
    BY <1>5 DEF Account!DeleteRows
  <2> QED BY <1>5, <2>3, <2>4 DEF Account!DeleteRows
<1>6. ASSUME NEW c \in Clients, Account!InsertRow(c) PROVE AccountTypes'
  <2> DEFINE doing == client[c]
             callback == doing.from = "callback"
             new == lastToken + 1
             others == IF callback THEN Account!Outdated(doing.account) ELSE client
  <2>1. doing \in Savers
    BY <1>6, BusyClient DEF Account!InsertRow
  <2>2. others \in [Clients -> {Account!Idle} \cup Savers]
    BY OutdatedTypes
  <2>3. client' \in [Clients -> {Account!Idle} \cup Savers]
    BY <1>6, <2>1, <2>2, SavedTypes DEF Account!InsertRow
  <2>4. lastToken' = new /\ lastToken' \in 0 .. MaxTokens
    BY <1>6, ServerAssumption
       DEF Account!InsertRow, ServerAssumption, Account!TokenAssumption
  <2>5. [account |-> doing.account, late |-> ~callback /\ doing.late]
            \in [account : Accounts, late : BOOLEAN]
    BY <2>1 DEF Savers
  <2>6. /\ DOMAIN token' = DOMAIN token \cup {new}
        /\ \A id \in DOMAIN token' : token'[id] \in [account : Accounts, late : BOOLEAN]
    BY <1>6, <2>5 DEF Account!InsertRow
  <2>7. DOMAIN token' \subseteq 1 .. lastToken'
    BY <2>4, <2>6
  <2>8. chosen' \in Accounts \cup {Account!NoAccount} /\ lost' = FALSE
    BY <1>6, <2>1 DEF Account!InsertRow, Savers
  <2> QED BY <1>6, <2>3, <2>4, <2>6, <2>7, <2>8 DEF Account!InsertRow
<1>7. ASSUME NEW c \in Clients, Account!InsertFails(c) PROVE AccountTypes'
  <2>1. client' \in [Clients -> {Account!Idle} \cup Savers]
    BY <1>7, BusyClient, SavedTypes, NextClient DEF Account!InsertFails
  <2> QED BY <1>7, <2>1 DEF Account!InsertFails
<1>8. CASE Account!Restart
  <2>1. 0 \in 0 .. MaxTurns
    BY ServerAssumption DEF ServerAssumption, Account!TokenAssumption
  <2>2. lost' \in BOOLEAN
    BY <1>8 DEF Account!Restart
  <2> QED BY <1>8, <2>1, <2>2 DEF Account!Restart, Account!NoState
<1>9. ASSUME NEW c \in Clients, Account!TokenSource(c) PROVE AccountTypes'
  <2>1. Account!Latest \in [account : Accounts, late : BOOLEAN]
    BY <1>9, LatestIsNewest DEF Account!TokenSource, Account!HasToken
  <2>2. [pc |-> "source", account |-> Account!Latest.account, from |-> "pass",
         late |-> Account!Latest.late] \in Savers
    BY <2>1 DEF Savers
  <2>3. client' \in [Clients -> {Account!Idle} \cup Savers]
    BY <1>9, <2>2, NextClient DEF Account!TokenSource
  <2> QED BY <1>9, <2>3, TurnTypes DEF Account!TokenSource
<1>10. ASSUME NEW c \in Clients, Account!DeleteFails(c) PROVE AccountTypes'
  <2>1. client' \in [Clients -> {Account!Idle} \cup Savers]
    BY <1>10, BusyClient, SavedTypes, NextClient DEF Account!DeleteFails
  <2> QED BY <1>10, <2>1 DEF Account!DeleteFails
<1> QED
  BY <1>1, <1>2, <1>3, <1>4, <1>5, <1>6, <1>7, <1>8, <1>9, <1>10 DEF Account!AccountStep

(* What a start may do to the past and to the database: rows and tables     *)
(* stay, and a commit is of a file that was not recorded.                   *)
LEMMA StartStepEffects ==
    ASSUME StartTypes, Start \/ StartStep
    PROVE  /\ tables \subseteq tables' /\ recorded \subseteq recorded'
           /\ past'.existing = past.existing
           /\ ~past'.misled => ~past.misled
           /\ \/ past'.commits = past.commits
              \/ \E f \in FileNames :
                    /\ f \notin recorded /\ f \in recorded'
                    /\ Creates[f] \subseteq tables'
                    /\ past'.commits = [past.commits EXCEPT ![f] = @ + 1]
<1> USE DEF PastTypes
<1>1. tables \subseteq tables'
  BY StartStepTypes
<1>2. past \in PastTypes /\ Files[at] \in FileNames
  BY FileFacts DEF StartTypes
<1>3. ASSUME NEW kind, Succeeds \/ Fails(kind), recorded \subseteq recorded'
      PROVE  /\ recorded \subseteq recorded' /\ past'.existing = past.existing
             /\ ~past'.misled => ~past.misled
             /\ past'.commits = past.commits
  BY <1>3, FaultTypes
<1>4. CASE Start
  <2>1. past' = [past EXCEPT !.clean = TRUE] /\ recorded' = recorded
    BY <1>4 DEF Start, database
  <2> QED BY <1>1, <1>2, <2>1
<1>5. CASE LookForTable
  <2>1. (Succeeds \/ Fails("look_for_table")) /\ recorded \subseteq recorded'
    BY <1>5 DEF LookForTable, database
  <2> QED BY <1>1, <1>3, <2>1
<1>6. CASE CreateTable
  <2>1. (Succeeds \/ Fails("create_table")) /\ recorded \subseteq recorded'
    BY <1>6 DEF CreateTable
  <2> QED BY <1>1, <1>3, <2>1
<1>7. CASE LookForTickets
  <2>1. (Succeeds \/ Fails("look_for_tickets")) /\ recorded \subseteq recorded'
    BY <1>7 DEF LookForTickets, database
  <2> QED BY <1>1, <1>3, <2>1
<1>8. CASE Preseed
  <2>1. (Succeeds \/ Fails("preseed")) /\ recorded \subseteq recorded'
    BY <1>8 DEF Preseed
  <2> QED BY <1>1, <1>3, <2>1
<1>9. CASE SyncSchema
  <2>1. (Succeeds \/ Fails("sync")) /\ recorded \subseteq recorded'
    BY <1>9 DEF SyncSchema
  <2> QED BY <1>1, <1>3, <2>1
<1>10. CASE ApplyFile
  <2> DEFINE f == Files[at]
  <2>1. ASSUME NEW before \in PastTypes, Apply(f, before),
               before.existing = past.existing, before.commits = past.commits,
               before.misled = past.misled
        PROVE  /\ recorded \subseteq recorded' /\ past'.existing = past.existing
               /\ past'.misled = past.misled
               /\ \/ past'.commits = past.commits
                  \/ /\ f \notin recorded /\ f \in recorded'
                     /\ Creates[f] \subseteq tables'
                     /\ past'.commits = [past.commits EXCEPT ![f] = @ + 1]
    <3>1. CASE CanCommit(f)
      <4>1. past' = [before EXCEPT !.commits = [before.commits EXCEPT ![f] = @ + 1]]
        BY <2>1, <3>1 DEF Apply
      <4>2. /\ past'.existing = past.existing /\ past'.misled = past.misled
            /\ past'.commits = [past.commits EXCEPT ![f] = @ + 1]
        BY <2>1, <4>1
      <4>3. f \notin recorded /\ recorded' = recorded \cup {f} /\ tables' = tables \cup Creates[f]
        BY <2>1, <3>1 DEF Apply, CanCommit
      <4> QED BY <4>2, <4>3
    <3>2. CASE ~CanCommit(f)
      BY <2>1, <3>2 DEF Apply
    <3> QED BY <3>1, <3>2
  <2>2. CASE (Succeeds \/ Fails("transaction")) /\ UNCHANGED recorded
    BY <1>1, <1>3, <2>2
  <2>3. CASE Apply(f, past)
    BY <1>1, <1>2, <2>1, <2>3
  <2>4. CASE Apply(f, AfterFault("look_for_file"))
    <3> DEFINE before == AfterFault("look_for_file")
    <3>1. before = [past EXCEPT !.clean = FALSE, !.misled = past.misled]
      BY <1>2 DEF AfterFault
    <3>2. /\ before \in PastTypes /\ before.existing = past.existing
          /\ before.commits = past.commits /\ before.misled = past.misled
      BY <1>2, <3>1
    <3> QED BY <1>1, <1>2, <2>1, <2>4, <3>2
  <2> QED BY <1>10, <2>2, <2>3, <2>4 DEF ApplyFile
<1> QED BY <1>4, <1>5, <1>6, <1>7, <1>8, <1>9, <1>10 DEF StartStep

(* A migration of the files is committed at most once. *)
LEMMA AppliedOnceStep ==
    ASSUME StartTypes, AppliedOnce, Start \/ StartStep
    PROVE  AppliedOnce'
<1>1. CASE past'.commits = past.commits
  BY <1>1, StartStepEffects DEF AppliedOnce
<1>2. ASSUME NEW f \in FileNames, f \notin recorded, f \in recorded', Creates[f] \subseteq tables',
             past'.commits = [past.commits EXCEPT ![f] = @ + 1]
      PROVE  AppliedOnce'
  <2>1. past.commits \in [FileNames -> Nat]
    BY DEF StartTypes
  <2>2. past.commits[f] = 0
    BY <1>2, <2>1 DEF AppliedOnce
  <2>3. /\ past'.commits[f] = 1
        /\ \A g \in FileNames \ {f} : past'.commits[g] = past.commits[g]
    BY <1>2, <2>1, <2>2
  <2>4. ASSUME NEW g \in FileNames
        PROVE  /\ past'.commits[g] <= 1
               /\ past'.commits[g] = 1 => g \in recorded' /\ Creates[g] \subseteq tables'
    BY <1>2, <2>3, StartStepEffects DEF AppliedOnce
  <2> QED BY <2>4 DEF AppliedOnce
<1> QED BY <1>1, <1>2, StartStepEffects

----------------------------------------------------------------------------
(* Why a start without a failure catches up.  Until schema_migrations is    *)
(* there the database is the one it was before the first start, so that an  *)
(* existing one is told from a new one; what is recorded has its tables;    *)
(* and a start that has not failed has recorded all files before its next,  *)
(* because the tables that one needs are those of the files before it.      *)
UntrackedInv ==
    /\ ~tracking =>
          /\ phase \in {"down", "look_for_table", "create_table"}
          /\ tables = IF past.existing THEN BaselineTables ELSE {}
    /\ phase = "create_table" => fresh = ~tracking
    /\ phase = "look_for_tickets" => past.existing \/ "tickets" \notin tables
    /\ phase = "preseed" => past.existing

Accounted(f) ==
    /\ Creates[f] \subseteq tables
    /\ past.commits[f] = 1 \/ (past.existing /\ f \in Baseline)

ProgressInv ==
    past.clean =>
       /\ phase = "files" => \A i \in 1 .. (at - 1) : Files[i] \in recorded
       /\ phase \in {"sync", "serving"} => FileNames \subseteq recorded

CatchUpInv ==
    /\ phase = "look_for_tickets" => at = 1
    /\ past.existing => BaselineTables \subseteq tables
    /\ ~past.misled =>
          /\ UntrackedInv
          /\ \A f \in recorded : Accounted(f)
          /\ ProgressInv

LEMMA CatchUpInit == ServerInit => CatchUpInv
BY DEF ServerInit, Init, CatchUpInv, UntrackedInv, ProgressInv

(* A failure shows in the past. *)
LEMMA FailureShows ==
    ASSUME StartTypes, NEW kind
    PROVE  /\ AfterFault(kind) \in PastTypes /\ AfterFault(kind).clean = FALSE
           /\ AfterFault(kind).existing = past.existing
           /\ AfterFault(kind).commits = past.commits
           /\ kind \in {"look_for_table", "create_table"} => AfterFault(kind).misled
<1> DEFINE misled == past.misled \/ kind \in {"look_for_table", "create_table"}
<1>1. AfterFault(kind) = [past EXCEPT !.clean = FALSE, !.misled = misled]
  BY DEF AfterFault, StartTypes
<1>2. misled \in BOOLEAN
  OBVIOUS
<1> HIDE DEF misled
<1>3. /\ AfterFault(kind) \in PastTypes /\ AfterFault(kind).clean = FALSE
      /\ AfterFault(kind).existing = past.existing
      /\ AfterFault(kind).commits = past.commits
      /\ AfterFault(kind).misled = misled
  BY <1>1, <1>2 DEF StartTypes, PastTypes
<1> QED BY <1>3 DEF misled

LEMMA UntrackedStep ==
    ASSUME StartTypes, CatchUpInv, StartStep, ~past'.misled
    PROVE  UntrackedInv'
<1> USE DEF UntrackedInv
<1>1. ~past.misled /\ past'.existing = past.existing /\ UntrackedInv
  BY StartStepEffects DEF CatchUpInv
<1>2. CASE LookForTable
  <2>1. fresh' = ~tracking
    BY <1>2, FailureShows DEF LookForTable, Fails
  <2> QED BY <1>1, <1>2, <2>1 DEF LookForTable, database
<1>3. CASE CreateTable
  <2>1. tracking' = TRUE /\ phase' = IF fresh THEN "look_for_tickets" ELSE "files"
    BY <1>3, FailureShows DEF CreateTable, Fails
  <2>2. ~tracking => past.existing \/ "tickets" \notin tables
    BY <1>1
  <2> QED BY <1>1, <1>3, <2>1, <2>2 DEF CreateTable
<1>4. CASE LookForTickets
  BY <1>1, <1>4 DEF LookForTickets, database
<1>5. CASE Preseed
  BY <1>1, <1>5 DEF Preseed, GoOn
<1>6. CASE ApplyFile
  BY <1>1, <1>6 DEF ApplyFile, GoOn, StartTypes, TrackingInv
<1>7. CASE SyncSchema
  BY <1>1, <1>7 DEF SyncSchema
<1> QED BY <1>2, <1>3, <1>4, <1>5, <1>6, <1>7 DEF StartStep

LEMMA AccountedStep ==
    ASSUME StartTypes, AppliedOnce, CatchUpInv, StartStep, ~past'.misled, NEW f \in recorded'
    PROVE  Accounted(f)'
<1>1. /\ ~past.misled /\ past'.existing = past.existing
      /\ \A g \in recorded : Accounted(g)
      /\ tables \subseteq tables' /\ AppliedOnce'
  BY StartStepEffects, AppliedOnceStep DEF CatchUpInv
<1>2. f \in FileNames
  <2>1. StartTypes'
    BY StartStepTypes
  <2> QED BY <2>1 DEF StartTypes
<1>3. CASE f \in recorded
  <2>1. past.commits[f] = 1 => past'.commits[f] = 1
    <3>1. CASE past'.commits = past.commits
      BY <3>1
    <3>2. ASSUME NEW g \in FileNames, g \notin recorded,
                 past'.commits = [past.commits EXCEPT ![g] = @ + 1]
          PROVE  past'.commits[f] = past.commits[f]
      BY <1>2, <1>3, <3>2 DEF StartTypes
    <3> QED BY <3>1, <3>2, StartStepEffects
  <2> QED BY <1>1, <1>3, <2>1 DEF Accounted
<1>4. CASE f \notin recorded
  <2>1. CASE Preseed
    <3>1. f \in Baseline
      BY <1>4, <2>1 DEF Preseed
    <3>2. past.existing /\ BaselineTables \subseteq tables
      BY <1>1, <2>1 DEF CatchUpInv, UntrackedInv, Preseed
    <3>3. Creates[f] \subseteq BaselineTables
      BY <3>1 DEF BaselineTables
    <3> QED BY <1>1, <3>1, <3>2, <3>3 DEF Accounted
  <2>2. CASE ApplyFile
    <3> DEFINE g == Files[at]
    <3>1. ASSUME NEW before \in PastTypes, Apply(g, before), before.commits = past.commits
          PROVE  Accounted(f)'
      <4>1. f = g /\ CanCommit(g) /\ tables' = tables \cup Creates[f]
        BY <1>4, <3>1 DEF Apply
      <4>2. past' = [before EXCEPT !.commits = [before.commits EXCEPT ![f] = @ + 1]]
        BY <3>1, <4>1 DEF Apply
      <4>3. past'.commits[f] = past.commits[f] + 1
        BY <1>2, <3>1, <4>2 DEF PastTypes
      <4>4. past.commits[f] \in Nat
        BY <1>2 DEF StartTypes
      <4>5. past'.commits[f] <= 1
        BY <1>1, <1>2 DEF AppliedOnce
      <4> QED BY <4>1, <4>3, <4>4, <4>5 DEF Accounted
    <3>2. past \in PastTypes
      BY DEF StartTypes, PastTypes
    <3>3. Apply(g, past) \/ Apply(g, AfterFault("look_for_file"))
      BY <1>4, <2>2 DEF ApplyFile
    <3> QED BY <3>1, <3>2, <3>3, FailureShows
  <2>3. recorded' = recorded \/ Preseed \/ ApplyFile
    BY DEF StartStep, LookForTable, CreateTable, LookForTickets, SyncSchema, database
  <2> QED BY <1>4, <2>1, <2>2, <2>3
<1> QED BY <1>3, <1>4

(* Where the files before it are recorded, a file finds its tables. *)
LEMMA NeedsAreThere ==
    ASSUME StartTypes, \A f \in recorded : Accounted(f),
           \A i \in 1 .. (at - 1) : Files[i] \in recorded
    PROVE  Needs[Files[at]] \subseteq tables
<1>1. Needs[Files[at]] \subseteq TablesBefore(at)
  BY FileFacts, MigrationsAssumption DEF MigrationsAssumption, StartTypes
<1>2. TablesBefore(at) \subseteq tables
  BY DEF TablesBefore, Accounted
<1> QED BY <1>1, <1>2

LEMMA ProgressStep ==
    ASSUME StartTypes, CatchUpInv, StartStep, ~past'.misled
    PROVE  ProgressInv'
<1> SUFFICES ASSUME past'.clean
             PROVE  /\ phase' = "files" => \A i \in 1 .. (at' - 1) : Files[i] \in recorded'
                    /\ phase' \in {"sync", "serving"} => FileNames \subseteq recorded'
  BY DEF ProgressInv
<1>1. /\ ~past.misled /\ UntrackedInv /\ ProgressInv
      /\ \A f \in recorded : Accounted(f)
      /\ recorded \subseteq recorded'
  BY StartStepEffects DEF CatchUpInv
<1>2. CASE LookForTable
  BY <1>2 DEF LookForTable
<1>3. CASE CreateTable
  <2>1. at' = 1 /\ phase' \in {"look_for_tickets", "files"}
    BY <1>3, FailureShows DEF CreateTable, Fails
  <2> QED BY <2>1
<1>4. CASE LookForTickets
  <2>1. at' = 1 /\ phase' \in {"preseed", "files"}
    BY <1>4 DEF LookForTickets, CatchUpInv
  <2> QED BY <2>1
<1>5. CASE Preseed
  <2>1. phase' = "preseed" \/ (phase' = "files" /\ at' = 1)
    BY <1>5 DEF Preseed, GoOn
  <2> QED BY <2>1
<1>6. CASE ApplyFile
  <2>1. past.clean /\ Files[at] \in recorded'
    <3>1. CASE Files[at] \in recorded
      <4>1. past' = past
        <5>1. past' # AfterFault("look_for_file")
          BY FailureShows
        <5> QED BY <1>6, <3>1, <5>1, FailureShows DEF ApplyFile, Succeeds, Apply, CanCommit
      <4> QED BY <1>1, <3>1, <4>1
    <3>2. CASE Files[at] \notin recorded
      <4>1. Apply(Files[at], past)
        BY <1>6, <3>2, FailureShows DEF ApplyFile, Fails
      <4>2. past.clean
        <5>1. CASE CanCommit(Files[at])
          <6>1. past' = [past EXCEPT !.commits = [past.commits EXCEPT ![Files[at]] = @ + 1]]
            BY <4>1, <5>1 DEF Apply
          <6> QED BY <6>1 DEF StartTypes
        <5>2. CASE ~CanCommit(Files[at])
          BY <4>1, <5>2 DEF Apply
        <5> QED BY <5>1, <5>2
      <4>3. CanCommit(Files[at])
        BY <1>1, <1>6, <3>2, <4>2, NeedsAreThere DEF CanCommit, ProgressInv, ApplyFile
      <4> QED BY <4>1, <4>2, <4>3 DEF Apply
    <3> QED BY <3>1, <3>2
  <2>2. \A i \in 1 .. at : Files[i] \in recorded'
    <3>1. \A i \in 1 .. (at - 1) : Files[i] \in recorded
      BY <1>1, <1>6, <2>1 DEF ProgressInv, ApplyFile
    <3> QED BY <1>1, <2>1, <3>1 DEF StartTypes
  <2>3. CASE at < Len(Files)
    <3>1. at' = at + 1 /\ phase' = "files"
      BY <1>6, <2>3 DEF ApplyFile, GoOn
    <3> QED BY <2>2, <3>1 DEF StartTypes
  <2>4. CASE ~(at < Len(Files))
    <3>1. at \in 1 .. Len(Files) /\ Len(Files) \in Nat
      BY FileFacts DEF StartTypes
    <3>2. at = Len(Files)
      BY <2>4, <3>1
    <3>3. phase' = "sync"
      BY <1>6, <2>4 DEF ApplyFile, GoOn
    <3> QED BY <2>2, <3>2, <3>3, FileFacts
  <2> QED BY <2>3, <2>4
<1>7. CASE SyncSchema
  <2>1. past' = past /\ recorded' = recorded /\ phase = "sync" /\ phase' = "serving"
    BY <1>7, FailureShows DEF SyncSchema, Succeeds, Fails
  <2> QED BY <1>1, <2>1 DEF ProgressInv
<1> QED BY <1>2, <1>3, <1>4, <1>5, <1>6, <1>7 DEF StartStep

(* A new start has not got to the files, and a stop loses nothing. *)
LEMMA CatchUpStep ==
    ASSUME StartTypes, AppliedOnce, CatchUpInv, [Next]_serverVars
    PROVE  CatchUpInv'
<1>1. CASE Start
  <2>1. /\ phase' = "look_for_table" /\ phase = "down"
        /\ UNCHANGED <<at, fresh, tables, tracking, recorded>>
        /\ past'.existing = past.existing /\ past'.commits = past.commits
        /\ past'.misled = past.misled
    BY <1>1 DEF Start, database, StartTypes
  <2> QED BY <2>1 DEF CatchUpInv, UntrackedInv, Accounted, ProgressInv
<1>2. CASE StartStep
  <2>1. past'.existing => BaselineTables \subseteq tables'
    BY <1>2, StartStepEffects DEF CatchUpInv
  <2>2. phase' = "look_for_tickets" => at' = 1
    BY <1>2 DEF StartStep, LookForTable, CreateTable, LookForTickets, Preseed, ApplyFile,
                SyncSchema, GoOn, WithoutTable
  <2> QED BY <1>2, <2>1, <2>2, UntrackedStep, AccountedStep, ProgressStep DEF CatchUpInv
<1>3. CASE Stop
  BY <1>3 DEF Stop, database, CatchUpInv, UntrackedInv, Accounted, ProgressInv
<1>4. CASE UNCHANGED vars
  BY <1>4 DEF vars, CatchUpInv, UntrackedInv, Accounted, ProgressInv
<1> QED BY <1>1, <1>2, <1>3, <1>4, Steps DEF serverVars

----------------------------------------------------------------------------
LEMMA TypesStep ==
    ASSUME StartTypes, AccountTypes, [Next]_serverVars
    PROVE  StartTypes' /\ AccountTypes' /\ tables \subseteq tables'
<1>1. UNCHANGED accountVars => AccountTypes'
  BY DEF accountVars, AccountTypes, NewestInv
<1>2. UNCHANGED vars => StartTypes' /\ tables' = tables
  BY DEF vars, StartTypes, TrackingInv
<1>3. Stop => StartTypes' /\ tables' = tables
  BY DEF Stop, database, StartTypes, Phases, TrackingInv
<1> QED BY <1>1, <1>2, <1>3, Steps, StartStepTypes, AccountStepTypes DEF serverVars

(* Why a connected account stays connected: rows are only in a table that   *)
(* is there, and a save is between its statements only where it is.         *)
ConnectedInv ==
    /\ token = <<>> \/ "google_tokens" \in tables
    /\ \A c \in Clients : client[c].pc = "insert" => "google_tokens" \in tables
    /\ StaysConnected

(* Why the sheets are used with the account chosen last: a pass that has    *)
(* the token of another one, and what it saves, is late.                    *)
IsChosen(account, late) == account = chosen \/ late

ChosenInv ==
    /\ token = <<>> \/ IsChosen(token[lastToken].account, token[lastToken].late)
    /\ \A c \in Clients :
          client[c] # Account!Idle /\ client[c].from = "pass" =>
              IsChosen(client[c].account, client[c].late)

LEMMA AccountInit == ServerInit => ConnectedInv /\ ChosenInv
<1> SUFFICES ASSUME ServerInit PROVE ConnectedInv /\ ChosenInv
  OBVIOUS
<1>1. /\ token = <<>> /\ chosen = Account!NoAccount
      /\ \A c \in Clients : client[c] = Account!Idle
  BY DEF ServerInit, Account!Init
<1> QED BY <1>1 DEF ConnectedInv, StaysConnected, ChosenInv, Account!Idle

(* One client goes on and the others stay where they are. *)
LEMMA BecomeFacts ==
    ASSUME AccountTypes, NEW c \in Clients, NEW doing, Account!Become(c, doing)
    PROVE  /\ client'[c] = doing
           /\ \A other \in Clients \ {c} : client'[other] = client[other]
BY DEF AccountTypes, Account!Become

LEMMA OutdatedFacts ==
    ASSUME AccountTypes, NEW account, NEW c \in Clients, client[c] # Account!Idle
    PROVE  /\ Account!Outdated(account)[c] # Account!Idle
           /\ Account!Outdated(account)[c].pc = client[c].pc
           /\ Account!Outdated(account)[c].from = client[c].from
           /\ Account!Outdated(account)[c].account = client[c].account
           /\ Account!Outdated(account)[c].late =
                 (client[c].late \/ client[c].account # account)
<1>1. client[c] \in Savers
  BY BusyClient
<1>2. Account!Outdated(account)[c] = IF client[c].account # account
                                     THEN [client[c] EXCEPT !.late = TRUE] ELSE client[c]
  BY DEF Account!Outdated
<1>3. Account!Outdated(account)[c] \in Savers /\ Account!Idle \notin Savers
  BY <1>1, <1>2 DEF Savers, Account!Idle
<1> QED BY <1>1, <1>2, <1>3 DEF Savers

LEMMA OutdatedIdle ==
    ASSUME NEW account, NEW c \in Clients, client[c] = Account!Idle
    PROVE  Account!Outdated(account)[c] = Account!Idle
BY DEF Account!Outdated

LEMMA SavedFacts ==
    ASSUME NEW doing \in Savers
    PROVE  \/ Account!Saved(doing) = Account!Idle /\ doing.from = "callback"
           \/ /\ doing.from = "pass"
              /\ Account!Saved(doing) \in Savers /\ Account!Saved(doing).pc = "source"
              /\ Account!Saved(doing).from = "pass"
              /\ Account!Saved(doing).account = doing.account
              /\ Account!Saved(doing).late = doing.late
BY DEF Savers, Account!Saved

LEMMA SavedIsNotInserting ==
    ASSUME NEW doing \in Savers
    PROVE  Account!Saved(doing).pc # "insert"
BY SavedFacts DEF Account!Idle

(* A new row: the rest are as they were, and the newest is of the saver.    *)
LEMMA InsertFacts ==
    ASSUME AccountTypes, NEW c \in Clients, Account!InsertRow(c)
    PROVE  /\ client[c] \in Savers /\ client[c].pc = "insert"
           /\ token' # <<>> /\ lastToken' \in DOMAIN token'
           /\ token'[lastToken'].account = client[c].account
           /\ token'[lastToken'].late = (client[c].from = "pass" /\ client[c].late)
           /\ chosen' = IF client[c].from = "callback" THEN client[c].account ELSE chosen
           /\ client'[c] = Account!Saved(client[c])
           /\ \A other \in Clients \ {c} :
                 client'[other] = IF client[c].from = "callback"
                                  THEN Account!Outdated(client[c].account)[other]
                                  ELSE client[other]
<1> DEFINE doing == client[c]
           callback == doing.from = "callback"
           others == IF callback THEN Account!Outdated(doing.account) ELSE client
<1>1. doing \in Savers /\ doing.pc = "insert"
  BY BusyClient DEF Account!InsertRow
<1>2. /\ lastToken' \in DOMAIN token'
      /\ token'[lastToken'] = [account |-> doing.account, late |-> ~callback /\ doing.late]
      /\ token' # <<>>
  <2>1. /\ lastToken' = lastToken + 1
        /\ token' = [i \in DOMAIN token \cup {lastToken + 1} |->
                        IF i = lastToken + 1
                        THEN [account |-> doing.account, late |-> ~callback /\ doing.late]
                        ELSE token[i]]
    BY DEF Account!InsertRow
  <2>2. lastToken + 1 \in DOMAIN token'
    BY <2>1
  <2>3. \A x : x \notin DOMAIN <<>>
    OBVIOUS
  <2> QED BY <2>1, <2>2, <2>3
<1>3. (~callback /\ doing.late) = (doing.from = "pass" /\ doing.late)
  BY <1>1 DEF Savers
<1>4. others \in [Clients -> {Account!Idle} \cup Savers]
  BY OutdatedTypes DEF AccountTypes
<1>5. client' = [others EXCEPT ![c] = Account!Saved(doing)]
  BY DEF Account!InsertRow
<1>6. /\ client'[c] = Account!Saved(doing)
      /\ \A other \in Clients \ {c} : client'[other] = others[other]
  BY <1>4, <1>5
<1>7. chosen' = IF callback THEN doing.account ELSE chosen
  BY DEF Account!InsertRow
<1> QED BY <1>1, <1>2, <1>3, <1>6, <1>7

LEMMA ConnectedStep ==
    ASSUME AccountTypes, ConnectedInv, Account!AccountStep \/ Account!Restart, tables' = tables
    PROVE  ConnectedInv'
<1> DEFINE hasTable == "google_tokens" \in tables
           Inserting == \E c \in Clients : client[c].pc = "insert"
<1>1. /\ token = <<>> \/ hasTable
      /\ Inserting => hasTable
      /\ chosen # Account!NoAccount /\ ~lost => token # <<>> \/ Inserting
  BY DEF ConnectedInv, StaysConnected, Account!HasToken
<1> SUFFICES /\ token' = <<>> \/ hasTable
             /\ Inserting' => hasTable
             /\ chosen' # Account!NoAccount /\ ~lost' => token' # <<>> \/ Inserting'
  BY DEF ConnectedInv, StaysConnected, Account!HasToken
<1>2. ASSUME NEW c \in Clients, NEW doing, Account!Become(c, doing),
             client[c].pc # "insert", doing.pc # "insert"
      PROVE  Inserting' <=> Inserting
  BY <1>2, BecomeFacts
<1>3. ASSUME NEW a \in Admins, Account!GoogleConnect(a)
      PROVE  UNCHANGED <<token, client, chosen, lost>>
  BY <1>3 DEF Account!GoogleConnect
<1>4. ASSUME NEW c \in Clients, NEW a \in Admins, Account!GoogleCallback(c, a)
      PROVE  (Inserting' <=> Inserting) /\ UNCHANGED <<token, chosen, lost>>
  <2>1. client[c].pc # "insert" /\ UNCHANGED <<token, chosen, lost>>
    BY <1>4 DEF Account!GoogleCallback, Account!Idle
  <2>2. CASE client' = client
    BY <2>1, <2>2
  <2>3. ASSUME NEW account \in Accounts,
               Account!Become(c, [pc |-> "delete", account |-> account, from |-> "callback",
                                  late |-> FALSE])
        PROVE  Inserting' <=> Inserting
    BY <1>2, <2>1, <2>3
  <2> QED BY <1>4, <2>1, <2>2, <2>3 DEF Account!GoogleCallback
<1>5. ASSUME NEW c \in Clients,
             Account!TokenSource(c) \/ Account!Renew(c) \/ Account!EndPass(c)
      PROVE  (Inserting' <=> Inserting) /\ UNCHANGED <<token, chosen, lost>>
  <2>1. CASE Account!TokenSource(c)
    BY <1>2, <2>1 DEF Account!TokenSource, Account!Idle
  <2>2. CASE Account!Renew(c)
    <3>1. client[c] \in Savers
      BY <2>2, BusyClient DEF Account!Renew
    <3>2. [client[c] EXCEPT !.pc = "delete"].pc = "delete"
      BY <3>1 DEF Savers
    <3> QED BY <1>2, <2>2, <3>2 DEF Account!Renew
  <2>3. CASE Account!EndPass(c)
    BY <1>2, <2>3 DEF Account!EndPass, Account!Idle
  <2> QED BY <1>5, <2>1, <2>2, <2>3
<1>6. CASE Account!GoogleDisconnect
  <2>1. \A c \in Clients : client'[c].pc = client[c].pc
    BY <1>6, OutdatedFacts, OutdatedIdle DEF Account!GoogleDisconnect
  <2>2. CASE UNCHANGED <<token, chosen>>
    BY <1>1, <1>6, <2>1, <2>2 DEF Account!GoogleDisconnect
  <2>3. CASE token' = <<>> /\ chosen' = Account!NoAccount
    BY <1>1, <1>6, <2>1, <2>3 DEF Account!GoogleDisconnect
  <2> QED BY <1>6, <2>2, <2>3 DEF Account!GoogleDisconnect
<1>7. ASSUME NEW c \in Clients, Account!DeleteRows(c) PROVE token' = <<>> /\ hasTable /\ Inserting'
  <2>1. client[c] \in Savers
    BY <1>7, BusyClient DEF Account!DeleteRows
  <2>2. client'[c].pc = "insert"
    BY <1>7, <2>1, BecomeFacts DEF Account!DeleteRows, Savers
  <2> QED BY <1>7, <2>2 DEF Account!DeleteRows
<1>8. ASSUME NEW c \in Clients, Account!InsertRow(c) PROVE token' # <<>> /\ hasTable
  BY <1>1, <1>8, InsertFacts
<1>9. ASSUME NEW c \in Clients, Account!InsertFails(c)
      PROVE  lost' /\ token' = token /\ (Inserting' => Inserting)
  <2>1. client[c] \in Savers
    BY <1>9, BusyClient DEF Account!InsertFails
  <2> QED BY <1>9, <2>1, BecomeFacts, SavedIsNotInserting DEF Account!InsertFails
<1>10. CASE Account!Restart
  <2>1. /\ token' = token /\ chosen' = chosen /\ (lost' <=> lost \/ Inserting)
        /\ \A c \in Clients : client'[c] = Account!Idle
    BY <1>10 DEF Account!Restart, AccountTypes
  <2> QED BY <1>1, <2>1 DEF Account!Idle
<1>11. ASSUME NEW c \in Clients, Account!DeleteFails(c)
       PROVE  (Inserting' <=> Inserting) /\ UNCHANGED <<token, chosen, lost>>
  <2>1. client[c] \in Savers
    BY <1>11, BusyClient DEF Account!DeleteFails
  <2> QED BY <1>2, <1>11, <2>1, SavedIsNotInserting DEF Account!DeleteFails
<1> QED
  BY <1>1, <1>3, <1>4, <1>5, <1>6, <1>7, <1>8, <1>9, <1>10, <1>11 DEF Account!AccountStep

LEMMA ChosenStep ==
    ASSUME AccountTypes, ConnectedInv, ChosenInv, Account!AccountStep \/ Account!Restart
    PROVE  ChosenInv'
<1> DEFINE Row == token = <<>> \/ IsChosen(token[lastToken].account, token[lastToken].late)
           Fits(c) == client[c] # Account!Idle /\ client[c].from = "pass" =>
                          IsChosen(client[c].account, client[c].late)
<1>1. Row /\ \A c \in Clients : Fits(c)
  BY DEF ChosenInv
<1> SUFFICES Row' /\ \A c \in Clients : Fits(c)'
  BY DEF ChosenInv
<1> USE DEF IsChosen
<1>2. ASSUME NEW c \in Clients, NEW doing, Account!Become(c, doing), chosen' = chosen,
             doing # Account!Idle /\ doing.from = "pass" =>
                 IsChosen(doing.account, doing.late)
      PROVE  \A other \in Clients : Fits(other)'
  BY <1>1, <1>2, BecomeFacts
<1>3. ASSUME NEW a \in Admins, Account!GoogleConnect(a)
      PROVE  Row' /\ \A c \in Clients : Fits(c)'
  BY <1>1, <1>3 DEF Account!GoogleConnect
<1>4. ASSUME NEW c \in Clients, NEW a \in Admins, Account!GoogleCallback(c, a)
      PROVE  Row' /\ \A other \in Clients : Fits(other)'
  <2>1. Row' /\ chosen' = chosen
    BY <1>1, <1>4 DEF Account!GoogleCallback
  <2>2. CASE client' = client
    BY <1>1, <2>1, <2>2
  <2>3. ASSUME NEW account \in Accounts,
               Account!Become(c, [pc |-> "delete", account |-> account, from |-> "callback",
                                  late |-> FALSE])
        PROVE  \A other \in Clients : Fits(other)'
    BY <1>2, <2>1, <2>3
  <2> QED BY <1>4, <2>1, <2>2, <2>3 DEF Account!GoogleCallback
<1>5. ASSUME NEW c \in Clients, Account!TokenSource(c)
      PROVE  Row' /\ \A other \in Clients : Fits(other)'
  <2>1. Account!Latest = token[lastToken] /\ token # <<>>
    BY <1>5, LatestIsNewest DEF Account!TokenSource, Account!HasToken
  <2> QED BY <1>1, <1>2, <1>5, <2>1 DEF Account!TokenSource
<1>6. ASSUME NEW c \in Clients, NEW doing \in Savers, client[c] \in Savers,
             Account!Become(c, doing), chosen' = chosen, doing.from = client[c].from,
             doing.account = client[c].account, doing.late = client[c].late
      PROVE  \A other \in Clients : Fits(other)'
  BY <1>1, <1>2, <1>6, BusyClient
<1>7. ASSUME NEW c \in Clients, Account!Renew(c) \/ Account!EndPass(c)
      PROVE  Row' /\ \A other \in Clients : Fits(other)'
  <2>1. client[c] \in Savers /\ UNCHANGED <<token, lastToken, chosen>>
    BY <1>7, BusyClient DEF Account!Renew, Account!EndPass
  <2>2. CASE Account!Renew(c)
    <3> DEFINE doing == [client[c] EXCEPT !.pc = "delete"]
    <3>1. /\ doing \in Savers /\ doing.from = client[c].from
          /\ doing.account = client[c].account /\ doing.late = client[c].late
      BY <2>1 DEF Savers
    <3>2. Account!Become(c, doing)
      BY <2>2 DEF Account!Renew
    <3> HIDE DEF doing
    <3> QED BY <1>1, <1>6, <2>1, <3>1, <3>2
  <2>3. CASE Account!EndPass(c)
    BY <1>1, <1>2, <2>1, <2>3 DEF Account!EndPass
  <2> QED BY <1>7, <2>2, <2>3
<1>8. CASE Account!GoogleDisconnect
  <2>1. \/ UNCHANGED <<token, lastToken, chosen, client>>
        \/ /\ token' = <<>> /\ chosen' = Account!NoAccount
           /\ client' = Account!Outdated(Account!NoAccount)
    BY <1>8 DEF Account!GoogleDisconnect
  <2>2. ASSUME client' = Account!Outdated(Account!NoAccount),
               NEW c \in Clients, client'[c] # Account!Idle
        PROVE  client'[c].late
    <3>1. client[c] # Account!Idle
      BY <2>2, OutdatedIdle
    <3>2. client[c].account # Account!NoAccount
      <4>1. client[c].account \in Accounts
        BY <3>1, BusyClient DEF Savers
      <4> QED BY <4>1, ServerAssumption DEF ServerAssumption, Account!TokenAssumption
    <3> QED BY <2>2, <3>1, <3>2, OutdatedFacts
  <2> QED BY <1>1, <2>1, <2>2
<1>9. ASSUME NEW c \in Clients, client[c] \in Savers,
             Account!Become(c, Account!Saved(client[c])), chosen' = chosen
      PROVE  \A other \in Clients : Fits(other)'
  BY <1>2, <1>6, <1>9, SavedFacts
<1>10. ASSUME NEW c \in Clients, Account!DeleteRows(c)
      PROVE  Row' /\ \A other \in Clients : Fits(other)'
  <2>1. client[c] \in Savers /\ chosen' = chosen /\ token' = <<>>
    BY <1>10, BusyClient DEF Account!DeleteRows
  <2> DEFINE doing == [client[c] EXCEPT !.pc = "insert"]
  <2>2. /\ doing \in Savers /\ doing.from = client[c].from
        /\ doing.account = client[c].account /\ doing.late = client[c].late
    BY <2>1 DEF Savers
  <2>3. Account!Become(c, doing)
    BY <1>10 DEF Account!DeleteRows
  <2> HIDE DEF doing
  <2> QED BY <1>6, <2>1, <2>2, <2>3
<1>11. ASSUME NEW c \in Clients, Account!InsertRow(c)
      PROVE  Row' /\ \A other \in Clients : Fits(other)'
  <2>1. client[c] \in Savers /\ client'[c] = Account!Saved(client[c])
    BY <1>11, InsertFacts
  <2>2. CASE client[c].from = "callback"
    <3>1. Row' /\ client'[c] = Account!Idle /\ chosen' = client[c].account
      BY <1>11, <2>1, <2>2, InsertFacts, SavedFacts
    <3>2. ASSUME NEW other \in Clients \ {c} PROVE Fits(other)'
      <4>1. client'[other] = Account!Outdated(client[c].account)[other]
        BY <1>11, <2>2, InsertFacts
      <4>2. CASE client[other] = Account!Idle
        BY <4>1, <4>2, OutdatedIdle
      <4>3. CASE client[other] # Account!Idle
        <5>1. /\ client'[other].account = client[other].account
              /\ client'[other].late =
                    (client[other].late \/ client[other].account # client[c].account)
          BY <4>1, <4>3, OutdatedFacts
        <5> QED BY <3>1, <5>1
      <4> QED BY <4>2, <4>3
    <3> QED BY <3>1, <3>2
  <2>3. CASE client[c].from = "pass"
    <3>1. chosen' = chosen /\ IsChosen(client[c].account, client[c].late)
      BY <1>1, <1>11, <2>1, <2>3, InsertFacts, BusyClient
    <3>2. Row' /\ \A other \in Clients \ {c} : client'[other] = client[other]
      BY <1>11, <2>3, <3>1, InsertFacts
    <3> QED BY <1>1, <2>1, <2>3, <3>1, <3>2, SavedFacts
  <2> QED BY <2>1, <2>2, <2>3 DEF Savers
<1>12. ASSUME NEW c \in Clients, Account!InsertFails(c) \/ Account!DeleteFails(c)
      PROVE  Row' /\ \A other \in Clients : Fits(other)'
  <2>1. client[c] \in Savers
    BY <1>12, BusyClient DEF Account!InsertFails, Account!DeleteFails
  <2> QED BY <1>1, <1>9, <1>12, <2>1 DEF Account!InsertFails, Account!DeleteFails
<1>13. CASE Account!Restart
  BY <1>1, <1>13 DEF Account!Restart
<1> QED BY <1>3, <1>4, <1>5, <1>7, <1>8, <1>10, <1>11, <1>12, <1>13 DEF Account!AccountStep

LEMMA AccountStep ==
    ASSUME StartTypes, AccountTypes, ConnectedInv, ChosenInv, [Next]_serverVars
    PROVE  ConnectedInv' /\ ChosenInv'
<1>1. CASE UNCHANGED accountVars
  <2>1. tables \subseteq tables'
    BY TypesStep
  <2> QED BY <1>1, <2>1
       DEF accountVars, ConnectedInv, StaysConnected, Account!HasToken, ChosenInv, IsChosen
<1>2. CASE (Account!AccountStep \/ Account!Restart) /\ tables' = tables
  BY <1>2, ConnectedStep, ChosenStep
<1> QED BY <1>1, <1>2, Steps DEF vars, serverVars, Stop, database

----------------------------------------------------------------------------
(* The inductive invariant. *)
Inv ==
    /\ StartTypes /\ AccountTypes
    /\ AppliedOnce
    /\ CatchUpInv
    /\ ConnectedInv
    /\ ChosenInv

LEMMA InvInit == ServerInit => Inv
<1> SUFFICES ASSUME ServerInit PROVE AppliedOnce
  BY InitTypes, CatchUpInit, AccountInit DEF Inv
<1> QED BY DEF ServerInit, Init, AppliedOnce

LEMMA InvStep == Inv /\ [Next]_serverVars => Inv'
<1> SUFFICES ASSUME Inv, [Next]_serverVars PROVE Inv'
  OBVIOUS
<1>1. AppliedOnce'
  <2>1. CASE Start \/ StartStep
    BY <2>1, AppliedOnceStep DEF Inv
  <2>2. CASE UNCHANGED <<recorded, tables, past>>
    BY <2>2 DEF Inv, AppliedOnce
  <2> QED BY <2>1, <2>2, Steps DEF vars, serverVars, Stop, database
<1> QED BY <1>1, TypesStep, CatchUpStep, AccountStep DEF Inv

LEMMA InvAlways == Spec => []Inv
BY InvInit, InvStep, PTL DEF Spec

(* Server: for any migrations and any accounts, every variable keeps its    *)
(* type, and schema_migrations lists nothing before it exists.              *)
THEOREM ServerTypes == Spec => []TypeOK
<1>1. Inv => TypeOK
  BY SplitTypes DEF Inv
<1> QED BY <1>1, InvAlways, PTL

(* runMigrations: whatever fails and wherever a start is cut short, no      *)
(* migration is committed twice, and one that is has left its tables.       *)
THEOREM MigrationsAppliedOnce == Spec => []AppliedOnce
<1>1. Inv => AppliedOnce
  BY DEF Inv
<1> QED BY <1>1, InvAlways, PTL

(* runMigrations: for any migrations that refer to earlier ones only, a     *)
(* start without a failure leaves none behind, however earlier starts       *)
(* failed or stopped, as long as schema_migrations could be looked for and  *)
(* created.                                                                 *)
THEOREM StartsCatchUp == Spec => []CleanStartCatchesUp
<1>1. Inv => CleanStartCatchesUp
  BY DEF Inv, CatchUpInv, ProgressInv, Accounted, CleanStartCatchesUp
<1> QED BY <1>1, InvAlways, PTL

(* SaveToken and persistingTokenSource: with any number of passes, logins   *)
(* and restarts, a connected account has its token but within a save, or    *)
(* after one was cut in two.                                                *)
THEOREM AccountStaysConnected == Spec => []StaysConnected
<1>1. Inv => StaysConnected
  BY DEF Inv, ConnectedInv
<1> QED BY <1>1, InvAlways, PTL

(* TokenSource: the row that passes work with is of the account connected   *)
(* last, and no disconnect has emptied the table since, or it was saved by  *)
(* a pass that had got its token before.  A disconnect whose DELETE fails   *)
(* changes nothing, whatever the admin is told.                             *)
THEOREM TheChosenAccountIsUsed == Spec => []UsesTheChosenAccount
<1>1. Inv => UsesTheChosenAccount
  BY LatestIsNewest DEF Inv, ChosenInv, IsChosen, UsesTheChosenAccount, Account!HasToken
<1> QED BY <1>1, InvAlways, PTL
=============================================================================
