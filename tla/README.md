# Phoenix Lab in TLA+

Phoenix Lab is a repair-shop application (Go, Beego, PostgreSQL). Repair
tickets live in its database and, for brands that insist on it, in a Google
Sheet as well; the two are kept in step by an import, a push and a three-way
reconcile, on request or every few minutes. This directory models that
synchronisation, which is where the program can lose people's work, the desk
that works on the tickets beside it (pages, Excel import, workflows, users),
and the life of the server process (migrations, schema sync, the Google
account). TLC checks the models and TLAPS proves the central properties.

## 1. The system

| component | state it keeps | operations | modelled in |
|---|---|---|---|
| Sheet synchronisation of a linked row (`services/sheet_sync_service.go`, `sheet_conflict_service.go`, `sheets_client.go`) | the ticket, the sheet's cells (external), `sheet_row_links.baseline_snapshot`, `sheet_conflicts` | Import, Push, Reconcile, Resolve | `SheetSync`, `SheetMerge` |
| Cell conversions (`services/import_service.go`, end of `sheet_sync_service.go`) | none | canonicalValue, setTicketField, formatFieldValue, classifyField, mapExcelStatus, ... | `CellValues` |
| Auto-sync scheduler and connection settings (`services/scheduler_service.go`, `sheet_connection_service.go`, `controllers/sheet_controller.go`) | `sheet_connections`, the in-memory `schedulerInflight` | the minute tick, scheduled and requested passes, auto-sync switch, mapping page | `Scheduler` |
| Tickets (`models/ticket.go`, `services/ticket_service.go`, `controllers/ticket_controller.go`) | `tickets`, the forms open in browsers | create, edit with a version check, status, assign, delete | `TicketStatus`, `Tickets`, `Desk`; edits as the synchronisation meets them in `SheetSync` |
| Row links, stamps, adoption (`classifyRow`, `resolveLink`, `upsertLink`, `sheet_adoption_service.go`) | `sheet_row_links`, `sheet_adoptions`, the stamp column | recognise a row, create or adopt a ticket, review an ambiguous row, stamp | `RowLinks` |
| Column mapping (`services/sheet_mapping_service.go`), Excel import (`services/import_service.go`) | `sheet_column_mappings`; `tickets` | suggest and save a mapping, import a workbook row by row | `SheetSync` (saving a mapping), `ExcelImport`, `Desk` |
| Repair workflows (`services/workflow_service.go`, `models/ticket_workflow.go`) | `ticket_workflows` | Start, Advance | `Workflow`, `Desk` |
| Users, sessions and roles (`services/user_service.go`, `controllers/user_controller.go`, `auth_controller.go`, `base_controller.go`) | `users`, sessions | login, logout, create, change, (de)activate, the check of every request | `UserAccounts`, `Desk` |
| Google OAuth token (`services/oauth_service.go`, `controllers/oauth_controller.go`) | `google_tokens`, `oauth_state` in the session | connect, callback, disconnect, renew and save | `OAuthToken`, `Server` |
| Migrations and start-up (`cmd/main.go`) | `schema_migrations`, the tables | pre-seed, apply in order, schema sync | `Migrations`, `Server` |
| Notifications, comments, audit; analytics; routing and views | append-only tables, nothing | inserts whose errors are ignored, aggregates | no: see section 8 |

How they interact. A pass (a goroutine of the scheduler, or an administrator's
request) loads the connection, its mapping and, over the network, the whole
sheet. It then walks the rows: it looks up the row's link and ticket, compares
cell, ticket and baseline field by field, updates the ticket, records
conflicts, saves the link. The cells to be written are collected and sent to
Google in one batch at the very end, and the pass ends by saving the
connection. Nothing of this is in a transaction. Meanwhile people edit the
sheet, edit tickets, review conflicts, change the mapping, and request passes.

Every HTTP request is a goroutine of its own. A handler reads the acting user,
reads rows, decides, and writes, each in a statement that commits by itself;
nothing is locked, and only the ticket form carries a version. The Google
client of a pass reads the token row once and writes it back whenever the
access token is renewed, while administrators connect and disconnect accounts.
All of this starts only after `main` has migrated the database, which it does
at every start and with every error logged and passed over.

What is hard: three copies of a value updated at different times; conversions
that do not round-trip; full-row updates of rows read earlier; errors that are
dropped; a batch that fails after the baselines were saved; passes that overlap
with each other and with people; a check and the write that relies on it in two
statements; pairs of statements of which the second may fail; a restart
anywhere, in the middle of a start as well.

What makes each part correct:

* Conversions: which column types survive the trip to the sheet and back.
* Synchronisation: the baseline is a common ancestor of the two sides; no edit
  is overwritten that the other side never had; a conflict stays for review; a
  repeated reconcile changes nothing; after any disturbance it comes to rest.
* Scheduler: one pass at a time per connection, no leaked in-flight entry,
  enabled connections keep being synchronised, settings change only when
  somebody changes them.
* Row links: a row finds the same ticket wherever it moves; no ticket has two
  links; every row that an import can do something with comes to have a link.
* Tickets: a form that was filled in against an old version is not accepted;
  an unassigned ticket shows its placeholder for a moment only; a resolved
  ticket has a time of resolution; an import makes one ticket of one row.
* Workflows: no second active workflow, unless two requests raced; no step left
  out, no early completion.
* Users: there is always an administrator left who can let the others in.
* Token: a connected account stays connected, and it is the account that was
  chosen.
* Migrations: each is applied at most once, and a clean start leaves none out.

The hazards, each at its line and with the properties that watch it, are in
`PROJECT.json`.

## 2. Modules

    TicketStatus            the ten statuses and CanTransitionTo
      CellValues            cell <-> ticket conversions, classifyField
        SheetSync           passes, people, review and failures on one linked row
          SheetMerge        observers and the properties of the merge
        RowLinks            how rows find their links and tickets
          RowRegistry       what that is for (abstract)
    Scheduler               connections, ticks, in-flight map

    UserAccounts            users, sessions, roles
      Tickets               the ticket pages (and TicketStatus)
        ExcelImport         one row of a workbook
          Desk              all of them, and Workflow, on one database
    Workflow                Start and Advance (instantiated by Desk)

    Migrations              runMigrations and syncSchema
      Server                start, work, stop; instantiates OAuthToken
    OAuthToken              the Google account

    CellValuesProofs, SheetSyncProofs, SheetMergeProofs, SchedulerProofs,
    RowLinksProofs, ServerProofs, DeskProofs, DeskTicketProofs
                                                              theorems
    MCSheetSync, MCSheetMerge, MCRowLinks, MCDesk, MCServer   values for TLC

`RowLinks` uses `CellValues` (its classifyField) and implements `RowRegistry`.

### CellValues

Cells hold strings. White space, letter case and the several spellings of one
date or amount are left out, since every conversion drops them; what a
conversion *does* to a word it does not know is kept: an unknown status becomes
`open`, an amount that does not parse becomes `0.00`, a yes/no that is not "yes"
becomes `false`, and a date that does not parse, or is empty, reads as "" but
leaves the ticket's date alone. `Types` are the ways in which ticket fields
behave; the several dozen columns of a ticket differ in nothing else here.

### SheetSync

| variable | code |
|---|---|
| `ticket` | the `tickets` row: its mapped columns in `fieldCanonical` form, and whether `assigned_to` is set |
| `cell` | the row of the Google Sheet |
| `conn` | the `sheet_column_mappings` of the connection and its `sync_direction` |
| `baseline` | `sheet_row_links.baseline_snapshot` |
| `conflict` | the open `sheet_conflicts` row of each field |
| `run` | the local variables of the passes under way |
| `budget` | bound on what people do and on restarts |

| action | code |
|---|---|
| `ScheduledPass`, `RequestedPass`, `Load` | `runDueConnections`/`runScheduledSync`, `DoImport`/`DoPush`/`DoReconcile`, `loadContext` |
| `ReadTicket` | the look-up of the link and the ticket |
| `ImportTicket` | `applyToTicket`: a failed update ends the row |
| `MergeTicket` | Reconcile's field loop, `recordConflict`, and the ticket update whose error is ignored |
| `SaveLink` | `upsertLink`, or Push's and Reconcile's update of the link |
| `WriteCells`, `WriteFails` | the final batch |
| `EditTicket`, `ChangeAssignee`, `EditSheet` | the ticket form and status buttons, assignment, the sheet's users |
| `SaveMapping` | the mapping page (any set of columns: it deletes and inserts row by row) |
| `ResolveSheet`, `ResolveApp` | `SheetConflictService.Resolve` |
| `Crash` | the process ends |

One linked row stands for all: a pass handles rows one after the other and the
rows share only the final batch, so what one row can suffer from the others is
delay. The constant `Hazards` names what the environment may do, so that one
module gives both the hostile runs and the orderly ones; each kind is a
behaviour of the deployed system.

Abstractions, with their reasons:

* Database statements that follow each other with no network call between
  them, and belong to one decision (recordConflict and the ticket update of a
  row; the statements of Resolve), are one action. The network calls, and the
  reads before the writes, are separate.
* `loadContext` is one action. Sheet and mapping are read one after the other,
  but a change of either in between gives a pair that remapping or editing just
  before or after also gives.
* The sync direction is fixed in SheetSync. The mapping page can change it, and
  a pass's final Save can change it back; that is `Scheduler`'s subject.
* `insert_error`: the foreign key on `sheet_conflicts.resolved_by` together
  with Beego's 0 means that the insert is rejected *always* in the schema of
  migration 015. The model lets it fail or succeed.
* Dates and amounts are a few model values; `Types` distinguishes what code
  distinguishes.

### SheetMerge

Adds three observation variables, none of which the system reads: the values
each side has ever shown (`sheetHeld`, `ticketHeld`) and whether a reconcile
has finished since somebody last acted (`reconciled`).

### RowLinks and RowRegistry

SheetSync takes the pairing of row, link and ticket as given; RowLinks is about
how it comes to be and whether it lasts.

| variable | code |
|---|---|
| `sheet` | the data rows in their order, of each the identity column and the stamp column |
| `ticket`, `assigned` | the `tickets` by id, of each the identity column, and which of them have an `assigned_to` |
| `link` | `sheet_row_links` by id: `sheet_row_uid`, `ticket_id`, the identity column of `baseline_snapshot`, `stamped_uid` |
| `review` | the open `sheet_adoptions` |
| `direction` | the connection's `sync_direction` |
| `pass` | the local variables of the passes under way |
| `budget` | bound on what people do and on restarts |

| action | code |
|---|---|
| `ScheduledPass`, `RequestedPass`, `Load` | as in SheetSync |
| `ClassifyRow`, `RecordAdoption` | `classifyRow`: update, create or adopt; ambiguous, with `recordAdoption` |
| `FindTicket` | `resolveLink` and the look-up of its ticket, in Push and Reconcile |
| `SkipRow` | the `continue`s for a row without serial number or link |
| `ApplyCreate` | the ticket half of `applyCreate`: `insertTicket` leaves the ticket unassigned, or fails after its first statement |
| `ApplyToTicket` | the ticket half of `applyToTicket`, whose update is rejected while nobody is assigned |
| `MergeTicket` | Reconcile's merge of the identity column |
| `SaveLink` | `upsertLink`, or Push's and Reconcile's update of the link |
| `EndPass`, `WriteFails` | the final batch: cells by row number, and the stamps of a push |
| `MoveRow`, `AddRow`, `EditKey` | the sheet's users |
| `CreateTicket`, `EditTicketKey`, `Assign`, `ResolveAdoption` | the ticket form, with or without an assignee, the assignment, the review page |
| `Restart` | the process ends |

Abstractions, with their reasons:

* Of the mapped columns only the identity column is kept: it is the one by which
  rows and tickets are recognised. The `machine` of a row is what the row is
  about; no action of the program reads it, only the properties do. A key
  belongs to one machine and a machine has one row, that is, people do not give
  two machines one serial number. One machine may have several keys, which is
  how a corrected serial number is expressed.
* Where the code says `One(&link)` with a filter that several rows match, any
  of them is taken.
* An update fails where the code makes it: Beego reads a NULL `assigned_to` as 0
  and writes it back, which the foreign key rejects. `insertTicket` always leaves
  NULL, so a ticket that an import made can be updated by later passes only when
  somebody has been assigned. A statement that fails and changes nothing (the
  insert of a link, the first statement of `insertTicket`) leaves the row for the
  next pass, as a restart before it does. Lookups do not fail; the code takes one
  that does for "no link" (sheet_sync_service.go:189).
* Conflicts of the identity column are left for review, whose decisions are
  SheetSync's. Rows and tickets are not deleted. All tickets are of one branch.
* The app's first tickets are without assignee from some id on, and the run has
  them of the laptop only, whose two spellings are alike to the code.
* People act in the app between passes only; edits of a ticket *during* a pass
  are SheetSync's. On the sheet they act at any time, though during a push or a
  reconcile only with the hazard `move_during_write`.

`RowRegistry` says it in two lines: a machine without a ticket may get one that
no other machine has, and nothing else happens. The refinement mapping
`TicketOf` is the ticket that Push and Reconcile would find for the machine's
row: a lookup through sheet, stamp and link, so moving a row, stamping it,
correcting its identity on either side, or saving a link must all leave it
alone.

### Scheduler

| variable | code |
|---|---|
| `row` | `sheet_connections`: `auto_sync_enabled`, `status`, the other settings as one value, and whether `last_auto_run_at` lies within the interval |
| `there`, `spare` | which rows exist, and which ids have not been given to one |
| `inflight` | `schedulerInflight` |
| `todo` | the slice that `runDueConnections` iterates over |
| `worker` | goroutines and requests, with the copy of the row they read |

`Create` and `Delete` are the pages that connect and remove a spreadsheet; a
connection may be deleted under a pass, whose save then writes nothing.
`ReadDue`, `PassOver` and `Launch` are the query, the two `continue`s and the
`LoadOrStore` with the goroutine; `Save` is the full-row update at the end of a
pass, of the switch and of the mapping page; `Fail` an error or a recovered
panic; `RecordAutoRun` the update of two named columns; `Release` the deferred
`Delete`. Time is one bit per copy of a row, cleared by `Elapse`. The pass
itself is `SheetSync`'s; the two meet in one fact, that the scheduler has at
most one pass per connection, which is `OnePassPerConnection` here and the
single run `AutoSync` there.

### UserAccounts, Tickets, ExcelImport, Workflow and Desk

| variable | code |
|---|---|
| `user`, `session` | `users` (role and `is_active`), and who is logged in |
| `ticket`, `lastId` | `tickets` and its sequence |
| `form` | the edit form each user has open, with the version it carries |
| `workflow`, `lastWorkflow` | `ticket_workflows` and its sequence |
| `req` | the local variables of the requests under way |
| `todo` | the workload: how often people still do what |
| `history`, `reached`, `shaken` | what the properties refer to; the program has no such thing |

| action | code |
|---|---|
| `Login`, `Logout`, `EndSession`, `CreateUser`, `UpdateUser` | the handlers of those names; `loadCurrentUser` ends the session of a user who was deactivated |
| `ReadActive`, `ToggleActive` | the read and the write of `UserService.ToggleActive`, with the controller's checks |
| `Create`, then `ClearAssignee` | `insertTicket`: the insert with the placeholder, then `SET assigned_to = NULL` |
| `OpenForm`, `SendForm`, `CheckVersion`, `WriteForm`, then `ClearAssignee` | Edit and Update: form, overlay and changed fields, the version read, `updateTicket`'s statements |
| `ChooseStatus`, `CheckTransition`, `WriteStatus` | UpdateStatus: the permission, the transition by a second read, the write |
| `Assign`, `DeleteTicket` | Assign; Delete and BulkDelete, with the foreign key of workflows |
| `Abandon` | a request ends between its two statements: the database refuses one, or the server stops |
| `ImportRow`, `Overwrite`, `FindParent`, `InsertRow`, then `ClearAssignee` | one row of `importSheet` |
| `CheckStart`, `Start`, `ReadStep`, `Advance` | `WorkflowService.Start` and `Advance`, a read and a write each |

Abstractions, with their reasons:

* Of a ticket's columns those are kept that the code treats differently; the
  issue stands for the key by which an import finds a ticket (all serial numbers
  are one), and one text for every other field of the form. Yes/no boxes are
  left out: the form sends a hidden `false` in front of each. An empty field of
  a form leaves the column alone, as Beego's ParseForm does, which is why
  `Overlay` has its two IFs.
* `parent_ticket_id` and `linked_ticket_id` have no foreign keys: the columns
  come from the schema sync or from migration 010. `Insert` writes version 0,
  not the default of the SQL.
* Assign and Delete use nothing of what they read but that the row exists, so a
  step each. A request that ends before its first write has done nothing and
  needs no action. A file is imported row by row and carries nothing from one to
  the next, so a request imports one row; "the oldest ticket of a serial number"
  is the one with the least id. `UpdateUser` writes only what its form sends, so
  it is one step, too.
* The tables that refer to tickets without ON DELETE keep one from being
  deleted; `ticket_workflows` is the one that is modelled.
* Everybody is of one branch, and the checks of branches are left out.

`history` tells of each ticket whether its text and key were last written by a
form or an import, whether anybody chose its assignee, whether the placeholder
can have leaked, whether two saves of it raced, and how far the import that
created it had looked. `reached` has the steps a workflow has been at and how
far its start had looked for another; `shaken` says that a role was taken from
an active administrator or two toggles overlapped. With them a property can say
"unless these two requests overlapped" and still hold the code to everything
else.

### Migrations, OAuthToken and Server

| variable | code |
|---|---|
| `phase`, `at`, `fresh` | where `main` is, the file it looks at, `freshMigrationTable` |
| `tables`, `tracking`, `recorded` | the database: tables, `schema_migrations` and its rows |
| `faults`, `starts` | bounds |
| `past` | how the database began, commits of each file, failures; for the properties |
| `token`, `lastToken` | `google_tokens` and its sequence |
| `session`, `consent` | `oauth_state` in each session, and the one Google holds |
| `client` | callbacks and passes under way |
| `chosen`, `lost` | the account connected last, none once a disconnect has emptied the table, and whether a save was cut in two since; for the properties |
| `turns` | bound |

| action | code |
|---|---|
| `LookForTable`, `CreateTable`, `LookForTickets`, `Preseed`, `ApplyFile` | the statements of `runMigrations` in order, each of which may fail and what follows then |
| `SyncSchema` | `syncSchema`, which stops at a table it cannot create |
| `GoogleConnect`, `GoogleCallback`, `GoogleDisconnect` | the handlers of those names; a disconnect's DELETE may fail, which it reports as success |
| `TokenSource`, `Renew`, `EndPass` | the life of a `persistingTokenSource` |
| `DeleteRows`, `DeleteFails`, `InsertRow`, `InsertFails` | the two statements of `SaveToken` |
| `Start`, `Work`, `StopServer` | the process; a stop empties sessions and clients |

A migration is the tables it needs and creates: the files use IF NOT EXISTS and
ON CONFLICT DO NOTHING throughout, so a missing table is what makes one fail, a
statement that the database refuses apart (`faults`). The seed row of file 002
that refers to a row of 001 counts as needing its table, although it would also
miss the row where the schema sync has made the table alone. The
schema sync adds no foreign keys and no seed rows. Google's answers carry a
refresh token (`access_type=offline`, `prompt=consent`), so what SaveToken takes
over from the old row is what it already has; the account's email is written
and never read. `Server` composes the two: an account can be connected only in
the table that a migration or the schema sync has made.

## 3. Runs that pass

| run | question | instance |
|---|---|---|
| `converge` | However badly it went before, does auto-sync bring a row to rest once people stop? | a status and a date column (neither round-trips), two passes, every hazard but `insert_error`, 3 user actions; 577 843 states |
| `merge` | On orderly connections, is the baseline a common ancestor, is no edit lost, is reconcile idempotent? | a text, a yes/no and a custom column, three directions, 4 user actions, `insert_error`; 1 642 626 states |
| `scheduler` | One pass per connection, no leaked entry, no starvation, rest after a deletion | 2 connections, of which 1 may be deleted, 2 goroutines, 1 request, 1 restart; 219 974 states |
| `rowlinks` | Does every row find one ticket, its own, and keep it? | 2 machines, one with two spellings of its serial number, none, one or two tickets of the laptop there before, assigned or not, three directions, `insert_error`, 3 actions of people, restarts and failing inserts; 909 620 states |
| `desk` | What do the version check, the placeholder, the import's look-up, the workflow's steps and the check of one's own account guarantee, with requests that overlap? | 3 users, 2 at first, 2 requests at a time, 2 tickets, 2 issues, 2 texts, 3 of the 7 steps, 2 workflows, nine workloads; 428 692 states |
| `server` | Are migrations applied once and caught up with; is the chosen account the one in use? | 4 of the 16 migrations, 3 starts, 2 accounts, 2 clients, 4 token rows, 5 failures and turns together, at most 3 of them failures; 1 575 411 states |

Why the bounds are enough. Three user actions are what the worst histories of
`converge` need: one edit per side and a restart or an overlapping request. The
properties of `merge` relate one field's cell, ticket and baseline; a violation
takes an edit on each side, a pass, and a review, which four actions allow in
every order, and three texts are what tells baseline, cell and ticket apart.
Fields influence each other through the batch and the ticket update, for which
two fields are enough and three are there. One request beside the scheduler's
pass is a pair; properties of the scheduler concern pairs of workers, and one
restart meets every state. Each property fails in its run for a plausible
slip in the code (`mutants` in `PROJECT.json`), so the bounds do reach the
cases that matter.

In `rowlinks`, a history that goes wrong needs a row that has been stamped, then
moved, then given another identity, or a ticket created in the app before, or
between, two imports of the same row; passes and their stamps
cost nothing, so three actions are enough for each: a creation cut short, by a
restart or a failing statement, and an assignment take two. Two machines are enough, as every property is about one link or a
pair of them.

In `desk` a workload says which kinds of work are mixed and how often each is
done at most: a creation, and forms opened or sent six times; four times, with
an imported row; three times, with two rows; twice and for the issue, with three
rows, or with two and a deletion; a creation, an assignment and four times the
form for the assignee; three status changes and two rows; two creations, a
deletion and seven requests to workflows; a creation and four requests to the
user pages. Each violation that a mutant shows takes fewer. All
properties are about one ticket, or a pair of tickets, workflows or
administrators, and about pairs of requests, hence twos. `NewStatuses` are the status that sets the time and one that does
not; an imported row is `open`, since what the import does to a status it does
to every status. Three steps are a first, a middle and a last one.

In `server` the four files are two of the baseline, of which one needs the
other, one that changes a table of it, and the one that creates
`google_tokens`: with a failure, a stop and a clean start a file can be
recorded early, late or never. Accounts and clients are pairs again; a late
renewal takes a pass, a disconnect and a save, and five turns leave two over.
The failures of a start and the turns of the accounts meet only in one table, so
they share one bound.

`Requests`, `Texts` and `Issues`, and in `server` `Clients` and `Accounts`, are
interchangeable model values, so symmetry is used; these runs have no liveness
properties. They do not check deadlock, because a workload, or the starts, may
be used up.

What they do not show. `rowlinks` leaves out three things on purpose. With passes
under way at once (`overlap`) two imports both find no link and both insert
one, and `OneLinkPerTicket` and `MovedRowsKeepTheirTickets` fail. When the
serial number of a row that has no stamp yet changes (`rekey_unstamped`), the
row is recognised by the old one only and gets another ticket. And
`move_during_write` is the violation `moved_row` below. `insert_error` is on: the
zeros that Beego writes into `resolved_by` and `result_ticket_id` break the
foreign keys of migration 015, so an ambiguous row may never be put up for
review. `ImportableRowsAreLinked` therefore speaks of the rows that an import can
do something with: not of those that match several tickets, nor of those that
match one ticket which nobody is assigned to. Both are held back for as long as
that lasts, however often the scheduler imports, and must be linked once it ends.

Several properties exempt a race that the code does lose (two imports, starts,
toggles or saves at once; a late renewal; a save cut in two). They do not guard
against that harm; they show that there is no other way to it. The notes of the
hazards in `PROJECT.json` say where. Lookups that fail and count as "no row"
(import_service.go:138 and 176, workflow_service.go:27,
sheet_sync_service.go:189) are not modelled; where the same is asked of the
migrations (cmd/main.go:131), they are.

`Converges` is checked for two-way connections only: an
import never writes the sheet, so a pull-only connection does not settle after
a cell with an unreadable date or a cleared custom cell, and is not meant to.
`Converges` also takes for granted that conflict rows can be inserted; with the
foreign key as it is deployed, differences are not on record (see
`lost_conflict`). Coming to rest says nothing about who wins: `merge` does, for
column types that round-trip and without overlap.

Deadlock is not checked in the runs of SheetSync: with the bound used up and no
requested pass under way, a connection on which the scheduler's run cannot act
would be a stop the model's bound causes. `scheduler` and `rowlinks` check
deadlock.

## 4. Fairness

* `WF(ScheduledPass)`: the ticker fires every minute for as long as the process
  runs.
* `WF(PassStep(r))`: a pass is a goroutine that runs to its end; HTTP and
  database calls return or fail.
* `SF(WriteCells(AutoSync))` when there is something to write: Google does not
  refuse every batch for ever. Without it nothing can converge.
* RowLinks: `WF` of the scheduled pass and of every pass's steps, for the same
  reasons. No fairness of the final batch is needed: a pull writes no cells.
* Scheduler: `WF` of the query, of working through the list, of every worker's
  step, and of time passing.

People are under no obligation: no edit, request, review or restart is fair.

## 5. Runs that find a disagreement

| run | what TLC finds |
|---|---|
| `status_edit` | A ticket's status is changed in the app only. Reconcile writes `in_repair` to the sheet and takes it as baseline; the next reconcile reads the same cell as `open`, calls it the sheet's change and resets the ticket. |
| `sheet_decision` | "Sheet" in the review applies the canonical `on_hold` as the text of a cell, and the ticket becomes `open`. |
| `lost_conflict` | The insert of a conflict row is rejected, the error dropped, and the pass goes on. |
| `stale_save` | A setting changed during a pass is undone by the pass's final full-row Save. |
| `old_migrations` | README.md says that the runner skips old migrations on an existing database. The first start creates `schema_migrations` and stops before it has filled it; the next one finds the table, takes it at its word and runs the old migrations. |
| `moved_row` | README.md says that rows can move around the sheet without breaking links. Two rows swap places after a push has read them; the push then writes each row's serial number and stamp, by row number, into the other row, and each machine's row leads to the other's ticket. |

While modelling we also saw, with no doc line to hold it against:

* An unassigned ticket whose row is rejected on every update keeps its own value
  while the baseline moves to the sheet's, so the next pass pushes the ticket's
  value over what was typed in the sheet.
* A ticket form sends every field. An assignment, a status or an imported value
  written since the form was opened raises no version, and the form takes it
  back. Two saves between check and write both succeed and give the ticket one
  version.
* `SET assigned_to = NULL` comes second, and takes away what somebody assigned
  after the first statement.
* Imports that overlap make two tickets of one row, and requests that overlap
  two active workflows of one ticket. A late Advance takes a workflow back,
  a completed one as well.
* A ticket that an import has made, and not linked because the server stopped,
  or one made in the app without an assignee, is never adopted: every import
  finds it, fails to update it and skips the row, until somebody is assigned.
* A renewal that ends after Disconnect connects the account again. A Disconnect
  whose DELETE fails reports success and leaves the account in use.
* Where `schema_migrations` could not be created at the first start of a
  brand-new database, the schema sync makes the tables, the next start takes the
  database for an existing one, and its seed rows never come.
* Two administrators who deactivate each other at once lock everybody out.
* `UpdateLastLogin` writes the zero time of an empty user: no login is recorded.

## 6. Proofs

The theorems hold for every value of the constants that the assumptions allow:
any number of fields, connections, users, requests, tickets, files and accounts,
and no bound on what people do. Those that state a property of a run are listed
in `PROJECT.json`; everything else in the proof modules is a lemma for them.

* `CellValuesProofs`: every conversion yields a value of the column's type; text,
  custom, currency and yes/no columns round-trip (`FourTypesRoundTrip`), dates
  and statuses do not.
* `SheetSyncProofs!TypeCorrect`: `Spec => []TypeOK` for all constants, provided
  the columns have the transforms that SuggestMapping proposes
  (`DefaultTransforms`). `TypeOK` is inductive: its last conjunct keeps what a
  pass has read typed, so that what it writes is. With another transform it is
  false: a baseline may then hold a value that is not of the column's type.
* `SheetMergeProofs`: `BaselineIsCommonAncestor`, `TicketEditsSurvive`,
  `SheetEditsSurvive`, for any number of fields, values, passes and user
  actions, on the connections that `Clean` describes: no overlap, no failed
  writes, restarts or remapping, assigned tickets, timely reviews, column types
  that round-trip. (Conflict inserts may fail.) Without any one of these
  conditions TLC finds a counterexample. None of the three is inductive. The
  inductive `MergeInv` adds: the present values are among those observed
  (`Observed`); passes are alone (`OneAtATime`), so that what a pass has read
  stays true (`Loaded`, `HasRead`); the ticket between update and link is what
  the pass made of it (`Outcome`); between link and cells a baseline is shared
  or queued (`Delivers`); and yes/no columns never conflict (`BoolsAgree`),
  which is needed because the review hands "true" to a parser that knows "Yes".
  The proof has one lemma per action, and `Ancestors` for the field-by-field
  argument about the merge. `SecondReconcileChangesNothing` is
  `ReconcileIsIdempotent` on the same connections. Beside `MergeInv` it needs
  `RestInv`: what a reconcile leaves behind, between its link and its cells too
  (`Settles`), is a field in step, or in conflict with the values on record
  (`AtRest`); and until somebody acts, only reconciles of the scheduler follow.
* `RowLinksProofs`: `TypesCorrect` holds whatever people do, hazards included.
  `TypeInv` adds that the stamps of rows, and those that passes have read, are
  of links, and that a pass that saves a link has a ticket for it. The other
  four theorems need `Orderly`: passes exclude each other, rows stay put under
  a push or a reconcile, and a key changes only in a row that is stamped or
  empty. With any one of the other three hazards TLC finds that `RowRegistry` is
  not implemented (and with overlap or a changed key that `OneLinkPerTicket`
  fails); `insert_error` is allowed. The inductive `MachineInv` says
  which machine everything is about, which no code ever checks:
  * a stamped row's link is the machine's and knows the stamp; a row without a
    stamp has the key that its link, the baseline and the ticket have
    (`SheetInv`). The stamp may be in the link and not yet, or never, in the
    sheet, so the second half has to hold for rows whose push failed;
  * a link has its own stamp or none, a row of its machine, a key of its machine
    as uid, and no second link beside it (`LinkInv`);
  * a review waits for an unstamped row whose machine has no link and several
    tickets of its key to choose from (`ReviewInv`), so that the import cannot adopt
    one of them first, and the link is right whether or not the update of the
    chosen one is rejected;
  * passes are alone, and for each: a row that was read has the same stamp still,
    and the same key if it has none (`CopyOf`), the queued cells are for a row
    of their machine (`GoodPut`), and the link and ticket at hand are what they
    were (`AtRow`).

  `CopyLookup` is the heart: for such a row both searches, by stamp and by
  either key, find exactly the links of its machine. `TicketsHaveOneLink` and
  `LookupsFindTheSameLink` follow. For the refinement, `RowsAreRegistered`,
  `TicketLaws` says that `TicketOf` is the ticket of the machine's link, or 0;
  every step leaves each link its ticket and machine and adds one link at most
  (`LinksGrow`); and `StepRegisters` maps it to `Register` or a stutter.
  `RowsKeepTheirTickets` is what the README of the repository promises of rows
  that move, and `moved_row` refutes without `Orderly`.
* `SchedulerProofs`: types (`SchedulerTypes`) and `OnePassPerConnection`
  (`OnePassCorrect`), which together are inductive, for any numbers of
  connections and workers.
* `ServerProofs`: `Inv` is inductive, and each conjunct has its own lemmas.
  * `MigrationsAppliedOnce`. `AppliedOnce` is inductive with the types: a file
    that was committed is recorded, and the primary key refuses a second row.
  * `StartsCatchUp`. What a start finds was left by others, so the invariant
    says that until `schema_migrations` exists the database is the one it was
    at first, so that an existing one is told from a new one (`UntrackedInv`);
    that a recorded file has its tables and was committed, or is of the baseline
    of an existing database (`Accounted`); and that a start which has not failed
    has recorded every file up to the one it is at (`ProgressInv`), as the
    tables that a file needs come from files before it. That last point is in
    `MigrationsAssumption`; the files of `migrations/` are so, and with a forward
    reference the theorem is false.
  * `AccountStaysConnected` and `TheChosenAccountIsUsed`: token rows are
    numbered in the order of their inserts and the newest is the one that is
    read (`NewestInv`). `ConnectedInv` adds that a row, or a save between its
    statements, needs the table, so that no insert fails for want of it;
    `ChosenInv` that a pass with the token of another account than the chosen
    one, and a row with such a token, is late. A disconnect whose DELETE fails
    changes neither the token nor the account that counts as chosen.
* `DeskProofs`: the types of the five parts of the desk, which share one `req`
  (`Types`, one record per part), then
  * `AnAdministratorIsLeft`. Not inductive: a request that has passed the check
    of one's own account writes later. `AdminInv` adds that meanwhile there is
    an active administrator other than the user it is about.
  * `EveryStepIsReached`. An Advance writes the step after one it read earlier;
    `AdvancesAreReached` says that the workflow has been at the one it read, and
    that it is not the last. `WorkflowAssumption` asks for two steps or more: in a
    workflow of one, Start would leave it at its last step and active.
  * `OnlyOverlappingStarts`. `StartsLookedUp`: a workflow that was there when a
    start of its ticket looked is complete, and stays so.
* `DeskTicketProofs`: `TicketInv` is `DeskInv` and one conjunct for each of the
  four properties. Each is about a few columns of a ticket; the lemmas
  `Writers`, `Makers`, `Leavers` and `Openers` say which statement writes which
  columns, and which makes, ends or opens which request or form, so that an
  invariant is proved against those few only.
  * `TheTimeOfResolutionIsThere`: a request that is about to write "resolved"
    also has the time (`StatusesHaveATime`), and no import says "resolved".
  * `OnlyOverlappingImportsDuplicate`. `ImportsLookedUp`: an imported ticket that
    was there when a row was looked up has another issue than the row.
  * `NobodyIsAssignedByChance`: `LeaksAreKnown` follows the placeholder from the
    insert into the forms opened before it was taken away, and from there into
    the request that sends it back.
  * `OnlySeenTextsAreReplaced`: `SeenInv` says of open forms, of saves before the
    check and of saves after it that, if they carry the ticket's version (after
    the check, the next one), they show the text that a form last saved, unless
    two saves have raced.

Every strengthening was first checked by TLC in the run of the property. The
proofs use the named assumptions on the constants (`ValuesAssumption`,
`SyncAssumption`, `LinksAssumption`, `SchedulerAssumption`, `UsersAssumption`,
`TicketsAssumption`, `ImportAssumption`, `WorkflowAssumption`, `DeskAssumption`,
`MigrationsAssumption`, `ServerAssumption` and those of `OAuthToken`), which TLC
evaluates in the runs of those modules.

## 7. Only model-checked

`Converges`, `KeepsSyncing`, `DeletedConnectionsRest` and
`ImportableRowsAreLinked` are liveness under fairness, which the prover does not do. The theorems state
all other properties of the passing runs.

The runs that find a disagreement need none.

## 8. Not modelled

Notifications, comments and the audit log are inserts whose errors are dropped
and which no decision reads. Analytics are read-only queries. The profile page
changes a name, a language or a password, which decide nothing else. Routes and views
have no state. The text matching that suggests a mapping, and the spelling of
dates and amounts, are formatting.

## 9. Plan

Written so far, in this order: `CellValues`, `SheetSync`, `SheetMerge`,
`Scheduler`, `RowLinks`, `Tickets`, `ExcelImport`, `Workflow`, `Desk`,
`Migrations`, `OAuthToken`, `Server`, `UserAccounts`; then the proofs. Next:

1. In `RowLinks`: the deletion of rows and tickets, and repeat repairs (a serial
   number with several tickets).
2. In `Scheduler`: how often a connection may run within its interval.
