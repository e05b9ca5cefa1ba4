----------------------------- MODULE SheetSync ------------------------------
(***************************************************************************)
(* The synchronisation of one sheet row with the ticket it is linked to:   *)
(* Import, Push and Reconcile of services/sheet_sync_service.go and the    *)
(* conflict review of services/sheet_conflict_service.go.                  *)
(*                                                                         *)
(* Three copies of every mapped field are in play: the cell, the ticket's  *)
(* column and the link's baseline, the value the last pass believes both   *)
(* sides had.  A pass reads the sheet over the network, works through the  *)
(* database statement by statement, and writes the sheet over the network  *)
(* at its very end; nothing is transactional.  The rows of a sheet share   *)
(* nothing but the final batch of cell writes, so one row stands for all.  *)
(***************************************************************************)
EXTENDS CellValues, Naturals

CONSTANTS
    Field,          \* the ticket fields that the sheet has a column for
    Type,           \* the type of each field
    Transform,      \* the transform the admin chose for its column
    TicketInput,    \* values that people enter in the ticket form, per field
    CellInput,      \* values that people type in the sheet, per field
    Runs,           \* passes that may be under way: requests and the scheduler
    AutoSync,       \* the scheduler's (it starts no second one, see Scheduler)
    Directions,     \* the sync directions that the admin uses
    Hazards,        \* what the environment may do, see below
    MaxUserActions  \* bound on the actions of people and on crashes

(* "overlap"        people and other passes act while a pass is under way   *)
(* "write_error"    the Google API rejects the batch of cell writes         *)
(* "crash"          the server restarts in the middle of a pass             *)
(* "unassigned"     tickets need not have an assignee                       *)
(* "insert_error"   the database rejects a new sheet_conflicts row, as the  *)
(*                  foreign key of migration 015 rejects its resolved_by 0  *)
(* "stale_resolve"  conflicts are reviewed after either side moved on       *)
(* "remap"          the admin changes the mapping of a live connection      *)
HazardKinds == {"overlap", "write_error", "crash", "unassigned",
                "insert_error", "stale_resolve", "remap"}

ASSUME SyncAssumption ==
    /\ Type \in [Field -> Types]
    /\ Transform \in [Field -> Transforms]
    /\ \A f \in Field : Type[f] = "custom" => Transform[f] = "text"
    /\ \A f \in Field : TicketInput[f] \subseteq TicketValues(Type[f])
    /\ \A f \in Field : CellInput[f] \subseteq Words
    /\ \A f \in Field : Type[f] \in {"text", "custom"} => CellInput[f] \subseteq Texts \cup {""}
    /\ AutoSync \in Runs
    /\ Directions \subseteq {"pull", "push", "two_way"}
    /\ Hazards \subseteq HazardKinds
    /\ MaxUserActions \in Nat

VARIABLES
    ticket,     \* the tickets row: its columns, and whether assigned_to is set
    cell,       \* the row's cells
    conn,       \* the connection: the mapped fields and the sync direction
    baseline,   \* sheet_row_links.baseline_snapshot; "" when the key is absent
    conflict,   \* per field, the sheet_conflicts row whose status is "open"
    run,        \* the passes under way, with what each has read so far
    budget      \* user actions and crashes left

vars == <<ticket, cell, conn, baseline, conflict, run, budget>>

Blank == [f \in Field |-> ""]

IdleRun == [pc |-> "idle", op |-> "none", maps |-> {}, row |-> Blank,
            tk |-> [val |-> Blank, assigned |-> FALSE], base |-> Blank, puts |-> {}]

NoConflict == [open |-> FALSE, base |-> "", sheet |-> "", db |-> ""]

SheetValue(f, raw) == CanonicalValue(raw, Transform[f])
-----------------------------------------------------------------------------
(* A connection on which an import has just created the row's ticket. *)
Init ==
    /\ \E m \in (SUBSET Field) \ {{}}, d \in Directions :
          conn = [mapped |-> m, direction |-> d]
    /\ cell \in {c \in [Field -> UNION {CellInput[f] : f \in Field}] :
                    \A f \in Field : c[f] \in CellInput[f]}
    /\ ticket = [val |-> [f \in Field |->
                            IF f \in conn.mapped
                            THEN ImportField(Type[f], cell[f], NewTicketValue(Type[f]))
                            ELSE NewTicketValue(Type[f])],
                 assigned |-> "unassigned" \notin Hazards]
    /\ baseline = [f \in Field |-> IF f \in conn.mapped THEN ticket.val[f] ELSE ""]
    /\ conflict = [f \in Field |-> NoConflict]
    /\ run = [r \in Runs |-> IdleRun]
    /\ budget = MaxUserActions

Idle(r) == run[r].pc = "idle"

Undisturbed == "overlap" \in Hazards \/ \A r \in Runs : Idle(r)

UserActs == budget > 0 /\ Undisturbed /\ budget' = budget - 1
-----------------------------------------------------------------------------
(* The pass.  p is the record of a run: the mapping and the row as          *)
(* loadContext read them, the ticket and the baseline as they were read     *)
(* afterwards, and the columns queued for WriteCells.                       *)

Verdict(p, f) ==
    ClassifyField(p.base[f], SheetValue(f, p.row[f]), p.tk.val[f])

InClass(p, verdict) == {f \in p.maps : Verdict(p, f) = verdict}

MergedTicket(p) ==
    [f \in Field |-> IF f \in InClass(p, "sheetWins")
                     THEN SetTicketField(Type[f], p.row[f], p.tk.val[f])
                     ELSE p.tk.val[f]]

ImportedTicket(p) ==
    [f \in Field |-> IF f \in p.maps
                     THEN ImportField(Type[f], p.row[f], p.tk.val[f])
                     ELSE p.tk.val[f]]

\* Mutant: a reconcile, too, takes the ticket's snapshot as the new baseline.
NewBaselineOfTicket(p) ==
    [f \in Field |->
        CASE f \notin p.maps   -> ""
          [] p.op = "import"   -> ImportedTicket(p)[f]
          [] p.op = "push"     -> p.tk.val[f]
          [] OTHER             -> MergedTicket(p)[f]]

(* canonicalSnapshot of the ticket for an import or a push; Reconcile       *)
(* decides field by field.                                                  *)
NewBaseline(p) ==
    [f \in Field |->
        CASE f \notin p.maps   -> ""
          [] p.op = "import"   -> ImportedTicket(p)[f]
          [] p.op = "push"     -> p.tk.val[f]
          [] OTHER -> CASE Verdict(p, f) = "sheetWins" -> SheetValue(f, p.row[f])
                        [] Verdict(p, f) = "conflict"  -> p.base[f]
                        [] OTHER                       -> p.tk.val[f]]

\* Mutant: nothing is queued for a row that also has fields in conflict.
QueuedUnlessConflict(p) ==
    CASE p.op = "push"      -> p.maps
      [] p.op = "reconcile" -> IF InClass(p, "conflict") = {} THEN InClass(p, "dbWins") ELSE {}
      [] OTHER              -> {}

Queued(p) ==
    CASE p.op = "push"      -> p.maps
      [] p.op = "reconcile" -> InClass(p, "dbWins")
      [] OTHER              -> {}

(* o.Update(t) writes every column.  Beego stores 0 for the assigned_to of  *)
(* an unassigned ticket, which the foreign key to users rejects.            *)
UpdateAllColumns(t, newVal) ==
    ticket' = IF t.assigned THEN [val |-> newVal, assigned |-> TRUE] ELSE ticket

\* Mutant: an open row is left as it was found.
RecordOnlyNewConflicts(p) ==
    conflict' = [f \in Field |->
                   IF f \in InClass(p, "conflict") /\ ~conflict[f].open
                   THEN [open |-> TRUE, base |-> p.base[f],
                         sheet |-> SheetValue(f, p.row[f]), db |-> p.tk.val[f]]
                   ELSE conflict[f]]

(* recordConflict: one open row per link and field, refreshed or inserted.  *)
(* An error of the insert is dropped.                                       *)
RecordConflicts(p) ==
    \E lost \in SUBSET {f \in InClass(p, "conflict") : ~conflict[f].open} :
        /\ lost # {} => "insert_error" \in Hazards
        /\ conflict' = [f \in Field |->
                          IF f \in InClass(p, "conflict") \ lost
                          THEN [open |-> TRUE, base |-> p.base[f],
                                sheet |-> SheetValue(f, p.row[f]), db |-> p.tk.val[f]]
                          ELSE conflict[f]]

Allowed(r, op) ==
    IF r = AutoSync
    THEN op = CASE conn.direction = "pull" -> "import"
                [] conn.direction = "push" -> "push"
                [] OTHER                   -> "reconcile"
    ELSE \/ op = "import"
         \/ op = "push" /\ conn.direction # "pull"
         \/ op = "reconcile" /\ conn.direction = "two_way"

(* loadContext: the sheet and the mapping, which may ignore every column.   *)
Load(r, op) ==
    /\ Idle(r)
    /\ Allowed(r, op)
    /\ run' = [run EXCEPT ![r] = [IdleRun EXCEPT !.pc = "read", !.op = op,
                                                 !.maps = conn.mapped, !.row = cell]]
    /\ UNCHANGED <<ticket, cell, conn, baseline, conflict>>

(* runDueConnections, every minute. *)
ScheduledPass ==
    /\ Undisturbed
    /\ \E op \in {"import", "push", "reconcile"} : Load(AutoSync, op)
    /\ UNCHANGED budget

(* DoImport, DoPush, DoReconcile. *)
RequestedPass(r, op) == r # AutoSync /\ UserActs /\ Load(r, op)

(* The link is looked up, then the ticket is read. *)
ReadTicket(r) ==
    /\ run[r].pc = "read"
    /\ run' = [run EXCEPT ![r].tk = ticket, ![r].base = baseline,
                          ![r].pc = IF run[r].op = "push" THEN "link" ELSE "ticket"]
    /\ UNCHANGED <<ticket, cell, conn, baseline, conflict, budget>>

(* applyToTicket: a rejected update is an error and ends the row. *)
ImportTicket(r) ==
    /\ run[r].pc = "ticket" /\ run[r].op = "import"
    /\ UpdateAllColumns(run[r].tk, ImportedTicket(run[r]))
    /\ run' = [run EXCEPT ![r] = IF run[r].tk.assigned THEN [@ EXCEPT !.pc = "link"]
                                                       ELSE IdleRun]
    /\ UNCHANGED <<cell, conn, baseline, conflict, budget>>

(* Reconcile's ticket update, made only if some field was pulled; whether   *)
(* it succeeded is not looked at.                                           *)
MergeTicket(r) ==
    /\ run[r].pc = "ticket" /\ run[r].op = "reconcile"
    /\ RecordConflicts(run[r])
    /\ IF InClass(run[r], "sheetWins") = {}
       THEN UNCHANGED ticket
       ELSE UpdateAllColumns(run[r].tk, MergedTicket(run[r]))
    /\ run' = [run EXCEPT ![r].pc = "link"]
    /\ UNCHANGED <<cell, conn, baseline, budget>>

(* The link's new baseline is saved; an import is then done with the row.   *)
SaveLink(r) ==
    /\ run[r].pc = "link"
    /\ baseline' = NewBaseline(run[r])
    /\ run' = [run EXCEPT ![r] = IF run[r].op = "import"
                                 THEN IdleRun
                                 ELSE [@ EXCEPT !.pc = "write", !.puts = Queued(run[r])]]
    /\ UNCHANGED <<ticket, cell, conn, conflict, budget>>

WriteCells(r) ==
    /\ run[r].pc = "write"
    /\ cell' = [f \in Field |-> IF f \in run[r].puts
                                THEN FormatFieldValue(Type[f], run[r].tk.val[f])
                                ELSE cell[f]]
    /\ run' = [run EXCEPT ![r] = IdleRun]
    /\ UNCHANGED <<ticket, conn, baseline, conflict, budget>>

WriteFails(r) ==
    /\ "write_error" \in Hazards
    /\ run[r].pc = "write" /\ run[r].puts # {}
    /\ run' = [run EXCEPT ![r] = IdleRun]
    /\ UNCHANGED <<ticket, cell, conn, baseline, conflict, budget>>

PassStep(r) ==
    \/ ReadTicket(r) \/ ImportTicket(r) \/ MergeTicket(r) \/ SaveLink(r)
    \/ WriteCells(r) \/ WriteFails(r)
-----------------------------------------------------------------------------
(* What people do. *)

(* The ticket form writes only the columns that changed; statuses go        *)
(* through UpdateStatus; no form shows a custom field.                      *)
EditTicket(f, v) ==
    /\ UserActs
    /\ v # ticket.val[f]
    /\ Type[f] # "custom"
    /\ Type[f] = "status" => CanTransitionTo(ticket.val[f], v)
    /\ ticket' = [ticket EXCEPT !.val[f] = v]
    /\ UNCHANGED <<cell, conn, baseline, conflict, run>>

(* Assign, or the form's assignee field. *)
ChangeAssignee ==
    /\ UserActs
    /\ "unassigned" \in Hazards
    /\ ticket' = [ticket EXCEPT !.assigned = ~@]
    /\ UNCHANGED <<cell, conn, baseline, conflict, run>>

EditSheet(f, raw) ==
    /\ UserActs
    /\ raw # cell[f]
    /\ cell' = [cell EXCEPT ![f] = raw]
    /\ UNCHANGED <<ticket, conn, baseline, conflict, run>>

(* The old mappings are deleted and the new ones inserted one by one, so a  *)
(* pass may also find a part of them: any set is possible.  (The direction, *)
(* which the same page sets and the end of every pass writes back, is       *)
(* Scheduler's; here it stays.)                                             *)
SaveMapping(m) ==
    /\ UserActs
    /\ "remap" \in Hazards
    /\ m # conn.mapped
    /\ conn' = [conn EXCEPT !.mapped = m]
    /\ UNCHANGED <<ticket, cell, baseline, conflict, run>>

(* The conflict still shows what the two sides say. *)
UpToDate(f) ==
    /\ conflict[f].sheet = SheetValue(f, cell[f])
    /\ conflict[f].db = ticket.val[f]

Review(f, newBaseline) ==
    /\ UserActs
    /\ conflict[f].open
    /\ UpToDate(f) \/ "stale_resolve" \in Hazards
    /\ baseline' = [baseline EXCEPT ![f] = newBaseline]
    /\ conflict' = [conflict EXCEPT ![f] = NoConflict]

(* "Sheet": the recorded value, which is in canonical form, is applied as   *)
(* if it were the text of a cell.                                           *)
ResolveSheet(f) ==
    /\ Review(f, conflict[f].sheet)
    /\ UpdateAllColumns(ticket, [ticket.val EXCEPT ![f] =
                          SetTicketField(Type[f], conflict[f].sheet, @)])
    /\ UNCHANGED <<cell, conn, run>>

(* "App": the conflict is closed with the recorded value as baseline, then  *)
(* the ticket's present value is written to the cell, if it still has a     *)
(* column.                                                                  *)
ResolveApp(r, f) ==
    /\ Idle(r) /\ r # AutoSync
    /\ Review(f, conflict[f].db)
    /\ run' = [run EXCEPT ![r] = [IdleRun EXCEPT !.pc = "write", !.op = "resolve",
                                    !.tk = ticket, !.puts = {f} \cap conn.mapped]]
    /\ UNCHANGED <<ticket, cell, conn>>

(* The process restarts: whatever was under way is gone. *)
Crash ==
    /\ "crash" \in Hazards
    /\ budget > 0 /\ budget' = budget - 1
    /\ \E r \in Runs : ~Idle(r)
    /\ run' = [r \in Runs |-> IdleRun]
    /\ UNCHANGED <<ticket, cell, conn, baseline, conflict>>
-----------------------------------------------------------------------------
Next ==
    \/ ScheduledPass
    \/ \E r \in Runs, op \in {"import", "push", "reconcile"} : RequestedPass(r, op)
    \/ \E r \in Runs : PassStep(r)
    \/ \E f \in Field : \E v \in TicketInput[f] : EditTicket(f, v)
    \/ \E f \in Field : \E raw \in CellInput[f] : EditSheet(f, raw)
    \/ ChangeAssignee
    \/ \E m \in SUBSET Field : SaveMapping(m)
    \/ \E f \in Field : ResolveSheet(f)
    \/ \E r \in Runs, f \in Field : ResolveApp(r, f)
    \/ Crash

Spec == Init /\ [][Next]_vars

(* A pass is one goroutine and runs to its end; the ticker starts a new     *)
(* one every minute; the Google API does not refuse writes for ever.        *)
(* People owe the system nothing.                                           *)
Fairness ==
    /\ WF_vars(ScheduledPass)
    /\ \A r \in Runs : WF_vars(PassStep(r))
    /\ SF_vars(run[AutoSync].puts # {} /\ WriteCells(AutoSync))

FairSpec == Spec /\ Fairness
-----------------------------------------------------------------------------
(* The transform that SuggestMapping proposes for every column. *)
DefaultTransforms == \A f \in Field : Transform[f] = TransformFor(Type[f])

(* A run's record, whatever it is doing. *)
Pass == [pc : {"idle", "read", "ticket", "link", "write"},
         op : {"none", "import", "push", "reconcile", "resolve"},
         maps : SUBSET Field, puts : SUBSET Field,
         row : [Field -> Words], base : [Field -> Words],
         tk : [val : [Field -> Words], assigned : BOOLEAN]]

Conflict == [open : BOOLEAN, base : Words, sheet : Words, db : Words]

(* What a snapshot or a conflict can say of a field: a value of the ticket's *)
(* column, or nothing.                                                      *)
Stored(f) == TicketValues(Type[f]) \cup {""}

(* A text column of the sheet holds texts. *)
TextCells(row) ==
    \A f \in Field : Type[f] \in {"text", "custom"} => row[f] \in Texts \cup {""}

(* The ticket and the baseline that a run has read, and the row it loaded.  *)
PassValues(p) ==
    /\ TextCells(p.row)
    /\ p.pc # "read" =>
          \A f \in Field : p.tk.val[f] \in TicketValues(Type[f]) /\ p.base[f] \in Stored(f)

(* Tickets hold values of their columns' types, whatever is typed into the  *)
(* sheet; the stored copies are such values or absent.                      *)
TypeOK ==
    /\ ticket \in [val : [Field -> Words], assigned : BOOLEAN]
    /\ cell \in [Field -> Words]
    /\ conn \in [mapped : SUBSET Field, direction : Directions]
    /\ baseline \in [Field -> Words]
    /\ conflict \in [Field -> Conflict]
    /\ run \in [Runs -> Pass]
    /\ budget \in Nat
    /\ TextCells(cell)
    /\ \A f \in Field :
          /\ ticket.val[f] \in TicketValues(Type[f])
          /\ baseline[f] \in Stored(f)
          /\ {conflict[f].base, conflict[f].sheet, conflict[f].db} \subseteq Stored(f)
    /\ \A r \in Runs : run[r].pc # "idle" => PassValues(run[r])

(* Both sides say the same, or the difference is on record for review with  *)
(* the values they have now.                                                *)
Settled(f) ==
    \/ SheetValue(f, cell[f]) = ticket.val[f]
    \/ conflict[f].open /\ UpToDate(f)

(* Once people stop, auto-sync brings every mapped field to rest: in step   *)
(* or in review, however many passes failed, crashed or overlapped before.  *)
Converges == <>[](\A f \in conn.mapped : Settled(f))
=============================================================================
