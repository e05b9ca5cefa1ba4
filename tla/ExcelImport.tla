---------------------------- MODULE ExcelImport -----------------------------
(***************************************************************************)
(* The Excel import: importSheet of services/import_service.go.  A file is *)
(* taken row by row and nothing is carried over from one row to the next,  *)
(* so a request here imports one row.  A ticket is looked up by serial     *)
(* number and issue; there is no version check and no transition check.    *)
(***************************************************************************)
EXTENDS Tickets, FiniteSets

CONSTANT ExcelStatuses      \* the range of mapExcelStatus

ASSUME ImportAssumption ==
    ExcelStatuses \subseteq {"open", "on_hold", "part_applied", "closed"}

Rows == [issue : Issues, text : Texts \cup {Blank}, status : ExcelStatuses]

\* Mutant: the lookup compares the text as well.
WithKeyAndText(row) ==
    {id \in DOMAIN ticket : ticket[id].issue = row.issue /\ ticket[id].text = row.text}

WithKey(row) == {id \in DOMAIN ticket : ticket[id].issue = row.issue}

(* One() takes any of the tickets that match.                               *)
ImportRow(r, u) ==
    /\ Administrator(u)
    /\ req[r] = Idle
    /\ \E row \in Rows :
          \/ \E id \in WithKey(row) :
                Become(r, [pc |-> "overwrite", id |-> id, row |-> row])
          \/ /\ WithKey(row) = {}
             /\ Become(r, [pc |-> "parent", user |-> u, row |-> row, lookedUpTo |-> lastId])
    /\ Act("import")
    /\ UNCHANGED <<ticket, lastId, form, history>>

(* The columns of the row, blank ones included, are written over the        *)
(* ticket's; assignee, version and time of resolution are left alone.       *)
Overwritten(t, row) == [t EXCEPT !.text = row.text, !.status = row.status]

Overwrite(r) ==
    /\ req[r].pc = "overwrite"
    /\ LET id == req[r].id IN
       IF Exists(id)
       THEN /\ ticket' = [ticket EXCEPT ![id] = Overwritten(@, req[r].row)]
            /\ history' = [history EXCEPT ![id].text = "import"]
       ELSE UNCHANGED <<ticket, history>>
    /\ Become(r, Idle)
    /\ UNCHANGED <<lastId, form, todo>>

(* The parent of a new ticket is the oldest one of its serial number.       *)
Oldest == IF DOMAIN ticket = {} THEN 0
          ELSE CHOOSE id \in DOMAIN ticket : \A other \in DOMAIN ticket : id <= other

FindParent(r) ==
    /\ req[r].pc = "parent"
    /\ Become(r, [pc |-> "insert", user |-> req[r].user, row |-> req[r].row,
                  lookedUpTo |-> req[r].lookedUpTo, parent |-> Oldest])
    /\ UNCHANGED <<ticket, lastId, form, todo, history>>

\* Mutant: the parent is looked up after the insert.
InsertRowThenFindParent(r) ==
    /\ req[r].pc = "insert"
    /\ LET row == req[r].row IN
       InsertTicket(r, [issue |-> row.issue, text |-> row.text, assignee |-> Nobody,
                        status |-> row.status, resolved |-> FALSE, version |-> 0,
                        parent |-> IF ticket = <<>> THEN lastId + 1 ELSE Oldest],
                    req[r].user, Written("import", FALSE, req[r].lookedUpTo))
    /\ UNCHANGED <<form, todo>>

InsertRow(r) ==
    /\ req[r].pc = "insert"
    /\ LET row == req[r].row IN
       InsertTicket(r, [issue |-> row.issue, text |-> row.text, assignee |-> Nobody,
                        status |-> row.status, resolved |-> FALSE, version |-> 0,
                        parent |-> req[r].parent],
                    req[r].user, Written("import", FALSE, req[r].lookedUpTo))
    /\ UNCHANGED <<form, todo>>

ImportStep(r) == Overwrite(r) \/ FindParent(r) \/ InsertRow(r)
=============================================================================
