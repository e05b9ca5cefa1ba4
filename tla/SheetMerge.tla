----------------------------- MODULE SheetMerge -----------------------------
(***************************************************************************)
(* What two-way synchronisation owes the people on both sides.  The state  *)
(* machine is SheetSync's; three observation variables remember what its   *)
(* variables forget.                                                       *)
(*                                                                         *)
(* Reconcile is a three-way merge.  It may overwrite one side only with    *)
(* knowledge that the other side has had the overwritten value, and that   *)
(* knowledge is the baseline: the merge is sound as long as the baseline   *)
(* is a value that the cell and the ticket have both held.                 *)
(***************************************************************************)
EXTENDS SheetSync

VARIABLES
    sheetHeld,      \* per field, every value the cell has shown so far
    ticketHeld,     \* per field, every value the ticket has had so far
    reconciled      \* a reconcile finished and nobody has acted since

mvars == <<vars, sheetHeld, ticketHeld, reconciled>>

MInit ==
    /\ Init
    /\ sheetHeld = [f \in Field |-> {SheetValue(f, cell[f])}]
    /\ ticketHeld = [f \in Field |-> {ticket.val[f]}]
    /\ reconciled = FALSE

Observe ==
    /\ sheetHeld' = [f \in Field |-> sheetHeld[f] \cup {SheetValue(f, cell'[f])}]
    /\ ticketHeld' = [f \in Field |-> ticketHeld[f] \cup {ticket'.val[f]}]
    /\ reconciled' =
          IF budget' # budget THEN FALSE
          ELSE \/ reconciled
               \/ \E r \in Runs : run[r].op = "reconcile" /\ WriteCells(r)

MNext == Next /\ Observe

MSpec == MInit /\ [][MNext]_mvars
-----------------------------------------------------------------------------
(* r is between saving a baseline and delivering its value to the cell. *)
Delivering(r, f) ==
    /\ run[r].pc = "write"
    /\ f \in run[r].puts
    /\ baseline[f] = run[r].tk.val[f]

(* The baseline of a mapped field is a common ancestor of its two sides: a  *)
(* value that both have held, or one on its way to the cell.  This is what  *)
(* classifyField takes for granted when it calls a side unchanged.          *)
CommonAncestor ==
    \A f \in conn.mapped :
        \/ baseline[f] \in sheetHeld[f] \cap ticketHeld[f]
        \/ \E r \in Runs : Delivering(r, f)

(* Reconcile replaces a ticket's value only by a cell's if the sheet has    *)
(* once shown the replaced value: what people enter in the app is delivered *)
(* to the sheet, or put up for review, before it may be overwritten.        *)
NoLostTicketEdit ==
    [][\A r \in Runs, f \in Field :
          run[r].op = "reconcile" /\ MergeTicket(r) /\ ticket'.val[f] # ticket.val[f]
             => ticket.val[f] \in sheetHeld[f]]_mvars

(* The same for what people type in the sheet, when Reconcile writes cells. *)
NoLostSheetEdit ==
    [][\A r \in Runs, f \in Field :
          run[r].op = "reconcile" /\ WriteCells(r) /\ cell'[f] # cell[f]
             => SheetValue(f, cell[f]) \in ticketHeld[f]]_mvars

(* A second reconcile with nobody acting in between pulls nothing, pushes   *)
(* nothing, and finds the conflicts on record with the values they have.    *)
ReconcileIsIdempotent ==
    \A r \in Runs :
        reconciled /\ run[r].pc = "ticket" /\ run[r].op = "reconcile"
           => /\ InClass(run[r], "sheetWins") = {}
              /\ InClass(run[r], "dbWins") = {}
              /\ \A f \in InClass(run[r], "conflict") : conflict[f].open => UpToDate(f)

(* "Sheet" in the conflict review gives the ticket the value that the       *)
(* review showed, if the ticket's row can be written at all.                *)
SheetDecisionIsApplied ==
    [][\A f \in Field : ResolveSheet(f) /\ ticket.assigned
          => ticket'.val[f] = conflict[f].sheet]_mvars

(* A conflict that a reconcile finds is on record when it goes on: it has   *)
(* moved neither side, and only the review can.                             *)
ConflictsArePersisted ==
    [][\A r \in Runs, f \in Field :
          MergeTicket(r) /\ f \in InClass(run[r], "conflict") => conflict'[f].open]_mvars
=============================================================================
