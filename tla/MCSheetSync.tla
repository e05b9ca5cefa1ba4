---------------------------- MODULE MCSheetSync -----------------------------
(***************************************************************************)
(* SheetSync for TLC: one field of each type that behaves differently.     *)
(***************************************************************************)
EXTENDS SheetSync

CONSTANTS
    StatusInput,    \* the statuses that people give the ticket
    StatusCells     \* the words they write in the status column

MCType == [f \in Field |-> CASE f = "Notes"   -> "text"
                             [] f = "Price"   -> "currency"
                             [] f = "Fixed"   -> "bool"
                             [] f = "DueDate" -> "date"
                             [] f = "Status"  -> "status"
                             [] f = "Rack"    -> "custom"]

MCTransform == [f \in Field |-> TransformFor(MCType[f])]

MCTicketInput == [f \in Field |->
    CASE f = "Notes"   -> Texts
      [] f = "Price"   -> Amounts \cup {"0.00"}
      [] f = "Fixed"   -> {"true", "false"}
      [] f = "DueDate" -> Dates
      [] f = "Status"  -> StatusInput
      [] f = "Rack"    -> {}]

MCCellInput == [f \in Field |->
    CASE f = "Notes"   -> Texts
      [] f = "Price"   -> Amounts \cup {"", "n/a"}
      [] f = "Fixed"   -> {"Yes", "No"}
      [] f = "DueDate" -> Dates \cup {"soon"}
      [] f = "Status"  -> StatusCells
      [] f = "Rack"    -> {"", "A1"}]
=============================================================================
