----------------------------- MODULE CellValues -----------------------------
(***************************************************************************)
(* The conversions between a Google Sheet cell and a column of a ticket:   *)
(* services/import_service.go (parsing) and the helpers at the end of      *)
(* services/sheet_sync_service.go.                                         *)
(*                                                                         *)
(* A cell holds a string.  A ticket column is typed; its value is written  *)
(* here in the canonical form fieldCanonical gives it ("10.00", "true",    *)
(* "2024-05-01", the status word), and "" is also Go's empty string and    *)
(* the zero time.  White space and letter case, which every conversion     *)
(* drops, are left out, and so are the several spellings of one date or    *)
(* one amount: an amount or a date stands for all its spellings.           *)
(***************************************************************************)
EXTENDS TicketStatus

CONSTANTS
    Texts,      \* non-empty texts
    Amounts,    \* non-zero amounts, in the form strconv.FormatFloat(x,'f',2) gives
    Dates,      \* dates that parseFlexDate accepts
    Scribbles   \* what else people type, and no conversion recognises

ASSUME ValuesAssumption ==
    /\ "" \notin Texts \cup Amounts \cup Dates
    /\ "0.00" \notin Amounts

(* The type of a column: the Go kind of the ticket's field; "status" is the *)
(* string field Status, which setTicketField singles out, and "custom" a    *)
(* key of the CustomFields JSON.                                            *)
Types == {"text", "custom", "currency", "bool", "date", "status"}

(* What the mapping page lets an admin choose for a column. *)
Transforms == {"text", "currency", "bool", "date", "status"}

(* Everything that a cell may hold or a snapshot may say. *)
Words == Texts \cup Amounts \cup Dates \cup Scribbles \cup Statuses
            \cup {"", "0.00", "true", "false", "Yes", "No",
                  "hold", "on hold", "part applied", "finished"}

TransformFor(type) == IF type = "custom" THEN "text" ELSE type

TicketValues(type) ==
    CASE type = "text"     -> Texts \cup {""}
      [] type = "custom"   -> Texts \cup {""}
      [] type = "currency" -> Amounts \cup {"0.00"}
      [] type = "bool"     -> {"true", "false"}
      [] type = "date"     -> Dates \cup {""}
      [] type = "status"   -> Statuses

(* The value of a column in a ticket that applyCreate has just made. *)
NewTicketValue(type) ==
    CASE type = "currency" -> "0.00"
      [] type = "bool"     -> "false"
      [] type = "status"   -> "open"
      [] OTHER             -> ""

(* The words a repair shop writes in its status column are not the ten      *)
(* statuses: whatever is not recognised is "open".                          *)
MapExcelStatus(raw) ==
    CASE raw \in {"hold", "on hold"}    -> "on_hold"
      [] raw = "part applied"           -> "part_applied"
      [] raw \in {"finished", "closed"} -> "closed"
      [] OTHER                          -> "open"

ParseCurrency(raw) == IF raw \in Amounts THEN raw ELSE "0.00"

ParseBool(raw) == IF raw = "Yes" THEN "true" ELSE "false"

(* canonicalValue: what a cell says, as the comparison sees it. *)
CanonicalValue(raw, transform) ==
    CASE transform = "currency" -> ParseCurrency(raw)
      [] transform = "bool"     -> ParseBool(raw)
      [] transform = "date"     -> IF raw \in Dates THEN raw ELSE ""
      [] transform = "status"   -> MapExcelStatus(raw)
      [] OTHER                  -> raw

(* formatFieldValue: what is written to the cell for a ticket's value. *)
FormatFieldValue(type, value) ==
    CASE type = "currency" -> IF value = "0.00" THEN "" ELSE value
      [] type = "bool"     -> IF value = "true" THEN "Yes" ELSE "No"
      [] OTHER             -> value

\* Mutant: the sheet's word is stored as the status.
SetTicketFieldRawStatus(type, raw, old) ==
    CASE type = "currency" -> ParseCurrency(raw)
      [] type = "bool"     -> ParseBool(raw)
      [] type = "date"     -> IF raw \in Dates THEN raw ELSE old
      [] OTHER             -> raw

(* setTicketField: the ticket's value after a cell is applied to it.  A     *)
(* date that does not parse, a cleared one included, leaves it as it was.   *)
SetTicketField(type, raw, old) ==
    CASE type = "status"   -> MapExcelStatus(raw)
      [] type = "currency" -> ParseCurrency(raw)
      [] type = "bool"     -> ParseBool(raw)
      [] type = "date"     -> IF raw \in Dates THEN raw ELSE old
      [] OTHER             -> raw

(* applyFields: an import does the same, but never clears a custom field. *)
ImportField(type, raw, old) ==
    IF type = "custom" /\ raw = "" THEN old ELSE SetTicketField(type, raw, old)

\* Mutant: the ticket's own change is not looked at.
ClassifyFieldIgnoringDb(baseline, sheet, db) ==
    CASE sheet = db         -> "agree"
      [] sheet # baseline   -> "sheetWins"
      [] OTHER              -> "dbWins"

\* Mutant: the sheet's own change is not looked at.
ClassifyFieldIgnoringSheet(baseline, sheet, db) ==
    CASE sheet = db         -> "agree"
      [] db # baseline      -> "dbWins"
      [] OTHER              -> "sheetWins"

(* classifyField: the three-way comparison at the heart of Reconcile. *)
ClassifyField(baseline, sheet, db) ==
    CASE sheet = db                          -> "agree"
      [] sheet # baseline /\ db = baseline   -> "sheetWins"
      [] sheet = baseline /\ db # baseline   -> "dbWins"
      [] OTHER                               -> "conflict"

(* The column types whose values survive the trip to the sheet and back:    *)
(* writing a value and reading it again gives that value, and applying a    *)
(* cell to a ticket makes the ticket say what the cell says.                *)
RoundTrips(type) ==
    LET transform == TransformFor(type)
    IN  /\ \A v \in TicketValues(type) :
             CanonicalValue(FormatFieldValue(type, v), transform) = v
        /\ \A raw, old \in Words :
             SetTicketField(type, raw, old) = CanonicalValue(raw, transform)
=============================================================================
