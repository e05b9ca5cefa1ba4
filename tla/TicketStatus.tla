---------------------------- MODULE TicketStatus ----------------------------
(***************************************************************************)
(* The status of a repair ticket and the moves CanTransitionTo allows      *)
(* (models/ticket.go).  The buttons of the ticket page go through this     *)
(* table; the Excel import and the sheet synchronisation do not.           *)
(***************************************************************************)
Statuses == {"open", "diagnosing", "parts_ordered", "part_applied", "in_repair",
             "qc", "resolved", "closed", "on_hold", "cancelled"}

AllowedTransitions ==
    [open          |-> Statuses \ {"open", "part_applied"},
     diagnosing    |-> Statuses \ {"open", "diagnosing"},
     parts_ordered |-> Statuses \ {"open", "diagnosing", "parts_ordered"},
     part_applied  |-> {"in_repair", "qc", "resolved", "closed", "on_hold", "cancelled"},
     in_repair     |-> {"qc", "resolved", "closed", "on_hold", "cancelled"},
     qc            |-> {"resolved", "in_repair", "closed", "on_hold", "cancelled"},
     resolved      |-> {"closed", "open"},
     on_hold       |-> Statuses \ {"on_hold", "cancelled"},
     cancelled     |-> {"open"},
     closed        |-> {"open"}]

CanTransitionTo(current, new) == new \in AllowedTransitions[current]
=============================================================================
