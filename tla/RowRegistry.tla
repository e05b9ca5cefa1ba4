---------------------------- MODULE RowRegistry -----------------------------
(***************************************************************************)
(* What row links are for: every machine on the sheet gets a repair ticket *)
(* of its own at most once, and keeps it.  RowLinks implements this.       *)
(***************************************************************************)
EXTENDS Naturals

CONSTANT Machines

VARIABLE ticketOf   \* the ticket of a machine, 0 if it has none yet

Init == ticketOf = [m \in Machines |-> 0]

Register(m) ==
    /\ ticketOf[m] = 0
    /\ ticketOf'[m] \in Nat \ {0}
    /\ \A n \in Machines : ticketOf[n] # ticketOf'[m]
    /\ \A n \in Machines \ {m} : ticketOf'[n] = ticketOf[n]

Spec == Init /\ [][\E m \in Machines : Register(m)]_ticketOf
=============================================================================
