---------------------------- MODULE MCRowLinks -----------------------------
(***************************************************************************)
(* RowLinks for TLC: a laptop whose serial number has two spellings, and a *)
(* phone.  The app has no ticket at first, or one or two of the laptop.    *)
(***************************************************************************)
EXTENDS RowLinks

MCOwner == [k \in Keys |-> IF k = "phone" THEN "m2" ELSE "m1"]

MCTicketsBefore == {<<>>, <<"laptop">>, <<"laptop", "laptop">>}
=============================================================================
