------------------------------ MODULE MCServer ------------------------------
(***************************************************************************)
(* Server for TLC, with four of the sixteen migrations: two of the         *)
(* baseline, of which the second refers to the first, one that changes a   *)
(* table of the baseline, and the one that creates google_tokens.          *)
(***************************************************************************)
EXTENDS Server, TLC

MCFiles == <<"002_create_users", "004_create_tickets", "010_ticket_linking",
             "015_google_sheets">>
MCNeeds == [f \in FileNames |->
    CASE f = "002_create_users" -> {}
      [] f = "004_create_tickets" -> {"users"}
      [] OTHER -> {"tickets"}]
MCCreates == [f \in {MCFiles[i] : i \in DOMAIN MCFiles} |->
    CASE f = "002_create_users" -> {"users"}
      [] f = "004_create_tickets" -> {"tickets"}
      [] f = "015_google_sheets" -> {"google_tokens"}
      [] OTHER -> {}]

Symmetry == Permutations(Clients) \cup Permutations(Accounts)
=============================================================================
