------------------------------ MODULE RowLinks ------------------------------
(***************************************************************************)
(* How a row of the sheet finds its ticket: classifyRow, resolveLink and   *)
(* upsertLink of services/sheet_sync_service.go, the stamp that Push       *)
(* writes into the sheet, and the adoption review of                       *)
(* services/sheet_adoption_service.go.                                     *)
(*                                                                         *)
(* Of a row's columns only two matter here: the identity column (say, the  *)
(* serial number), which is a mapped field like any other, and the column  *)
(* with the stamp "PLR-<id of the link>".  A pass reads all rows first and *)
(* writes cells by row number at the very end.  What happens to the other  *)
(* columns is SheetSync's, except that the update of a ticket that nobody  *)
(* is assigned to is rejected.                                             *)
(***************************************************************************)
EXTENDS Naturals, Sequences, SequencesExt, FiniteSets

CONSTANTS
    Machines,       \* what people keep a row for, one row each
    Keys,           \* identity values, each of one machine
    Owner,          \* the machine that a key belongs to
    TicketsBefore,  \* tickets that the app may have at first, as their keys
    Passes,         \* passes that may be under way at once
    AutoPass,       \* the scheduler's
    Directions,     \* the sync directions that the admin uses
    Hazards,        \* see below
    MaxUserActions  \* bound on the actions of people and on restarts

(* "overlap"            passes are under way at the same time               *)
(* "move_during_write"  rows move while a push or a reconcile is under way  *)
(* "rekey_unstamped"    the key of a row without a stamp changes            *)
(* "insert_error"       the database rejects a new sheet_adoptions row, as  *)
(*                      the foreign keys of migration 015 reject its zeros  *)
HazardKinds == {"overlap", "move_during_write", "rekey_unstamped", "insert_error"}

(* An empty identity cell. *)
Blank == ""

ASSUME LinksAssumption ==
    /\ IsFiniteSet(Machines)
    /\ Blank \notin Keys
    /\ Owner \in [Keys -> Machines]
    /\ TicketsBefore \subseteq Seq(Keys)
    /\ AutoPass \in Passes
    /\ Directions \subseteq {"pull", "push", "two_way"}
    /\ Hazards \subseteq HazardKinds
    /\ MaxUserActions \in Nat

Cell == INSTANCE CellValues WITH
            Texts <- Keys, Amounts <- {}, Dates <- {}, Scribbles <- {}

VARIABLES
    sheet,      \* the data rows, in their order
    ticket,     \* the identity column of the tickets, by ticket id
    assigned,   \* the tickets whose assigned_to is not NULL
    link,       \* sheet_row_links of the connection, by id
    review,     \* the sheet_adoptions rows whose status is "open"
    direction,  \* the connection's sync direction
    pass,       \* the passes under way
    budget      \* user actions, restarts and failing inserts left

vars == <<sheet, ticket, assigned, link, review, direction, pass, budget>>

(* sheet_row_uid is a natural key or a stamp; stamp n stands for "PLR-n",   *)
(* and 0 for an empty cell or column.                                       *)
KeyUid(key) == <<"key", key>>
StampUid(stamp) == <<"stamp", stamp>>

Uid(row) == IF row.stamp # 0 THEN StampUid(row.stamp) ELSE KeyUid(row.key)

Row == [machine : Machines, key : Keys \cup {Blank}, stamp : Nat]

NoLink == [uid |-> KeyUid(Blank), ticket |-> 0, base |-> Blank, stamped |-> 0]

(* i is the row at hand; id, copy, tk and key are the link and the ticket   *)
(* as read for it; puts are the cells queued for WriteCells.                *)
IdlePass == [pc |-> "idle", op |-> "none", rows |-> <<>>, i |-> 0, id |-> 0,
             copy |-> NoLink, tk |-> 0, key |-> Blank, puts |-> {}]

(* A sheet with a row for some of the machines, which nothing has imported  *)
(* yet; the app may have tickets already, assigned or not.                  *)
Init ==
    /\ \E m \in SUBSET Machines :
          sheet \in {s \in [1..Cardinality(m) -> [machine : m, key : Keys, stamp : {0}]] :
                       \A i \in DOMAIN s : /\ Owner[s[i].key] = s[i].machine
                                         /\ \A j \in DOMAIN s : s[i].machine = s[j].machine => i = j}
    /\ ticket \in TicketsBefore
    /\ \E n \in 0..Len(ticket) : assigned = 1..n
    /\ link = <<>>
    /\ review = {}
    /\ direction \in Directions
    /\ pass = [p \in Passes |-> IdlePass]
    /\ budget = MaxUserActions

Idle(p) == pass[p].pc = "idle"

BudgetSpent == budget > 0 /\ budget' = budget - 1
-----------------------------------------------------------------------------
(* One(&link) takes any link that the filter matches. *)
ByStamp(stamp) == {l \in DOMAIN link : stamp # 0 /\ link[l].stamped = stamp}
ByUid(uid) == {l \in DOMAIN link : link[l].uid = uid}

\* Mutant: the stamp does not count.
ResolveLinkByKey(row) == ByUid(KeyUid(row.key))

(* resolveLink, of Push and Reconcile: by stamp, else by natural key. *)
ResolveLink(row) ==
    IF ByStamp(row.stamp) # {} THEN ByStamp(row.stamp) ELSE ByUid(KeyUid(row.key))

\* Mutant: the stamp is compared with sheet_row_uid only.
LinkForImportByUid(row) == ByUid(Uid(row))

(* classifyRow, of Import: by stamp, else by the uid the link would have. *)
LinkForImport(row) ==
    IF ByStamp(row.stamp) # {} THEN ByStamp(row.stamp) ELSE ByUid(Uid(row))

Candidates(key) == {t \in DOMAIN ticket : ticket[t] = key}

Allowed(p, op) ==
    IF p = AutoPass
    THEN op = CASE direction = "pull" -> "import"
                [] direction = "push" -> "push"
                [] OTHER              -> "reconcile"
    ELSE \/ op = "import"
         \/ op = "push" /\ direction # "pull"
         \/ op = "reconcile" /\ direction = "two_way"

(* loadContext. *)
Load(p, op) ==
    /\ Idle(p)
    /\ "overlap" \in Hazards \/ \A q \in Passes : Idle(q)
    /\ Allowed(p, op)
    /\ pass' = [pass EXCEPT ![p] = [IdlePass EXCEPT !.pc = "row", !.op = op,
                                                    !.rows = sheet, !.i = 1]]
    /\ UNCHANGED <<sheet, ticket, assigned, link, review, direction>>

At(p, pc) == pass[p].pc = pc /\ pass[p].i <= Len(pass[p].rows)

RowOf(p) == pass[p].rows[pass[p].i]

NextRow(q) == [IdlePass EXCEPT !.pc = "row", !.op = q.op, !.rows = q.rows, !.i = q.i + 1,
                               !.puts = q.puts]

(* The row's link and its ticket. *)
Found(p, l, pc) ==
    pass' = [pass EXCEPT ![p] = [@ EXCEPT !.pc = pc, !.id = l, !.copy = link[l],
                                          !.tk = link[l].ticket, !.key = ticket[link[l].ticket]]]

(* classifyRow: "update", or "create" (tk is 0) and "adopt". *)
ClassifyRow(p) ==
    LET row == RowOf(p)
        candidates == Candidates(row.key)
    IN  /\ At(p, "row") /\ pass[p].op = "import"
        /\ row.key # Blank
        /\ \/ \E l \in LinkForImport(row) : Found(p, l, "ticket")
           \/ /\ LinkForImport(row) = {}
              /\ Cardinality(candidates) <= 1
              /\ \E t \in IF candidates = {} THEN {0} ELSE candidates :
                    pass' = [pass EXCEPT ![p] = [@ EXCEPT !.pc = "ticket", !.id = 0, !.tk = t]]
        /\ UNCHANGED <<sheet, ticket, assigned, link, review, direction, budget>>

(* recordAdoption refreshes the row's open review, or inserts one; an error *)
(* of the insert is dropped.                                                *)
PutUpForReview(p) ==
    LET row == RowOf(p)
        new == [uid |-> Uid(row), key |-> row.key, candidates |-> Candidates(row.key)]
        open == {a \in review : a.uid = new.uid}
    IN  \/ \E a \in open : review' = (review \ {a}) \cup {new}
        \/ open = {} /\ review' = review \cup {new}
        \/ open = {} /\ "insert_error" \in Hazards /\ UNCHANGED review

(* classifyRow: "ambiguous". *)
RecordAdoption(p) ==
    /\ At(p, "row") /\ pass[p].op = "import"
    /\ RowOf(p).key # Blank /\ LinkForImport(RowOf(p)) = {}
    /\ Cardinality(Candidates(RowOf(p).key)) > 1
    /\ PutUpForReview(p)
    /\ pass' = [pass EXCEPT ![p] = NextRow(@)]
    /\ UNCHANGED <<sheet, ticket, assigned, link, direction, budget>>

(* resolveLink and the ticket, in Push and Reconcile. *)
FindTicket(p) ==
    /\ At(p, "row") /\ pass[p].op # "import"
    /\ \E l \in ResolveLink(RowOf(p)) :
          Found(p, l, IF pass[p].op = "push" THEN "link" ELSE "ticket")
    /\ UNCHANGED <<sheet, ticket, assigned, link, review, direction, budget>>

(* No serial number, or no link. *)
SkipRow(p) ==
    /\ At(p, "row")
    /\ IF pass[p].op = "import" THEN RowOf(p).key = Blank ELSE ResolveLink(RowOf(p)) = {}
    /\ pass' = [pass EXCEPT ![p] = NextRow(@)]
    /\ UNCHANGED <<sheet, ticket, assigned, link, review, direction, budget>>

\* Mutant: the new ticket's id is not read back.
ApplyCreateWithoutId(p) ==
    /\ At(p, "ticket") /\ pass[p].op = "import" /\ pass[p].tk = 0
    /\ ticket' = Append(ticket, RowOf(p).key)
    /\ pass' = [pass EXCEPT ![p].pc = "link"]
    /\ UNCHANGED <<sheet, assigned, link, review, direction, budget>>

(* insertTicket leaves the ticket unassigned.  If its second statement      *)
(* fails, the ticket keeps the placeholder and the row gets no link.        *)
ApplyCreate(p) ==
    /\ At(p, "ticket") /\ pass[p].op = "import" /\ pass[p].tk = 0
    /\ ticket' = Append(ticket, RowOf(p).key)
    /\ \/ /\ pass' = [pass EXCEPT ![p] = [@ EXCEPT !.pc = "link", !.tk = Len(ticket) + 1]]
          /\ UNCHANGED <<assigned, budget>>
       \/ /\ pass' = [pass EXCEPT ![p] = NextRow(@)]
          /\ assigned' = assigned \cup {Len(ticket) + 1}
          /\ BudgetSpent
    /\ UNCHANGED <<sheet, link, review, direction>>

\* Mutant: the link is saved for a ticket that had one only.
ApplyToLinkedTicket(p) ==
    /\ At(p, "ticket") /\ pass[p].op = "import" /\ pass[p].tk # 0
    /\ IF pass[p].tk \in assigned /\ pass[p].id # 0
       THEN /\ ticket' = [ticket EXCEPT ![pass[p].tk] = RowOf(p).key]
            /\ pass' = [pass EXCEPT ![p].pc = "link"]
       ELSE /\ pass' = [pass EXCEPT ![p] = NextRow(@)]
            /\ UNCHANGED ticket
    /\ UNCHANGED <<sheet, assigned, link, review, direction, budget>>

(* o.Update writes all columns, and 0 for an assigned_to that is NULL,      *)
(* which its foreign key rejects; the row then gets no link, or keeps it    *)
(* as it is.                                                                *)
ApplyToTicket(p) ==
    /\ At(p, "ticket") /\ pass[p].op = "import" /\ pass[p].tk # 0
    /\ IF pass[p].tk \in assigned
       THEN /\ ticket' = [ticket EXCEPT ![pass[p].tk] = RowOf(p).key]
            /\ pass' = [pass EXCEPT ![p].pc = "link"]
       ELSE /\ pass' = [pass EXCEPT ![p] = NextRow(@)]
            /\ UNCHANGED ticket
    /\ UNCHANGED <<sheet, assigned, link, review, direction, budget>>

Verdict(p) == Cell!ClassifyField(pass[p].copy.base, RowOf(p).key, pass[p].key)

(* Reconcile's merge of the identity column, whatever becomes of the update.*)
MergeTicket(p) ==
    /\ At(p, "ticket") /\ pass[p].op = "reconcile"
    /\ ticket' = IF Verdict(p) = "sheetWins" /\ pass[p].tk \in assigned
                 THEN [ticket EXCEPT ![pass[p].tk] = RowOf(p).key] ELSE ticket
    /\ pass' = [pass EXCEPT ![p].pc = "link"]
    /\ UNCHANGED <<sheet, assigned, link, review, direction, budget>>

\* Mutant: the link does not remember the stamp that Push writes.
PushedLinkUnstamped(p) == [pass[p].copy EXCEPT !.base = pass[p].key]

(* What Push saves: the stamp it will write to the row is the link's. *)
PushedLink(p) == [pass[p].copy EXCEPT !.base = pass[p].key, !.stamped = pass[p].id]

MergedLink(p) ==
    [pass[p].copy EXCEPT !.base = CASE Verdict(p) = "sheetWins" -> RowOf(p).key
                                    [] Verdict(p) = "conflict"  -> @
                                    [] OTHER                    -> pass[p].key]

(* upsertLink's existing link. *)
ImportedLink(p) ==
    [pass[p].copy EXCEPT !.ticket = pass[p].tk, !.base = RowOf(p).key,
                         !.stamped = IF RowOf(p).stamp # 0 THEN RowOf(p).stamp ELSE @]

NewLink(p) == [uid |-> Uid(RowOf(p)), ticket |-> pass[p].tk, base |-> RowOf(p).key,
               stamped |-> RowOf(p).stamp]

(* The cells that a row adds to the final batch. *)
Puts(p) ==
    CASE pass[p].op = "push" ->
             {[pos |-> pass[p].i, key |-> pass[p].key, stamp |-> pass[p].id]}
      [] pass[p].op = "reconcile" /\ Verdict(p) = "dbWins" ->
             {[pos |-> pass[p].i, key |-> pass[p].key, stamp |-> 0]}
      [] OTHER -> {}

(* The link is inserted, or its whole row is updated. *)
SaveLink(p) ==
    /\ At(p, "link")
    /\ link' = IF pass[p].id = 0
               THEN Append(link, NewLink(p))
               ELSE [link EXCEPT ![pass[p].id] = CASE pass[p].op = "import" -> ImportedLink(p)
                                                   [] pass[p].op = "push"   -> PushedLink(p)
                                                   [] OTHER                 -> MergedLink(p)]
    /\ pass' = [pass EXCEPT ![p] = [NextRow(@) EXCEPT !.puts = pass[p].puts \cup Puts(p)]]
    /\ UNCHANGED <<sheet, ticket, assigned, review, direction, budget>>

(* The end of a pass: WriteCells, by row number. *)
EndPass(p) ==
    /\ pass[p].pc = "row" /\ pass[p].i > Len(pass[p].rows)
    /\ sheet' = [i \in DOMAIN sheet |->
                    IF \E u \in pass[p].puts : u.pos = i
                    THEN LET u == CHOOSE u \in pass[p].puts : u.pos = i
                         IN  [sheet[i] EXCEPT !.key = u.key,
                                              !.stamp = IF u.stamp # 0 THEN u.stamp ELSE @]
                    ELSE sheet[i]]
    /\ pass' = [pass EXCEPT ![p] = IdlePass]
    /\ UNCHANGED <<ticket, assigned, link, review, direction, budget>>

WriteFails(p) ==
    /\ pass[p].pc = "row" /\ pass[p].i > Len(pass[p].rows) /\ pass[p].puts # {}
    /\ pass' = [pass EXCEPT ![p] = IdlePass]
    /\ UNCHANGED <<sheet, ticket, assigned, link, review, direction, budget>>

PassStep(p) ==
    \/ ClassifyRow(p) \/ RecordAdoption(p) \/ FindTicket(p) \/ SkipRow(p)
    \/ ApplyCreate(p) \/ ApplyToTicket(p) \/ MergeTicket(p)
    \/ SaveLink(p) \/ EndPass(p) \/ WriteFails(p)
-----------------------------------------------------------------------------
(* What people do. *)

SheetActs ==
    /\ BudgetSpent
    /\ "move_during_write" \in Hazards \/ \A p \in Passes : Idle(p) \/ pass[p].op = "import"
    /\ UNCHANGED <<ticket, assigned, link, review, direction, pass>>

AppActs ==
    /\ BudgetSpent
    /\ \A p \in Passes : Idle(p)
    /\ UNCHANGED <<sheet, direction, pass>>

MoveRow(i, j) ==
    /\ SheetActs
    /\ sheet' = [sheet EXCEPT ![i] = sheet[j], ![j] = sheet[i]]

AddRow(i, m, key) ==
    /\ SheetActs
    /\ \A j \in DOMAIN sheet : sheet[j].machine # m
    /\ key # Blank => Owner[key] = m
    /\ sheet' = InsertAt(sheet, i, [machine |-> m, key |-> key, stamp |-> 0])

EditKey(i, key) ==
    /\ SheetActs
    /\ key # sheet[i].key /\ Owner[key] = sheet[i].machine
    /\ "rekey_unstamped" \in Hazards \/ sheet[i].stamp # 0 \/ sheet[i].key = Blank
    /\ sheet' = [sheet EXCEPT ![i].key = key]

CreateTicket(key) ==
    /\ AppActs
    /\ ticket' = Append(ticket, key)
    /\ assigned' \in {assigned, assigned \cup {Len(ticket) + 1}}
    /\ UNCHANGED <<link, review>>

Assign(t) ==
    /\ AppActs
    /\ assigned' = IF t \in assigned THEN assigned \ {t} ELSE assigned \cup {t}
    /\ UNCHANGED <<ticket, link, review>>

EditTicketKey(t, key) ==
    /\ AppActs
    /\ key # ticket[t] /\ ticket[t] # Blank /\ Owner[key] = Owner[ticket[t]]
    /\ \/ "rekey_unstamped" \in Hazards
       \/ \E row \in Range(sheet) : row.stamp # 0 /\ link[row.stamp].ticket = t
    /\ ticket' = [ticket EXCEPT ![t] = key]
    /\ UNCHANGED <<assigned, link, review>>

(* SheetAdoptionService.upsertLink. *)
LinkReviewed(a, t) ==
    IF ByUid(a.uid) = {}
    THEN link' = Append(link, [uid |-> a.uid, ticket |-> t, base |-> a.key, stamped |-> 0])
    ELSE \E l \in ByUid(a.uid) : link' = [link EXCEPT ![l].ticket = t, ![l].base = a.key]

(* An adoption is dismissed, or the row gets a new ticket, unless the       *)
(* second statement of insertTicket fails, or a candidate, whether or not   *)
(* its update succeeds.                                                     *)
ResolveAdoption(a) ==
    /\ AppActs
    /\ \/ /\ review' = review \ {a}
          /\ UNCHANGED <<ticket, assigned, link>>
       \/ /\ ticket' = Append(ticket, a.key)
          /\ LinkReviewed(a, Len(ticket) + 1)
          /\ review' = review \ {a}
          /\ UNCHANGED assigned
       \/ /\ ticket' = Append(ticket, a.key)
          /\ assigned' = assigned \cup {Len(ticket) + 1}
          /\ UNCHANGED <<link, review>>
       \/ \E t \in a.candidates :
             /\ ticket' = [ticket EXCEPT ![t] = IF t \in assigned THEN a.key ELSE @]
             /\ LinkReviewed(a, t)
             /\ review' = review \ {a}
             /\ UNCHANGED assigned

(* The server restarts. *)
Restart ==
    /\ BudgetSpent
    /\ \E p \in Passes : ~Idle(p)
    /\ pass' = [p \in Passes |-> IdlePass]
    /\ UNCHANGED <<sheet, ticket, assigned, link, review, direction>>

ScheduledPass ==
    /\ \E op \in {"import", "push", "reconcile"} : Load(AutoPass, op)
    /\ UNCHANGED budget

RequestedPass(p, op) == p # AutoPass /\ BudgetSpent /\ Load(p, op)

Next ==
    \/ ScheduledPass
    \/ \E p \in Passes, op \in {"import", "push", "reconcile"} : RequestedPass(p, op)
    \/ \E p \in Passes : PassStep(p)
    \/ \E i, j \in DOMAIN sheet : i < j /\ MoveRow(i, j)
    \/ \E i \in 1..Len(sheet) + 1, m \in Machines, key \in Keys \cup {Blank} : AddRow(i, m, key)
    \/ \E i \in DOMAIN sheet, key \in Keys : EditKey(i, key)
    \/ \E key \in Keys : CreateTicket(key)
    \/ \E t \in DOMAIN ticket, key \in Keys : EditTicketKey(t, key)
    \/ \E t \in DOMAIN ticket : Assign(t)
    \/ \E a \in review : ResolveAdoption(a)
    \/ Restart

Spec == Init /\ [][Next]_vars

(* The ticker comes round every minute, and a pass runs to its end. *)
Fairness == WF_vars(ScheduledPass) /\ \A p \in Passes : WF_vars(PassStep(p))

FairSpec == Spec /\ Fairness
-----------------------------------------------------------------------------
TypeOK ==
    /\ sheet \in Seq(Row)
    /\ ticket \in Seq(Keys \cup {Blank})
    /\ assigned \subseteq DOMAIN ticket
    /\ \A l \in DOMAIN link :
          /\ link[l].uid \in {KeyUid(k) : k \in Keys} \cup {StampUid(n) : n \in DOMAIN link}
          /\ link[l].ticket \in DOMAIN ticket
          /\ link[l].base \in Keys \cup {Blank}
          /\ link[l].stamped \in 0..Len(link)
    /\ \A a \in review : a.candidates \subseteq DOMAIN ticket
    /\ direction \in Directions
    /\ \A p \in Passes :
          /\ pass[p].rows \in Seq(Row)
          /\ pass[p].id \in 0..Len(link)
          /\ pass[p].tk \in 0..Len(ticket)
    /\ budget \in 0..MaxUserActions

(* The ticket that a push or a reconcile finds for a machine's row. *)
TicketOf ==
    [m \in Machines |->
        IF \E row \in Range(sheet) : row.machine = m /\ ResolveLink(row) # {}
        THEN LET row == CHOOSE r \in Range(sheet) : r.machine = m
             IN  link[CHOOSE l \in ResolveLink(row) : TRUE].ticket
        ELSE 0]

Registry == INSTANCE RowRegistry WITH ticketOf <- TicketOf

(* Once a row has a ticket it keeps it, wherever it moves and however its   *)
(* identity is corrected, and no two rows share one.                        *)
ImplementsRegistry == Registry!Spec

(* Import looks for links in another way than Push and Reconcile do; they   *)
(* must find the same one.                                                  *)
LookupsAgree ==
    \A row \in Range(sheet) : row.key # Blank => ResolveLink(row) = LinkForImport(row)

(* No two links name one ticket: its conflicts and baseline have one home. *)
OneLinkPerTicket ==
    \A l, k \in DOMAIN link : link[l].ticket = link[k].ticket => l = k

(* The rows that an import can do something with: those that match no       *)
(* ticket, or one whose update is not rejected.                             *)
Importable(row) ==
    /\ row.key # Blank
    /\ Candidates(row.key) = {} \/ \E t \in assigned : Candidates(row.key) = {t}

(* On a pull connection every such row comes to have a link, however often  *)
(* it was passed over before: because its ticket was made and not linked,   *)
(* or belonged to nobody, or because it matched several tickets.            *)
ImportableRowsAreLinked ==
    direction = "pull" =>
        <>[](\A row \in Range(sheet) : Importable(row) => LinkForImport(row) # {})

(* README: rows can move around the sheet without breaking links. *)
MovedRowsKeepTheirTickets ==
    [][\A m \in Machines : TicketOf[m] # 0 => TicketOf'[m] = TicketOf[m]]_vars
=============================================================================
