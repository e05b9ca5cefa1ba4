------------------------------ MODULE Tickets -------------------------------
(***************************************************************************)
(* The tickets and the pages that change them: services/ticket_service.go  *)
(* and controllers/ticket_controller.go.  Each database statement commits  *)
(* by itself, and a request may end between two of its statements.         *)
(*                                                                         *)
(* Of a ticket's columns the model keeps those that the code treats        *)
(* differently: the issue (with the serial number, the key by which an     *)
(* Excel import finds a ticket), one text for all the other fields of the  *)
(* form, assignee, status, time of resolution, version and parent.  All    *)
(* tickets are of one branch and have one serial number.                   *)
(***************************************************************************)
EXTENDS UserAccounts, TicketStatus

CONSTANTS
    Issues,         \* issue descriptions that are not empty
    Texts,          \* values of the text field that are not empty
    NewStatuses,    \* statuses that people choose on the ticket page
    MaxTickets      \* bound on the tickets ever created

Blank == ""         \* an empty field
FormFields == {"issue", "text", "assignee"}

ASSUME TicketsAssumption ==
    /\ Blank \notin Texts \cup Issues
    /\ NewStatuses \subseteq Statuses
    /\ MaxTickets \in Nat
    /\ \A load \in Workloads : load.fields \subseteq FormFields

VARIABLES
    ticket,     \* the tickets table, by id
    lastId,     \* the last id given to a ticket
    form,       \* the edit form that each user has open
    history     \* what happened to each ticket; not in the database

vars == <<ticket, lastId, form, req, todo, history>>

NoForm == [id |-> 0]

(* What the history of a ticket tells: whether the text and the key were   *)
(* last written by a form or by an import, whether somebody chose the      *)
(* assignee, whether anything but its creation may still show the          *)
(* placeholder, whether two saves were between check and write at once,    *)
(* and up to which id the import that created it had looked for the key.   *)
Written(by, chosen, lookedUpTo) ==
    [text |-> by, key |-> by, chosen |-> chosen, leaked |-> FALSE,
     raced |-> FALSE, lookedUpTo |-> lookedUpTo]

Histories ==
    [text : {"form", "import"}, key : {"form", "import"}, chosen : BOOLEAN,
     leaked : BOOLEAN, raced : BOOLEAN, lookedUpTo : Nat]

TicketRows ==
    [issue : Issues \cup {Blank}, text : Texts \cup {Blank},
     assignee : Users \cup {Nobody}, status : Statuses, resolved : BOOLEAN,
     version : Nat, parent : Nat]

Exists(id) == id \in DOMAIN ticket

CanEditTicket(u, t) ==
    \/ Administrator(u)
    \/ HasRole(u, {"technician"}) /\ t.assignee \in {u, Nobody}

----------------------------------------------------------------------------
Init ==
    /\ UsersInit
    /\ ticket = <<>>
    /\ lastId = 0
    /\ form = [u \in Users |-> NoForm]
    /\ history = <<>>

\* Mutant: the placeholder stays.
ThenDone(clear, id) == Idle

(* A request that has inserted or changed a ticket goes on to the second    *)
(* statement, SET assigned_to = NULL, or is over.                           *)
ThenClearAssignee(clear, id) == IF clear THEN [pc |-> "clear", id |-> id] ELSE Idle

(* The foreign key needs a user: an unassigned ticket is first inserted     *)
(* with the user of the request as its assignee.                            *)
InsertTicket(r, t, placeholder, origin) ==
    LET id == lastId + 1
        unassigned == t.assignee = Nobody
    IN  /\ lastId < MaxTickets
        /\ lastId' = id
        /\ ticket' = WithId(ticket, id,
                        IF unassigned THEN [t EXCEPT !.assignee = placeholder] ELSE t)
        /\ history' = WithId(history, id, [origin EXCEPT !.chosen = ~unassigned])
        /\ Become(r, ThenClearAssignee(unassigned, id))

(* What a user sends of a field: another value, or what the form shows.     *)
Input(field, choices, shown) == IF field \in todo.fields THEN choices ELSE {shown}

Create(r, u) ==
    /\ Staff(u)
    /\ req[r] = Idle
    /\ \E issue \in Input("issue", Issues, Blank),
          text \in Input("text", Texts \cup {Blank}, Blank),
          assignee \in Input("assignee", DOMAIN user \cup {Nobody}, Nobody) :
          InsertTicket(r, [issue |-> issue, text |-> text,
                           assignee |-> assignee, status |-> "open", resolved |-> FALSE,
                           version |-> 0, parent |-> 0],
                       u, Written("form", TRUE, 0))
    /\ Act("create")
    /\ UNCHANGED form

ClearAssignee(r) ==
    /\ req[r].pc = "clear"
    /\ LET id == req[r].id IN
       IF Exists(id)
       THEN /\ ticket' = [ticket EXCEPT ![id].assignee = Nobody]
            /\ history' = [history EXCEPT ![id].chosen = TRUE]
       ELSE UNCHANGED <<ticket, history>>
    /\ Become(r, Idle)
    /\ UNCHANGED <<lastId, form, todo>>

----------------------------------------------------------------------------
(* The edit form.  It stays open in the browser and may be sent again.      *)
OpenForm(u, id) ==
    /\ Exists(id)
    /\ CanEditTicket(u, ticket[id])
    /\ form' = [form EXCEPT ![u] =
          [id |-> id, version |-> ticket[id].version, chosen |-> history[id].chosen,
           issue |-> ticket[id].issue, text |-> ticket[id].text,
           assignee |-> ticket[id].assignee]]
    /\ history' = [history EXCEPT ![id].leaked = @ \/ ~history[id].chosen]
    /\ Act("edit")
    /\ UNCHANGED <<ticket, lastId, req>>

(* ParseForm leaves a field alone that was sent empty.                      *)
Overlay(t, sent) ==
    [t EXCEPT !.issue = IF sent.issue = Blank THEN @ ELSE sent.issue,
              !.text = IF sent.text = Blank THEN @ ELSE sent.text,
              !.assignee = sent.assignee]

ChangedFields(original, updated) == {f \in FormFields : original[f] # updated[f]}

SendForm(r, u) ==
    LET id == form[u].id
    IN  /\ req[r] = Idle
        /\ id # 0 /\ Exists(id)
        /\ CanEditTicket(u, ticket[id])
        /\ \E issue \in Input("issue", Issues, form[u].issue),
              text \in Input("text", Texts \cup {Blank}, form[u].text),
              assignee \in Input("assignee", DOMAIN user \cup {Nobody}, form[u].assignee) :
              LET sent == [text |-> text, issue |-> issue, assignee |-> assignee]
                  updated == Overlay(ticket[id], sent)
              IN  Become(r, [pc |-> "check", id |-> id, version |-> form[u].version,
                             updated |-> updated,
                             fields |-> ChangedFields(ticket[id], updated),
                             shown |-> form[u].text,
                             chosen |-> assignee # form[u].assignee \/ form[u].chosen])
        /\ Act("edit")
        /\ UNCHANGED <<ticket, lastId, form, history>>

\* Mutant: no version check.
AnyVersion(id, version) == Exists(id)

(* The version check of TicketService.Update, by a read of its own.         *)
CurrentVersion(id, version) == Exists(id) /\ ticket[id].version = version

CheckVersion(r) ==
    /\ req[r].pc = "check"
    /\ Become(r, IF CurrentVersion(req[r].id, req[r].version)
                 THEN [req[r] EXCEPT !.pc = "write", !.version = @ + 1]
                 ELSE Idle)
    /\ UNCHANGED <<ticket, lastId, form, todo, history>>

(* updateTicket: every changed field but an assignee that is to be NULL.    *)
Kept(save) == IF save.updated.assignee = Nobody THEN save.fields \ {"assignee"}
                                                ELSE save.fields

SavedTicket(t, save) ==
    [f \in DOMAIN t |-> IF f = "version" THEN save.version
                        ELSE IF f \in Kept(save) THEN save.updated[f] ELSE t[f]]

SavedHistory(h, save, raced) ==
    [h EXCEPT !.text = IF "text" \in Kept(save) THEN "form" ELSE @,
              !.key = IF "issue" \in Kept(save) THEN "form" ELSE @,
              !.chosen = IF "assignee" \in Kept(save) THEN save.chosen ELSE @,
              !.raced = @ \/ raced]

WriteForm(r) ==
    /\ req[r].pc = "write"
    /\ LET save == req[r]
           id == save.id
           raced == \E other \in Requests \ {r} : req[other].pc = "write" /\ req[other].id = id
       IN  /\ IF Exists(id)
              THEN /\ ticket' = [ticket EXCEPT ![id] = SavedTicket(@, save)]
                   /\ history' = [history EXCEPT ![id] = SavedHistory(@, save, raced)]
              ELSE UNCHANGED <<ticket, history>>
           /\ Become(r, ThenClearAssignee(save.fields # Kept(save), id))
    /\ UNCHANGED <<lastId, form, todo>>

----------------------------------------------------------------------------
(* UpdateStatus: a read for the permission, a read for the transition, and  *)
(* a write of status and time from that second copy.                        *)
ChooseStatus(r, u, id, status) ==
    /\ req[r] = Idle
    /\ Exists(id)
    /\ CanEditTicket(u, ticket[id])
    /\ Become(r, [pc |-> "transition", id |-> id, status |-> status])
    /\ Act("status")
    /\ UNCHANGED <<ticket, lastId, form, history>>

\* Mutant: the time is not set.
KeptTime(t, new) == t.resolved

(* The time that goes with a new status.                                    *)
TimeOfResolution(t, new) == t.resolved \/ new = "resolved"

CheckTransition(r) ==
    /\ req[r].pc = "transition"
    /\ LET id == req[r].id
           new == req[r].status
       IN  Become(r, IF Exists(id) /\ CanTransitionTo(ticket[id].status, new)
                     THEN [pc |-> "status", id |-> id, status |-> new,
                           resolved |-> TimeOfResolution(ticket[id], new)]
                     ELSE Idle)
    /\ UNCHANGED <<ticket, lastId, form, todo, history>>

WriteStatus(r) ==
    /\ req[r].pc = "status"
    /\ LET id == req[r].id IN
       ticket' = IF Exists(id)
                 THEN [ticket EXCEPT ![id].status = req[r].status,
                                     ![id].resolved = req[r].resolved]
                 ELSE ticket
    /\ Become(r, Idle)
    /\ UNCHANGED <<lastId, form, todo, history>>

(* Assign and Delete use nothing of what they read but that it is there, so *)
(* one step each.  BulkDelete is a Delete for each ticket chosen.           *)
Assign(u, id, assignee) ==
    /\ Administrator(u)
    /\ Exists(id)
    /\ ticket' = [ticket EXCEPT ![id].assignee = assignee]
    /\ history' = [history EXCEPT ![id].chosen = TRUE]
    /\ Act("assign")
    /\ UNCHANGED <<lastId, form, req>>

Without(f, id) == [i \in DOMAIN f \ {id} |-> f[i]]

(* "referenced" are the tickets that a foreign key keeps from being deleted.*)
Delete(u, id, referenced) ==
    /\ SuperAdmin(u)
    /\ Exists(id)
    /\ id \notin referenced
    /\ ticket' = Without(ticket, id)
    /\ history' = Without(history, id)
    /\ Act("delete")
    /\ UNCHANGED <<lastId, form, req>>

(* The database refuses a statement, or the server stops: the request ends  *)
(* where it is.  One that ends before its first write has done nothing.     *)
Abandon(r) ==
    /\ req[r].pc = "clear"
    /\ Become(r, Idle)
    /\ LET id == req[r].id IN
       history' = IF Exists(id) THEN [history EXCEPT ![id].leaked = @ \/ ~history[id].chosen]
                                ELSE history
    /\ UNCHANGED <<ticket, lastId, form, todo>>

RequestStep(r) ==
    \/ ClearAssignee(r)
    \/ CheckVersion(r)
    \/ WriteForm(r)
    \/ CheckTransition(r)
    \/ WriteStatus(r)
    \/ Abandon(r)

UserAction(u) ==
    \/ \E r \in Requests : Create(r, u) \/ SendForm(r, u)
    \/ \E id \in DOMAIN ticket : OpenForm(u, id)
    \/ \E r \in Requests, id \in DOMAIN ticket, status \in NewStatuses :
          ChooseStatus(r, u, id, status)
    \/ \E id \in DOMAIN ticket, assignee \in DOMAIN user \cup {Nobody} :
          Assign(u, id, assignee)
=============================================================================
