-------------------------------- MODULE Desk --------------------------------
(***************************************************************************)
(* A repair desk at work: the ticket pages (Tickets), the Excel import     *)
(* (ExcelImport), the workflows (Workflow) and the administration of users *)
(* (UserAccounts) on one database, in requests that overlap freely.        *)
(***************************************************************************)
EXTENDS ExcelImport, Sequences

CONSTANTS Steps, MaxWorkflows

VARIABLES workflow, lastWorkflow, reached

deskVars == <<vars, people, workflow, lastWorkflow, reached>>
workflowVars == <<workflow, lastWorkflow, reached>>
ticketVars == <<ticket, lastId, form, history>>

W == INSTANCE Workflow WITH tickets <- DOMAIN ticket

ASSUME DeskAssumption == W!WorkflowAssumption

DeskInit == Init /\ W!Init

(* ticket_workflows.ticket_id references tickets without ON DELETE; of the  *)
(* tables that refer to tickets it is the one modelled here.                *)
WithWorkflow == {workflow[w].ticket : w \in DOMAIN workflow}

DeleteTicket(u, id) == Delete(u, id, WithWorkflow)

TicketPages ==
    /\ \/ \E u \in Users : UserAction(u)
       \/ \E u \in Users, id \in DOMAIN ticket : DeleteTicket(u, id)
       \/ \E r \in Requests : RequestStep(r)
    /\ UNCHANGED <<people, workflowVars>>

Imports ==
    /\ \/ \E r \in Requests, u \in Users : ImportRow(r, u)
       \/ \E r \in Requests : ImportStep(r)
    /\ UNCHANGED <<people, workflowVars>>

StartWorkflow(r, u) ==
    /\ Staff(u)
    /\ W!UserAction(r)
    /\ Act("workflow")
    /\ UNCHANGED <<people, ticketVars>>

WorkflowStep(r) ==
    /\ W!RequestStep(r)
    /\ UNCHANGED <<people, ticketVars, todo>>

Workflows ==
    \/ \E r \in Requests, u \in Users : StartWorkflow(r, u)
    \/ \E r \in Requests : WorkflowStep(r)

Administration == UserPages /\ UNCHANGED <<ticketVars, workflowVars>>

Next == TicketPages \/ Imports \/ Workflows \/ Administration

Spec == DeskInit /\ [][Next]_deskVars

----------------------------------------------------------------------------
Ids == 1 .. lastId

SaveRequests ==
    [pc : {"check", "write"}, id : Ids, version : Nat, updated : TicketRows,
     fields : SUBSET FormFields, shown : Texts \cup {Blank}, chosen : BOOLEAN]

IsRequest(q) ==
    \/ q \in {Idle}
    \/ q \in SaveRequests
    \/ q \in [pc : {"clear"}, id : Ids]
    \/ q \in [pc : {"transition"}, id : Ids, status : NewStatuses]
    \/ q \in [pc : {"status"}, id : Ids, status : NewStatuses, resolved : BOOLEAN]
    \/ q \in [pc : {"overwrite"}, id : Ids, row : Rows]
    \/ q \in [pc : {"parent"}, user : Users, row : Rows, lookedUpTo : 0 .. lastId]
    \/ q \in [pc : {"insert"}, user : Users, row : Rows, lookedUpTo : 0 .. lastId,
              parent : 0 .. lastId]
    \/ q \in [pc : {"start"}, id : Ids, lookedUpTo : 0 .. lastWorkflow]
    \/ q \in [pc : {"toggle"}, user : DOMAIN user, active : BOOLEAN]
    \/ q \in [pc : {"advance"}, workflow : 1 .. lastWorkflow, step : W!StepNames]

(* The types of the tables and requests.  A parent is an older ticket.      *)
TypeOK ==
    /\ DOMAIN user \subseteq Users
    /\ \A u \in DOMAIN user : user[u] \in [role : Roles, active : BOOLEAN]
    /\ session \subseteq DOMAIN user
    /\ shaken \in BOOLEAN
    /\ lastId \in 0 .. MaxTickets
    /\ DOMAIN ticket \subseteq Ids
    /\ \A id \in DOMAIN ticket : ticket[id] \in TicketRows /\ ticket[id].parent < id
    /\ DOMAIN history = DOMAIN ticket
    /\ \A id \in DOMAIN history : history[id] \in Histories
    /\ DOMAIN form = Users
    /\ \A u \in Users : form[u] = NoForm \/ form[u] \in
          [id : Ids, version : Nat, chosen : BOOLEAN, issue : Issues \cup {Blank},
           text : Texts \cup {Blank}, assignee : Users \cup {Nobody}]
    /\ DOMAIN req = Requests
    /\ \A r \in Requests : IsRequest(req[r])
    /\ todo \in [fields : SUBSET FormFields, times : [Kinds -> Nat]]
    /\ lastWorkflow \in 0 .. MaxWorkflows
    /\ DOMAIN workflow = 1 .. lastWorkflow
    /\ \A w \in DOMAIN workflow :
          workflow[w] \in [ticket : Ids, step : W!StepNames, completed : BOOLEAN]
    /\ reached \in [1 .. lastWorkflow -> [steps : SUBSET W!StepNames, lookedUpTo : Nat]]

(* A save that passed the version check does not undo what another form     *)
(* saved without its user having seen it: the text it is about to replace   *)
(* was last written by an import, which raises no version, or is the one    *)
(* the form showed.  That fails once two saves of the ticket were between   *)
(* check and write at the same time, and from then on, because both write   *)
(* the same version.                                                        *)
SavesSeeWhatFormsSaved ==
    \A r \in Requests :
       LET id == req[r].id IN
       /\ req[r].pc = "write" /\ Exists(id)
       /\ "text" \in req[r].fields /\ history[id].text = "form"
       => req[r].shown = ticket[id].text \/ history[id].raced

(* A ticket that nobody assigned shows an assignee only while the request   *)
(* that creates it is between its two statements, unless that request ended *)
(* there or somebody opened the form meanwhile, which then sends the        *)
(* placeholder back.                                                        *)
AssigneesAreChosen ==
    \A id \in DOMAIN ticket :
       ticket[id].assignee # Nobody =>
          \/ history[id].chosen
          \/ history[id].leaked
          \/ \E r \in Requests : req[r].pc = "clear" /\ req[r].id = id

(* However status changes, saves and imports overlap, a resolved ticket has *)
(* the time of resolution that the turn-around statistics are made of.      *)
ResolvedTicketsHaveATime ==
    \A id \in DOMAIN ticket : ticket[id].status = "resolved" => ticket[id].resolved

(* Imports make one ticket of one row.  Two tickets with one serial number  *)
(* and issue, both as imported, come of imports that overlapped: the older  *)
(* ticket was not there yet when the import of the newer one looked for it. *)
ImportsDoNotDuplicate ==
    \A old, new \in DOMAIN ticket :
       /\ old < new
       /\ history[old].key = "import" /\ history[new].key = "import"
       /\ ticket[old].issue = ticket[new].issue
       => old > history[new].lookedUpTo

(* A ticket has two active workflows only if the requests to start them     *)
(* overlapped: the older was not there yet when the newer one looked.       *)
OneActiveWorkflow ==
    \A old, new \in DOMAIN workflow :
       /\ old < new
       /\ workflow[old].ticket = workflow[new].ticket
       /\ ~workflow[old].completed /\ ~workflow[new].completed
       => old > reached[new].lookedUpTo

(* However requests to advance it overlap, no step of a workflow is left    *)
(* out, and it is complete if and only if it was at the last step.  A late  *)
(* write may take it back to an earlier step, complete or not.              *)
WorkflowsReachEveryStep ==
    \A w \in DOMAIN workflow :
       /\ workflow[w].step \in reached[w].steps
       /\ \A i, j \in DOMAIN Steps :
             i < j /\ Steps[j] \in reached[w].steps => Steps[i] \in reached[w].steps
       /\ workflow[w].completed <=> Steps[Len(Steps)] \in reached[w].steps

(* However users are created, changed and (de)activated, an administrator   *)
(* is left who can reactivate the others, because ToggleActive refuses      *)
(* one's own account; unless the user form has taken the role from an       *)
(* active administrator, or two requests to toggle an account overlapped.   *)
NobodyIsLockedOut == ActiveAdmins # {} \/ shaken
=============================================================================
