------------------------------ MODULE Workflow ------------------------------
(***************************************************************************)
(* The repair workflows of a ticket, services/workflow_service.go with     *)
(* models/ticket_workflow.go.  Start looks for an active workflow and then *)
(* inserts one, Advance reads a workflow and then writes its next step;    *)
(* any number of either may be under way at once.  WorkflowDefinitions has *)
(* one type of workflow, so a row is its ticket, step and completion.      *)
(***************************************************************************)
EXTENDS Naturals, Sequences

CONSTANTS
    Requests,       \* requests that may be under way at once
    Steps,          \* WorkflowDefinitions["manufacturer_rma"]
    MaxWorkflows    \* bound on the workflows ever started

StepNames == {Steps[i] : i \in DOMAIN Steps}

WorkflowAssumption ==
    /\ Steps \in Seq(StepNames) /\ Len(Steps) > 1
    /\ \A i, j \in DOMAIN Steps : Steps[i] = Steps[j] => i = j
    /\ MaxWorkflows \in Nat

VARIABLES
    tickets,    \* the ids of the tickets that exist
    workflow,   \* the ticket_workflows table, by id
    lastWorkflow, \* the last id given to a workflow
    req,        \* the requests under way
    reached     \* the steps each workflow has been at, and up to which id its
                \* start had looked for an active one; not in the database

vars == <<workflow, lastWorkflow, req, reached>>

Idle == [pc |-> "idle"]
Become(r, request) == req' = [req EXCEPT ![r] = request]

Exists(id) == id \in DOMAIN workflow
WithId(f, id, value) == [i \in DOMAIN f \cup {id} |-> IF i = id THEN value ELSE f[i]]

\* Mutant: a workflow counts as active until its first advance only.
ActiveAtFirst(id) ==
    {w \in DOMAIN workflow : workflow[w].ticket = id /\ workflow[w].step = Steps[1]}

Active(id) == {w \in DOMAIN workflow : workflow[w].ticket = id /\ ~workflow[w].completed}

Init ==
    /\ workflow = <<>>
    /\ lastWorkflow = 0
    /\ reached = <<>>

CheckStart(r, id) ==
    /\ req[r] = Idle
    /\ Active(id) = {}
    /\ Become(r, [pc |-> "start", id |-> id, lookedUpTo |-> lastWorkflow])
    /\ UNCHANGED <<workflow, lastWorkflow, reached>>

(* The foreign key refuses a workflow of a ticket that is gone.             *)
Start(r) ==
    /\ req[r].pc = "start"
    /\ IF req[r].id \in tickets
       THEN LET w == lastWorkflow + 1 IN
            /\ w <= MaxWorkflows
            /\ lastWorkflow' = w
            /\ workflow' = WithId(workflow, w, [ticket |-> req[r].id, step |-> Steps[1],
                                                completed |-> FALSE])
            /\ reached' = WithId(reached, w, [steps |-> {Steps[1]},
                                              lookedUpTo |-> req[r].lookedUpTo])
       ELSE UNCHANGED <<workflow, lastWorkflow, reached>>
    /\ Become(r, Idle)

\* Mutant: the last step is one early.
LastButOne == Steps[Len(Steps) - 1]

Last == Steps[Len(Steps)]

CanAdvance(step) == \E i \in DOMAIN Steps : Steps[i] = step /\ i < Len(Steps)
NextStep(step) == Steps[1 + CHOOSE i \in DOMAIN Steps : Steps[i] = step]

ReadStep(r, w) ==
    /\ req[r] = Idle
    /\ Exists(w)
    /\ ~workflow[w].completed
    /\ CanAdvance(workflow[w].step)
    /\ Become(r, [pc |-> "advance", workflow |-> w, step |-> workflow[w].step])
    /\ UNCHANGED <<workflow, lastWorkflow, reached>>

(* completed_at is written with the last step and not written otherwise.    *)
Advance(r) ==
    /\ req[r].pc = "advance"
    /\ LET w == req[r].workflow
           new == NextStep(req[r].step)
       IN  IF Exists(w)
           THEN /\ workflow' = [workflow EXCEPT ![w].step = new,
                                                ![w].completed = @ \/ new = Last]
                /\ reached' = [reached EXCEPT ![w].steps = @ \cup {new}]
           ELSE UNCHANGED <<workflow, reached>>
    /\ Become(r, Idle)
    /\ UNCHANGED lastWorkflow

RequestStep(r) == Start(r) \/ Advance(r)

UserAction(r) ==
    \/ \E id \in tickets : CheckStart(r, id)
    \/ \E w \in DOMAIN workflow : ReadStep(r, w)
=============================================================================
