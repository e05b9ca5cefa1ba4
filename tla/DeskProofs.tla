----------------------------- MODULE DeskProofs -----------------------------
(***************************************************************************)
(* For any users, requests, tickets and workflows: the types of the desk,  *)
(* that an administrator is left, and that workflows leave out no step and *)
(* are started once.                                                       *)
(***************************************************************************)
EXTENDS Desk, TLAPS, WellFoundedInduction

(* The requests under way, by kind, with tickets up to id "top", workflows  *)
(* up to "works" and the users "us".                                        *)
Saves(top) ==
    [pc : {"check", "write"}, id : 1 .. top, version : Nat, updated : TicketRows,
     fields : SUBSET FormFields, shown : Texts \cup {Blank}, chosen : BOOLEAN]
Clears(top) == [pc : {"clear"}, id : 1 .. top]
Transitions(top) == [pc : {"transition"}, id : 1 .. top, status : NewStatuses]
StatusWrites(top) ==
    [pc : {"status"}, id : 1 .. top, status : NewStatuses, resolved : BOOLEAN]
Overwrites(top) == [pc : {"overwrite"}, id : 1 .. top, row : Rows]
ParentLookups(top) == [pc : {"parent"}, user : Users, row : Rows, lookedUpTo : 0 .. top]
RowInserts(top) ==
    [pc : {"insert"}, user : Users, row : Rows, lookedUpTo : 0 .. top, parent : 0 .. top]
Starts(top, works) == [pc : {"start"}, id : 1 .. top, lookedUpTo : 0 .. works]
Toggles(us) == [pc : {"toggle"}, user : us, active : BOOLEAN]
Advances(works) == [pc : {"advance"}, workflow : 1 .. works, step : W!StepNames]

AllRequests(top, works, us) ==
    {Idle} \cup Saves(top) \cup Clears(top) \cup Transitions(top) \cup StatusWrites(top)
    \cup Overwrites(top) \cup ParentLookups(top) \cup RowInserts(top)
    \cup Starts(top, works) \cup Toggles(us) \cup Advances(works)

LEMMA RequestsAreTyped ==
    ASSUME NEW q
    PROVE  IsRequest(q) <=> q \in AllRequests(lastId, lastWorkflow, DOMAIN user)
BY DEF IsRequest, SaveRequests, Ids, AllRequests, Saves, Clears, Transitions, StatusWrites,
       Overwrites, ParentLookups, RowInserts, Starts, Toggles, Advances

(* A request is told by its program counter. *)
LEMMA RequestKinds ==
    ASSUME NEW top, NEW works, NEW us, NEW q \in AllRequests(top, works, us)
    PROVE  /\ q.pc \in {"check", "write"} => q \in Saves(top)
           /\ q.pc = "clear" => q \in Clears(top)
           /\ q.pc = "transition" => q \in Transitions(top)
           /\ q.pc = "status" => q \in StatusWrites(top)
           /\ q.pc = "overwrite" => q \in Overwrites(top)
           /\ q.pc = "parent" => q \in ParentLookups(top)
           /\ q.pc = "insert" => q \in RowInserts(top)
           /\ q.pc = "start" => q \in Starts(top, works)
           /\ q.pc = "toggle" => q \in Toggles(us)
           /\ q.pc = "advance" => q \in Advances(works)
           /\ q.pc = "idle" => q = Idle
<1>1. /\ Idle.pc = "idle"
      /\ \A p \in Saves(top) : p.pc \in {"check", "write"}
      /\ \A p \in Clears(top) : p.pc = "clear"
      /\ \A p \in Transitions(top) : p.pc = "transition"
      /\ \A p \in StatusWrites(top) : p.pc = "status"
      /\ \A p \in Overwrites(top) : p.pc = "overwrite"
      /\ \A p \in ParentLookups(top) : p.pc = "parent"
      /\ \A p \in RowInserts(top) : p.pc = "insert"
      /\ \A p \in Starts(top, works) : p.pc = "start"
      /\ \A p \in Toggles(us) : p.pc = "toggle"
      /\ \A p \in Advances(works) : p.pc = "advance"
  BY DEF Idle, Saves, Clears, Transitions, StatusWrites, Overwrites, ParentLookups, RowInserts,
         Starts, Toggles, Advances
<1> QED BY <1>1 DEF AllRequests

(* Requests stay what they are when tables grow. *)
LEMMA RequestsGrow ==
    ASSUME NEW top \in Nat, NEW works \in Nat, NEW us, NEW q \in AllRequests(top, works, us),
           NEW top2 \in Nat, NEW works2 \in Nat, NEW us2,
           top <= top2, works <= works2, us \subseteq us2
    PROVE  q \in AllRequests(top2, works2, us2)
<1>1. 1 .. top \subseteq 1 .. top2 /\ 0 .. top \subseteq 0 .. top2
  OBVIOUS
<1>2. 1 .. works \subseteq 1 .. works2 /\ 0 .. works \subseteq 0 .. works2
  OBVIOUS
<1>3. /\ Saves(top) \subseteq Saves(top2) /\ Clears(top) \subseteq Clears(top2)
      /\ Transitions(top) \subseteq Transitions(top2)
      /\ StatusWrites(top) \subseteq StatusWrites(top2)
      /\ Overwrites(top) \subseteq Overwrites(top2)
  BY <1>1 DEF Saves, Clears, Transitions, StatusWrites, Overwrites
<1>4. /\ ParentLookups(top) \subseteq ParentLookups(top2)
      /\ RowInserts(top) \subseteq RowInserts(top2)
      /\ Starts(top, works) \subseteq Starts(top2, works2)
      /\ Toggles(us) \subseteq Toggles(us2) /\ Advances(works) \subseteq Advances(works2)
  BY <1>1, <1>2 DEF ParentLookups, RowInserts, Starts, Toggles, Advances
<1> QED BY <1>3, <1>4 DEF AllRequests

----------------------------------------------------------------------------
(* The types, in the parts that the pages change.                           *)
PeopleTypes ==
    /\ DOMAIN user \subseteq Users
    /\ \A u \in DOMAIN user : user[u] \in [role : Roles, active : BOOLEAN]
    /\ session \subseteq DOMAIN user
    /\ shaken \in BOOLEAN

TicketTypes ==
    /\ lastId \in 0 .. MaxTickets
    /\ DOMAIN ticket \subseteq Ids
    /\ \A id \in DOMAIN ticket : ticket[id] \in TicketRows /\ ticket[id].parent < id
    /\ DOMAIN history = DOMAIN ticket
    /\ \A id \in DOMAIN history : history[id] \in Histories

Forms(top) ==
    [id : 1 .. top, version : Nat, chosen : BOOLEAN, issue : Issues \cup {Blank},
     text : Texts \cup {Blank}, assignee : Users \cup {Nobody}]

FormTypes == DOMAIN form = Users /\ \A u \in Users : form[u] = NoForm \/ form[u] \in Forms(lastId)

RequestTypes ==
    /\ DOMAIN req = Requests
    /\ \A r \in Requests : req[r] \in AllRequests(lastId, lastWorkflow, DOMAIN user)

TodoType == todo \in [fields : SUBSET FormFields, times : [Kinds -> Nat]]

WorkflowTypes ==
    /\ lastWorkflow \in 0 .. MaxWorkflows
    /\ DOMAIN workflow = 1 .. lastWorkflow
    /\ \A w \in DOMAIN workflow :
          workflow[w] \in [ticket : Ids, step : W!StepNames, completed : BOOLEAN]
    /\ reached \in [1 .. lastWorkflow -> [steps : SUBSET W!StepNames, lookedUpTo : Nat]]

Types ==
    /\ PeopleTypes /\ TicketTypes /\ FormTypes /\ RequestTypes /\ TodoType /\ WorkflowTypes

LEMMA SplitTypes == TypeOK <=> Types
<1>1. (\A r \in Requests : IsRequest(req[r]))
          <=> \A r \in Requests : req[r] \in AllRequests(lastId, lastWorkflow, DOMAIN user)
  BY DEF IsRequest, SaveRequests, Ids, AllRequests, Saves, Clears, Transitions, StatusWrites,
       Overwrites, ParentLookups, RowInserts, Starts, Toggles, Advances
<1> QED
  BY <1>1 DEF TypeOK, Types, PeopleTypes, TicketTypes, FormTypes, RequestTypes, TodoType,
              WorkflowTypes, Forms, Ids

(* The numbers that bound what is counted.                                  *)
LEMMA Bounds ==
    ASSUME Types
    PROVE  /\ MaxTickets \in Nat /\ MaxWorkflows \in Nat /\ lastId \in Nat /\ lastWorkflow \in Nat
           /\ Len(Steps) \in Nat /\ Len(Steps) > 1 /\ DOMAIN Steps = 1 .. Len(Steps)
           /\ \A i \in DOMAIN Steps : Steps[i] \in W!StepNames
           /\ \A i, j \in DOMAIN Steps : Steps[i] = Steps[j] => i = j
<1>1. /\ MaxTickets \in Nat /\ MaxWorkflows \in Nat
      /\ Steps \in Seq(W!StepNames) /\ Len(Steps) > 1
      /\ \A i, j \in DOMAIN Steps : Steps[i] = Steps[j] => i = j
  BY TicketsAssumption, DeskAssumption
     DEF TicketsAssumption, DeskAssumption, W!WorkflowAssumption
<1>2. lastId \in Nat /\ lastWorkflow \in Nat
  BY <1>1 DEF Types, TicketTypes, WorkflowTypes
<1>3. Len(Steps) \in Nat /\ DOMAIN Steps = 1 .. Len(Steps)
  BY <1>1
<1> QED BY <1>1, <1>2, <1>3

LEMMA Counters == Types => lastId \in Nat /\ lastWorkflow \in Nat
BY Bounds

LEMMA InitTypes == DeskInit => Types
<1> SUFFICES ASSUME DeskInit PROVE Types
  OBVIOUS
<1>1. PeopleTypes
  BY UsersAssumption DEF DeskInit, Init, UsersInit, PeopleTypes, UsersAssumption
<1>2. /\ DOMAIN ticket = {} /\ DOMAIN history = {} /\ lastId = 0
      /\ DOMAIN workflow = {} /\ DOMAIN reached = {} /\ lastWorkflow = 0
  BY DEF DeskInit, Init, W!Init
<1>3. TicketTypes
  <2>1. MaxTickets \in Nat /\ lastId = 0
    BY <1>2, TicketsAssumption DEF TicketsAssumption
  <2>2. lastId \in 0 .. MaxTickets
    BY <2>1
  <2> QED BY <1>2, <2>2 DEF TicketTypes
<1>4. FormTypes
  BY DEF DeskInit, Init, FormTypes
<1>5. RequestTypes
  BY DEF DeskInit, Init, UsersInit, RequestTypes, AllRequests
<1>6. TodoType
  BY UsersAssumption, TicketsAssumption
     DEF DeskInit, Init, UsersInit, TodoType, UsersAssumption, TicketsAssumption
<1>7. WorkflowTypes
  <2>1. reached = <<>>
    BY DEF DeskInit, W!Init
  <2>2. 1 .. lastWorkflow = {} /\ lastWorkflow \in 0 .. MaxWorkflows
    BY <1>2, DeskAssumption DEF DeskAssumption, W!WorkflowAssumption
  <2>3. reached \in [1 .. lastWorkflow -> [steps : SUBSET W!StepNames, lookedUpTo : Nat]]
    BY <2>1, <2>2
  <2> QED BY <1>2, <2>2, <2>3 DEF WorkflowTypes
<1> QED BY <1>1, <1>3, <1>4, <1>5, <1>6, <1>7 DEF Types

(* One request goes on, and tables may grow meanwhile. *)
LEMMA BecomeTypes ==
    ASSUME Types, NEW r \in Requests, NEW q, Become(r, q),
           q \in AllRequests(lastId', lastWorkflow', DOMAIN user'),
           lastId' \in Nat, lastWorkflow' \in Nat,
           lastId <= lastId', lastWorkflow <= lastWorkflow', DOMAIN user \subseteq DOMAIN user'
    PROVE  /\ RequestTypes'
           /\ req'[r] = q /\ \A other \in Requests \ {r} : req'[other] = req[other]
<1>1. /\ DOMAIN req' = Requests /\ req'[r] = q
      /\ \A other \in Requests \ {r} : req'[other] = req[other]
  BY DEF Become, Types, RequestTypes
<1>2. \A other \in Requests : req[other] \in AllRequests(lastId', lastWorkflow', DOMAIN user')
  BY RequestsGrow, Bounds DEF Types, RequestTypes
<1> QED BY <1>1, <1>2 DEF RequestTypes

LEMMA ActTypes ==
    ASSUME TodoType, NEW kind \in Kinds, Act(kind)
    PROVE  TodoType'
<1>1. /\ todo.times[kind] \in Nat /\ todo.times[kind] - 1 \in Nat
  BY DEF TodoType, Act
<1>2. [todo.times EXCEPT ![kind] = todo.times[kind] - 1] \in [Kinds -> Nat]
  BY <1>1 DEF TodoType
<1>3. todo' = [todo EXCEPT !.times = [todo.times EXCEPT ![kind] = todo.times[kind] - 1]]
  BY DEF Act
<1> QED BY <1>2, <1>3 DEF TodoType

(* The variables that a page leaves alone keep their types. *)
LEMMA FrameTypes ==
    ASSUME Types
    PROVE  /\ UNCHANGED people => PeopleTypes'
           /\ UNCHANGED <<ticket, lastId, history>> => TicketTypes'
           /\ UNCHANGED <<form, lastId>> => FormTypes'
           /\ UNCHANGED <<req, lastId, lastWorkflow, user>> => RequestTypes'
           /\ UNCHANGED todo => TodoType'
           /\ UNCHANGED <<workflow, lastWorkflow, reached, lastId>> => WorkflowTypes'
BY DEF Types, people, PeopleTypes, TicketTypes, FormTypes, RequestTypes, TodoType, WorkflowTypes,
       Ids

(* The same for a request that goes on and touches only requests and todo.  *)
LEMMA OnlyRequests ==
    ASSUME Types, NEW r \in Requests, NEW q \in AllRequests(lastId, lastWorkflow, DOMAIN user),
           Become(r, q), UNCHANGED <<people, ticketVars, workflowVars>>, TodoType'
    PROVE  Types'
<1>1. RequestTypes'
  BY BecomeTypes, Bounds DEF people, ticketVars, workflowVars
<1> QED BY <1>1, FrameTypes DEF Types, people, ticketVars, workflowVars

LEMMA UserPagesTypes ==
    ASSUME Types, Administration
    PROVE  Types'
<1>1. UNCHANGED <<ticketVars, workflowVars>> /\ UserPages
  BY DEF Administration
<1>2. /\ TicketTypes' /\ FormTypes' /\ WorkflowTypes'
      /\ UNCHANGED <<req, user>> => RequestTypes'
  BY <1>1, FrameTypes DEF ticketVars, workflowVars
<1>3. "users" \in Kinds
  BY DEF Kinds
<1>4. ASSUME NEW u \in Users, Login(u) \/ Logout(u) \/ EndSession(u)
      PROVE  Types'
  <2>1. TodoType'
    BY <1>3, <1>4, ActTypes, FrameTypes DEF Login, Logout, EndSession, Types
  <2>2. PeopleTypes'
    BY <1>4 DEF Login, Logout, EndSession, Authenticated, Types, PeopleTypes
  <2>3. UNCHANGED <<req, user>>
    BY <1>4 DEF Login, Logout, EndSession
  <2> QED BY <1>2, <2>1, <2>2, <2>3 DEF Types
<1>5. ASSUME NEW a \in Users, NEW u \in Users, NEW role \in Roles,
             CreateUser(a, u, role) \/ UpdateUser(a, u, role)
      PROVE  Types'
  <2>1. TodoType'
    BY <1>3, <1>5, ActTypes DEF CreateUser, UpdateUser, Types
  <2>2. PeopleTypes' /\ DOMAIN user \subseteq DOMAIN user'
    <3>1. CASE CreateUser(a, u, role)
      <4> DEFINE row == [role |-> role, active |-> TRUE]
      <4>1. row \in [role : Roles, active : BOOLEAN]
        OBVIOUS
      <4>2. user' = WithId(user, u, row) /\ UNCHANGED <<session, shaken>>
        BY <3>1 DEF CreateUser
      <4> HIDE DEF row
      <4> QED BY <4>1, <4>2 DEF WithId, Types, PeopleTypes
    <3>2. CASE UpdateUser(a, u, role)
      <4> DEFINE row == [user[u] EXCEPT !.role = role]
      <4>1. u \in DOMAIN user /\ user' = [user EXCEPT ![u] = row] /\ UNCHANGED session
        BY <3>2 DEF UpdateUser
      <4>2. row \in [role : Roles, active : BOOLEAN]
        BY <4>1 DEF Types, PeopleTypes
      <4>3. shaken' \in BOOLEAN
        BY <3>2 DEF UpdateUser
      <4> HIDE DEF row
      <4> QED BY <4>1, <4>2, <4>3 DEF Types, PeopleTypes
    <3> QED BY <1>5, <3>1, <3>2
  <2>3. req' = req
    BY <1>5 DEF CreateUser, UpdateUser
  <2>4. RequestTypes'
    <3>1. lastId' = lastId /\ lastWorkflow' = lastWorkflow
      BY <1>1 DEF ticketVars, workflowVars
    <3> QED BY <2>2, <2>3, <3>1, RequestsGrow, Bounds DEF Types, RequestTypes
  <2> QED BY <1>2, <2>1, <2>2, <2>4 DEF Types
<1>6. ASSUME NEW a \in Users, NEW u \in Users, NEW r \in Requests, ReadActive(r, a, u)
      PROVE  Types'
  <2> DEFINE q == [pc |-> "toggle", user |-> u, active |-> ~user[u].active]
  <2>1. q \in AllRequests(lastId, lastWorkflow, DOMAIN user)
    <3>1. u \in DOMAIN user
      BY <1>6 DEF ReadActive, OthersThan
    <3> QED BY <3>1 DEF AllRequests, Toggles
  <2>2. Become(r, q) /\ UNCHANGED people
    BY <1>6 DEF ReadActive
  <2>3. TodoType'
    BY <1>3, <1>6, ActTypes DEF ReadActive, Types
  <2> HIDE DEF q
  <2> QED BY <1>1, <2>1, <2>2, <2>3, OnlyRequests
<1>7. ASSUME NEW r \in Requests, ToggleActive(r)
      PROVE  Types'
  <2>1. req[r] \in Toggles(DOMAIN user)
    BY <1>7, RequestKinds DEF ToggleActive, Types, RequestTypes
  <2>2. DOMAIN user' = DOMAIN user /\ PeopleTypes' /\ TodoType'
    BY <1>7, <2>1 DEF ToggleActive, Toggles, Types, PeopleTypes, TodoType
  <2>3. RequestTypes'
    <3>1. Idle \in AllRequests(lastId', lastWorkflow', DOMAIN user') /\ Become(r, Idle)
      BY <1>7 DEF AllRequests, ToggleActive
    <3> QED BY <1>1, <2>2, <3>1, BecomeTypes, Bounds DEF ticketVars, workflowVars
  <2> QED BY <1>2, <2>2, <2>3 DEF Types
<1> QED BY <1>1, <1>4, <1>5, <1>6, <1>7 DEF UserPages

(* ------------------------------ workflows ------------------------------- *)
(* What a request that advances a workflow has read: a step that is not the *)
(* last one, and that the workflow has been at.                             *)
AdvancesAreReached ==
    \A r \in Requests :
       req[r].pc = "advance" =>
          /\ W!CanAdvance(req[r].step)
          /\ req[r].step \in reached[req[r].workflow].steps

(* The step after a step is the one with the next index. *)
LEMMA NextSteps ==
    ASSUME Types, NEW step, W!CanAdvance(step)
    PROVE  \E i \in 1 .. (Len(Steps) - 1) : step = Steps[i] /\ W!NextStep(step) = Steps[i + 1]
<1>1. PICK i \in DOMAIN Steps : Steps[i] = step /\ i < Len(Steps)
  BY DEF W!CanAdvance
<1>2. \A j \in DOMAIN Steps : Steps[j] = step => j = i
  BY <1>1, Bounds
<1>3. (CHOOSE j \in DOMAIN Steps : Steps[j] = step) = i
  BY <1>1, <1>2
<1>4. W!NextStep(step) = Steps[1 + i]
  BY <1>3 DEF W!NextStep
<1>5. i \in 1 .. (Len(Steps) - 1) /\ 1 + i = i + 1
  BY <1>1, Bounds
<1> QED BY <1>1, <1>4, <1>5

LEMMA WorkflowsTypes ==
    ASSUME Types, AdvancesAreReached, Workflows
    PROVE  Types'
<1>1. ASSUME NEW r \in Requests, NEW u \in Users, StartWorkflow(r, u) PROVE Types'
  <2>1. UNCHANGED <<people, ticketVars>> /\ TodoType'
    <3>1. "workflow" \in Kinds
      BY DEF Kinds
    <3> QED BY <1>1, <3>1, ActTypes DEF StartWorkflow, Types
  <2>2. ASSUME NEW id \in DOMAIN ticket, W!CheckStart(r, id) PROVE Types'
    <3> DEFINE q == [pc |-> "start", id |-> id, lookedUpTo |-> lastWorkflow]
    <3>1. q \in AllRequests(lastId, lastWorkflow, DOMAIN user)
      BY Bounds DEF AllRequests, Starts, Types, TicketTypes, Ids
    <3>2. Become(r, q) /\ UNCHANGED workflowVars
      BY <2>2 DEF W!CheckStart, W!Become, Become, workflowVars
    <3> HIDE DEF q
    <3> QED BY <2>1, <3>1, <3>2, OnlyRequests
  <2>3. ASSUME NEW w \in DOMAIN workflow, W!ReadStep(r, w) PROVE Types'
    <3> DEFINE q == [pc |-> "advance", workflow |-> w, step |-> workflow[w].step]
    <3>1. q \in AllRequests(lastId, lastWorkflow, DOMAIN user)
      BY DEF AllRequests, Advances, Types, WorkflowTypes
    <3>2. Become(r, q) /\ UNCHANGED workflowVars
      BY <2>3 DEF W!ReadStep, W!Become, Become, workflowVars
    <3> HIDE DEF q
    <3> QED BY <2>1, <3>1, <3>2, OnlyRequests
  <2> QED BY <1>1, <2>2, <2>3 DEF StartWorkflow, W!UserAction
<1>2. ASSUME NEW r \in Requests, W!Start(r), UNCHANGED <<people, ticketVars, todo>> PROVE Types'
  <2>1. req[r] \in Starts(lastId, lastWorkflow)
    BY <1>2, RequestKinds DEF W!Start, Types, RequestTypes
  <2>2. WorkflowTypes' /\ lastWorkflow <= lastWorkflow' /\ lastWorkflow' \in Nat
    <3>1. CASE req[r].id \notin DOMAIN ticket
      BY <1>2, <3>1, FrameTypes, Bounds DEF W!Start, ticketVars
    <3>2. CASE req[r].id \in DOMAIN ticket
      <4> DEFINE w == lastWorkflow + 1
                 row == [ticket |-> req[r].id, step |-> Steps[1], completed |-> FALSE]
                 mark == [steps |-> {Steps[1]}, lookedUpTo |-> req[r].lookedUpTo]
      <4>1. /\ w <= MaxWorkflows /\ lastWorkflow' = w
            /\ workflow' = W!WithId(workflow, w, row) /\ reached' = W!WithId(reached, w, mark)
        BY <1>2, <3>2 DEF W!Start
      <4>2. 1 .. w = 1 .. lastWorkflow \cup {w} /\ w \in 0 .. MaxWorkflows
        BY <4>1, Bounds
      <4>3. row \in [ticket : Ids, step : W!StepNames, completed : BOOLEAN]
        BY <2>1, Bounds DEF Starts, Ids
      <4>4. mark \in [steps : SUBSET W!StepNames, lookedUpTo : Nat]
        BY <2>1, Bounds DEF Starts
      <4> HIDE DEF row, mark
      <4>5. /\ DOMAIN workflow' = 1 .. w
            /\ \A v \in 1 .. w :
                  workflow'[v] \in [ticket : Ids, step : W!StepNames, completed : BOOLEAN]
        BY <4>1, <4>2, <4>3 DEF W!WithId, Types, WorkflowTypes
      <4>6. reached' \in [1 .. w -> [steps : SUBSET W!StepNames, lookedUpTo : Nat]]
        BY <4>1, <4>2, <4>4 DEF W!WithId, Types, WorkflowTypes
      <4>7. lastId' = lastId
        BY <1>2 DEF ticketVars
      <4> QED BY <4>1, <4>2, <4>5, <4>6, <4>7, Bounds DEF WorkflowTypes, Ids
    <3> QED BY <3>1, <3>2
  <2>3. RequestTypes'
    <3>1. Idle \in AllRequests(lastId', lastWorkflow', DOMAIN user') /\ Become(r, Idle)
      BY <1>2 DEF AllRequests, W!Start, W!Become, Become, W!Idle, Idle
    <3> QED BY <1>2, <2>2, <3>1, BecomeTypes, Bounds DEF ticketVars, people
  <2> QED BY <1>2, <2>2, <2>3, FrameTypes DEF Types, ticketVars, people
<1>3. ASSUME NEW r \in Requests, W!Advance(r), UNCHANGED <<people, ticketVars, todo>>
      PROVE  Types'
  <2>1. /\ req[r] \in Advances(lastWorkflow) /\ W!NextStep(req[r].step) \in W!StepNames
        /\ lastWorkflow' = lastWorkflow
    <3>1. req[r].pc = "advance" /\ lastWorkflow' = lastWorkflow
      BY <1>3 DEF W!Advance
    <3>2. req[r] \in Advances(lastWorkflow)
      BY <3>1, RequestKinds DEF Types, RequestTypes
    <3>3. PICK i \in 1 .. (Len(Steps) - 1) : W!NextStep(req[r].step) = Steps[i + 1]
      BY <3>1, NextSteps DEF AdvancesAreReached
    <3>4. i + 1 \in DOMAIN Steps
      BY Bounds
    <3> QED BY <3>1, <3>2, <3>3, <3>4, Bounds
  <2>2. WorkflowTypes'
    <3> DEFINE w == req[r].workflow
               new == W!NextStep(req[r].step)
               old == workflow[w]
               row == [old EXCEPT !.step = new, !.completed = (old.completed \/ new = W!Last)]
    <3>1. w \in DOMAIN workflow
      BY <2>1 DEF Advances, Types, WorkflowTypes
    <3>2. /\ workflow' = [workflow EXCEPT ![w] = row]
          /\ reached' = [reached EXCEPT ![w].steps = @ \cup {new}]
      BY <1>3, <3>1 DEF W!Advance, W!Exists, Types, WorkflowTypes
    <3>3. row \in [ticket : Ids, step : W!StepNames, completed : BOOLEAN]
      BY <2>1, <3>1 DEF Types, WorkflowTypes
    <3> HIDE DEF row
    <3> QED BY <1>3, <2>1, <3>1, <3>2, <3>3 DEF Types, WorkflowTypes, ticketVars, Ids
  <2>3. RequestTypes'
    <3>1. Idle \in AllRequests(lastId', lastWorkflow', DOMAIN user') /\ Become(r, Idle)
      BY <1>3 DEF AllRequests, W!Advance, W!Become, Become, W!Idle, Idle
    <3> QED BY <1>3, <2>1, <3>1, BecomeTypes, Bounds DEF ticketVars, people
  <2> QED BY <1>3, <2>2, <2>3, FrameTypes DEF Types, ticketVars, people
<1> QED BY <1>1, <1>2, <1>3 DEF Workflows, WorkflowStep, W!RequestStep

(* ------------------------------- tickets -------------------------------- *)
(* A save writes the fields it keeps, and the version, and nothing else. *)
LEMMA SavedTicketFacts ==
    ASSUME NEW top, NEW t \in TicketRows, NEW save \in Saves(top)
    PROVE  /\ SavedTicket(t, save) \in TicketRows
           /\ SavedTicket(t, save).version = save.version
           /\ SavedTicket(t, save).status = t.status
           /\ SavedTicket(t, save).resolved = t.resolved
           /\ SavedTicket(t, save).parent = t.parent
           /\ \A f \in FormFields :
                 SavedTicket(t, save)[f] = IF f \in Kept(save) THEN save.updated[f] ELSE t[f]
<1>1. Kept(save) \subseteq FormFields /\ save.updated \in TicketRows /\ save.version \in Nat
  BY DEF Saves, Kept
<1>2. DOMAIN t = {"issue", "text", "assignee", "status", "resolved", "version", "parent"}
  BY DEF TicketRows
<1>3. /\ SavedTicket(t, save).version = save.version
           /\ SavedTicket(t, save).status = t.status
           /\ SavedTicket(t, save).resolved = t.resolved
           /\ SavedTicket(t, save).parent = t.parent
           /\ \A f \in FormFields :
                 SavedTicket(t, save)[f] = IF f \in Kept(save) THEN save.updated[f] ELSE t[f]
  BY <1>1, <1>2 DEF SavedTicket, FormFields
<1>4. SavedTicket(t, save) \in TicketRows
  BY <1>1, <1>2, <1>3 DEF SavedTicket, FormFields, TicketRows
<1> QED BY <1>3, <1>4

(* A ticket or its history is replaced by another with the same parent. *)
LEMMA RowTypes ==
    ASSUME Types, lastId' = lastId,
           \/ ticket' = ticket
           \/ \E id \in DOMAIN ticket, t \in TicketRows :
                 t.parent = ticket[id].parent /\ ticket' = [ticket EXCEPT ![id] = t],
           \/ history' = history
           \/ \E id \in DOMAIN history, h \in Histories : history' = [history EXCEPT ![id] = h]
    PROVE  TicketTypes'
<1>1. /\ DOMAIN ticket' = DOMAIN ticket
      /\ \A id \in DOMAIN ticket : ticket'[id] \in TicketRows /\ ticket'[id].parent < id
  BY DEF Types, TicketTypes
<1>2. DOMAIN history' = DOMAIN history /\ \A id \in DOMAIN history : history'[id] \in Histories
  BY DEF Types, TicketTypes
<1> QED BY <1>1, <1>2 DEF Types, TicketTypes, Ids

(* What an insert does: a row with a new id, which shows the placeholder    *)
(* if nobody is assigned, and the request goes on to take it away.          *)
LEMMA InsertEffects ==
    ASSUME Types, NEW r \in Requests, NEW t \in TicketRows, t.parent <= lastId,
           NEW placeholder \in Users, NEW origin \in Histories,
           InsertTicket(r, t, placeholder, origin)
    PROVE  LET new == lastId + 1
               unassigned == t.assignee = Nobody
           IN  /\ new \notin DOMAIN ticket /\ lastId' = new /\ new \in Nat
               /\ DOMAIN ticket' = DOMAIN ticket \cup {new} /\ DOMAIN history' = DOMAIN ticket'
               /\ \A id \in DOMAIN ticket :
                     ticket'[id] = ticket[id] /\ history'[id] = history[id]
               /\ ticket'[new] \in TicketRows
               /\ ticket'[new].assignee = IF unassigned THEN placeholder ELSE t.assignee
               /\ \A f \in {"issue", "text", "status", "resolved", "version", "parent"} :
                     ticket'[new][f] = t[f]
               /\ history'[new] \in Histories
               /\ history'[new].chosen = ~unassigned
               /\ \A f \in {"text", "key", "leaked", "raced", "lookedUpTo"} :
                     history'[new][f] = origin[f]
               /\ Become(r, ThenClearAssignee(unassigned, new))
               /\ TicketTypes'
<1> DEFINE new == lastId + 1
           unassigned == t.assignee = Nobody
           row == IF unassigned THEN [t EXCEPT !.assignee = placeholder] ELSE t
           past == [origin EXCEPT !.chosen = ~unassigned]
<1>1. /\ lastId' = new /\ lastId < MaxTickets
      /\ ticket' = WithId(ticket, new, row) /\ history' = WithId(history, new, past)
      /\ Become(r, ThenClearAssignee(unassigned, new))
  BY DEF InsertTicket
<1>2. /\ row \in TicketRows
      /\ row.assignee = IF unassigned THEN placeholder ELSE t.assignee
      /\ \A f \in {"issue", "text", "status", "resolved", "version", "parent"} : row[f] = t[f]
  BY DEF TicketRows
<1>3. /\ past \in Histories /\ past.chosen = ~unassigned
      /\ \A f \in {"text", "key", "leaked", "raced", "lookedUpTo"} : past[f] = origin[f]
  BY DEF Histories
<1>4. new \notin DOMAIN ticket /\ new \in Nat /\ new \in 0 .. MaxTickets
  BY <1>1, Bounds DEF Types, TicketTypes, Ids
<1> HIDE DEF row, past, unassigned
<1>5. /\ DOMAIN ticket' = DOMAIN ticket \cup {new} /\ ticket'[new] = row
      /\ \A id \in DOMAIN ticket : ticket'[id] = ticket[id]
  BY <1>1, <1>4 DEF WithId
<1>6. /\ DOMAIN history' = DOMAIN ticket \cup {new} /\ history'[new] = past
      /\ \A id \in DOMAIN ticket : history'[id] = history[id]
  BY <1>1, <1>4 DEF WithId, Types, TicketTypes
<1>7. TicketTypes'
  <2>1. DOMAIN ticket' \subseteq 1 .. new
    BY <1>5, Bounds DEF Types, TicketTypes, Ids
  <2>2. row.parent < new
    <3>1. row.parent = t.parent /\ t.parent \in Nat
      BY <1>2 DEF TicketRows
    <3> QED BY <3>1, Bounds
  <2> QED BY <1>1, <1>2, <1>3, <1>4, <1>5, <1>6, <2>1, <2>2 DEF Types, TicketTypes, Ids
<1> QED BY <1>1, <1>2, <1>3, <1>4, <1>5, <1>6, <1>7 DEF unassigned

LEMMA ClearIsRequest ==
    ASSUME NEW top, NEW works, NEW us, NEW id \in 1 .. top, NEW clear
    PROVE  ThenClearAssignee(clear, id) \in AllRequests(top, works, us)
BY DEF ThenClearAssignee, AllRequests, Clears

(* A page that may add a ticket and moves one request on. *)
LEMMA PageTypes ==
    ASSUME Types, NEW r \in Requests, NEW q \in AllRequests(lastId', lastWorkflow, DOMAIN user),
           Become(r, q), UNCHANGED <<people, workflowVars, form>>, lastId' \in Nat,
           lastId <= lastId', TicketTypes', TodoType'
    PROVE  Types'
<1>1. lastWorkflow' = lastWorkflow /\ DOMAIN user' = DOMAIN user
  BY DEF people, workflowVars
<1>2. RequestTypes'
  BY <1>1, BecomeTypes, Bounds
<1>3. 1 .. lastId \subseteq 1 .. lastId'
  BY Bounds
<1>4. FormTypes'
  <2>1. Forms(lastId) \subseteq Forms(lastId')
    BY <1>3 DEF Forms
  <2> QED BY <2>1 DEF Types, FormTypes
<1>5. WorkflowTypes'
  BY <1>3 DEF Types, WorkflowTypes, workflowVars, Ids
<1>6. PeopleTypes'
  BY FrameTypes
<1> QED BY <1>2, <1>4, <1>5, <1>6 DEF Types

(* A field is sent as one of the choices or as it is shown. *)
LEMMA InputTypes ==
    ASSUME NEW all, NEW choices, choices \subseteq all, NEW shown \in all, NEW field
    PROVE  Input(field, choices, shown) \subseteq all
BY DEF Input

LEMMA UserActionTypes ==
    ASSUME Types, NEW u \in Users, UserAction(u), UNCHANGED <<people, workflowVars>>
    PROVE  Types'
<1>1. {"create", "edit", "status", "assign"} \subseteq Kinds
  BY DEF Kinds
<1>2. DOMAIN user \subseteq Users /\ \A id \in DOMAIN ticket : id \in 1 .. lastId
  BY DEF Types, PeopleTypes, TicketTypes, Ids
<1>3. ASSUME NEW r \in Requests, Create(r, u) PROVE Types'
  <2>1. PICK issue \in Issues \cup {Blank}, text \in Texts \cup {Blank},
             assignee \in Users \cup {Nobody} :
           InsertTicket(r, [issue |-> issue, text |-> text, assignee |-> assignee,
                            status |-> "open", resolved |-> FALSE, version |-> 0,
                            parent |-> 0], u, Written("form", TRUE, 0))
    BY <1>2, <1>3 DEF Create, Input
  <2> DEFINE t == [issue |-> issue, text |-> text, assignee |-> assignee, status |-> "open",
                   resolved |-> FALSE, version |-> 0, parent |-> 0]
  <2>2. t \in TicketRows /\ t.parent <= lastId
    <3>1. t \in TicketRows
      BY DEF TicketRows, Statuses
    <3>2. t.parent = 0 /\ 0 <= lastId
      BY Counters
    <3> QED BY <3>1, <3>2
  <2>3. Written("form", TRUE, 0) \in Histories
    BY DEF Written, Histories
  <2>4. InsertTicket(r, t, u, Written("form", TRUE, 0))
    BY <2>1
  <2>5. /\ lastId' = lastId + 1 /\ TicketTypes'
        /\ Become(r, ThenClearAssignee(t.assignee = Nobody, lastId + 1))
    BY <2>2, <2>3, <2>4, InsertEffects
  <2>6. ThenClearAssignee(t.assignee = Nobody, lastId + 1)
            \in AllRequests(lastId', lastWorkflow, DOMAIN user)
    <3>1. lastId' = lastId + 1
      BY <2>5
    <3>2. lastId + 1 \in 1 .. lastId'
      BY <3>1, Counters
    <3> QED BY <3>2, ClearIsRequest
  <2>7. TodoType' /\ UNCHANGED form
    BY <1>1, <1>3, ActTypes DEF Create, Types
  <2>8. lastId' = lastId + 1
    BY <2>5
  <2>9. lastId' \in Nat /\ lastId <= lastId'
    BY <2>8, Counters
  <2> HIDE DEF t
  <2> QED BY <2>5, <2>6, <2>7, <2>9, PageTypes
<1>4. ASSUME NEW r \in Requests, SendForm(r, u) PROVE Types'
  <2> DEFINE id == form[u].id
  <2>2. /\ id \in DOMAIN ticket /\ form[u] \in Forms(lastId) /\ TodoType'
        /\ UNCHANGED <<ticket, lastId, form, history>>
    <3>1. id \in DOMAIN ticket /\ id # 0
      BY <1>4 DEF SendForm, Exists
    <3>2. form[u] # NoForm
      BY <3>1 DEF NoForm
    <3>3. TodoType' /\ UNCHANGED <<ticket, lastId, form, history>>
      BY <1>1, <1>4, ActTypes DEF SendForm, Types
    <3> QED BY <3>1, <3>2, <3>3 DEF Types, FormTypes
  <2>1. PICK issue \in Issues \cup {Blank}, text \in Texts \cup {Blank},
             assignee \in Users \cup {Nobody} :
           LET updated == Overlay(ticket[id], [text |-> text, issue |-> issue,
                                               assignee |-> assignee])
           IN  Become(r, [pc |-> "check", id |-> id, version |-> form[u].version,
                          updated |-> updated, fields |-> ChangedFields(ticket[id], updated),
                          shown |-> form[u].text,
                          chosen |-> assignee # form[u].assignee \/ form[u].chosen])
    <3>1. form[u].issue \in Issues \cup {Blank} /\ form[u].text \in Texts \cup {Blank}
          /\ form[u].assignee \in Users \cup {Nobody}
      BY <2>2 DEF Forms
    <3>3. Input("issue", Issues, form[u].issue) \subseteq Issues \cup {Blank}
      BY <3>1, InputTypes
    <3>4. Input("text", Texts \cup {Blank}, form[u].text) \subseteq Texts \cup {Blank}
      BY <3>1, InputTypes
    <3>5. Input("assignee", DOMAIN user \cup {Nobody}, form[u].assignee)
              \subseteq Users \cup {Nobody}
      BY <1>2, <3>1, InputTypes
    <3> QED BY <1>4, <3>3, <3>4, <3>5 DEF SendForm
  <2> DEFINE sent == [text |-> text, issue |-> issue, assignee |-> assignee]
             updated == Overlay(ticket[id], sent)
             q == [pc |-> "check", id |-> id, version |-> form[u].version, updated |-> updated,
                   fields |-> ChangedFields(ticket[id], updated), shown |-> form[u].text,
                   chosen |-> assignee # form[u].assignee \/ form[u].chosen]
  <2>3. updated \in TicketRows
    <3>1. ticket[id] \in TicketRows /\ sent.issue \in Issues \cup {Blank}
          /\ sent.text \in Texts \cup {Blank} /\ sent.assignee \in Users \cup {Nobody}
      BY <2>2 DEF Types, TicketTypes
    <3> HIDE DEF sent
    <3> QED BY <3>1 DEF Overlay, TicketRows
  <2>4. q \in AllRequests(lastId, lastWorkflow, DOMAIN user)
    <3>1. ChangedFields(ticket[id], updated) \subseteq FormFields
      BY DEF ChangedFields
    <3>2. id \in 1 .. lastId /\ form[u].version \in Nat /\ form[u].text \in Texts \cup {Blank}
          /\ form[u].chosen \in BOOLEAN
      BY <1>2, <2>2 DEF Forms
    <3> HIDE DEF updated
    <3> QED BY <2>3, <3>1, <3>2 DEF AllRequests, Saves
  <2>5. Become(r, q)
    BY <2>1
  <2> HIDE DEF q
  <2> QED BY <2>2, <2>4, <2>5, OnlyRequests DEF ticketVars
<1>5. ASSUME NEW id \in DOMAIN ticket, OpenForm(u, id) PROVE Types'
  <2>1. /\ TodoType' /\ UNCHANGED <<ticket, lastId, req>>
    BY <1>1, <1>5, ActTypes DEF OpenForm, Types
  <2>2. FormTypes'
    <3> DEFINE f == [id |-> id, version |-> ticket[id].version, chosen |-> history[id].chosen,
                     issue |-> ticket[id].issue, text |-> ticket[id].text,
                     assignee |-> ticket[id].assignee]
    <3>1. f \in Forms(lastId)
      BY <1>2 DEF Types, TicketTypes, TicketRows, Histories, Forms
    <3>2. form' = [form EXCEPT ![u] = f]
      BY <1>5 DEF OpenForm
    <3> HIDE DEF f
    <3> QED BY <2>1, <3>1, <3>2 DEF Types, FormTypes
  <2>3. TicketTypes'
    <3> DEFINE h == [history[id] EXCEPT !.leaked = history[id].leaked \/ ~history[id].chosen]
    <3>1. h \in Histories
      BY DEF Types, TicketTypes, Histories
    <3>2. history' = [history EXCEPT ![id] = h] /\ id \in DOMAIN history
      BY <1>5 DEF OpenForm, Types, TicketTypes
    <3> HIDE DEF h
    <3> QED BY <2>1, <3>1, <3>2, RowTypes
  <2> QED BY <2>1, <2>2, <2>3, FrameTypes DEF Types, people, workflowVars
<1>6. ASSUME NEW r \in Requests, NEW id \in DOMAIN ticket, NEW status \in NewStatuses,
             ChooseStatus(r, u, id, status)
      PROVE  Types'
  <2> DEFINE q == [pc |-> "transition", id |-> id, status |-> status]
  <2>1. q \in AllRequests(lastId, lastWorkflow, DOMAIN user)
    BY <1>2 DEF AllRequests, Transitions
  <2>2. Become(r, q) /\ TodoType' /\ UNCHANGED <<ticket, lastId, form, history>>
    BY <1>1, <1>6, ActTypes DEF ChooseStatus, Types
  <2> HIDE DEF q
  <2> QED BY <2>1, <2>2, OnlyRequests DEF ticketVars
<1>7. ASSUME NEW id \in DOMAIN ticket, NEW assignee \in DOMAIN user \cup {Nobody},
             Assign(u, id, assignee)
      PROVE  Types'
  <2> DEFINE t == [ticket[id] EXCEPT !.assignee = assignee]
             h == [history[id] EXCEPT !.chosen = TRUE]
  <2>1. /\ t \in TicketRows /\ t.parent = ticket[id].parent
        /\ h \in Histories /\ id \in DOMAIN history
    BY <1>2 DEF Types, TicketTypes, TicketRows, Histories
  <2>2. /\ ticket' = [ticket EXCEPT ![id] = t] /\ history' = [history EXCEPT ![id] = h]
        /\ UNCHANGED <<lastId, form, req>> /\ TodoType'
    BY <1>1, <1>7, ActTypes DEF Assign, Types
  <2> HIDE DEF t, h
  <2>3. TicketTypes'
    BY <2>1, <2>2, RowTypes
  <2> QED BY <2>2, <2>3, FrameTypes DEF Types, people, workflowVars
<1> QED BY <1>3, <1>4, <1>5, <1>6, <1>7 DEF UserAction

LEMMA DeleteTypes ==
    ASSUME Types, NEW u \in Users, NEW id \in DOMAIN ticket, DeleteTicket(u, id),
           UNCHANGED <<people, workflowVars>>
    PROVE  Types'
<1>1. /\ ticket' = Without(ticket, id) /\ history' = Without(history, id)
      /\ Act("delete") /\ UNCHANGED <<lastId, form, req>>
  BY DEF DeleteTicket, Delete
<1>2. TicketTypes'
  BY <1>1 DEF Without, Types, TicketTypes, Ids
<1>3. TodoType'
  BY <1>1, ActTypes DEF Types, Kinds
<1> QED BY <1>1, <1>2, <1>3, FrameTypes DEF Types, people, workflowVars

(* A statement of a request: it changes at most one ticket and its history, *)
(* and the request goes on.                                                 *)
LEMMA StatementTypes ==
    ASSUME Types, NEW r \in Requests, NEW q \in AllRequests(lastId, lastWorkflow, DOMAIN user),
           Become(r, q), TicketTypes', UNCHANGED <<lastId, form, todo, people, workflowVars>>
    PROVE  Types'
BY PageTypes, FrameTypes, Counters

LEMMA LeakTypes ==
    ASSUME NEW h \in Histories
    PROVE  [h EXCEPT !.leaked = h.leaked \/ ~h.chosen] \in Histories
BY DEF Histories

LEMMA RequestStepTypes ==
    ASSUME Types, NEW r \in Requests, RequestStep(r), UNCHANGED <<people, workflowVars>>
    PROVE  Types'
<1>1. /\ \A id \in DOMAIN ticket : ticket[id] \in TicketRows /\ id \in DOMAIN history
      /\ \A id \in DOMAIN history : history[id] \in Histories
      /\ Idle \in AllRequests(lastId, lastWorkflow, DOMAIN user)
      /\ req[r] \in AllRequests(lastId, lastWorkflow, DOMAIN user)
  BY DEF AllRequests, Types, TicketTypes, RequestTypes
<1>2. UNCHANGED <<lastId, form, todo>>
  BY DEF RequestStep, ClearAssignee, CheckVersion, WriteForm, CheckTransition, WriteStatus,
         Abandon
<1> DEFINE id == req[r].id
<1>3. CASE ClearAssignee(r)
  <2>1. TicketTypes'
    <3>1. CASE Exists(id)
      <4> DEFINE t == [ticket[id] EXCEPT !.assignee = Nobody]
                 h == [history[id] EXCEPT !.chosen = TRUE]
      <4>3. ticket[id] \in TicketRows /\ history[id] \in Histories
        BY <1>1, <3>1 DEF Exists
      <4>1. /\ id \in DOMAIN ticket /\ t \in TicketRows /\ t.parent = ticket[id].parent
            /\ id \in DOMAIN history /\ h \in Histories
        BY <1>1, <3>1, <4>3 DEF Exists, TicketRows, Histories
      <4>2. ticket' = [ticket EXCEPT ![id] = t] /\ history' = [history EXCEPT ![id] = h]
        BY <1>3, <3>1 DEF ClearAssignee
      <4> HIDE DEF t, h, id
      <4> QED BY <1>2, <4>1, <4>2, RowTypes
    <3>2. CASE ~Exists(id)
      BY <1>2, <1>3, <3>2, FrameTypes DEF ClearAssignee
    <3> QED BY <3>1, <3>2
  <2>2. Become(r, Idle)
    BY <1>3 DEF ClearAssignee
  <2> QED BY <1>1, <1>2, <2>1, <2>2, StatementTypes
<1>4. CASE CheckVersion(r)
  <2>1. req[r] \in Saves(lastId)
    BY <1>1, <1>4, RequestKinds DEF CheckVersion
  <2> DEFINE q == [req[r] EXCEPT !.pc = "write", !.version = req[r].version + 1]
  <2>2. q \in Saves(lastId)
    <3>1. req[r].version + 1 \in Nat
      BY <2>1 DEF Saves
    <3> QED BY <2>1, <3>1 DEF Saves
  <2>3. Become(r, q) \/ Become(r, Idle)
    BY <1>4 DEF CheckVersion
  <2>4. TicketTypes'
    BY <1>4, FrameTypes DEF CheckVersion
  <2>5. q \in AllRequests(lastId, lastWorkflow, DOMAIN user)
    BY <2>2 DEF AllRequests
  <2> HIDE DEF q
  <2> QED BY <1>1, <1>2, <2>3, <2>4, <2>5, StatementTypes
<1>5. CASE WriteForm(r)
  <2>1. req[r] \in Saves(lastId)
    BY <1>1, <1>5, RequestKinds DEF WriteForm
  <2>2. TicketTypes'
    <3>1. CASE Exists(id)
      <4>1. PICK raced \in BOOLEAN :
                history' = [history EXCEPT ![id] = SavedHistory(history[id], req[r], raced)]
        BY <1>5, <3>1 DEF WriteForm
      <4>2. ticket' = [ticket EXCEPT ![id] = SavedTicket(ticket[id], req[r])]
        BY <1>5, <3>1 DEF WriteForm
      <4>3. SavedHistory(history[id], req[r], raced) \in Histories
        <5>1. history[id] \in Histories /\ req[r].chosen \in BOOLEAN
          BY <1>1, <2>1, <3>1 DEF Exists, Saves
        <5> QED BY <5>1 DEF SavedHistory, Histories
      <4>4. /\ SavedTicket(ticket[id], req[r]) \in TicketRows
            /\ SavedTicket(ticket[id], req[r]).parent = ticket[id].parent
        BY <1>1, <2>1, <3>1, SavedTicketFacts DEF Exists
      <4>5. id \in DOMAIN ticket /\ id \in DOMAIN history
        BY <1>1, <3>1 DEF Exists
      <4> HIDE DEF id
      <4> QED BY <1>2, <4>1, <4>2, <4>3, <4>4, <4>5, RowTypes
    <3>2. CASE ~Exists(id)
      BY <1>2, <1>5, <3>2, FrameTypes DEF WriteForm
    <3> QED BY <3>1, <3>2
  <2>3. PICK clear : Become(r, ThenClearAssignee(clear, id))
    BY <1>5 DEF WriteForm
  <2>4. ThenClearAssignee(clear, id) \in AllRequests(lastId, lastWorkflow, DOMAIN user)
    BY <2>1, ClearIsRequest DEF Saves
  <2> QED BY <1>1, <1>2, <2>2, <2>3, <2>4, StatementTypes
<1>6. CASE CheckTransition(r)
  <2>1. req[r] \in Transitions(lastId)
    BY <1>1, <1>6, RequestKinds DEF CheckTransition
  <2> DEFINE q == [pc |-> "status", id |-> id, status |-> req[r].status,
                   resolved |-> TimeOfResolution(ticket[id], req[r].status)]
  <2>2. q \in StatusWrites(lastId)
    <3>1. TimeOfResolution(ticket[id], req[r].status) \in BOOLEAN
      BY DEF TimeOfResolution
    <3> QED BY <2>1, <3>1 DEF Transitions, StatusWrites
  <2>3. Become(r, q) \/ Become(r, Idle)
    BY <1>6 DEF CheckTransition
  <2>4. TicketTypes'
    BY <1>6, FrameTypes DEF CheckTransition
  <2>5. q \in AllRequests(lastId, lastWorkflow, DOMAIN user)
    BY <2>2 DEF AllRequests
  <2> HIDE DEF q
  <2> QED BY <1>1, <1>2, <2>3, <2>4, <2>5, StatementTypes
<1>7. CASE WriteStatus(r)
  <2>1. req[r] \in StatusWrites(lastId)
    BY <1>1, <1>7, RequestKinds DEF WriteStatus
  <2>2. TicketTypes'
    <3>1. CASE Exists(id)
      <4> DEFINE t == [ticket[id] EXCEPT !.status = req[r].status, !.resolved = req[r].resolved]
      <4>3. /\ ticket[id] \in TicketRows /\ req[r].status \in Statuses
            /\ req[r].resolved \in BOOLEAN
        BY <1>1, <2>1, <3>1, TicketsAssumption DEF Exists, StatusWrites, TicketsAssumption
      <4>1. id \in DOMAIN ticket /\ t \in TicketRows /\ t.parent = ticket[id].parent
        BY <3>1, <4>3 DEF Exists, TicketRows
      <4>2. ticket' = [ticket EXCEPT ![id] = t] /\ history' = history
        BY <1>7, <3>1 DEF WriteStatus, Exists
      <4> HIDE DEF t, id
      <4> QED BY <1>2, <4>1, <4>2, RowTypes
    <3>2. CASE ~Exists(id)
      BY <1>2, <1>7, <3>2, FrameTypes DEF WriteStatus
    <3> QED BY <3>1, <3>2
  <2>3. Become(r, Idle)
    BY <1>7 DEF WriteStatus
  <2> QED BY <1>1, <1>2, <2>2, <2>3, StatementTypes
<1>8. CASE Abandon(r)
  <2>1. TicketTypes'
    <3>1. CASE Exists(id)
      <4> DEFINE h == [history[id] EXCEPT !.leaked = history[id].leaked \/ ~history[id].chosen]
      <4>3. history[id] \in Histories
        BY <1>1, <3>1 DEF Exists
      <4>1. id \in DOMAIN history /\ h \in Histories
        BY <1>1, <3>1, <4>3, LeakTypes DEF Exists
      <4>2. ticket' = ticket /\ history' = [history EXCEPT ![id] = h]
        BY <1>8, <3>1 DEF Abandon
      <4> HIDE DEF h, id
      <4> QED BY <1>2, <4>1, <4>2, RowTypes
    <3>2. CASE ~Exists(id)
      BY <1>2, <1>8, <3>2, FrameTypes DEF Abandon
    <3> QED BY <3>1, <3>2
  <2>2. Become(r, Idle)
    BY <1>8 DEF Abandon
  <2> QED BY <1>1, <1>2, <2>1, <2>2, StatementTypes
<1> QED BY <1>3, <1>4, <1>5, <1>6, <1>7, <1>8 DEF RequestStep

(* ------------------------------- imports -------------------------------- *)
LessThan == {pair \in Nat \X Nat : pair[1] < pair[2]}

LEMMA LeastNumber ==
    ASSUME NEW S, S \subseteq Nat, S # {}
    PROVE  \E least \in S : \A other \in S : least <= other
<1>1. IsWellFoundedOn(LessThan, Nat)
  BY NatLessThanWellFounded DEF OpToRel, LessThan
<1>2. \E least \in S : \A other \in S : <<other, least>> \notin LessThan
  BY <1>1, WFMin
<1>3. PICK least \in S : \A other \in S : <<other, least>> \notin LessThan
  BY <1>2
<1>4. ASSUME NEW other \in S PROVE least <= other
  <2>1. other \in Nat /\ least \in Nat /\ <<other, least>> \in Nat \X Nat
    BY <1>3
  <2>2. ~(other < least)
    BY <1>3, <2>1 DEF LessThan
  <2> QED BY <2>1, <2>2
<1> QED BY <1>3, <1>4

(* The oldest ticket, or 0 if there is none. *)
LEMMA OldestTicket ==
    ASSUME Types
    PROVE  Oldest \in 0 .. lastId
<1>1. DOMAIN ticket \subseteq Nat /\ DOMAIN ticket \subseteq 0 .. lastId /\ 0 \in 0 .. lastId
  BY Counters DEF Types, TicketTypes, Ids
<1>2. DOMAIN ticket # {} =>
          \E id \in DOMAIN ticket : \A other \in DOMAIN ticket : id <= other
  BY <1>1, LeastNumber
<1> QED BY <1>1, <1>2 DEF Oldest

LEMMA ImportsTypes ==
    ASSUME Types, Imports
    PROVE  Types'
<1>1. UNCHANGED <<people, workflowVars>>
  BY DEF Imports
<1>2. ASSUME NEW r \in Requests, NEW u \in Users, ImportRow(r, u) PROVE Types'
  <2>1. TodoType' /\ UNCHANGED ticketVars
    BY <1>2, ActTypes DEF ImportRow, Types, Kinds, ticketVars
  <2>2. PICK row \in Rows :
           \/ \E id \in WithKey(row) :
                Become(r, [pc |-> "overwrite", id |-> id, row |-> row])
           \/ Become(r, [pc |-> "parent", user |-> u, row |-> row, lookedUpTo |-> lastId])
    BY <1>2 DEF ImportRow
  <2>3. CASE \E id \in WithKey(row) : Become(r, [pc |-> "overwrite", id |-> id, row |-> row])
    <3>1. PICK id \in WithKey(row) : Become(r, [pc |-> "overwrite", id |-> id, row |-> row])
      BY <2>3
    <3>2. id \in 1 .. lastId
      BY DEF WithKey, Types, TicketTypes, Ids
    <3>3. [pc |-> "overwrite", id |-> id, row |-> row]
              \in AllRequests(lastId, lastWorkflow, DOMAIN user)
      BY <3>2 DEF AllRequests, Overwrites
    <3> QED BY <1>1, <2>1, <3>1, <3>3, OnlyRequests
  <2>4. CASE Become(r, [pc |-> "parent", user |-> u, row |-> row, lookedUpTo |-> lastId])
    <3>1. lastId \in 0 .. lastId
      BY Counters
    <3>2. [pc |-> "parent", user |-> u, row |-> row, lookedUpTo |-> lastId]
              \in AllRequests(lastId, lastWorkflow, DOMAIN user)
      BY <3>1 DEF AllRequests, ParentLookups
    <3> QED BY <1>1, <2>1, <2>4, <3>2, OnlyRequests
  <2> QED BY <2>2, <2>3, <2>4
<1>3. ASSUME NEW r \in Requests, Overwrite(r) PROVE Types'
  <2> DEFINE id == req[r].id
  <2>1. req[r] \in Overwrites(lastId) /\ UNCHANGED <<lastId, form, todo>> /\ Become(r, Idle)
    BY <1>3, RequestKinds DEF Overwrite, Types, RequestTypes
  <2>2. TicketTypes'
    <3>1. CASE Exists(id)
      <4> DEFINE t == Overwritten(ticket[id], req[r].row)
                 h == [history[id] EXCEPT !.text = "import"]
      <4>1. id \in DOMAIN ticket /\ id \in DOMAIN history
        BY <3>1 DEF Exists, Types, TicketTypes
      <4>2. ticket[id] \in TicketRows /\ history[id] \in Histories
        BY <4>1 DEF Types, TicketTypes
      <4>3. req[r].row.text \in Texts \cup {Blank} /\ req[r].row.status \in Statuses
        BY <2>1, ImportAssumption DEF Overwrites, Rows, ImportAssumption, Statuses
      <4>4. t \in TicketRows /\ t.parent = ticket[id].parent /\ h \in Histories
        BY <4>2, <4>3 DEF Overwritten, TicketRows, Histories
      <4>5. ticket' = [ticket EXCEPT ![id] = t] /\ history' = [history EXCEPT ![id] = h]
        BY <1>3, <3>1 DEF Overwrite
      <4> HIDE DEF t, h, id
      <4> QED BY <2>1, <4>1, <4>4, <4>5, RowTypes
    <3>2. CASE ~Exists(id)
      BY <1>3, <2>1, <3>2, FrameTypes DEF Overwrite
    <3> QED BY <3>1, <3>2
  <2>3. Idle \in AllRequests(lastId, lastWorkflow, DOMAIN user)
    BY DEF AllRequests
  <2> QED BY <1>1, <2>1, <2>2, <2>3, StatementTypes
<1>4. ASSUME NEW r \in Requests, FindParent(r) PROVE Types'
  <2> DEFINE q == [pc |-> "insert", user |-> req[r].user, row |-> req[r].row,
                   lookedUpTo |-> req[r].lookedUpTo, parent |-> Oldest]
  <2>1. req[r] \in ParentLookups(lastId) /\ UNCHANGED <<ticketVars, todo>> /\ Become(r, q)
    BY <1>4, RequestKinds DEF FindParent, Types, RequestTypes, ticketVars
  <2>2. q \in AllRequests(lastId, lastWorkflow, DOMAIN user)
    BY <2>1, OldestTicket DEF ParentLookups, RowInserts, AllRequests
  <2> HIDE DEF q
  <2> QED BY <1>1, <2>1, <2>2, OnlyRequests, FrameTypes
<1>5. ASSUME NEW r \in Requests, InsertRow(r) PROVE Types'
  <2> DEFINE row == req[r].row
             t == [issue |-> row.issue, text |-> row.text, assignee |-> Nobody,
                   status |-> row.status, resolved |-> FALSE, version |-> 0,
                   parent |-> req[r].parent]
             origin == Written("import", FALSE, req[r].lookedUpTo)
  <2>1. /\ req[r] \in RowInserts(lastId) /\ UNCHANGED <<form, todo>>
        /\ InsertTicket(r, t, req[r].user, origin)
    BY <1>5, RequestKinds DEF InsertRow, Types, RequestTypes
  <2>2. t \in TicketRows /\ t.parent <= lastId
    <3>1. row \in Rows /\ req[r].parent \in Nat /\ req[r].parent <= lastId
      BY <2>1, Counters DEF RowInserts
    <3>2. row.status \in Statuses /\ row.issue \in Issues /\ row.text \in Texts \cup {Blank}
      BY <3>1, ImportAssumption DEF Rows, ImportAssumption, Statuses
    <3> HIDE DEF row
    <3> QED BY <3>1, <3>2 DEF TicketRows
  <2>3. origin \in Histories /\ req[r].user \in Users
    <3>1. req[r].lookedUpTo \in Nat /\ req[r].user \in Users
      BY <2>1, Counters DEF RowInserts
    <3> QED BY <3>1 DEF Written, Histories
  <2> HIDE DEF t, origin
  <2>4. /\ lastId' = lastId + 1 /\ TicketTypes'
        /\ Become(r, ThenClearAssignee(t.assignee = Nobody, lastId + 1))
    BY <2>1, <2>2, <2>3, InsertEffects
  <2>5. lastId' \in Nat /\ lastId <= lastId' /\ lastId + 1 \in 1 .. lastId'
    BY <2>4, Counters
  <2>6. ThenClearAssignee(t.assignee = Nobody, lastId + 1)
            \in AllRequests(lastId', lastWorkflow, DOMAIN user)
    BY <2>5, ClearIsRequest
  <2>7. TodoType'
    BY <2>1, FrameTypes
  <2> QED BY <1>1, <2>1, <2>4, <2>5, <2>6, <2>7, PageTypes
<1> QED BY <1>2, <1>3, <1>4, <1>5 DEF Imports, ImportStep

LEMMA StutterTypes ==
    ASSUME Types, UNCHANGED deskVars
    PROVE  Types'
BY FrameTypes DEF deskVars, vars, people, Types

LEMMA NextTypes ==
    ASSUME Types, AdvancesAreReached, [Next]_deskVars
    PROVE  Types'
<1>1. CASE TicketPages
  BY <1>1, UserActionTypes, DeleteTypes, RequestStepTypes DEF TicketPages
<1> QED
  BY <1>1, ImportsTypes, WorkflowsTypes, UserPagesTypes, StutterTypes DEF Next

(* What the requests under way may become by a page. *)
LEMMA RequestsOfPages ==
    ASSUME Types, [Next]_deskVars, NEW r \in Requests, req'[r] # req[r]
    PROVE  /\ TicketPages => req'[r].pc \in {"idle", "clear", "check", "write", "transition",
                                             "status"}
           /\ Imports => req'[r].pc \in {"idle", "overwrite", "parent", "insert", "clear"}
           /\ Workflows => req'[r].pc \in {"idle", "start", "advance"}
           /\ Administration => req'[r].pc \in {"idle", "toggle"}
<1>1. ASSUME NEW other \in Requests, NEW q, Become(other, q) PROVE req'[r] = q
  BY <1>1 DEF Become, Types, RequestTypes
<1>2. Idle.pc = "idle" /\ \A clear, id : ThenClearAssignee(clear, id).pc \in {"idle", "clear"}
  BY DEF Idle, ThenClearAssignee
<1>3. ASSUME NEW other \in Requests, NEW t, NEW placeholder, NEW origin,
             InsertTicket(other, t, placeholder, origin)
      PROVE  req'[r].pc \in {"idle", "clear"}
  <2>1. PICK clear, id : Become(other, ThenClearAssignee(clear, id))
    BY <1>3 DEF InsertTicket
  <2> QED BY <1>1, <1>2, <2>1
<1>4. ASSUME TicketPages
      PROVE  req'[r].pc \in {"idle", "clear", "check", "write", "transition", "status"}
  <2>1. ASSUME NEW other \in Requests, NEW u \in Users, Create(other, u)
        PROVE  req'[r].pc \in {"idle", "clear"}
    BY <1>3, <2>1 DEF Create
  <2>2. ASSUME NEW other \in Requests, NEW u \in Users, SendForm(other, u)
        PROVE  req'[r].pc = "check"
    BY <1>1, <2>2 DEF SendForm
  <2>3. ASSUME NEW other \in Requests, NEW u \in Users, NEW id, NEW status,
               ChooseStatus(other, u, id, status)
        PROVE  req'[r].pc = "transition"
    BY <1>1, <2>3 DEF ChooseStatus
  <2>4. ASSUME NEW other \in Requests, CheckVersion(other)
        PROVE  req'[r].pc \in {"idle", "write"}
    <3>1. req[other] \in Saves(lastId)
      BY <2>4, RequestKinds DEF CheckVersion, Types, RequestTypes
    <3>2. [req[other] EXCEPT !.pc = "write", !.version = req[other].version + 1].pc = "write"
      BY <3>1 DEF Saves
    <3> QED BY <1>1, <1>2, <2>4, <3>2 DEF CheckVersion
  <2>5. ASSUME NEW other \in Requests, CheckTransition(other)
        PROVE  req'[r].pc \in {"idle", "status"}
    BY <1>1, <1>2, <2>5 DEF CheckTransition
  <2>6. ASSUME NEW other \in Requests, WriteForm(other)
        PROVE  req'[r].pc \in {"idle", "clear"}
    BY <1>1, <1>2, <2>6 DEF WriteForm
  <2>7. ASSUME NEW other \in Requests,
               ClearAssignee(other) \/ WriteStatus(other) \/ Abandon(other)
        PROVE  req'[r].pc = "idle"
    BY <1>1, <1>2, <2>7 DEF ClearAssignee, WriteStatus, Abandon
  <2>8. ASSUME NEW u \in Users, NEW id, NEW assignee,
               OpenForm(u, id) \/ Assign(u, id, assignee) \/ DeleteTicket(u, id)
        PROVE  req' = req
    BY <2>8 DEF OpenForm, Assign, DeleteTicket, Delete
  <2> QED
    BY <1>4, <2>1, <2>2, <2>3, <2>4, <2>5, <2>6, <2>7, <2>8
       DEF TicketPages, UserAction, RequestStep
<1>5. ASSUME Imports
      PROVE  req'[r].pc \in {"idle", "overwrite", "parent", "insert", "clear"}
  <2>1. ASSUME NEW other \in Requests, NEW u \in Users, ImportRow(other, u)
        PROVE  req'[r].pc \in {"overwrite", "parent"}
    <3>1. PICK row \in Rows :
             \/ \E id \in WithKey(row) :
                  Become(other, [pc |-> "overwrite", id |-> id, row |-> row])
             \/ Become(other,
                       [pc |-> "parent", user |-> u, row |-> row, lookedUpTo |-> lastId])
      BY <2>1 DEF ImportRow
    <3>2. ASSUME NEW id, Become(other, [pc |-> "overwrite", id |-> id, row |-> row])
          PROVE  req'[r].pc = "overwrite"
      <4>1. req'[r] = [pc |-> "overwrite", id |-> id, row |-> row]
        BY <1>1, <3>2
      <4> QED BY <4>1
    <3>3. ASSUME Become(other,
                        [pc |-> "parent", user |-> u, row |-> row, lookedUpTo |-> lastId])
          PROVE  req'[r].pc = "parent"
      <4>1. req'[r] = [pc |-> "parent", user |-> u, row |-> row, lookedUpTo |-> lastId]
        BY <1>1, <3>3
      <4> QED BY <4>1
    <3> QED BY <3>1, <3>2, <3>3
  <2>2. ASSUME NEW other \in Requests, Overwrite(other) \/ FindParent(other)
        PROVE  req'[r].pc \in {"idle", "insert"}
    BY <1>1, <1>2, <2>2 DEF Overwrite, FindParent
  <2>3. ASSUME NEW other \in Requests, InsertRow(other)
        PROVE  req'[r].pc \in {"idle", "clear"}
    BY <1>3, <2>3 DEF InsertRow
  <2> QED BY <1>5, <2>1, <2>2, <2>3 DEF Imports, ImportStep
<1>6. ASSUME Workflows
      PROVE  req'[r].pc \in {"idle", "start", "advance"}
  <2>1. ASSUME NEW other \in Requests, NEW q, W!Become(other, q) PROVE Become(other, q)
    BY <2>1 DEF W!Become, Become
  <2>2. W!Idle = Idle
    BY DEF W!Idle, Idle
  <2>3. ASSUME NEW other \in Requests, W!UserAction(other)
        PROVE  req'[r].pc \in {"start", "advance"}
    <3>1. ASSUME NEW id, W!CheckStart(other, id) PROVE req'[r].pc = "start"
      BY <1>1, <2>1, <3>1 DEF W!CheckStart
    <3>2. ASSUME NEW w, W!ReadStep(other, w) PROVE req'[r].pc = "advance"
      BY <1>1, <2>1, <3>2 DEF W!ReadStep
    <3> QED BY <2>3, <3>1, <3>2 DEF W!UserAction
  <2>4. ASSUME NEW other \in Requests, W!RequestStep(other)
        PROVE  req'[r].pc = "idle"
    BY <1>1, <1>2, <2>1, <2>2, <2>4 DEF W!RequestStep, W!Start, W!Advance
  <2> QED BY <1>6, <2>3, <2>4 DEF Workflows, StartWorkflow, WorkflowStep
<1>7. ASSUME Administration
      PROVE  req'[r].pc \in {"idle", "toggle"}
  <2>1. ASSUME NEW other \in Requests, NEW a \in Users, NEW u \in Users, ReadActive(other, a, u)
        PROVE  req'[r].pc = "toggle"
    <3>1. Become(other, [pc |-> "toggle", user |-> u, active |-> ~user[u].active])
      BY <2>1 DEF ReadActive
    <3>2. req'[r] = [pc |-> "toggle", user |-> u, active |-> ~user[u].active]
      BY <1>1, <3>1
    <3> QED BY <3>2
  <2>2. ASSUME NEW other \in Requests, ToggleActive(other)
        PROVE  req'[r].pc = "idle"
    BY <1>1, <1>2, <2>2 DEF ToggleActive
  <2>3. ASSUME NEW a \in Users, NEW u \in Users, NEW role \in Roles,
               \/ Login(u) \/ Logout(u) \/ EndSession(u)
               \/ CreateUser(a, u, role) \/ UpdateUser(a, u, role)
        PROVE  req' = req
    BY <2>3 DEF Login, Logout, EndSession, CreateUser, UpdateUser
  <2>4. Users # {} /\ Roles # {}
    BY UsersAssumption DEF UsersAssumption, Roles
  <2> QED BY <1>7, <2>1, <2>2, <2>3, <2>4 DEF Administration, UserPages
<1> QED BY <1>4, <1>5, <1>6, <1>7

(* ---------------------- an administrator is left ------------------------ *)
(* Whoever a request is about to activate or not, another administrator is *)
(* active: the one who sent the request, who cannot be its user.           *)
AdminInv ==
    ~shaken =>
       /\ ActiveAdmins # {}
       /\ \A r \in Requests : req[r].pc = "toggle" => ActiveAdmins \ {req[r].user} # {}

LEMMA AdminInit == DeskInit => AdminInv
<1> SUFFICES ASSUME DeskInit PROVE AdminInv
  OBVIOUS
<1>1. PICK u \in DOMAIN Role : Role[u] \in AdminRoles
  BY UsersAssumption DEF UsersAssumption
<1>2. user = [v \in DOMAIN Role |-> [role |-> Role[v], active |-> TRUE]]
  BY DEF DeskInit, Init, UsersInit
<1>3. u \in ActiveAdmins
  BY <1>1, <1>2 DEF ActiveAdmins
<1>4. \A r \in Requests : req[r].pc # "toggle"
  BY DEF DeskInit, Init, UsersInit, Idle
<1> QED BY <1>3, <1>4 DEF AdminInv

LEMMA AdminStep ==
    ASSUME Types, AdminInv, [Next]_deskVars
    PROVE  AdminInv'
<1> SUFFICES ASSUME ~shaken' PROVE AdminInv'
  BY DEF AdminInv
(* More administrators are active, and no other toggle is under way.        *)
<1>1. ASSUME ActiveAdmins \subseteq ActiveAdmins', ~shaken,
             \A r \in Requests : req'[r].pc = "toggle" => req'[r] = req[r]
      PROVE  AdminInv'
  BY <1>1 DEF AdminInv
<1>2. CASE UNCHANGED deskVars
  BY <1>2 DEF deskVars, vars, people, AdminInv, ActiveAdmins
<1>3. CASE TicketPages \/ Imports \/ Workflows
  <2>1. UNCHANGED people
    BY <1>3 DEF TicketPages, Imports, Workflows, StartWorkflow, WorkflowStep
  <2>2. \A r \in Requests : req'[r].pc = "toggle" => req'[r] = req[r]
    BY <1>3, RequestsOfPages
  <2> QED BY <1>1, <2>1, <2>2 DEF people, ActiveAdmins
<1>4. CASE Administration
  <2>1. ASSUME NEW u \in Users, Login(u) \/ Logout(u) \/ EndSession(u)
        PROVE  AdminInv'
    BY <1>1, <2>1 DEF Login, Logout, EndSession, ActiveAdmins
  <2>2. ASSUME NEW a \in Users, NEW u \in Users, NEW role \in Roles, CreateUser(a, u, role)
        PROVE  AdminInv'
    <3> DEFINE row == [role |-> role, active |-> TRUE]
    <3>1. /\ u \notin DOMAIN user /\ user' = WithId(user, u, row)
          /\ UNCHANGED <<shaken, req>>
      BY <2>2 DEF CreateUser
    <3> HIDE DEF row
    <3>2. DOMAIN user \subseteq DOMAIN user' /\ \A v \in DOMAIN user : user'[v] = user[v]
      BY <3>1 DEF WithId
    <3>3. ActiveAdmins \subseteq ActiveAdmins'
      BY <3>2 DEF ActiveAdmins
    <3> QED BY <1>1, <3>1, <3>3
  <2>3. ASSUME NEW a \in Users, NEW u \in Users, NEW role \in Roles, UpdateUser(a, u, role)
        PROVE  AdminInv'
    <3>1. /\ u \in DOMAIN user /\ user' = [user EXCEPT ![u].role = role] /\ req' = req
          /\ ~shaken /\ ~(u \in ActiveAdmins /\ role \notin AdminRoles)
      BY <2>3 DEF UpdateUser
    <3>2. /\ DOMAIN user' = DOMAIN user /\ \A v \in DOMAIN user \ {u} : user'[v] = user[v]
          /\ user'[u].role = role /\ user'[u].active = user[u].active
      BY <3>1 DEF Types, PeopleTypes
    <3>3. ActiveAdmins \subseteq ActiveAdmins'
      BY <3>1, <3>2 DEF ActiveAdmins
    <3> QED BY <1>1, <3>1, <3>3
  <2>4. ASSUME NEW a \in Users, NEW u \in Users, NEW r \in Requests, ReadActive(r, a, u)
        PROVE  AdminInv'
    <3>1. a \in ActiveAdmins \ {u} /\ UNCHANGED people
      BY <2>4 DEF ReadActive, Administrator, HasRole, Acting, OthersThan, ActiveAdmins, Types,
                  PeopleTypes
    <3>2. ActiveAdmins' = ActiveAdmins /\ ~shaken
      BY <3>1 DEF people, ActiveAdmins
    <3>3. Become(r, [pc |-> "toggle", user |-> u, active |-> ~user[u].active])
      BY <2>4 DEF ReadActive
    <3>4. \E active : Become(r, [pc |-> "toggle", user |-> u, active |-> active])
      BY <3>3
    <3>5. req'[r].user = u /\ \A other \in Requests \ {r} : req'[other] = req[other]
      BY <3>4 DEF Become, Types, RequestTypes
    <3> QED BY <3>1, <3>2, <3>5 DEF AdminInv
  <2>5. ASSUME NEW r \in Requests, ToggleActive(r)
        PROVE  AdminInv'
    <3>1. req[r] \in Toggles(DOMAIN user) /\ req[r].pc = "toggle"
      BY <2>5, RequestKinds DEF ToggleActive, Types, RequestTypes
    <3> DEFINE u == req[r].user
    <3>2. /\ user' = [user EXCEPT ![u].active = req[r].active] /\ u \in DOMAIN user
          /\ ~shaken /\ \A other \in Requests \ {r} : req[other].pc # "toggle"
          /\ Become(r, Idle)
      BY <2>5, <3>1 DEF ToggleActive, Toggles
    <3>3. DOMAIN user' = DOMAIN user /\ \A v \in DOMAIN user \ {u} : user'[v] = user[v]
      BY <3>2
    <3>4. ActiveAdmins \ {u} \subseteq ActiveAdmins' /\ ActiveAdmins \ {u} # {}
      BY <3>1, <3>2, <3>3 DEF ActiveAdmins, AdminInv
    <3>5. \A other \in Requests : req'[other].pc # "toggle"
      BY <3>2 DEF Become, Idle, Types, RequestTypes
    <3> QED BY <3>4, <3>5 DEF AdminInv
  <2> QED BY <1>4, <2>1, <2>2, <2>3, <2>4, <2>5 DEF Administration, UserPages
<1> QED BY <1>2, <1>3, <1>4 DEF Next

(* ------------------------- workflows, once more ------------------------- *)
(* What the start of a workflow does, if it adds one.                       *)
LEMMA StartEffects ==
    ASSUME Types, NEW r \in Requests, W!Start(r)
    PROVE  /\ req[r] \in Starts(lastId, lastWorkflow) /\ Become(r, Idle)
           /\ \/ UNCHANGED workflowVars
              \/ LET w == lastWorkflow + 1 IN
                 /\ lastWorkflow' = w
                 /\ DOMAIN workflow' = DOMAIN workflow \cup {w}
                 /\ \A v \in DOMAIN workflow :
                       workflow'[v] = workflow[v] /\ reached'[v] = reached[v]
                 /\ workflow'[w] = [ticket |-> req[r].id, step |-> Steps[1], completed |-> FALSE]
                 /\ reached'[w] = [steps |-> {Steps[1]}, lookedUpTo |-> req[r].lookedUpTo]
<1>1. req[r] \in Starts(lastId, lastWorkflow) /\ Become(r, Idle)
  BY RequestKinds DEF W!Start, W!Become, Become, W!Idle, Idle, Types, RequestTypes
<1>2. CASE req[r].id \notin DOMAIN ticket
  BY <1>1, <1>2 DEF W!Start, workflowVars
<1>3. CASE req[r].id \in DOMAIN ticket
  <2> DEFINE w == lastWorkflow + 1
             row == [ticket |-> req[r].id, step |-> Steps[1], completed |-> FALSE]
             mark == [steps |-> {Steps[1]}, lookedUpTo |-> req[r].lookedUpTo]
  <2>1. /\ lastWorkflow' = w
        /\ workflow' = W!WithId(workflow, w, row) /\ reached' = W!WithId(reached, w, mark)
    BY <1>3 DEF W!Start
  <2>2. DOMAIN workflow = 1 .. lastWorkflow /\ DOMAIN reached = DOMAIN workflow
    BY DEF Types, WorkflowTypes
  <2>3. w \notin DOMAIN workflow
    BY <2>2, Counters
  <2> HIDE DEF row, mark, w
  <2>4. /\ DOMAIN workflow' = DOMAIN workflow \cup {w}
        /\ \A v \in DOMAIN workflow : workflow'[v] = workflow[v] /\ reached'[v] = reached[v]
        /\ workflow'[w] = row /\ reached'[w] = mark
    BY <2>1, <2>2, <2>3 DEF W!WithId
  <2> QED BY <1>1, <2>1, <2>4 DEF row, mark, w
<1> QED BY <1>2, <1>3

(* What an advance does: it writes the step after the one it read.          *)
LEMMA AdvanceEffects ==
    ASSUME Types, AdvancesAreReached, NEW r \in Requests, W!Advance(r)
    PROVE  LET w == req[r].workflow IN
           /\ Become(r, Idle) /\ lastWorkflow' = lastWorkflow
           /\ w \in DOMAIN workflow /\ DOMAIN workflow' = DOMAIN workflow
           /\ \A v \in DOMAIN workflow \ {w} :
                 workflow'[v] = workflow[v] /\ reached'[v] = reached[v]
           /\ workflow'[w].ticket = workflow[w].ticket
           /\ reached'[w].lookedUpTo = reached[w].lookedUpTo
           /\ \E i \in 1 .. (Len(Steps) - 1) :
                 /\ Steps[i] \in reached[w].steps
                 /\ workflow'[w].step = Steps[i + 1]
                 /\ workflow'[w].completed <=> workflow[w].completed \/ i + 1 = Len(Steps)
                 /\ reached'[w].steps = reached[w].steps \cup {Steps[i + 1]}
<1> DEFINE w == req[r].workflow
           old == workflow[w]
           new == W!NextStep(req[r].step)
           row == [old EXCEPT !.step = new, !.completed = (old.completed \/ new = W!Last)]
<1>1. /\ req[r].pc = "advance" /\ lastWorkflow' = lastWorkflow /\ Become(r, Idle)
  BY DEF W!Advance, W!Become, Become, W!Idle, Idle
<1>2. req[r] \in Advances(lastWorkflow)
  BY <1>1, RequestKinds DEF Types, RequestTypes
<1>3. w \in DOMAIN workflow /\ w \in DOMAIN reached
  BY <1>2 DEF Advances, Types, WorkflowTypes
<1>4. PICK i \in 1 .. (Len(Steps) - 1) : req[r].step = Steps[i] /\ new = Steps[i + 1]
  BY <1>1, NextSteps DEF AdvancesAreReached
<1>5. Steps[i] \in reached[w].steps
  BY <1>1, <1>4 DEF AdvancesAreReached
<1>6. /\ workflow' = [workflow EXCEPT ![w] = row]
      /\ reached' = [reached EXCEPT ![w].steps = @ \cup {new}]
  BY <1>3 DEF W!Advance, W!Exists, Types, WorkflowTypes
<1>7. /\ row.ticket = old.ticket /\ row.step = new
      /\ row.completed <=> old.completed \/ new = W!Last
  BY <1>3 DEF Types, WorkflowTypes
<1>8. new = W!Last <=> i + 1 = Len(Steps)
  <2>1. i + 1 \in DOMAIN Steps /\ Len(Steps) \in DOMAIN Steps
    BY Bounds
  <2> QED BY <1>4, <2>1, Bounds DEF W!Last
<1> HIDE DEF row, new
<1>9. /\ DOMAIN workflow' = DOMAIN workflow /\ workflow'[w] = row
      /\ \A v \in DOMAIN workflow \ {w} : workflow'[v] = workflow[v]
  BY <1>3, <1>6
<1>10. /\ \A v \in DOMAIN workflow \ {w} : reached'[v] = reached[v]
       /\ reached'[w].lookedUpTo = reached[w].lookedUpTo
       /\ reached'[w].steps = reached[w].steps \cup {new}
  BY <1>3, <1>6 DEF Types, WorkflowTypes
<1> QED BY <1>1, <1>3, <1>4, <1>5, <1>7, <1>8, <1>9, <1>10

(* A workflow that was there when a start looked for an active one of its   *)
(* ticket was complete then, and stays so.                                  *)
StartsLookedUp ==
    /\ \A r \in Requests, w \in DOMAIN workflow :
          req[r].pc = "start" /\ workflow[w].ticket = req[r].id /\ w <= req[r].lookedUpTo
          => workflow[w].completed
    /\ \A old, new \in DOMAIN workflow :
          /\ old < new /\ workflow[old].ticket = workflow[new].ticket
          /\ old <= reached[new].lookedUpTo
          => workflow[old].completed

WorkflowInv == AdvancesAreReached /\ WorkflowsReachEveryStep /\ StartsLookedUp

LEMMA WorkflowInit == DeskInit => WorkflowInv
<1>1. DeskInit => DOMAIN workflow = {} /\ \A r \in Requests : req[r] = Idle
  BY DEF DeskInit, Init, UsersInit, W!Init
<1> QED BY <1>1 DEF WorkflowInv, AdvancesAreReached, WorkflowsReachEveryStep, StartsLookedUp, Idle

(* Nothing of the workflows changes, and no request for them is added.      *)
LEMMA WorkflowFrame ==
    ASSUME WorkflowInv, UNCHANGED workflowVars,
           \A r \in Requests : req'[r].pc \in {"start", "advance"} => req'[r] = req[r]
    PROVE  WorkflowInv'
<1>1. WorkflowsReachEveryStep'
  BY DEF WorkflowInv, WorkflowsReachEveryStep, workflowVars
<1>2. AdvancesAreReached'
  BY DEF WorkflowInv, AdvancesAreReached, workflowVars, W!CanAdvance
<1>3. StartsLookedUp'
  BY DEF WorkflowInv, StartsLookedUp, workflowVars
<1> QED BY <1>1, <1>2, <1>3 DEF WorkflowInv

LEMMA StartKeepsInv ==
    ASSUME Types, WorkflowInv, NEW r \in Requests, W!Start(r)
    PROVE  WorkflowInv'
<1> DEFINE w == lastWorkflow + 1
<1>1. /\ req[r] \in Starts(lastId, lastWorkflow) /\ req[r].pc = "start"
      /\ \A other \in Requests : req'[other].pc # "idle" => req'[other] = req[other]
  <2>1. req[r] \in Starts(lastId, lastWorkflow) /\ req[r].pc = "start"
    BY StartEffects DEF Starts
  <2>2. req' = [req EXCEPT ![r] = Idle] /\ Idle.pc = "idle"
    BY StartEffects DEF Become, Idle
  <2> QED BY <2>1, <2>2 DEF Types, RequestTypes
<1>2. CASE UNCHANGED workflowVars
  BY <1>1, <1>2, WorkflowFrame
<1>3. CASE /\ lastWorkflow' = w
           /\ DOMAIN workflow' = DOMAIN workflow \cup {w}
           /\ \A v \in DOMAIN workflow :
                 workflow'[v] = workflow[v] /\ reached'[v] = reached[v]
           /\ workflow'[w] = [ticket |-> req[r].id, step |-> Steps[1], completed |-> FALSE]
           /\ reached'[w] = [steps |-> {Steps[1]}, lookedUpTo |-> req[r].lookedUpTo]
  <2>1. \A v \in DOMAIN workflow : v \in Nat /\ v < w
    BY Counters DEF Types, WorkflowTypes
  <2>2. WorkflowsReachEveryStep'
    <3>1. \A v \in DOMAIN workflow :
             /\ workflow'[v].step \in reached'[v].steps
             /\ \A i, j \in DOMAIN Steps :
                   i < j /\ Steps[j] \in reached'[v].steps => Steps[i] \in reached'[v].steps
             /\ workflow'[v].completed <=> Steps[Len(Steps)] \in reached'[v].steps
      BY <1>3 DEF WorkflowInv, WorkflowsReachEveryStep
    <3>2. /\ workflow'[w].step = Steps[1] /\ reached'[w].steps = {Steps[1]}
          /\ ~workflow'[w].completed
      BY <1>3
    <3>3. \A i \in DOMAIN Steps : Steps[i] = Steps[1] => i = 1
      BY Bounds
    <3>4. Len(Steps) \in DOMAIN Steps /\ Len(Steps) # 1 /\ DOMAIN Steps \subseteq Nat \ {0}
      BY Bounds
    <3>5. \A i, j \in DOMAIN Steps :
             i < j /\ Steps[j] \in reached'[w].steps => Steps[i] \in reached'[w].steps
      BY <3>2, <3>3, <3>4
    <3>6. ~(Steps[Len(Steps)] \in reached'[w].steps)
      BY <3>2, <3>3, <3>4
    <3> QED BY <1>3, <3>1, <3>2, <3>5, <3>6 DEF WorkflowsReachEveryStep
  <2>3. AdvancesAreReached'
    <3>1. ASSUME NEW other \in Requests, req'[other].pc = "advance"
          PROVE  req'[other] = req[other] /\ req[other].workflow \in DOMAIN workflow
      <4>1. req'[other] = req[other]
        BY <1>1, <3>1
      <4> QED BY <3>1, <4>1, RequestKinds DEF Types, RequestTypes, Advances, WorkflowTypes
    <3> QED BY <1>3, <3>1 DEF WorkflowInv, AdvancesAreReached, W!CanAdvance
  <2>4. StartsLookedUp'
    <3>1. ASSUME NEW other \in Requests, req[other].pc = "start"
          PROVE  req[other].lookedUpTo < w /\ req[other].lookedUpTo \in Nat
      <4>1. req[other] \in Starts(lastId, lastWorkflow)
        BY <3>1, RequestKinds DEF Types, RequestTypes
      <4> QED BY <4>1, Counters DEF Starts
    <3>2. ASSUME NEW other \in Requests, NEW v \in DOMAIN workflow', req'[other].pc = "start",
                 workflow'[v].ticket = req'[other].id, v <= req'[other].lookedUpTo
          PROVE  workflow'[v].completed
      <4>1. req'[other] = req[other]
        BY <1>1, <3>2
      <4>2. v # w
        BY <3>1, <3>2, <4>1, Counters
      <4> QED BY <1>3, <3>2, <4>1, <4>2 DEF WorkflowInv, StartsLookedUp
    <3>3. ASSUME NEW old \in DOMAIN workflow', NEW new \in DOMAIN workflow', old < new,
                 workflow'[old].ticket = workflow'[new].ticket, old <= reached'[new].lookedUpTo
          PROVE  workflow'[old].completed
      <4>1. old \in DOMAIN workflow
        BY <1>3, <2>1, <3>3, Counters
      <4>2. CASE new \in DOMAIN workflow
        BY <1>3, <3>3, <4>1, <4>2 DEF WorkflowInv, StartsLookedUp
      <4>3. CASE new = w
        BY <1>1, <1>3, <3>3, <4>1, <4>3 DEF WorkflowInv, StartsLookedUp
      <4> QED BY <1>3, <4>2, <4>3
    <3> QED BY <3>2, <3>3 DEF StartsLookedUp
  <2> QED BY <2>2, <2>3, <2>4 DEF WorkflowInv
<1> QED BY <1>2, <1>3, StartEffects

LEMMA AdvanceKeepsInv ==
    ASSUME Types, WorkflowInv, NEW r \in Requests, W!Advance(r)
    PROVE  WorkflowInv'
<1> DEFINE w == req[r].workflow
<1>1. AdvancesAreReached
  BY DEF WorkflowInv
<1>2. /\ \A other \in Requests : req'[other].pc # "idle" => req'[other] = req[other]
      /\ w \in DOMAIN workflow /\ DOMAIN workflow' = DOMAIN workflow
      /\ \A v \in DOMAIN workflow \ {w} :
            workflow'[v] = workflow[v] /\ reached'[v] = reached[v]
      /\ workflow'[w].ticket = workflow[w].ticket
      /\ reached'[w].lookedUpTo = reached[w].lookedUpTo
  BY <1>1, AdvanceEffects DEF Become, Idle, Types, RequestTypes
<1>3. PICK i \in 1 .. (Len(Steps) - 1) :
           /\ Steps[i] \in reached[w].steps
           /\ workflow'[w].step = Steps[i + 1]
           /\ workflow'[w].completed <=> workflow[w].completed \/ i + 1 = Len(Steps)
           /\ reached'[w].steps = reached[w].steps \cup {Steps[i + 1]}
  BY <1>1, AdvanceEffects
<1>4. /\ i \in DOMAIN Steps /\ i + 1 \in DOMAIN Steps /\ Len(Steps) \in DOMAIN Steps
      /\ i \in Nat /\ DOMAIN Steps \subseteq Nat
      /\ \A j, k \in DOMAIN Steps : Steps[j] = Steps[k] => j = k
  BY Bounds
<1>5. WorkflowsReachEveryStep'
  <2>1. /\ \A j, k \in DOMAIN Steps :
              j < k /\ Steps[k] \in reached[w].steps => Steps[j] \in reached[w].steps
        /\ workflow[w].completed <=> Steps[Len(Steps)] \in reached[w].steps
    BY <1>2 DEF WorkflowInv, WorkflowsReachEveryStep
  <2>2. ASSUME NEW j \in DOMAIN Steps, NEW k \in DOMAIN Steps, j < k,
               Steps[k] \in reached'[w].steps
        PROVE  Steps[j] \in reached'[w].steps
    <3>1. CASE Steps[k] \in reached[w].steps
      BY <1>3, <2>1, <2>2, <3>1
    <3>2. CASE k = i + 1
      <4>1. j = i \/ j < i
        BY <1>4, <2>2, <3>2
      <4> QED BY <1>3, <1>4, <2>1, <4>1
    <3> QED BY <1>3, <1>4, <2>2, <3>1, <3>2
  <2>3. workflow'[w].completed <=> Steps[Len(Steps)] \in reached'[w].steps
    BY <1>3, <1>4, <2>1
  <2>4. workflow'[w].step \in reached'[w].steps
    BY <1>3
  <2>5. \A v \in DOMAIN workflow \ {w} :
           /\ workflow'[v].step \in reached'[v].steps
           /\ \A j, k \in DOMAIN Steps :
                 j < k /\ Steps[k] \in reached'[v].steps => Steps[j] \in reached'[v].steps
           /\ workflow'[v].completed <=> Steps[Len(Steps)] \in reached'[v].steps
    BY <1>2 DEF WorkflowInv, WorkflowsReachEveryStep
  <2> QED BY <1>2, <2>2, <2>3, <2>4, <2>5 DEF WorkflowsReachEveryStep
<1>6. AdvancesAreReached'
  <2>1. ASSUME NEW other \in Requests, req'[other].pc = "advance"
        PROVE  /\ req'[other] = req[other] /\ W!CanAdvance(req[other].step)
               /\ req[other].step \in reached[req[other].workflow].steps
               /\ req[other].workflow \in DOMAIN workflow
    <3>1. req'[other] = req[other]
      BY <1>2, <2>1
    <3>2. req[other] \in Advances(lastWorkflow)
      BY <2>1, <3>1, RequestKinds DEF Types, RequestTypes
    <3> QED BY <1>1, <2>1, <3>1, <3>2 DEF AdvancesAreReached, Advances, Types, WorkflowTypes
  <2>2. \A v \in DOMAIN workflow : reached[v].steps \subseteq reached'[v].steps
    BY <1>2, <1>3
  <2> QED BY <2>1, <2>2 DEF AdvancesAreReached, W!CanAdvance
<1>7. StartsLookedUp'
  <2>1. \A v \in DOMAIN workflow :
           /\ workflow'[v].ticket = workflow[v].ticket
           /\ reached'[v].lookedUpTo = reached[v].lookedUpTo
           /\ workflow[v].completed => workflow'[v].completed
    BY <1>2, <1>3
  <2>2. \A other \in Requests : req'[other].pc = "start" => req'[other] = req[other]
    BY <1>2
  <2> QED BY <1>2, <2>1, <2>2 DEF WorkflowInv, StartsLookedUp
<1> QED BY <1>5, <1>6, <1>7 DEF WorkflowInv

LEMMA WorkflowStepInv ==
    ASSUME Types, WorkflowInv, [Next]_deskVars
    PROVE  WorkflowInv'
<1>1. CASE UNCHANGED deskVars
  BY <1>1, WorkflowFrame DEF deskVars, vars, workflowVars
<1>2. CASE TicketPages \/ Imports \/ Administration
  BY <1>2, RequestsOfPages, WorkflowFrame DEF TicketPages, Imports, Administration
<1>3. ASSUME NEW r \in Requests, NEW id \in DOMAIN ticket, W!CheckStart(r, id)
      PROVE  WorkflowInv'
  <2>1. /\ UNCHANGED workflowVars /\ W!Active(id) = {}
        /\ \A other \in Requests \ {r} : req'[other] = req[other]
        /\ req'[r] = [pc |-> "start", id |-> id, lookedUpTo |-> lastWorkflow]
    BY <1>3 DEF W!CheckStart, W!Become, workflowVars, Types, RequestTypes
  <2>2. AdvancesAreReached' /\ WorkflowsReachEveryStep'
    BY <2>1 DEF WorkflowInv, AdvancesAreReached, WorkflowsReachEveryStep, workflowVars,
                W!CanAdvance
  <2>3. \A w \in DOMAIN workflow : workflow[w].ticket = id => workflow[w].completed
    BY <2>1 DEF W!Active
  <2>4. StartsLookedUp'
    BY <2>1, <2>3 DEF WorkflowInv, StartsLookedUp, workflowVars
  <2> QED BY <2>2, <2>4 DEF WorkflowInv
<1>4. ASSUME NEW r \in Requests, NEW w \in DOMAIN workflow, W!ReadStep(r, w)
      PROVE  WorkflowInv'
  <2>1. /\ UNCHANGED workflowVars /\ W!CanAdvance(workflow[w].step)
        /\ \A other \in Requests \ {r} : req'[other] = req[other]
        /\ req'[r] = [pc |-> "advance", workflow |-> w, step |-> workflow[w].step]
    BY <1>4 DEF W!ReadStep, W!Become, workflowVars, Types, RequestTypes
  <2>2. StartsLookedUp' /\ WorkflowsReachEveryStep'
    BY <2>1 DEF WorkflowInv, StartsLookedUp, WorkflowsReachEveryStep, workflowVars
  <2>3. workflow[w].step \in reached[w].steps
    BY DEF WorkflowInv, WorkflowsReachEveryStep
  <2>4. AdvancesAreReached'
    BY <2>1, <2>3 DEF WorkflowInv, AdvancesAreReached, workflowVars, W!CanAdvance
  <2> QED BY <2>2, <2>4 DEF WorkflowInv
<1> QED
  BY <1>1, <1>2, <1>3, <1>4, StartKeepsInv, AdvanceKeepsInv
     DEF Next, Workflows, StartWorkflow, WorkflowStep, W!UserAction, W!RequestStep

(* ------------------------------- theorems ------------------------------- *)
DeskInv == Types /\ AdminInv /\ WorkflowInv

THEOREM DeskInvariant == Spec => []DeskInv
<1>1. DeskInit => DeskInv
  BY InitTypes, AdminInit, WorkflowInit DEF DeskInv
<1>2. DeskInv /\ [Next]_deskVars => DeskInv'
  <2> SUFFICES ASSUME DeskInv, [Next]_deskVars PROVE DeskInv'
    OBVIOUS
  <2>1. AdvancesAreReached
    BY DEF DeskInv, WorkflowInv
  <2> QED BY <2>1, NextTypes, AdminStep, WorkflowStepInv DEF DeskInv
<1> QED BY <1>1, <1>2, PTL DEF Spec

(* The tables and the requests under way keep their types, and the parent   *)
(* of a ticket is an older one, however the requests of the four parts of   *)
(* the desk overlap.                                                        *)
THEOREM DeskTypes == Spec => []TypeOK
<1>1. DeskInv => TypeOK
  BY SplitTypes DEF DeskInv
<1> QED BY <1>1, DeskInvariant, PTL

(* ToggleActive refuses one's own account, and that is enough: an active    *)
(* administrator is left, unless the role of one was taken or two requests  *)
(* to toggle an account overlapped.                                         *)
THEOREM AnAdministratorIsLeft == Spec => []NobodyIsLockedOut
<1>1. DeskInv => NobodyIsLockedOut
  BY DEF DeskInv, AdminInv, NobodyIsLockedOut
<1> QED BY <1>1, DeskInvariant, PTL

(* Requests to advance a workflow may overlap and write what they read long *)
(* ago: still no step is left out, and the workflow is complete if and only *)
(* if it was at the last one.                                               *)
THEOREM EveryStepIsReached == Spec => []WorkflowsReachEveryStep
<1>1. DeskInv => WorkflowsReachEveryStep
  BY DEF DeskInv, WorkflowInv
<1> QED BY <1>1, DeskInvariant, PTL

(* Of two active workflows of a ticket the older was not there yet when the *)
(* start of the newer one looked for it.                                    *)
THEOREM OnlyOverlappingStarts == Spec => []OneActiveWorkflow
<1>1. ASSUME DeskInv PROVE OneActiveWorkflow
  <2>1. \A w \in DOMAIN workflow : w \in Nat /\ reached[w].lookedUpTo \in Nat
    BY <1>1, Counters DEF DeskInv, Types, WorkflowTypes
  <2> QED BY <1>1, <2>1 DEF DeskInv, WorkflowInv, StartsLookedUp, OneActiveWorkflow
<1> QED BY <1>1, DeskInvariant, PTL
=============================================================================
