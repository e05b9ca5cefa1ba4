-------------------------- MODULE DeskTicketProofs --------------------------
(***************************************************************************)
(* For any users, requests and tickets: what overlapping requests leave of *)
(* a ticket.  Each of the four invariants is about a few columns, so the   *)
(* statements are taken apart by the columns they write.                   *)
(***************************************************************************)
EXTENDS DeskProofs

Moves(r, q) == req'[r] = q /\ \A other \in Requests \ {r} : req'[other] = req[other]

SameText(id) ==
    /\ ticket'[id].text = ticket[id].text /\ ticket'[id].version = ticket[id].version
    /\ history'[id].text = history[id].text /\ history'[id].raced = history[id].raced
SameKey(id) ==
    /\ ticket'[id].issue = ticket[id].issue /\ history'[id].key = history[id].key
    /\ history'[id].lookedUpTo = history[id].lookedUpTo
SameStatus(id) ==
    ticket'[id].status = ticket[id].status /\ ticket'[id].resolved = ticket[id].resolved
SameAssignee(id) ==
    /\ ticket'[id].assignee = ticket[id].assignee
    /\ history'[id].chosen = history[id].chosen /\ history'[id].leaked = history[id].leaked
Same(id) == SameText(id) /\ SameKey(id) /\ SameStatus(id) /\ SameAssignee(id)

LEMMA Moved ==
    ASSUME Types, NEW r \in Requests, NEW q, Become(r, q)
    PROVE  Moves(r, q)
BY DEF Become, Moves, Types, RequestTypes

LEMMA Unchanged ==
    ASSUME NEW id, ticket'[id] = ticket[id], history'[id] = history[id]
    PROVE  Same(id)
BY DEF Same, SameText, SameKey, SameStatus, SameAssignee

(* ------------------------ what the pages write -------------------------- *)
LEMMA ClearEffects ==
    ASSUME Types, NEW r \in Requests, ClearAssignee(r)
    PROVE  LET id == req[r].id IN
           /\ req[r].pc = "clear" /\ Moves(r, Idle)
           /\ form' = form /\ DOMAIN ticket' = DOMAIN ticket
           /\ \A i \in DOMAIN ticket : SameText(i) /\ SameKey(i) /\ SameStatus(i)
           /\ \A i \in DOMAIN ticket \ {id} : SameAssignee(i)
           /\ Exists(id) => /\ ticket'[id].assignee = Nobody
                            /\ history'[id].leaked = history[id].leaked
<1> DEFINE id == req[r].id
<1>1. req[r].pc = "clear" /\ Moves(r, Idle) /\ form' = form
  BY Moved DEF ClearAssignee
<1>2. CASE ~Exists(id)
  BY <1>1, <1>2, Unchanged DEF ClearAssignee, Same, Exists
<1>3. CASE Exists(id)
  <2>1. /\ ticket' = [ticket EXCEPT ![id].assignee = Nobody]
        /\ history' = [history EXCEPT ![id].chosen = TRUE]
    BY <1>3 DEF ClearAssignee
  <2>2. ticket[id] \in TicketRows /\ history[id] \in Histories /\ DOMAIN history = DOMAIN ticket
    BY <1>3 DEF Exists, Types, TicketTypes
  <2>3. \A i \in DOMAIN ticket \ {id} : Same(i)
    BY <2>1, <2>2, Unchanged
  <2>4. /\ SameText(id) /\ SameKey(id) /\ SameStatus(id)
        /\ ticket'[id].assignee = Nobody /\ history'[id].leaked = history[id].leaked
    BY <1>3, <2>1, <2>2 DEF Exists, SameText, SameKey, SameStatus, TicketRows, Histories
  <2> QED BY <1>1, <2>1, <2>3, <2>4 DEF Same
<1> QED BY <1>2, <1>3

LEMMA WriteFormEffects ==
    ASSUME Types, NEW r \in Requests, WriteForm(r)
    PROVE  LET save == req[r]
               id == save.id
           IN  /\ save.pc = "write" /\ save \in Saves(lastId)
               /\ \E clear \in BOOLEAN : Moves(r, ThenClearAssignee(clear, id))
               /\ form' = form /\ DOMAIN ticket' = DOMAIN ticket
               /\ \A i \in DOMAIN ticket : SameStatus(i)
               /\ \A i \in DOMAIN ticket \ {id} : Same(i)
               /\ Exists(id) =>
                     /\ ticket'[id].version = save.version
                     /\ history'[id].raced <=>
                           \/ history[id].raced
                           \/ \E other \in Requests \ {r} :
                                 req[other].pc = "write" /\ req[other].id = id
                     /\ history'[id].lookedUpTo = history[id].lookedUpTo
                     /\ history'[id].leaked = history[id].leaked
                     /\ SameKey(id) \/ history'[id].key = "form"
                     /\ SameAssignee(id) \/ history'[id].chosen = save.chosen
<1> DEFINE save == req[r]
           id == save.id
           raced == \E other \in Requests \ {r} : req[other].pc = "write" /\ req[other].id = id
<1>1. save.pc = "write" /\ save \in Saves(lastId) /\ form' = form
  BY RequestKinds DEF WriteForm, Types, RequestTypes
<1>2. \E clear \in BOOLEAN : Moves(r, ThenClearAssignee(clear, id))
  BY Moved DEF WriteForm
<1>3. CASE ~Exists(id)
  BY <1>1, <1>2, <1>3, Unchanged DEF WriteForm, Same, Exists
<1>4. CASE Exists(id)
  <2>1. /\ ticket' = [ticket EXCEPT ![id] = SavedTicket(ticket[id], save)]
        /\ history' = [history EXCEPT ![id] = SavedHistory(history[id], save, raced)]
    BY <1>4 DEF WriteForm
  <2>2. ticket[id] \in TicketRows /\ history[id] \in Histories /\ DOMAIN history = DOMAIN ticket
    BY <1>4 DEF Exists, Types, TicketTypes
  <2>3. ticket'[id] = SavedTicket(ticket[id], save)
    BY <1>4, <2>1 DEF Exists
  <2>4. history'[id] = SavedHistory(history[id], save, raced)
    BY <1>4, <2>1, <2>2 DEF Exists
  <2>5. \A i \in DOMAIN ticket \ {id} : Same(i)
    BY <2>1, <2>2, Unchanged
  <2>6. /\ ticket'[id].version = save.version /\ SameStatus(id)
        /\ \A f \in FormFields :
              ticket'[id][f] = IF f \in Kept(save) THEN save.updated[f] ELSE ticket[id][f]
    BY <1>1, <2>2, <2>3, SavedTicketFacts DEF SameStatus
  <2>7. /\ history'[id].lookedUpTo = history[id].lookedUpTo
        /\ history'[id].leaked = history[id].leaked
        /\ history'[id].key = IF "issue" \in Kept(save) THEN "form" ELSE history[id].key
        /\ history'[id].chosen = IF "assignee" \in Kept(save) THEN save.chosen
                                                              ELSE history[id].chosen
    BY <2>2, <2>4 DEF SavedHistory, Histories
  <2>8. history'[id].raced <=> history[id].raced \/ raced
    BY <2>2, <2>4 DEF SavedHistory, Histories
  <2>9. "issue" \in FormFields /\ "assignee" \in FormFields
    BY DEF FormFields
  <2>10. SameKey(id) \/ history'[id].key = "form"
    BY <2>6, <2>7, <2>9 DEF SameKey
  <2>11. SameAssignee(id) \/ history'[id].chosen = save.chosen
    BY <2>6, <2>7, <2>9 DEF SameAssignee
  <2>12. DOMAIN ticket' = DOMAIN ticket
    BY <2>1
  <2> HIDE DEF raced
  <2>13. \A i \in DOMAIN ticket : SameStatus(i)
    BY <2>5, <2>6 DEF Same
  <2> QED BY <1>1, <1>2, <2>5, <2>6, <2>7, <2>8, <2>10, <2>11, <2>12, <2>13 DEF raced
<1> QED BY <1>3, <1>4

LEMMA WriteStatusEffects ==
    ASSUME Types, NEW r \in Requests, WriteStatus(r)
    PROVE  LET id == req[r].id IN
           /\ req[r].pc = "status" /\ Moves(r, Idle)
           /\ form' = form /\ DOMAIN ticket' = DOMAIN ticket
           /\ \A i \in DOMAIN ticket : SameText(i) /\ SameKey(i) /\ SameAssignee(i)
           /\ \A i \in DOMAIN ticket \ {id} : SameStatus(i)
           /\ Exists(id) => /\ ticket'[id].status = req[r].status
                            /\ ticket'[id].resolved = req[r].resolved
<1> DEFINE id == req[r].id
<1>1. req[r].pc = "status" /\ Moves(r, Idle) /\ form' = form /\ history' = history
  BY Moved DEF WriteStatus
<1>2. CASE ~Exists(id)
  BY <1>1, <1>2, Unchanged DEF WriteStatus, Same, Exists
<1>3. CASE Exists(id)
  <2> DEFINE t == [ticket[id] EXCEPT !.status = req[r].status, !.resolved = req[r].resolved]
  <2>1. ticket' = [ticket EXCEPT ![id] = t]
    BY <1>3 DEF WriteStatus, Exists
  <2>2. ticket[id] \in TicketRows
    BY <1>3 DEF Exists, Types, TicketTypes
  <2>3. /\ t.status = req[r].status /\ t.resolved = req[r].resolved
        /\ t.text = ticket[id].text /\ t.version = ticket[id].version
        /\ t.issue = ticket[id].issue /\ t.assignee = ticket[id].assignee
    BY <2>2 DEF TicketRows
  <2> HIDE DEF t
  <2>4. ticket'[id] = t /\ DOMAIN ticket' = DOMAIN ticket
    BY <1>3, <2>1 DEF Exists
  <2>5. \A i \in DOMAIN ticket \ {id} : Same(i)
    BY <1>1, <2>1, Unchanged
  <2>6. SameText(id) /\ SameKey(id) /\ SameAssignee(id)
    BY <1>1, <2>3, <2>4 DEF SameText, SameKey, SameAssignee
  <2> QED BY <1>1, <2>3, <2>4, <2>5, <2>6 DEF Same
<1> QED BY <1>2, <1>3

LEMMA AssignEffects ==
    ASSUME Types, NEW u, NEW id \in DOMAIN ticket, NEW assignee, Assign(u, id, assignee)
    PROVE  /\ form' = form /\ req' = req /\ DOMAIN ticket' = DOMAIN ticket
           /\ \A i \in DOMAIN ticket : SameText(i) /\ SameKey(i) /\ SameStatus(i)
           /\ \A i \in DOMAIN ticket \ {id} : SameAssignee(i)
           /\ history'[id].chosen /\ history'[id].leaked = history[id].leaked
<1>1. /\ ticket' = [ticket EXCEPT ![id].assignee = assignee]
      /\ history' = [history EXCEPT ![id].chosen = TRUE] /\ form' = form /\ req' = req
  BY DEF Assign
<1>2. ticket[id] \in TicketRows /\ history[id] \in Histories /\ DOMAIN history = DOMAIN ticket
  BY DEF Types, TicketTypes
<1>3. \A i \in DOMAIN ticket \ {id} : Same(i)
  BY <1>1, <1>2, Unchanged
<1>4. /\ SameText(id) /\ SameKey(id) /\ SameStatus(id)
      /\ history'[id].chosen /\ history'[id].leaked = history[id].leaked
  BY <1>1, <1>2 DEF SameText, SameKey, SameStatus, TicketRows, Histories
<1> QED BY <1>1, <1>3, <1>4 DEF Same

LEMMA OverwriteEffects ==
    ASSUME Types, NEW r \in Requests, Overwrite(r)
    PROVE  LET id == req[r].id IN
           /\ req[r].pc = "overwrite" /\ Moves(r, Idle)
           /\ form' = form /\ DOMAIN ticket' = DOMAIN ticket
           /\ \A i \in DOMAIN ticket : SameKey(i) /\ SameAssignee(i)
           /\ \A i \in DOMAIN ticket \ {id} : SameText(i) /\ SameStatus(i)
           /\ Exists(id) =>
                 /\ ticket'[id].status # "resolved" /\ ticket'[id].version = ticket[id].version
                 /\ history'[id].text = "import" /\ history'[id].raced = history[id].raced
<1> DEFINE id == req[r].id
<1>1. req[r] \in Overwrites(lastId) /\ req[r].pc = "overwrite" /\ Moves(r, Idle) /\ form' = form
  BY Moved, RequestKinds DEF Overwrite, Types, RequestTypes
<1>2. CASE ~Exists(id)
  BY <1>1, <1>2, Unchanged DEF Overwrite, Same, Exists
<1>3. CASE Exists(id)
  <2> DEFINE t == Overwritten(ticket[id], req[r].row)
             h == [history[id] EXCEPT !.text = "import"]
  <2>1. ticket' = [ticket EXCEPT ![id] = t] /\ history' = [history EXCEPT ![id] = h]
    BY <1>3 DEF Overwrite
  <2>2. ticket[id] \in TicketRows /\ history[id] \in Histories /\ DOMAIN history = DOMAIN ticket
    BY <1>3 DEF Exists, Types, TicketTypes
  <2>3. /\ t.status = req[r].row.status /\ t.version = ticket[id].version
        /\ t.issue = ticket[id].issue /\ t.assignee = ticket[id].assignee
    BY <2>2 DEF TicketRows, Overwritten
  <2>4. /\ h.text = "import" /\ h.raced = history[id].raced /\ h.key = history[id].key
        /\ h.lookedUpTo = history[id].lookedUpTo /\ h.chosen = history[id].chosen
        /\ h.leaked = history[id].leaked
    BY <2>2 DEF Histories
  <2> HIDE DEF t, h
  <2>5. ticket'[id] = t /\ history'[id] = h /\ DOMAIN ticket' = DOMAIN ticket
    BY <1>3, <2>1, <2>2 DEF Exists
  <2>6. \A i \in DOMAIN ticket \ {id} : Same(i)
    BY <2>1, <2>2, Unchanged
  <2>7. req[r].row.status # "resolved"
    BY <1>1, ImportAssumption DEF Overwrites, Rows, ImportAssumption
  <2>8. SameKey(id) /\ SameAssignee(id)
    BY <2>3, <2>4, <2>5 DEF SameKey, SameAssignee
  <2> QED BY <1>1, <2>3, <2>4, <2>5, <2>6, <2>7, <2>8 DEF Same
<1> QED BY <1>2, <1>3

LEMMA OpenFormEffects ==
    ASSUME Types, NEW u \in Users, NEW id \in DOMAIN ticket, OpenForm(u, id)
    PROVE  /\ UNCHANGED <<ticket, req>>
           /\ \A i \in DOMAIN ticket : SameText(i) /\ SameKey(i) /\ SameStatus(i)
           /\ \A i \in DOMAIN ticket \ {id} : SameAssignee(i)
           /\ history'[id].chosen = history[id].chosen
           /\ history'[id].leaked <=> history[id].leaked \/ ~history[id].chosen
           /\ \A v \in Users \ {u} : form'[v] = form[v]
           /\ form'[u].id = id /\ form'[u].version = ticket[id].version
           /\ form'[u].text = ticket[id].text /\ form'[u].chosen = history[id].chosen
<1> DEFINE f == [id |-> id, version |-> ticket[id].version, chosen |-> history[id].chosen,
                 issue |-> ticket[id].issue, text |-> ticket[id].text,
                 assignee |-> ticket[id].assignee]
           h == [history[id] EXCEPT !.leaked = history[id].leaked \/ ~history[id].chosen]
<1>1. /\ UNCHANGED <<ticket, req>> /\ form' = [form EXCEPT ![u] = f]
      /\ history' = [history EXCEPT ![id] = h]
  BY DEF OpenForm
<1>2. history[id] \in Histories /\ DOMAIN history = DOMAIN ticket /\ DOMAIN form = Users
  BY DEF Types, TicketTypes, FormTypes
<1>3. /\ h.chosen = history[id].chosen /\ h.text = history[id].text
      /\ h.raced = history[id].raced /\ h.key = history[id].key
      /\ h.lookedUpTo = history[id].lookedUpTo
  BY <1>2 DEF Histories
<1>4. h.leaked <=> history[id].leaked \/ ~history[id].chosen
  BY <1>2 DEF Histories
<1>5. /\ f.id = id /\ f.version = ticket[id].version /\ f.text = ticket[id].text
      /\ f.chosen = history[id].chosen
  OBVIOUS
<1> HIDE DEF f, h
<1>6. form'[u] = f /\ \A v \in Users \ {u} : form'[v] = form[v]
  BY <1>1, <1>2
<1>7. history'[id] = h
  BY <1>1, <1>2
<1>8. \A i \in DOMAIN ticket \ {id} : Same(i)
  BY <1>1, <1>2, Unchanged
<1>9. SameText(id) /\ SameKey(id) /\ SameStatus(id)
  BY <1>1, <1>3, <1>7 DEF SameText, SameKey, SameStatus
<1> QED BY <1>1, <1>3, <1>4, <1>5, <1>6, <1>7, <1>8, <1>9 DEF Same

LEMMA AbandonEffects ==
    ASSUME Types, NEW r \in Requests, Abandon(r)
    PROVE  LET id == req[r].id IN
           /\ req[r].pc = "clear" /\ Moves(r, Idle) /\ UNCHANGED <<ticket, form>>
           /\ \A i \in DOMAIN ticket : SameText(i) /\ SameKey(i) /\ SameStatus(i)
           /\ \A i \in DOMAIN ticket \ {id} : SameAssignee(i)
           /\ Exists(id) =>
                 /\ history'[id].chosen = history[id].chosen
                 /\ history'[id].leaked <=> history[id].leaked \/ ~history[id].chosen
<1> DEFINE id == req[r].id
           h == [history[id] EXCEPT !.leaked = history[id].leaked \/ ~history[id].chosen]
<1>1. req[r].pc = "clear" /\ Moves(r, Idle) /\ UNCHANGED <<ticket, form>>
  BY Moved DEF Abandon
<1>2. CASE ~Exists(id)
  BY <1>1, <1>2, Unchanged DEF Abandon, Same, Exists
<1>3. CASE Exists(id)
  <2>1. history' = [history EXCEPT ![id] = h]
    BY <1>3 DEF Abandon
  <2>2. history[id] \in Histories /\ DOMAIN history = DOMAIN ticket /\ id \in DOMAIN ticket
    BY <1>3 DEF Exists, Types, TicketTypes
  <2>3. /\ h.chosen = history[id].chosen /\ h.text = history[id].text
        /\ h.raced = history[id].raced /\ h.key = history[id].key
        /\ h.lookedUpTo = history[id].lookedUpTo
    BY <2>2 DEF Histories
  <2>4. h.leaked <=> history[id].leaked \/ ~history[id].chosen
    BY <2>2 DEF Histories
  <2> HIDE DEF h
  <2>5. history'[id] = h
    BY <2>1, <2>2
  <2>6. \A i \in DOMAIN ticket \ {id} : Same(i)
    BY <1>1, <2>1, <2>2, Unchanged
  <2>7. SameText(id) /\ SameKey(id) /\ SameStatus(id)
    BY <1>1, <2>3, <2>5 DEF SameText, SameKey, SameStatus
  <2> QED BY <1>1, <2>3, <2>4, <2>5, <2>6, <2>7 DEF Same
<1> QED BY <1>2, <1>3

LEMMA DeleteEffects ==
    ASSUME Types, NEW u, NEW id \in DOMAIN ticket, DeleteTicket(u, id)
    PROVE  /\ UNCHANGED <<form, req>> /\ DOMAIN ticket' \subseteq DOMAIN ticket
           /\ \A i \in DOMAIN ticket' : Same(i)
<1>1. /\ ticket' = Without(ticket, id) /\ history' = Without(history, id)
      /\ UNCHANGED <<form, req>> /\ DOMAIN history = DOMAIN ticket
  BY DEF DeleteTicket, Delete, Types, TicketTypes
<1>2. DOMAIN ticket' \subseteq DOMAIN ticket
  BY <1>1 DEF Without
<1>3. \A i \in DOMAIN ticket' : ticket'[i] = ticket[i] /\ history'[i] = history[i]
  BY <1>1 DEF Without
<1> QED BY <1>1, <1>2, <1>3, Unchanged

(* Create and InsertRow in the same words. *)
NewTicket(r, new, by) ==
    /\ new = lastId + 1 /\ new \notin DOMAIN ticket /\ \A i \in DOMAIN ticket : i \in Nat /\ i < new
    /\ DOMAIN ticket' = DOMAIN ticket \cup {new} /\ form' = form
    /\ \A i \in DOMAIN ticket : Same(i)
    /\ ticket'[new].status # "resolved"
    /\ history'[new].key = by /\ history'[new].text = by
    /\ \/ ~history'[new].chosen /\ Moves(r, [pc |-> "clear", id |-> new])
       \/ history'[new].chosen /\ Moves(r, Idle)

LEMMA CreateEffects ==
    ASSUME Types, NEW r \in Requests, NEW u \in Users, Create(r, u), UNCHANGED people
    PROVE  req[r] = Idle /\ NewTicket(r, lastId + 1, "form")
<1>1. PICK issue \in Issues \cup {Blank}, text \in Texts \cup {Blank},
           assignee \in Users \cup {Nobody} :
         InsertTicket(r, [issue |-> issue, text |-> text, assignee |-> assignee,
                          status |-> "open", resolved |-> FALSE, version |-> 0,
                          parent |-> 0], u, Written("form", TRUE, 0))
  BY DEF Create, Input, Types, PeopleTypes
<1> DEFINE t == [issue |-> issue, text |-> text, assignee |-> assignee, status |-> "open",
                 resolved |-> FALSE, version |-> 0, parent |-> 0]
           origin == Written("form", TRUE, 0)
           new == lastId + 1
<1>2. t \in TicketRows /\ t.status # "resolved"
  BY DEF TicketRows, Statuses
<1>3. t.parent = 0 /\ 0 <= lastId
  BY Counters
<1>4. /\ origin \in Histories /\ origin.key = "form" /\ origin.text = "form"
  BY DEF Written, Histories
<1>5. InsertTicket(r, t, u, origin)
  BY <1>1
<1> HIDE DEF t, origin
<1>6. /\ new \notin DOMAIN ticket /\ DOMAIN ticket' = DOMAIN ticket \cup {new}
      /\ \A id \in DOMAIN ticket : ticket'[id] = ticket[id] /\ history'[id] = history[id]
      /\ \A f \in {"issue", "text", "status", "resolved", "version", "parent"} :
            ticket'[new][f] = t[f]
      /\ history'[new].chosen = ~(t.assignee = Nobody)
      /\ \A f \in {"text", "key", "leaked", "raced", "lookedUpTo"} :
            history'[new][f] = origin[f]
      /\ Become(r, ThenClearAssignee(t.assignee = Nobody, new))
  BY <1>2, <1>3, <1>4, <1>5, InsertEffects
<1>7. \A i \in DOMAIN ticket : Same(i)
  BY <1>6, Unchanged
<1>8. \/ ~history'[new].chosen /\ Moves(r, [pc |-> "clear", id |-> new])
      \/ history'[new].chosen /\ Moves(r, Idle)
  <2>1. Moves(r, ThenClearAssignee(t.assignee = Nobody, new))
    BY <1>6, Moved
  <2> QED BY <1>6, <2>1 DEF ThenClearAssignee
<1>9. ticket'[new].status # "resolved" /\ history'[new].key = "form" /\ history'[new].text = "form"
  BY <1>2, <1>4, <1>6
<1>10. \A i \in DOMAIN ticket : i \in Nat /\ i < new
  BY Counters DEF Types, TicketTypes, Ids
<1> QED BY <1>6, <1>7, <1>8, <1>9, <1>10 DEF NewTicket, Create

LEMMA InsertRowEffects ==
    ASSUME Types, NEW r \in Requests, InsertRow(r)
    PROVE  /\ req[r].pc = "insert" /\ NewTicket(r, lastId + 1, "import")
           /\ ticket'[lastId + 1].issue = req[r].row.issue
           /\ history'[lastId + 1].lookedUpTo = req[r].lookedUpTo
<1> DEFINE row == req[r].row
           t == [issue |-> row.issue, text |-> row.text, assignee |-> Nobody,
                 status |-> row.status, resolved |-> FALSE, version |-> 0,
                 parent |-> req[r].parent]
           origin == Written("import", FALSE, req[r].lookedUpTo)
           new == lastId + 1
<1>1. /\ req[r] \in RowInserts(lastId) /\ req[r].pc = "insert" /\ form' = form
      /\ InsertTicket(r, t, req[r].user, origin)
  BY RequestKinds DEF InsertRow, Types, RequestTypes
<1>2. row \in Rows /\ req[r].parent \in Nat /\ req[r].parent <= lastId
  BY <1>1, Counters DEF RowInserts
<1>3. /\ row.status \in Statuses /\ row.status # "resolved" /\ row.issue \in Issues
      /\ row.text \in Texts \cup {Blank}
  BY <1>2, ImportAssumption DEF Rows, ImportAssumption, Statuses
<1>4. /\ t \in TicketRows /\ t.status # "resolved" /\ t.issue = row.issue
      /\ t.parent = req[r].parent /\ t.assignee = Nobody
  BY <1>2, <1>3 DEF TicketRows
<1>5. req[r].lookedUpTo \in Nat /\ req[r].user \in Users
  BY <1>1, Counters DEF RowInserts
<1>6. /\ origin \in Histories /\ origin.key = "import" /\ origin.text = "import"
      /\ origin.lookedUpTo = req[r].lookedUpTo
  BY <1>5 DEF Written, Histories
<1> HIDE DEF t, origin
<1>7. /\ new \notin DOMAIN ticket /\ DOMAIN ticket' = DOMAIN ticket \cup {new}
      /\ \A id \in DOMAIN ticket : ticket'[id] = ticket[id] /\ history'[id] = history[id]
      /\ \A f \in {"issue", "text", "status", "resolved", "version", "parent"} :
            ticket'[new][f] = t[f]
      /\ history'[new].chosen = ~(t.assignee = Nobody)
      /\ \A f \in {"text", "key", "leaked", "raced", "lookedUpTo"} :
            history'[new][f] = origin[f]
      /\ Become(r, ThenClearAssignee(t.assignee = Nobody, new))
  <2> DEFINE placeholder == req[r].user
  <2>1. InsertTicket(r, t, placeholder, origin) /\ placeholder \in Users
    BY <1>1, <1>5 DEF t, origin
  <2>2. t \in TicketRows /\ t.parent <= lastId
    <3>1. t.parent <= lastId
      BY <1>2, <1>4
    <3> QED BY <1>4, <3>1
  <2>3. origin \in Histories
    BY <1>6
  <2> HIDE DEF placeholder
  <2> QED BY <2>1, <2>2, <2>3, InsertEffects
<1>8. \A i \in DOMAIN ticket : Same(i)
  BY <1>7, Unchanged
<1>9. ~history'[new].chosen /\ Moves(r, [pc |-> "clear", id |-> new])
  <2>1. Moves(r, ThenClearAssignee(t.assignee = Nobody, new))
    BY <1>7, Moved
  <2> QED BY <1>4, <1>7, <2>1 DEF ThenClearAssignee
<1>10. /\ ticket'[new].status # "resolved" /\ ticket'[new].issue = row.issue
       /\ history'[new].key = "import" /\ history'[new].text = "import"
       /\ history'[new].lookedUpTo = req[r].lookedUpTo
  BY <1>4, <1>6, <1>7
<1>11. \A i \in DOMAIN ticket : i \in Nat /\ i < new
  BY Counters DEF Types, TicketTypes, Ids
<1> QED BY <1>1, <1>7, <1>8, <1>9, <1>10, <1>11 DEF NewTicket

(* Which page makes a request what it is.                                   *)
LEMMA Makers ==
    ASSUME Types, [Next]_deskVars, NEW r \in Requests, req'[r] # req[r]
    PROVE  /\ req'[r].pc = "check" => \E u \in Users : SendForm(r, u)
           /\ req'[r].pc = "write" => CheckVersion(r)
           /\ req'[r].pc = "status" => CheckTransition(r)
           /\ req'[r].pc = "parent" => \E u \in Users : ImportRow(r, u)
           /\ req'[r].pc = "insert" => FindParent(r)
           /\ req'[r].pc = "clear" =>
                 (\E u \in Users : Create(r, u)) \/ InsertRow(r) \/ WriteForm(r)
<1> DEFINE Made ==
        /\ req'[r].pc = "check" => \E u \in Users : SendForm(r, u)
        /\ req'[r].pc = "write" => CheckVersion(r)
        /\ req'[r].pc = "status" => CheckTransition(r)
        /\ req'[r].pc = "parent" => \E u \in Users : ImportRow(r, u)
        /\ req'[r].pc = "insert" => FindParent(r)
        /\ req'[r].pc = "clear" =>
              (\E u \in Users : Create(r, u)) \/ InsertRow(r) \/ WriteForm(r)
<1> SUFFICES Made
  OBVIOUS
<1>1. ASSUME NEW other \in Requests, NEW q, Become(other, q) PROVE r = other /\ req'[r] = q
  BY <1>1 DEF Become, Types, RequestTypes
<1>2. ASSUME req'[r].pc \in {"idle", "overwrite", "transition", "start", "advance", "toggle"}
      PROVE  Made
  BY <1>2
<1>3. Idle.pc = "idle" /\ \A clear, id : ThenClearAssignee(clear, id).pc \in {"idle", "clear"}
  BY DEF Idle, ThenClearAssignee
<1>4. ASSUME NEW other \in Requests, NEW t, NEW placeholder, NEW origin,
             InsertTicket(other, t, placeholder, origin)
      PROVE  r = other /\ req'[r].pc \in {"idle", "clear"}
  <2>1. PICK clear, id : Become(other, ThenClearAssignee(clear, id))
    BY <1>4 DEF InsertTicket
  <2> QED BY <1>1, <1>3, <2>1
<1>5. CASE TicketPages
  <2>1. ASSUME NEW other \in Requests, NEW u \in Users, Create(other, u)
        PROVE  Made
    <3>1. r = other /\ req'[r].pc \in {"idle", "clear"}
      BY <1>4, <2>1 DEF Create
    <3> QED BY <2>1, <3>1
  <2>2. ASSUME NEW other \in Requests, NEW u \in Users, SendForm(other, u)
        PROVE  Made
    <3>1. r = other /\ req'[r].pc = "check"
      BY <1>1, <2>2 DEF SendForm
    <3> QED BY <2>2, <3>1
  <2>3. ASSUME NEW other \in Requests, NEW u \in Users, NEW id, NEW status,
               ChooseStatus(other, u, id, status)
        PROVE  Made
    BY <1>1, <1>2, <2>3 DEF ChooseStatus
  <2>4. ASSUME NEW other \in Requests, CheckVersion(other)
        PROVE  Made
    <3>1. req[other] \in Saves(lastId)
      BY <2>4, RequestKinds DEF CheckVersion, Types, RequestTypes
    <3>2. [req[other] EXCEPT !.pc = "write", !.version = req[other].version + 1].pc = "write"
      BY <3>1 DEF Saves
    <3>3. r = other /\ req'[r].pc \in {"idle", "write"}
      BY <1>1, <1>3, <2>4, <3>2 DEF CheckVersion
    <3> QED BY <2>4, <3>3
  <2>5. ASSUME NEW other \in Requests, CheckTransition(other)
        PROVE  Made
    <3>1. r = other /\ req'[r].pc \in {"idle", "status"}
      BY <1>1, <1>3, <2>5 DEF CheckTransition
    <3> QED BY <2>5, <3>1
  <2>6. ASSUME NEW other \in Requests, WriteForm(other)
        PROVE  Made
    <3>1. r = other /\ req'[r].pc \in {"idle", "clear"}
      BY <1>1, <1>3, <2>6 DEF WriteForm
    <3> QED BY <2>6, <3>1
  <2>7. ASSUME NEW other \in Requests,
               ClearAssignee(other) \/ WriteStatus(other) \/ Abandon(other)
        PROVE  Made
    BY <1>1, <1>2, <1>3, <2>7 DEF ClearAssignee, WriteStatus, Abandon
  <2>8. ASSUME NEW u \in Users, NEW id, NEW assignee,
               OpenForm(u, id) \/ Assign(u, id, assignee) \/ DeleteTicket(u, id)
        PROVE  Made
    BY <2>8 DEF OpenForm, Assign, DeleteTicket, Delete
  <2> HIDE DEF Made
  <2> QED
    BY <1>5, <2>1, <2>2, <2>3, <2>4, <2>5, <2>6, <2>7, <2>8
       DEF TicketPages, UserAction, RequestStep
<1>6. CASE Imports
  <2>1. ASSUME NEW other \in Requests, NEW u \in Users, ImportRow(other, u)
        PROVE  Made
    <3>1. PICK row \in Rows :
             \/ \E id \in WithKey(row) :
                  Become(other, [pc |-> "overwrite", id |-> id, row |-> row])
             \/ Become(other,
                       [pc |-> "parent", user |-> u, row |-> row, lookedUpTo |-> lastId])
      BY <2>1 DEF ImportRow
    <3>2. ASSUME NEW id, Become(other, [pc |-> "overwrite", id |-> id, row |-> row])
          PROVE  r = other /\ req'[r].pc = "overwrite"
      <4>1. r = other /\ req'[r] = [pc |-> "overwrite", id |-> id, row |-> row]
        BY <1>1, <3>2
      <4> QED BY <4>1
    <3>3. ASSUME Become(other,
                        [pc |-> "parent", user |-> u, row |-> row, lookedUpTo |-> lastId])
          PROVE  r = other /\ req'[r].pc = "parent"
      <4>1. /\ r = other
            /\ req'[r] = [pc |-> "parent", user |-> u, row |-> row, lookedUpTo |-> lastId]
        BY <1>1, <3>3
      <4> QED BY <4>1
    <3>4. r = other /\ req'[r].pc \in {"overwrite", "parent"}
      BY <3>1, <3>2, <3>3
    <3> QED BY <2>1, <3>4
  <2>2. ASSUME NEW other \in Requests, Overwrite(other)
        PROVE  Made
    BY <1>1, <1>2, <1>3, <2>2 DEF Overwrite
  <2>3. ASSUME NEW other \in Requests, FindParent(other)
        PROVE  Made
    <3>1. r = other /\ req'[r].pc = "insert"
      BY <1>1, <2>3 DEF FindParent
    <3> QED BY <2>3, <3>1
  <2>4. ASSUME NEW other \in Requests, InsertRow(other)
        PROVE  Made
    <3>1. r = other /\ req'[r].pc \in {"idle", "clear"}
      BY <1>4, <2>4 DEF InsertRow
    <3> QED BY <2>4, <3>1
  <2> HIDE DEF Made
  <2> QED BY <1>6, <2>1, <2>2, <2>3, <2>4 DEF Imports, ImportStep
<1>7. CASE ~TicketPages /\ ~Imports
  <2>1. ~(UNCHANGED deskVars)
    BY DEF deskVars, vars
  <2> QED BY <1>2, <1>7, <2>1, RequestsOfPages DEF Next
<1> QED BY <1>5, <1>6, <1>7

(* The pages of users and the requests to workflows leave tickets alone.    *)
LEMMA OtherPages ==
    ASSUME Types, [Next]_deskVars, ~TicketPages, ~Imports
    PROVE  UNCHANGED ticketVars
BY DEF Next, Workflows, StartWorkflow, WorkflowStep, Administration, deskVars, vars, ticketVars

(* Which page writes which columns of a ticket. *)
LEMMA Writers ==
    ASSUME Types, [Next]_deskVars, NEW id \in DOMAIN ticket'
    PROVE  \/ /\ id \in DOMAIN ticket
              /\ \/ SameStatus(id)
                 \/ \E r \in Requests : (WriteStatus(r) \/ Overwrite(r)) /\ req[r].id = id
              /\ \/ SameText(id)
                 \/ \E r \in Requests : (WriteForm(r) \/ Overwrite(r)) /\ req[r].id = id
              /\ SameKey(id) \/ \E r \in Requests : WriteForm(r) /\ req[r].id = id
              /\ \/ SameAssignee(id)
                 \/ \E r \in Requests :
                       (ClearAssignee(r) \/ WriteForm(r) \/ Abandon(r)) /\ req[r].id = id
                 \/ \E u \in Users : OpenForm(u, id)
                 \/ \E u \in Users, assignee \in DOMAIN user \cup {Nobody} :
                       Assign(u, id, assignee)
           \/ /\ id \notin DOMAIN ticket /\ id = lastId + 1
              /\ \E r \in Requests :
                    \/ NewTicket(r, id, "form")
                    \/ InsertRow(r) /\ NewTicket(r, id, "import")
<1> DEFINE Old ==
        /\ id \in DOMAIN ticket
        /\ \/ SameStatus(id)
           \/ \E r \in Requests : (WriteStatus(r) \/ Overwrite(r)) /\ req[r].id = id
        /\ \/ SameText(id)
           \/ \E r \in Requests : (WriteForm(r) \/ Overwrite(r)) /\ req[r].id = id
        /\ SameKey(id) \/ \E r \in Requests : WriteForm(r) /\ req[r].id = id
        /\ \/ SameAssignee(id)
           \/ \E r \in Requests :
                 (ClearAssignee(r) \/ WriteForm(r) \/ Abandon(r)) /\ req[r].id = id
           \/ \E u \in Users : OpenForm(u, id)
           \/ \E u \in Users, assignee \in DOMAIN user \cup {Nobody} : Assign(u, id, assignee)
      New ==
        /\ id \notin DOMAIN ticket /\ id = lastId + 1
        /\ \E r \in Requests :
              NewTicket(r, id, "form") \/ (InsertRow(r) /\ NewTicket(r, id, "import"))
<1> SUFFICES Old \/ New
  OBVIOUS
<1>1. ASSUME id \in DOMAIN ticket, Same(id) PROVE Old
  BY <1>1 DEF Same
<1>2. ASSUME UNCHANGED <<ticket, history>> PROVE Old
  BY <1>1, <1>2, Unchanged
<1>3. ASSUME NEW r \in Requests, NEW by, NewTicket(r, lastId + 1, by),
             by = "form" \/ (by = "import" /\ InsertRow(r))
      PROVE  Old \/ New
  <2>1. CASE id \in DOMAIN ticket
    BY <1>1, <1>3, <2>1 DEF NewTicket
  <2>2. CASE id \notin DOMAIN ticket
    BY <1>3, <2>2 DEF NewTicket
  <2> QED BY <2>1, <2>2
<1>4. ASSUME NEW r \in Requests, ClearAssignee(r) PROVE Old
  <2>1. CASE req[r].id = id
    BY <1>4, <2>1, ClearEffects
  <2>2. CASE req[r].id # id
    BY <1>1, <1>4, <2>2, ClearEffects DEF Same
  <2> QED BY <2>1, <2>2
<1>5. ASSUME NEW r \in Requests, WriteForm(r) PROVE Old
  <2>1. CASE req[r].id = id
    BY <1>5, <2>1, WriteFormEffects
  <2>2. CASE req[r].id # id
    BY <1>1, <1>5, <2>2, WriteFormEffects
  <2> QED BY <2>1, <2>2
<1>6. ASSUME NEW r \in Requests, WriteStatus(r) PROVE Old
  <2>1. CASE req[r].id = id
    BY <1>6, <2>1, WriteStatusEffects
  <2>2. CASE req[r].id # id
    BY <1>1, <1>6, <2>2, WriteStatusEffects DEF Same
  <2> QED BY <2>1, <2>2
<1>7. ASSUME NEW r \in Requests, Overwrite(r) PROVE Old
  <2>1. CASE req[r].id = id
    BY <1>7, <2>1, OverwriteEffects
  <2>2. CASE req[r].id # id
    BY <1>1, <1>7, <2>2, OverwriteEffects DEF Same
  <2> QED BY <2>1, <2>2
<1>8. ASSUME NEW r \in Requests, Abandon(r) PROVE Old
  <2>1. CASE req[r].id = id
    BY <1>8, <2>1, AbandonEffects
  <2>2. CASE req[r].id # id
    BY <1>1, <1>8, <2>2, AbandonEffects DEF Same
  <2> QED BY <2>1, <2>2
<1>9. ASSUME NEW u \in Users, NEW i \in DOMAIN ticket, OpenForm(u, i) PROVE Old
  <2>1. CASE i = id
    BY <1>9, <2>1, OpenFormEffects
  <2>2. CASE i # id
    BY <1>1, <1>9, <2>2, OpenFormEffects DEF Same
  <2> QED BY <2>1, <2>2
<1>10. ASSUME NEW u \in Users, NEW i \in DOMAIN ticket,
              NEW assignee \in DOMAIN user \cup {Nobody}, Assign(u, i, assignee)
       PROVE  Old
  <2>1. CASE i = id
    BY <1>10, <2>1, AssignEffects
  <2>2. CASE i # id
    BY <1>1, <1>10, <2>2, AssignEffects DEF Same
  <2> QED BY <2>1, <2>2
<1>11. ASSUME NEW u \in Users, NEW i \in DOMAIN ticket, DeleteTicket(u, i) PROVE Old
  BY <1>1, <1>11, DeleteEffects
<1>12. ASSUME NEW r \in Requests, NEW u \in Users, NEW i, NEW status,
              \/ SendForm(r, u) \/ ChooseStatus(r, u, i, status) \/ CheckVersion(r)
              \/ CheckTransition(r) \/ ImportRow(r, u) \/ FindParent(r)
       PROVE  Old
  BY <1>2, <1>12
     DEF SendForm, ChooseStatus, CheckVersion, CheckTransition, ImportRow, FindParent
<1>13. ASSUME NEW r \in Requests, NEW u \in Users, Create(r, u), UNCHANGED people
       PROVE  Old \/ New
  BY <1>3, <1>13, CreateEffects
<1>14. ASSUME NEW r \in Requests, InsertRow(r) PROVE Old \/ New
  BY <1>3, <1>14, InsertRowEffects
<1>15. Users # {}
  BY UsersAssumption DEF UsersAssumption
<1> HIDE DEF Old, New
<1>16. CASE TicketPages
  <2>1. ASSUME NEW u \in Users, UserAction(u) PROVE Old \/ New
    BY <1>9, <1>10, <1>12, <1>13, <1>16, <2>1 DEF TicketPages, UserAction
  <2>2. ASSUME NEW r \in Requests, RequestStep(r) PROVE Old
    <3>1. CASE CheckVersion(r) \/ CheckTransition(r)
      BY <1>12, <1>15, <3>1
    <3> QED BY <1>4, <1>5, <1>6, <1>8, <2>2, <3>1 DEF RequestStep
  <2> QED BY <1>11, <1>16, <2>1, <2>2 DEF TicketPages
<1>17. CASE Imports
  BY <1>7, <1>12, <1>14, <1>15, <1>17 DEF Imports, ImportStep
<1>18. CASE ~TicketPages /\ ~Imports
  BY <1>2, <1>18, OtherPages DEF ticketVars
<1> QED BY <1>16, <1>17, <1>18

(* A form is another only if its user has just opened it. *)
LEMMA Openers ==
    ASSUME Types, [Next]_deskVars, NEW u \in Users, form'[u] # form[u]
    PROVE  \E id \in DOMAIN ticket : OpenForm(u, id)
<1>1. TicketPages
  <2>1. Imports => form' = form
    BY DEF Imports, ImportStep, ImportRow, Overwrite, FindParent, InsertRow
  <2> QED BY <2>1, OtherPages DEF ticketVars
<1>2. ASSUME NEW v \in Users, NEW r \in Requests, NEW id, NEW status, NEW assignee,
             \/ Create(r, v) \/ SendForm(r, v) \/ ChooseStatus(r, v, id, status)
             \/ Assign(v, id, assignee) \/ DeleteTicket(v, id) \/ RequestStep(r)
      PROVE  FALSE
  BY <1>2 DEF Create, SendForm, ChooseStatus, Assign, DeleteTicket, Delete, RequestStep,
              ClearAssignee, CheckVersion, WriteForm, CheckTransition, WriteStatus, Abandon
<1>3. Users # {}
  OBVIOUS
<1>4. ASSUME NEW v \in Users, NEW id \in DOMAIN ticket, OpenForm(v, id)
      PROVE  OpenForm(u, id)
  BY <1>4, OpenFormEffects
<1>5. ASSUME NEW v \in Users, NEW id, NEW assignee, Assign(v, id, assignee) \/ DeleteTicket(v, id)
      PROVE  FALSE
  BY <1>5 DEF Assign, DeleteTicket, Delete
<1> QED BY <1>1, <1>2, <1>3, <1>4, <1>5 DEF TicketPages, UserAction

(* --------------------- the time of resolution --------------------------- *)
(* A request about to make a ticket resolved has its time.                  *)
StatusesHaveATime ==
    \A r \in Requests : req[r].pc = "status" /\ req[r].status = "resolved" => req[r].resolved

LEMMA StatusesHaveATimeStep ==
    ASSUME Types, StatusesHaveATime, [Next]_deskVars
    PROVE  StatusesHaveATime'
<1> SUFFICES ASSUME NEW r \in Requests, req'[r].pc = "status", req'[r].status = "resolved"
             PROVE  req'[r].resolved
  BY DEF StatusesHaveATime
<1>1. CASE req'[r] = req[r]
  BY <1>1 DEF StatusesHaveATime
<1>2. CASE req'[r] # req[r]
  <2> DEFINE id == req[r].id
             q == [pc |-> "status", id |-> id, status |-> req[r].status,
                   resolved |-> TimeOfResolution(ticket[id], req[r].status)]
  <2>1. CheckTransition(r)
    BY <1>2, Makers
  <2>2. Become(r, q) \/ Become(r, Idle)
    BY <2>1 DEF CheckTransition
  <2>3. req'[r] = q
    BY <2>2, Moved DEF Moves, Idle
  <2>4. q.status = "resolved" => q.resolved
    BY DEF TimeOfResolution
  <2> HIDE DEF q
  <2> QED BY <2>3, <2>4
<1> QED BY <1>1, <1>2

ResolvedInv == ResolvedTicketsHaveATime /\ StatusesHaveATime

LEMMA ResolvedInit == DeskInit => ResolvedInv
BY DEF DeskInit, Init, UsersInit, Idle, ResolvedInv, ResolvedTicketsHaveATime, StatusesHaveATime

LEMMA ResolvedStep ==
    ASSUME Types, ResolvedInv, [Next]_deskVars
    PROVE  ResolvedInv'
<1>1. StatusesHaveATime'
  BY StatusesHaveATimeStep DEF ResolvedInv
<1>2. ASSUME NEW id \in DOMAIN ticket', ticket'[id].status = "resolved"
      PROVE  ticket'[id].resolved
  <2>1. CASE id \in DOMAIN ticket /\ SameStatus(id)
    BY <1>2, <2>1 DEF SameStatus, ResolvedInv, ResolvedTicketsHaveATime
  <2>2. ASSUME NEW r \in Requests, WriteStatus(r), req[r].id = id, id \in DOMAIN ticket
        PROVE  ticket'[id].resolved
    BY <1>2, <2>2, WriteStatusEffects DEF Exists, ResolvedInv, StatusesHaveATime
  <2>3. ASSUME NEW r \in Requests, Overwrite(r), req[r].id = id, id \in DOMAIN ticket
        PROVE  FALSE
    BY <1>2, <2>3, OverwriteEffects DEF Exists
  <2>4. CASE \E r \in Requests, by \in {"form", "import"} : NewTicket(r, id, by)
    BY <1>2, <2>4 DEF NewTicket
  <2> QED BY <2>1, <2>2, <2>3, <2>4, Writers
<1> QED BY <1>1, <1>2 DEF ResolvedInv, ResolvedTicketsHaveATime

(* ------------------- what the requests have looked up -------------------- *)
LEMMA ImportRowEffects ==
    ASSUME Types, NEW r \in Requests, NEW u, ImportRow(r, u), req'[r].pc = "parent"
    PROVE  /\ UNCHANGED <<ticket, history>>
           /\ \A id \in DOMAIN ticket : ticket[id].issue # req'[r].row.issue
<1>1. UNCHANGED <<ticket, history>>
  BY DEF ImportRow
<1>2. PICK row \in Rows :
         \/ \E id \in WithKey(row) :
              Become(r, [pc |-> "overwrite", id |-> id, row |-> row])
         \/ /\ WithKey(row) = {}
            /\ Become(r, [pc |-> "parent", user |-> u, row |-> row, lookedUpTo |-> lastId])
  BY DEF ImportRow
<1>3. ASSUME NEW id, Become(r, [pc |-> "overwrite", id |-> id, row |-> row])
      PROVE  FALSE
  <2>1. req'[r] = [pc |-> "overwrite", id |-> id, row |-> row]
    BY <1>3, Moved DEF Moves
  <2> QED BY <2>1
<1>4. /\ WithKey(row) = {}
      /\ Become(r, [pc |-> "parent", user |-> u, row |-> row, lookedUpTo |-> lastId])
  BY <1>2, <1>3
<1>5. req'[r] = [pc |-> "parent", user |-> u, row |-> row, lookedUpTo |-> lastId]
  BY <1>4, Moved DEF Moves
<1>6. req'[r].row = row
  BY <1>5
<1> QED BY <1>1, <1>4, <1>6 DEF WithKey

LEMMA FindParentEffects ==
    ASSUME Types, NEW r \in Requests, FindParent(r)
    PROVE  /\ UNCHANGED <<ticket, history>> /\ req[r].pc = "parent"
           /\ req'[r].row = req[r].row /\ req'[r].lookedUpTo = req[r].lookedUpTo
<1> DEFINE q == [pc |-> "insert", user |-> req[r].user, row |-> req[r].row,
                 lookedUpTo |-> req[r].lookedUpTo, parent |-> Oldest]
<1>1. UNCHANGED <<ticket, history>> /\ req[r].pc = "parent" /\ Become(r, q)
  BY DEF FindParent
<1>2. req'[r] = q
  BY <1>1, Moved DEF Moves
<1> QED BY <1>1, <1>2

(* An imported ticket that a request has looked up has another issue than   *)
(* its row, and so has one that the import of a ticket had looked up.       *)
ImportsLookedUp ==
    /\ \A r \in Requests, id \in DOMAIN ticket :
          /\ req[r].pc \in {"parent", "insert"} /\ id <= req[r].lookedUpTo
          /\ history[id].key = "import"
          => ticket[id].issue # req[r].row.issue
    /\ \A old, new \in DOMAIN ticket :
          /\ old < new /\ history[old].key = "import" /\ history[new].key = "import"
          /\ old <= history[new].lookedUpTo
          => ticket[old].issue # ticket[new].issue

LEMMA NoTicketsInit ==
    DeskInit => /\ DOMAIN ticket = {} /\ \A r \in Requests : req[r] = Idle
                /\ \A u \in Users : form[u] = NoForm
BY DEF DeskInit, Init, UsersInit

LEMMA ImportsLookedUpInit == DeskInit => ImportsLookedUp
BY NoTicketsInit DEF ImportsLookedUp

(* The key of an imported ticket is the one it had, or the ticket is new.   *)
LEMMA ImportedKeys ==
    ASSUME Types, [Next]_deskVars, NEW id \in DOMAIN ticket', history'[id].key = "import"
    PROVE  \/ id \in DOMAIN ticket /\ SameKey(id)
           \/ /\ id \notin DOMAIN ticket /\ id = lastId + 1
              /\ \E r \in Requests : InsertRow(r) /\ NewTicket(r, id, "import")
<1>1. ASSUME NEW r \in Requests, WriteForm(r), req[r].id = id, id \in DOMAIN ticket
      PROVE  SameKey(id)
  BY <1>1, WriteFormEffects DEF Exists
<1>2. ASSUME NEW r \in Requests, NewTicket(r, id, "form")
      PROVE  FALSE
  BY <1>2 DEF NewTicket
<1> QED BY <1>1, <1>2, Writers

LEMMA ImportsLookedUpStep ==
    ASSUME Types, ImportsLookedUp, [Next]_deskVars
    PROVE  ImportsLookedUp'
<1>1. \A id \in DOMAIN ticket : id \in Nat /\ id <= lastId
  BY Counters DEF Types, TicketTypes, Ids
<1>2. ASSUME NEW r \in Requests, req[r].pc \in {"parent", "insert"}
      PROVE  req[r].lookedUpTo \in Nat /\ req[r].lookedUpTo <= lastId
  <2>1. req[r] \in ParentLookups(lastId) \cup RowInserts(lastId)
    BY <1>2, RequestKinds DEF Types, RequestTypes
  <2> QED BY <2>1, Counters DEF ParentLookups, RowInserts
<1>3. ASSUME NEW r \in Requests, NEW id \in DOMAIN ticket', req'[r].pc \in {"parent", "insert"},
             id <= req'[r].lookedUpTo, history'[id].key = "import"
      PROVE  ticket'[id].issue # req'[r].row.issue
  <2>1. CASE req'[r] = req[r]
    <3>1. id \in DOMAIN ticket /\ SameKey(id)
      BY <1>2, <1>3, <2>1, ImportedKeys, Counters
    <3> QED BY <1>3, <2>1, <3>1 DEF SameKey, ImportsLookedUp
  <2>2. ASSUME NEW u \in Users, ImportRow(r, u), req'[r].pc = "parent"
        PROVE  ticket'[id].issue # req'[r].row.issue
    BY <1>3, <2>2, ImportRowEffects
  <2>3. CASE FindParent(r)
    BY <1>3, <2>3, FindParentEffects DEF ImportsLookedUp
  <2> QED BY <1>3, <2>1, <2>2, <2>3, Makers
<1>4. ASSUME NEW old \in DOMAIN ticket', NEW new \in DOMAIN ticket', old < new,
             history'[old].key = "import", history'[new].key = "import",
             old <= history'[new].lookedUpTo
      PROVE  ticket'[old].issue # ticket'[new].issue
  <2>1. old \in DOMAIN ticket /\ SameKey(old)
    BY <1>1, <1>4, ImportedKeys, Counters
  <2>2. CASE new \in DOMAIN ticket /\ SameKey(new)
    BY <1>4, <2>1, <2>2 DEF SameKey, ImportsLookedUp
  <2>3. ASSUME NEW r \in Requests, InsertRow(r), new = lastId + 1
        PROVE  ticket'[old].issue # ticket'[new].issue
    BY <1>4, <2>1, <2>3, InsertRowEffects DEF SameKey, ImportsLookedUp
  <2> QED BY <1>4, <2>2, <2>3, ImportedKeys
<1> QED BY <1>3, <1>4 DEF ImportsLookedUp

(* ------------------------ who chose the assignee ------------------------- *)
LEMMA SendFormEffects ==
    ASSUME Types, NEW r \in Requests, NEW u \in Users, SendForm(r, u)
    PROVE  /\ UNCHANGED <<ticket, history, form>> /\ form[u] # NoForm /\ Exists(form[u].id)
           /\ req'[r].pc = "check" /\ req'[r].id = form[u].id
           /\ req'[r].version = form[u].version /\ req'[r].shown = form[u].text
           /\ form[u].chosen => req'[r].chosen
<1> DEFINE id == form[u].id
<1>1. UNCHANGED <<ticket, history, form>> /\ id # 0 /\ Exists(id)
  BY DEF SendForm
<1>2. form[u] # NoForm
  BY <1>1 DEF NoForm
<1>3. PICK issue, text, assignee :
         LET updated == Overlay(ticket[id], [text |-> text, issue |-> issue,
                                             assignee |-> assignee])
         IN  Become(r, [pc |-> "check", id |-> id, version |-> form[u].version,
                        updated |-> updated, fields |-> ChangedFields(ticket[id], updated),
                        shown |-> form[u].text,
                        chosen |-> assignee # form[u].assignee \/ form[u].chosen])
  BY DEF SendForm
<1> DEFINE updated == Overlay(ticket[id], [text |-> text, issue |-> issue,
                                           assignee |-> assignee])
           q == [pc |-> "check", id |-> id, version |-> form[u].version,
                 updated |-> updated, fields |-> ChangedFields(ticket[id], updated),
                 shown |-> form[u].text,
                 chosen |-> assignee # form[u].assignee \/ form[u].chosen]
<1>4. Become(r, q)
  BY <1>3
<1>5. /\ q.pc = "check" /\ q.id = id /\ q.version = form[u].version
      /\ q.shown = form[u].text
  OBVIOUS
<1>6. form[u].chosen => q.chosen
  OBVIOUS
<1> HIDE DEF q
<1>7. req'[r] = q
  BY <1>4, Moved DEF Moves
<1> QED BY <1>1, <1>2, <1>5, <1>6, <1>7

LEMMA CheckVersionEffects ==
    ASSUME Types, NEW r \in Requests, CheckVersion(r), req'[r].pc = "write"
    PROVE  /\ UNCHANGED <<ticket, history, form>> /\ req[r].pc = "check"
           /\ Exists(req[r].id) /\ ticket[req[r].id].version = req[r].version
           /\ req'[r].id = req[r].id /\ req'[r].version = req[r].version + 1
           /\ req'[r].shown = req[r].shown /\ req'[r].chosen = req[r].chosen
<1> DEFINE q == [req[r] EXCEPT !.pc = "write", !.version = req[r].version + 1]
<1>1. UNCHANGED <<ticket, history, form>> /\ req[r].pc = "check" /\ req[r] \in Saves(lastId)
  BY RequestKinds DEF CheckVersion, Types, RequestTypes
<1>2. CurrentVersion(req[r].id, req[r].version) /\ Become(r, q)
  <2>1. ~Become(r, Idle)
    BY Moved DEF Moves, Idle
  <2> QED BY <2>1 DEF CheckVersion
<1>3. /\ q.id = req[r].id /\ q.version = req[r].version + 1
      /\ q.shown = req[r].shown /\ q.chosen = req[r].chosen
  BY <1>1 DEF Saves
<1> HIDE DEF q
<1>4. req'[r] = q
  BY <1>2, Moved DEF Moves
<1> QED BY <1>1, <1>2, <1>3, <1>4 DEF CurrentVersion

(* Forms and saves are of tickets that are there already. *)
LEMMA FormsAreOld ==
    ASSUME Types
    PROVE  /\ lastId \in Nat /\ \A id \in DOMAIN ticket : id \in 1 .. lastId
           /\ \A u \in Users : form[u] # NoForm => form[u] \in Forms(lastId) /\ form[u].id <= lastId
           /\ \A r \in Requests : req[r].pc \in {"check", "write"} =>
                 req[r] \in Saves(lastId) /\ req[r].id <= lastId
<1>1. lastId \in Nat /\ \A id \in DOMAIN ticket : id \in 1 .. lastId
  BY Counters DEF Types, TicketTypes, Ids
<1>2. \A u \in Users : form[u] # NoForm => form[u] \in Forms(lastId) /\ form[u].id <= lastId
  BY <1>1 DEF Types, FormTypes, Forms
<1>3. ASSUME NEW r \in Requests, req[r].pc \in {"check", "write"}
      PROVE  req[r] \in Saves(lastId) /\ req[r].id <= lastId
  <2>1. req[r] \in Saves(lastId)
    BY <1>3, RequestKinds DEF Types, RequestTypes
  <2> QED BY <1>1, <2>1 DEF Saves
<1> QED BY <1>1, <1>2, <1>3

(* A request that was to clear an assignee has done so or has ended.        *)
LEMMA Leavers ==
    ASSUME Types, [Next]_deskVars, NEW r \in Requests, req'[r] # req[r], req[r].pc = "clear"
    PROVE  ClearAssignee(r) \/ Abandon(r)
<1>1. ASSUME NEW other \in Requests, NEW q, Become(other, q) PROVE r = other
  BY <1>1 DEF Become, Types, RequestTypes
<1>2. Idle.pc # "clear"
  BY DEF Idle
<1>3. ASSUME NEW other \in Requests, NEW t, NEW placeholder, NEW origin,
             InsertTicket(other, t, placeholder, origin)
      PROVE  r = other
  BY <1>1, <1>3 DEF InsertTicket
<1>4. CASE TicketPages
  <2>1. ASSUME NEW other \in Requests, NEW u \in Users, Create(other, u) PROVE FALSE
    BY <1>2, <1>3, <2>1 DEF Create
  <2>2. ASSUME NEW other \in Requests, NEW u \in Users, SendForm(other, u) PROVE FALSE
    BY <1>1, <1>2, <2>2 DEF SendForm
  <2>3. ASSUME NEW other \in Requests, NEW u \in Users, NEW id, NEW status,
               ChooseStatus(other, u, id, status)
        PROVE  FALSE
    BY <1>1, <1>2, <2>3 DEF ChooseStatus
  <2>4. ASSUME NEW other \in Requests,
               \/ CheckVersion(other) \/ CheckTransition(other) \/ WriteForm(other)
               \/ WriteStatus(other)
        PROVE  FALSE
    BY <1>1, <2>4 DEF CheckVersion, CheckTransition, WriteForm, WriteStatus
  <2>5. ASSUME NEW other \in Requests, ClearAssignee(other) \/ Abandon(other)
        PROVE  r = other
    BY <1>1, <2>5 DEF ClearAssignee, Abandon
  <2>6. ASSUME NEW u \in Users, NEW id, NEW assignee,
               OpenForm(u, id) \/ Assign(u, id, assignee) \/ DeleteTicket(u, id)
        PROVE  FALSE
    BY <2>6 DEF OpenForm, Assign, DeleteTicket, Delete
  <2>7. ASSUME NEW u \in Users, UserAction(u) PROVE FALSE
    BY <2>1, <2>2, <2>3, <2>6, <2>7 DEF UserAction
  <2>8. ASSUME NEW other \in Requests, RequestStep(other) PROVE ClearAssignee(r) \/ Abandon(r)
    BY <2>4, <2>5, <2>8 DEF RequestStep
  <2>9. ASSUME NEW u \in Users, NEW id, DeleteTicket(u, id) PROVE FALSE
    BY <2>9 DEF DeleteTicket, Delete
  <2> QED BY <1>4, <2>7, <2>8, <2>9 DEF TicketPages
<1>5. CASE Imports
  <2>1. ASSUME NEW other \in Requests, NEW u \in Users, ImportRow(other, u) PROVE FALSE
    <3>1. req[other] = Idle /\ \E q : Become(other, q)
      BY <2>1 DEF ImportRow
    <3> QED BY <1>1, <1>2, <3>1
  <2>2. ASSUME NEW other \in Requests, Overwrite(other) \/ FindParent(other) PROVE FALSE
    BY <1>1, <2>2 DEF Overwrite, FindParent
  <2>3. ASSUME NEW other \in Requests, InsertRow(other) PROVE FALSE
    BY <1>3, <2>3 DEF InsertRow
  <2> QED BY <1>5, <2>1, <2>2, <2>3 DEF Imports, ImportStep
<1>6. CASE Workflows
  <2>1. ASSUME NEW other \in Requests, NEW q, W!Become(other, q) PROVE r = other
    BY <1>1, <2>1 DEF W!Become, Become
  <2>2. W!Idle.pc # "clear"
    BY DEF W!Idle
  <2>3. ASSUME NEW other \in Requests, W!UserAction(other) PROVE FALSE
    <3>1. ASSUME NEW id, W!CheckStart(other, id) PROVE FALSE
      BY <2>1, <2>2, <3>1 DEF W!CheckStart
    <3>2. ASSUME NEW w, W!ReadStep(other, w) PROVE FALSE
      BY <2>1, <2>2, <3>2 DEF W!ReadStep
    <3> QED BY <2>3, <3>1, <3>2 DEF W!UserAction
  <2>4. ASSUME NEW other \in Requests, W!RequestStep(other) PROVE FALSE
    BY <2>1, <2>4 DEF W!RequestStep, W!Start, W!Advance
  <2> QED BY <1>6, <2>3, <2>4 DEF Workflows, StartWorkflow, WorkflowStep
<1>7. CASE Administration
  <2>1. ASSUME NEW other \in Requests, NEW a \in Users, NEW u \in Users, ReadActive(other, a, u)
        PROVE  FALSE
    <3>1. req[other] = Idle /\ \E q : Become(other, q)
      BY <2>1 DEF ReadActive
    <3> QED BY <1>1, <1>2, <3>1
  <2>2. ASSUME NEW other \in Requests, ToggleActive(other) PROVE FALSE
    BY <1>1, <2>2 DEF ToggleActive
  <2>3. ASSUME NEW u \in Users, Login(u) \/ Logout(u) \/ EndSession(u) PROVE FALSE
    BY <2>3 DEF Login, Logout, EndSession
  <2>4. ASSUME NEW a \in Users, NEW u \in Users, NEW role \in Roles,
               CreateUser(a, u, role) \/ UpdateUser(a, u, role)
        PROVE  FALSE
    BY <2>4 DEF CreateUser, UpdateUser
  <2> QED BY <1>7, <2>1, <2>2, <2>3, <2>4 DEF Administration, UserPages
<1>8. ~(UNCHANGED deskVars)
  BY DEF deskVars, vars
<1> QED BY <1>4, <1>5, <1>6, <1>7, <1>8 DEF Next

(* Who sends the placeholder back as an assignee has seen it in a form: of  *)
(* such a ticket it is known that more than its creation may show it.       *)
LeaksAreKnown ==
    /\ \A u \in Users :
          form[u] # NoForm /\ ~form[u].chosen /\ Exists(form[u].id)
          => history[form[u].id].leaked
    /\ \A r \in Requests :
          req[r].pc \in {"check", "write"} /\ ~req[r].chosen /\ Exists(req[r].id)
          => history[req[r].id].leaked

LeakInv == LeaksAreKnown /\ AssigneesAreChosen

LEMMA LeakInit == DeskInit => LeakInv
BY NoTicketsInit DEF LeakInv, LeaksAreKnown, AssigneesAreChosen, Exists, Idle

LEMMA LeaksStay ==
    ASSUME Types, [Next]_deskVars, NEW id \in DOMAIN ticket', id \in DOMAIN ticket,
           history[id].leaked
    PROVE  history'[id].leaked
<1>1. CASE SameAssignee(id)
  BY <1>1 DEF SameAssignee
<1>2. ASSUME NEW r \in Requests, ClearAssignee(r) \/ WriteForm(r) \/ Abandon(r), req[r].id = id
      PROVE  history'[id].leaked
  BY <1>2, ClearEffects, WriteFormEffects, AbandonEffects DEF Exists
<1>3. ASSUME NEW u \in Users, OpenForm(u, id) PROVE history'[id].leaked
  BY <1>3, OpenFormEffects
<1>4. ASSUME NEW u \in Users, NEW assignee, Assign(u, id, assignee) PROVE history'[id].leaked
  BY <1>4, AssignEffects
<1> QED BY <1>1, <1>2, <1>3, <1>4, Writers

LEMMA LeaksAreKnownStep ==
    ASSUME Types, LeaksAreKnown, [Next]_deskVars
    PROVE  LeaksAreKnown'
<1>1. \A id \in DOMAIN ticket' : id \in DOMAIN ticket \/ id = lastId + 1
  BY Writers
<1>2. ASSUME NEW u \in Users, form'[u] # NoForm, ~form'[u].chosen, form'[u].id \in DOMAIN ticket'
      PROVE  history'[form'[u].id].leaked
  <2>1. CASE form'[u] = form[u]
    <3>1. form[u].id \in DOMAIN ticket
      BY <1>1, <1>2, <2>1, FormsAreOld
    <3> QED BY <1>2, <2>1, <3>1, LeaksStay DEF LeaksAreKnown, Exists
  <2>2. ASSUME NEW id \in DOMAIN ticket, OpenForm(u, id)
        PROVE  history'[form'[u].id].leaked
    BY <1>2, <2>2, OpenFormEffects
  <2> QED BY <2>1, <2>2, Openers
<1>3. ASSUME NEW r \in Requests, req'[r].pc \in {"check", "write"}, ~req'[r].chosen,
             req'[r].id \in DOMAIN ticket'
      PROVE  history'[req'[r].id].leaked
  <2>1. CASE req'[r] = req[r]
    <3>1. req[r].id \in DOMAIN ticket
      BY <1>1, <1>3, <2>1, FormsAreOld
    <3> QED BY <1>3, <2>1, <3>1, LeaksStay DEF LeaksAreKnown, Exists
  <2>2. ASSUME NEW u \in Users, SendForm(r, u)
        PROVE  history'[req'[r].id].leaked
    BY <1>3, <2>2, SendFormEffects DEF LeaksAreKnown
  <2>3. ASSUME CheckVersion(r), req'[r].pc = "write"
        PROVE  history'[req'[r].id].leaked
    BY <1>3, <2>3, CheckVersionEffects DEF LeaksAreKnown
  <2> QED BY <1>3, <2>1, <2>2, <2>3, Makers
<1> QED BY <1>2, <1>3 DEF LeaksAreKnown, Exists

LEMMA LeakStep ==
    ASSUME Types, LeakInv, [Next]_deskVars
    PROVE  LeakInv'
<1>1. LeaksAreKnown'
  BY LeaksAreKnownStep DEF LeakInv
<1>2. ASSUME NEW id \in DOMAIN ticket', ticket'[id].assignee # Nobody
      PROVE  \/ history'[id].chosen \/ history'[id].leaked
             \/ \E r \in Requests : req'[r].pc = "clear" /\ req'[r].id = id
  <2> DEFINE Known == \/ history'[id].chosen \/ history'[id].leaked
                      \/ \E r \in Requests : req'[r].pc = "clear" /\ req'[r].id = id
  <2>1. ASSUME NEW r \in Requests, ClearAssignee(r), req[r].id = id, id \in DOMAIN ticket
        PROVE  FALSE
    BY <1>2, <2>1, ClearEffects DEF Exists
  <2>2. ASSUME NEW r \in Requests, Abandon(r), req[r].id = id, id \in DOMAIN ticket
        PROVE  history'[id].chosen \/ history'[id].leaked
    BY <2>2, AbandonEffects DEF Exists
  <2>3. ASSUME id \in DOMAIN ticket, SameAssignee(id)
        PROVE  Known
    <3>1. CASE history[id].chosen \/ history[id].leaked
      BY <2>3, <3>1 DEF SameAssignee
    <3>2. ASSUME NEW r \in Requests, req[r].pc = "clear", req[r].id = id
          PROVE  Known
      <4>1. CASE req'[r] = req[r]
        BY <3>2, <4>1
      <4> QED BY <2>1, <2>2, <2>3, <3>2, <4>1, Leavers
    <3>3. ticket[id].assignee # Nobody
      BY <1>2, <2>3 DEF SameAssignee
    <3> HIDE DEF Known
    <3> QED BY <2>3, <3>1, <3>2, <3>3 DEF LeakInv, AssigneesAreChosen
  <2>4. ASSUME NEW r \in Requests, WriteForm(r), req[r].id = id, id \in DOMAIN ticket
        PROVE  Known
    <3>1. CASE SameAssignee(id)
      BY <2>3, <2>4, <3>1
    <3>2. CASE history'[id].chosen = req[r].chosen
      <4>1. req[r].chosen \/ history[id].leaked
        BY <2>4, WriteFormEffects DEF LeakInv, LeaksAreKnown, Exists
      <4>2. history'[id].leaked = history[id].leaked
        BY <2>4, WriteFormEffects DEF Exists
      <4> QED BY <3>2, <4>1, <4>2
    <3> QED BY <2>4, <3>1, <3>2, WriteFormEffects DEF Exists
  <2>5. ASSUME NEW u \in Users, OpenForm(u, id), id \in DOMAIN ticket PROVE Known
    <3>1. /\ history'[id].chosen = history[id].chosen
          /\ history'[id].leaked <=> history[id].leaked \/ ~history[id].chosen
      BY <2>5, OpenFormEffects
    <3> QED BY <3>1
  <2>6. ASSUME NEW u \in Users, NEW assignee, Assign(u, id, assignee), id \in DOMAIN ticket
        PROVE  Known
    BY <2>6, AssignEffects
  <2>7. ASSUME NEW r \in Requests, NEW by, NewTicket(r, id, by) PROVE Known
    BY <2>7 DEF NewTicket, Moves
  <2>8. Known
    <3> HIDE DEF Known
    <3>1. ASSUME NEW r \in Requests, Abandon(r), req[r].id = id, id \in DOMAIN ticket
          PROVE  Known
      BY <2>2, <3>1 DEF Known
    <3> QED BY <2>1, <2>3, <2>4, <2>5, <2>6, <2>7, <3>1, Writers
  <2> QED BY <2>8
<1>3. AssigneesAreChosen'
  BY <1>2 DEF AssigneesAreChosen
<1> QED BY <1>1, <1>3 DEF LeakInv

(* --------------------------- what a save undoes -------------------------- *)
(* Until two saves of a ticket are between check and write at once, a form  *)
(* and a save with the version of the ticket also have the text that a form *)
(* has given it, and a save that was checked has the next version.          *)
Seen(id) ==
    /\ \A u \in Users : form[u] # NoForm /\ form[u].id = id =>
          /\ form[u].version <= ticket[id].version
          /\ form[u].version = ticket[id].version /\ history[id].text = "form"
             => form[u].text = ticket[id].text
    /\ \A r \in Requests : req[r].pc = "check" /\ req[r].id = id =>
          /\ req[r].version <= ticket[id].version
          /\ req[r].version = ticket[id].version /\ history[id].text = "form"
             => req[r].shown = ticket[id].text
    /\ \A r \in Requests : req[r].pc = "write" /\ req[r].id = id =>
          /\ req[r].version = ticket[id].version + 1
          /\ history[id].text = "form" => req[r].shown = ticket[id].text

SeenInv == \A id \in DOMAIN ticket : ~history[id].raced => Seen(id)

LEMMA SeenInit == DeskInit => SeenInv
BY NoTicketsInit DEF SeenInv

LEMMA SeenStep ==
    ASSUME Types, SeenInv, [Next]_deskVars
    PROVE  SeenInv'
<1> SUFFICES ASSUME NEW id \in DOMAIN ticket', ~history'[id].raced
             PROVE  Seen(id)'
  BY DEF SeenInv
<1>1. ASSUME id \in DOMAIN ticket, SameText(id)
      PROVE  Seen(id)'
  <2>1. Seen(id)
    BY <1>1 DEF SameText, SeenInv
  <2>2. ticket[id] \in TicketRows
    BY <1>1 DEF Types, TicketTypes
  <2>3. ASSUME NEW u \in Users, form'[u] # NoForm, form'[u].id = id
        PROVE  /\ form'[u].version <= ticket'[id].version
               /\ form'[u].version = ticket'[id].version /\ history'[id].text = "form"
                  => form'[u].text = ticket'[id].text
    <3>1. CASE form'[u] = form[u]
      BY <1>1, <2>1, <2>3, <3>1 DEF Seen, SameText
    <3>2. ASSUME NEW i \in DOMAIN ticket, OpenForm(u, i)
          PROVE  form'[u].version = ticket[id].version /\ form'[u].text = ticket[id].text
      BY <2>3, <3>2, OpenFormEffects
    <3>3. ticket[id].version <= ticket[id].version
      BY <2>2 DEF TicketRows
    <3> QED BY <1>1, <3>1, <3>2, <3>3, Openers DEF SameText
  <2>4. ASSUME NEW r \in Requests, req'[r].pc = "check", req'[r].id = id
        PROVE  /\ req'[r].version <= ticket'[id].version
               /\ req'[r].version = ticket'[id].version /\ history'[id].text = "form"
                  => req'[r].shown = ticket'[id].text
    <3>1. CASE req'[r] = req[r]
      BY <1>1, <2>1, <2>4, <3>1 DEF Seen, SameText
    <3>2. ASSUME NEW u \in Users, SendForm(r, u)
          PROVE  /\ req'[r].version <= ticket[id].version
                 /\ req'[r].version = ticket[id].version /\ history[id].text = "form"
                    => req'[r].shown = ticket[id].text
      BY <2>1, <2>4, <3>2, SendFormEffects DEF Seen
    <3> QED BY <1>1, <2>4, <3>1, <3>2, Makers DEF SameText
  <2>5. ASSUME NEW r \in Requests, req'[r].pc = "write", req'[r].id = id
        PROVE  /\ req'[r].version = ticket'[id].version + 1
               /\ history'[id].text = "form" => req'[r].shown = ticket'[id].text
    <3>1. CASE req'[r] = req[r]
      BY <1>1, <2>1, <2>5, <3>1 DEF Seen, SameText
    <3>2. ASSUME CheckVersion(r)
          PROVE  /\ req'[r].version = ticket[id].version + 1
                 /\ history[id].text = "form" => req'[r].shown = ticket[id].text
      BY <2>1, <2>5, <3>2, CheckVersionEffects DEF Seen
    <3> QED BY <1>1, <2>5, <3>1, <3>2, Makers DEF SameText
  <2> QED BY <2>3, <2>4, <2>5 DEF Seen
(* The write of a form raises the version above those of all that is open.  *)
<1>2. ASSUME NEW r \in Requests, WriteForm(r), req[r].id = id, id \in DOMAIN ticket
      PROVE  Seen(id)'
  <2>1. /\ req[r].pc = "write" /\ form' = form /\ ticket'[id].version = req[r].version
        /\ ~history[id].raced
        /\ \A other \in Requests \ {r} : ~(req[other].pc = "write" /\ req[other].id = id)
    BY <1>2, WriteFormEffects DEF Exists
  <2>2. PICK clear \in BOOLEAN : Moves(r, ThenClearAssignee(clear, id))
    BY <1>2, WriteFormEffects
  <2>3. req'[r].pc \in {"clear", "idle"}
    BY <2>2 DEF Moves, ThenClearAssignee, Idle
  <2>4. Seen(id) /\ ticket[id].version \in Nat
    BY <1>2, <2>1 DEF SeenInv, Types, TicketTypes, TicketRows
  <2>5. ticket'[id].version = ticket[id].version + 1
    BY <1>2, <2>1, <2>4 DEF Seen
  <2>6. ASSUME NEW u \in Users, form'[u] # NoForm, form'[u].id = id
        PROVE  form'[u].version < ticket'[id].version
    <3>1. form[u].version <= ticket[id].version /\ form[u].version \in Nat
      BY <2>1, <2>4, <2>6, FormsAreOld DEF Seen, Forms
    <3> QED BY <2>1, <2>4, <2>5, <3>1
  <2>7. ASSUME NEW other \in Requests, req'[other].pc = "check", req'[other].id = id
        PROVE  req'[other].version < ticket'[id].version
    <3>1. req'[other] = req[other]
      BY <2>2, <2>3, <2>7 DEF Moves
    <3>2. req[other].version <= ticket[id].version /\ req[other].version \in Nat
      BY <2>4, <2>7, <3>1, FormsAreOld DEF Seen, Saves
    <3> QED BY <2>4, <2>5, <3>1, <3>2
  <2>8. ASSUME NEW other \in Requests, req'[other].pc = "write", req'[other].id = id
        PROVE  FALSE
    BY <2>1, <2>2, <2>3, <2>8 DEF Moves
  <2>9. \A u \in Users : form'[u] # NoForm => form'[u].version \in Nat
    BY <2>1, FormsAreOld DEF Forms
  <2>10. \A other \in Requests : req'[other].pc = "check" => req'[other].version \in Nat
    <3> SUFFICES ASSUME NEW other \in Requests, req'[other].pc = "check"
                 PROVE  req'[other].version \in Nat
      OBVIOUS
    <3>1. req'[other] = req[other]
      BY <2>2, <2>3 DEF Moves
    <3> QED BY <3>1, FormsAreOld DEF Saves
  <2>11. \A u \in Users : form'[u] # NoForm /\ form'[u].id = id =>
            form'[u].version <= ticket'[id].version /\ form'[u].version # ticket'[id].version
    BY <2>4, <2>5, <2>6, <2>9
  <2>12. \A other \in Requests : req'[other].pc = "check" /\ req'[other].id = id =>
            req'[other].version <= ticket'[id].version /\ req'[other].version # ticket'[id].version
    BY <2>4, <2>5, <2>7, <2>10
  <2> QED BY <2>8, <2>11, <2>12 DEF Seen
<1>3. ASSUME NEW r \in Requests, Overwrite(r), req[r].id = id, id \in DOMAIN ticket
      PROVE  Seen(id)'
  <2>1. /\ ticket'[id].version = ticket[id].version /\ history'[id].text = "import"
        /\ form' = form /\ Moves(r, Idle) /\ ~history[id].raced
    BY <1>3, OverwriteEffects DEF Exists
  <2>2. Seen(id)
    BY <1>3, <2>1 DEF SeenInv
  <2>3. \A other \in Requests : req'[other].pc \in {"check", "write"} => req'[other] = req[other]
    BY <2>1 DEF Moves, Idle
  <2> QED BY <2>1, <2>2, <2>3 DEF Seen
<1>4. ASSUME NEW r \in Requests, NEW by, NewTicket(r, id, by), id = lastId + 1
      PROVE  Seen(id)'
  <2>1. form' = form /\ \A other \in Requests :
            req'[other].pc \in {"check", "write"} => req'[other] = req[other]
    BY <1>4 DEF NewTicket, Moves, Idle
  <2>2. lastId \in Nat
    BY FormsAreOld
  <2>3. \A u \in Users : form'[u] # NoForm => form'[u].id # id
    BY <1>4, <2>1, <2>2, FormsAreOld
  <2>4. \A other \in Requests : req'[other].pc \in {"check", "write"} => req'[other].id # id
    BY <1>4, <2>1, <2>2, FormsAreOld
  <2> QED BY <2>3, <2>4 DEF Seen
<1> QED BY <1>1, <1>2, <1>3, <1>4, Writers

(* ------------------------------- theorems -------------------------------- *)
TicketInv == DeskInv /\ ResolvedInv /\ ImportsLookedUp /\ LeakInv /\ SeenInv

THEOREM TicketInvariant == Spec => []TicketInv
<1>1. DeskInit => TicketInv
  BY InitTypes, AdminInit, WorkflowInit, ResolvedInit, ImportsLookedUpInit, LeakInit, SeenInit
     DEF TicketInv, DeskInv
<1>2. TicketInv /\ [Next]_deskVars => TicketInv'
  <2> SUFFICES ASSUME TicketInv, [Next]_deskVars PROVE TicketInv'
    OBVIOUS
  <2>1. Types /\ AdvancesAreReached
    BY DEF TicketInv, DeskInv, WorkflowInv
  <2>2. DeskInv'
    BY <2>1, NextTypes, AdminStep, WorkflowStepInv DEF TicketInv, DeskInv
  <2> QED BY <2>1, <2>2, ResolvedStep, ImportsLookedUpStep, LeakStep, SeenStep DEF TicketInv
<1> QED BY <1>1, <1>2, PTL DEF Spec

(* A resolved ticket has its time of resolution: UpdateStatus writes both   *)
(* from one copy, and nothing else writes either but the import, which      *)
(* resolves no ticket.                                                      *)
THEOREM TheTimeOfResolutionIsThere == Spec => []ResolvedTicketsHaveATime
<1>1. TicketInv => ResolvedTicketsHaveATime
  BY DEF TicketInv, ResolvedInv
<1> QED BY <1>1, TicketInvariant, PTL

(* Two imported tickets of one key come of imports that overlapped.         *)
THEOREM OnlyOverlappingImportsDuplicate == Spec => []ImportsDoNotDuplicate
<1>1. ASSUME TicketInv PROVE ImportsDoNotDuplicate
  <2>1. \A id \in DOMAIN ticket : id \in Nat /\ history[id].lookedUpTo \in Nat
    BY <1>1 DEF TicketInv, DeskInv, Types, TicketTypes, Ids, Histories
  <2> QED BY <1>1, <2>1 DEF TicketInv, ImportsLookedUp, ImportsDoNotDuplicate
<1> QED BY <1>1, TicketInvariant, PTL

(* The placeholder that the insert of an unassigned ticket writes is taken  *)
(* away, unless that request ended early or somebody opened the form before *)
(* it did.                                                                  *)
THEOREM NobodyIsAssignedByChance == Spec => []AssigneesAreChosen
<1>1. TicketInv => AssigneesAreChosen
  BY DEF TicketInv, LeakInv
<1> QED BY <1>1, TicketInvariant, PTL

(* The version check: a save replaces a text that its user has seen, or one *)
(* that an import has written, until two saves have raced.                  *)
THEOREM OnlySeenTextsAreReplaced == Spec => []SavesSeeWhatFormsSaved
<1>1. TicketInv => SavesSeeWhatFormsSaved
  BY DEF TicketInv, SeenInv, Seen, SavesSeeWhatFormsSaved, Exists
<1> QED BY <1>1, TicketInvariant, PTL
=============================================================================
