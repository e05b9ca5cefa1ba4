-------------------------- MODULE SheetSyncProofs ---------------------------
(***************************************************************************)
(* Type correctness of SheetSync, for every set of fields, values, passes  *)
(* and hazards.  TypeOK is inductive as it stands: it speaks of what the   *)
(* passes have read as well as of what is stored.                          *)
(***************************************************************************)
EXTENDS SheetSync, CellValuesProofs

(* Every column has a type, and its values are words.                       *)
LEMMA FieldTypes ==
    ASSUME NEW f \in Field
    PROVE  /\ Type[f] \in Types
           /\ TicketValues(Type[f]) \subseteq Words
           /\ TicketValues(Type[f]) \subseteq Stored(f)
           /\ "" \in Stored(f) /\ "" \in Words
           /\ Stored(f) \subseteq Words
           /\ NewTicketValue(Type[f]) \in TicketValues(Type[f])
<1>1. Type[f] \in Types
  BY SyncAssumption
<1>2. TicketValues(Type[f]) \subseteq Words
  BY <1>1, TicketValuesAreWords
<1>3. "" \in Words
  BY DEF Words
<1> QED BY <1>1, <1>2, <1>3, NewTicketValueType DEF Stored

(* What a cell says of a field, and what it makes of a ticket. *)
LEMMA CellTypes ==
    ASSUME DefaultTransforms, NEW f \in Field, NEW raw \in Words,
           Type[f] \in {"text", "custom"} => raw \in Texts \cup {""},
           NEW old \in TicketValues(Type[f])
    PROVE  /\ SheetValue(f, raw) \in TicketValues(Type[f])
           /\ SetTicketField(Type[f], raw, old) \in TicketValues(Type[f])
           /\ ImportField(Type[f], raw, old) \in TicketValues(Type[f])
<1>1. Type[f] \in Types /\ Transform[f] = TransformFor(Type[f])
  BY FieldTypes DEF DefaultTransforms
<1>2. SheetValue(f, raw) \in TicketValues(Type[f])
  BY <1>1, CanonicalValueType DEF SheetValue
<1> QED BY <1>1, <1>2, SetTicketFieldType

(* The ticket, the baseline and the queue that a pass computes are typed.   *)
LEMMA PassResults ==
    ASSUME DefaultTransforms, NEW p \in Pass, PassValues(p), p.pc # "read"
    PROVE  /\ MergedTicket(p) \in [Field -> Words]
           /\ ImportedTicket(p) \in [Field -> Words]
           /\ NewBaseline(p) \in [Field -> Words]
           /\ \A f \in Field : /\ MergedTicket(p)[f] \in TicketValues(Type[f])
                               /\ ImportedTicket(p)[f] \in TicketValues(Type[f])
                               /\ NewBaseline(p)[f] \in Stored(f)
                               /\ SheetValue(f, p.row[f]) \in Stored(f)
           /\ Queued(p) \subseteq Field
<1>1. ASSUME NEW f \in Field
      PROVE  /\ SheetValue(f, p.row[f]) \in TicketValues(Type[f])
             /\ SetTicketField(Type[f], p.row[f], p.tk.val[f]) \in TicketValues(Type[f])
             /\ ImportField(Type[f], p.row[f], p.tk.val[f]) \in TicketValues(Type[f])
             /\ p.tk.val[f] \in TicketValues(Type[f])
             /\ p.base[f] \in Stored(f)
  BY CellTypes DEF Pass, PassValues, TextCells
<1>2. ASSUME NEW f \in Field
      PROVE  /\ MergedTicket(p)[f] \in TicketValues(Type[f])
             /\ ImportedTicket(p)[f] \in TicketValues(Type[f])
  BY <1>1 DEF MergedTicket, ImportedTicket
<1>3. ASSUME NEW f \in Field
      PROVE  NewBaseline(p)[f] \in Stored(f)
  <2>1. NewBaseline(p)[f] \in {"", ImportedTicket(p)[f], p.tk.val[f],
                               SheetValue(f, p.row[f]), p.base[f]}
    BY DEF NewBaseline
  <2> QED BY <2>1, <1>1, <1>2, FieldTypes
<1>4. Queued(p) \subseteq Field
  BY DEF Queued, InClass, Pass
<1>5. /\ MergedTicket(p) = [f \in Field |-> MergedTicket(p)[f]]
      /\ ImportedTicket(p) = [f \in Field |-> ImportedTicket(p)[f]]
      /\ NewBaseline(p) = [f \in Field |-> NewBaseline(p)[f]]
  BY DEF MergedTicket, ImportedTicket, NewBaseline
<1> QED BY <1>1, <1>2, <1>3, <1>4, <1>5, FieldTypes

(* A pass that has not begun is of type Pass.                               *)
LEMMA IdleRunType == IdleRun \in Pass
BY DEF IdleRun, Pass, Blank, Words

(* The import that created the ticket stored typed values.                  *)
LEMMA InitType ==
    ASSUME DefaultTransforms, Init PROVE TypeOK
<1>1. cell \in [Field -> Words] /\ TextCells(cell)
  BY SyncAssumption DEF Init, TextCells
<1>2. conn \in [mapped : SUBSET Field, direction : Directions]
  <2>1. PICK m \in (SUBSET Field) \ {{}}, d \in Directions :
               conn = [mapped |-> m, direction |-> d]
    BY DEF Init
  <2> QED BY <2>1
<1>3. ASSUME NEW f \in Field
      PROVE  ticket.val[f] \in TicketValues(Type[f]) /\ baseline[f] \in Stored(f)
  <2>1. ImportField(Type[f], cell[f], NewTicketValue(Type[f])) \in TicketValues(Type[f])
    BY <1>1, CellTypes, FieldTypes DEF TextCells
  <2> QED BY <2>1, FieldTypes DEF Init
<1>4. ticket \in [val : [Field -> Words], assigned : BOOLEAN]
  <2>1. ticket = [val |-> [f \in Field |-> ticket.val[f]], assigned |-> ticket.assigned]
    BY DEF Init
  <2>2. ticket.assigned \in BOOLEAN
    BY DEF Init
  <2>3. [f \in Field |-> ticket.val[f]] \in [Field -> Words]
    BY <1>3, FieldTypes
  <2> QED BY <2>1, <2>2, <2>3
<1>5. baseline \in [Field -> Words]
  <2>1. baseline = [f \in Field |-> baseline[f]]
    BY DEF Init
  <2> QED BY <2>1, <1>3, FieldTypes
<1>6. /\ conflict \in [Field -> Conflict]
      /\ \A f \in Field : {conflict[f].base, conflict[f].sheet, conflict[f].db} \subseteq Stored(f)
  BY FieldTypes DEF Init, NoConflict, Conflict, Words
<1>7. run \in [Runs -> Pass] /\ \A r \in Runs : run[r].pc = "idle"
  BY IdleRunType DEF Init, IdleRun
<1>8. budget \in Nat
  BY SyncAssumption DEF Init
<1> QED BY <1>1, <1>2, <1>3, <1>4, <1>5, <1>6, <1>7, <1>8 DEF TypeOK

(* A step that leaves the data typed and changes one run's record, to IdleRun *)
(* or to a typed one, keeps the runs typed.                                  *)
LEMMA OneRunChanges ==
    ASSUME TypeOK, NEW r \in Runs, NEW p \in Pass, p.pc # "idle" => PassValues(p),
           run' = [run EXCEPT ![r] = p]
    PROVE  /\ run' \in [Runs -> Pass]
           /\ \A s \in Runs : run'[s].pc # "idle" => PassValues(run'[s])
BY DEF TypeOK

(* Writing a whole ticket keeps the table typed, if what is written is.      *)
LEMMA AllColumnsType ==
    ASSUME TypeOK, NEW t, NEW newVal \in [Field -> Words],
           \A f \in Field : newVal[f] \in TicketValues(Type[f]),
           UpdateAllColumns(t, newVal)
    PROVE  /\ ticket' \in [val : [Field -> Words], assigned : BOOLEAN]
           /\ \A f \in Field : ticket'.val[f] \in TicketValues(Type[f])
<1>1. CASE t.assigned
  BY <1>1 DEF UpdateAllColumns
<1>2. CASE ~t.assigned
  BY <1>2 DEF UpdateAllColumns, TypeOK
<1> QED BY <1>1, <1>2

(* Every step of a pass and of people keeps the types.                      *)
LEMMA StepType ==
    ASSUME DefaultTransforms, TypeOK, [Next]_vars PROVE TypeOK'
<1>1. ASSUME NEW r \in Runs, NEW op \in {"import", "push", "reconcile"}, Load(r, op),
             budget' \in Nat
      PROVE  TypeOK'
  <2> DEFINE p == [IdleRun EXCEPT !.pc = "read", !.op = op,
                                  !.maps = conn.mapped, !.row = cell]
  <2>1. p \in Pass /\ PassValues(p)
    BY DEF TypeOK, IdleRun, Pass, PassValues, Blank, Words
  <2>2. run' = [run EXCEPT ![r] = p] /\ UNCHANGED <<ticket, cell, conn, baseline, conflict>>
    BY <1>1 DEF Load
  <2> HIDE DEF p
  <2>3. /\ run' \in [Runs -> Pass]
        /\ \A s \in Runs : run'[s].pc # "idle" => PassValues(run'[s])
    BY <2>1, <2>2, OneRunChanges
  <2> QED BY <1>1, <2>2, <2>3 DEF TypeOK, TextCells
<1>2. ASSUME NEW r \in Runs, ReadTicket(r) PROVE TypeOK'
  <2> DEFINE p == [run[r] EXCEPT !.tk = ticket, !.base = baseline,
                                 !.pc = IF run[r].op = "push" THEN "link" ELSE "ticket"]
  <2>1. p \in Pass /\ PassValues(p)
    <3>1. run[r] \in Pass /\ TextCells(run[r].row)
      BY <1>2 DEF ReadTicket, TypeOK, PassValues
    <3>2. p \in Pass /\ p.row = run[r].row /\ p.tk = ticket /\ p.base = baseline
      BY <3>1 DEF TypeOK, Pass
    <3> HIDE DEF p
    <3> QED BY <3>1, <3>2 DEF TypeOK, PassValues
  <2>2. run' = [run EXCEPT ![r] = p]
    BY <1>2 DEF ReadTicket, TypeOK
  <2> HIDE DEF p
  <2>3. /\ run' \in [Runs -> Pass]
        /\ \A s \in Runs : run'[s].pc # "idle" => PassValues(run'[s])
    BY <2>1, <2>2, OneRunChanges
  <2> QED BY <1>2, <2>3 DEF ReadTicket, TypeOK, TextCells
<1>3. ASSUME NEW r \in Runs, ImportTicket(r) PROVE TypeOK'
  <2> DEFINE p == IF run[r].tk.assigned THEN [run[r] EXCEPT !.pc = "link"] ELSE IdleRun
  <2>1. run[r] \in Pass /\ PassValues(run[r]) /\ run[r].pc = "ticket"
    BY <1>3 DEF ImportTicket, TypeOK
  <2>2. p \in Pass /\ (p.pc # "idle" => PassValues(p))
    BY <2>1, IdleRunType DEF Pass, PassValues, IdleRun
  <2>3. run' = [run EXCEPT ![r] = p]
    BY <1>3 DEF ImportTicket, TypeOK
  <2> HIDE DEF p
  <2>4. /\ run' \in [Runs -> Pass]
        /\ \A s \in Runs : run'[s].pc # "idle" => PassValues(run'[s])
    BY <2>2, <2>3, OneRunChanges
  <2>5. /\ ImportedTicket(run[r]) \in [Field -> Words]
        /\ \A f \in Field : ImportedTicket(run[r])[f] \in TicketValues(Type[f])
    BY <2>1, PassResults
  <2>6. /\ ticket' \in [val : [Field -> Words], assigned : BOOLEAN]
        /\ \A f \in Field : ticket'.val[f] \in TicketValues(Type[f])
    BY <1>3, <2>5, AllColumnsType DEF ImportTicket
  <2> QED BY <1>3, <2>4, <2>6 DEF ImportTicket, TypeOK, TextCells
<1>4. ASSUME NEW r \in Runs, MergeTicket(r) PROVE TypeOK'
  <2> DEFINE p == [run[r] EXCEPT !.pc = "link"]
  <2>1. run[r] \in Pass /\ PassValues(run[r]) /\ run[r].pc = "ticket"
    BY <1>4 DEF MergeTicket, TypeOK
  <2>2. p \in Pass /\ PassValues(p)
    BY <2>1 DEF Pass, PassValues
  <2>3. run' = [run EXCEPT ![r] = p]
    BY <1>4 DEF MergeTicket, TypeOK
  <2> HIDE DEF p
  <2>4. /\ run' \in [Runs -> Pass]
        /\ \A s \in Runs : run'[s].pc # "idle" => PassValues(run'[s])
    BY <2>2, <2>3, OneRunChanges
  <2>5. /\ MergedTicket(run[r]) \in [Field -> Words]
        /\ \A f \in Field : /\ MergedTicket(run[r])[f] \in TicketValues(Type[f])
                            /\ SheetValue(f, run[r].row[f]) \in Stored(f)
    BY <2>1, PassResults
  <2>6. /\ ticket' \in [val : [Field -> Words], assigned : BOOLEAN]
        /\ \A f \in Field : ticket'.val[f] \in TicketValues(Type[f])
    <3>1. CASE UNCHANGED ticket
      BY <3>1 DEF TypeOK
    <3>2. CASE UpdateAllColumns(run[r].tk, MergedTicket(run[r]))
      BY <3>2, <2>5, AllColumnsType
    <3> QED BY <1>4, <3>1, <3>2 DEF MergeTicket
  <2>7. /\ conflict' \in [Field -> Conflict]
        /\ \A f \in Field :
              {conflict'[f].base, conflict'[f].sheet, conflict'[f].db} \subseteq Stored(f)
    <3>1. PICK lost : conflict' =
             [f \in Field |->
                IF f \in InClass(run[r], "conflict") \ lost
                THEN [open |-> TRUE, base |-> run[r].base[f],
                      sheet |-> SheetValue(f, run[r].row[f]), db |-> run[r].tk.val[f]]
                ELSE conflict[f]]
      BY <1>4 DEF MergeTicket, RecordConflicts
    <3>2. \A f \in Field : {run[r].base[f], run[r].tk.val[f],
                            SheetValue(f, run[r].row[f])} \subseteq Stored(f) \cap Words
      BY <2>1, <2>5, FieldTypes DEF PassValues
    <3> QED BY <3>1, <3>2 DEF TypeOK, Conflict
  <2> QED BY <1>4, <2>4, <2>6, <2>7 DEF MergeTicket, TypeOK, TextCells
<1>5. ASSUME NEW r \in Runs, SaveLink(r) PROVE TypeOK'
  <2> DEFINE p == IF run[r].op = "import" THEN IdleRun
                  ELSE [run[r] EXCEPT !.pc = "write", !.puts = Queued(run[r])]
  <2>1. run[r] \in Pass /\ PassValues(run[r]) /\ run[r].pc = "link"
    BY <1>5 DEF SaveLink, TypeOK
  <2>2. /\ NewBaseline(run[r]) \in [Field -> Words]
        /\ \A f \in Field : NewBaseline(run[r])[f] \in Stored(f)
        /\ Queued(run[r]) \subseteq Field
    BY <2>1, PassResults
  <2>3. p \in Pass /\ (p.pc # "idle" => PassValues(p))
    BY <2>1, <2>2, IdleRunType DEF Pass, PassValues, IdleRun
  <2>4. run' = [run EXCEPT ![r] = p]
    BY <1>5 DEF SaveLink, TypeOK
  <2> HIDE DEF p
  <2>5. /\ run' \in [Runs -> Pass]
        /\ \A s \in Runs : run'[s].pc # "idle" => PassValues(run'[s])
    BY <2>3, <2>4, OneRunChanges
  <2> QED BY <1>5, <2>2, <2>5 DEF SaveLink, TypeOK, TextCells
<1>6. ASSUME NEW r \in Runs, WriteCells(r) \/ WriteFails(r) PROVE TypeOK'
  <2>1. run' = [run EXCEPT ![r] = IdleRun] /\ run[r].pc = "write"
    BY <1>6 DEF WriteCells, WriteFails
  <2>2. /\ run' \in [Runs -> Pass]
        /\ \A s \in Runs : run'[s].pc # "idle" => PassValues(run'[s])
    BY <2>1, IdleRunType, OneRunChanges DEF IdleRun
  <2>3. cell' \in [Field -> Words] /\ TextCells(cell')
    <3>1. CASE WriteFails(r)
      BY <3>1 DEF WriteFails, TypeOK
    <3>2. CASE WriteCells(r)
      <4>1. ASSUME NEW f \in Field
            PROVE  LET raw == FormatFieldValue(Type[f], run[r].tk.val[f])
                   IN  /\ raw \in Words
                       /\ Type[f] \in {"text", "custom"} => raw \in Texts \cup {""}
        BY <2>1, FieldTypes, FormatFieldValueType DEF TypeOK, PassValues
      <4> QED BY <3>2, <4>1 DEF WriteCells, TypeOK, TextCells
    <3> QED BY <1>6, <3>1, <3>2
  <2> QED BY <1>6, <2>2, <2>3 DEF WriteCells, WriteFails, TypeOK
<1>7. ASSUME NEW f \in Field, NEW v \in TicketInput[f], EditTicket(f, v) PROVE TypeOK'
  <2>1. v \in TicketValues(Type[f]) /\ v \in Words
    BY SyncAssumption, FieldTypes
  <2>2. budget' \in Nat
    BY <1>7 DEF EditTicket, UserActs, TypeOK
  <2> QED BY <1>7, <2>1, <2>2 DEF EditTicket, TypeOK, TextCells
<1>8. ASSUME NEW f \in Field, NEW raw \in CellInput[f], EditSheet(f, raw) PROVE TypeOK'
  <2>1. raw \in Words /\ (Type[f] \in {"text", "custom"} => raw \in Texts \cup {""})
    BY SyncAssumption
  <2>2. budget' \in Nat
    BY <1>8 DEF EditSheet, UserActs, TypeOK
  <2>3. cell' \in [Field -> Words] /\ TextCells(cell')
    BY <1>8, <2>1 DEF EditSheet, TypeOK, TextCells
  <2> QED BY <1>8, <2>2, <2>3 DEF EditSheet, TypeOK
<1>9. ASSUME ChangeAssignee PROVE TypeOK'
  <2>1. budget' \in Nat
    BY <1>9 DEF ChangeAssignee, UserActs, TypeOK
  <2>2. ticket' \in [val : [Field -> Words], assigned : BOOLEAN] /\ ticket'.val = ticket.val
    BY <1>9 DEF ChangeAssignee, TypeOK
  <2> QED BY <1>9, <2>1, <2>2 DEF ChangeAssignee, TypeOK, TextCells
<1>10. ASSUME NEW m \in SUBSET Field, SaveMapping(m) PROVE TypeOK'
  <2>1. budget' \in Nat
    BY <1>10 DEF SaveMapping, UserActs, TypeOK
  <2> QED BY <1>10, <2>1 DEF SaveMapping, TypeOK, TextCells
<1>11. ASSUME NEW f \in Field, NEW v \in Stored(f), Review(f, v)
       PROVE  /\ budget' \in Nat
              /\ baseline' \in [Field -> Words] /\ conflict' \in [Field -> Conflict]
              /\ \A g \in Field :
                    /\ baseline'[g] \in Stored(g)
                    /\ {conflict'[g].base, conflict'[g].sheet, conflict'[g].db} \subseteq Stored(g)
  <2>1. budget' \in Nat
    BY <1>11 DEF Review, UserActs, TypeOK
  <2>2. v \in Words /\ NoConflict \in Conflict
    BY FieldTypes DEF NoConflict, Conflict, Words
  <2>3. \A g \in Field : {NoConflict.base, NoConflict.sheet, NoConflict.db} \subseteq Stored(g)
    BY FieldTypes DEF NoConflict
  <2> QED BY <1>11, <2>1, <2>2, <2>3 DEF Review, TypeOK
<1>12. ASSUME NEW f \in Field, ResolveSheet(f) PROVE TypeOK'
  <2> DEFINE v == SetTicketField(Type[f], conflict[f].sheet, ticket.val[f])
             t == [ticket.val EXCEPT ![f] = v]
  <2>1. conflict[f].sheet \in Stored(f) /\ conflict[f].sheet \in Words
    BY FieldTypes DEF TypeOK
  <2>2. Type[f] \in {"text", "custom"} => conflict[f].sheet \in Texts \cup {""}
    BY <2>1 DEF Stored, TicketValues
  <2>3. v \in TicketValues(Type[f]) /\ v \in Words
    BY <2>1, <2>2, CellTypes, FieldTypes DEF TypeOK
  <2>4. UpdateAllColumns(ticket, t)
    BY <1>12 DEF ResolveSheet, TypeOK
  <2>5. t \in [Field -> Words] /\ \A g \in Field : t[g] \in TicketValues(Type[g])
    BY <2>3 DEF TypeOK
  <2> HIDE DEF t
  <2>6. /\ ticket' \in [val : [Field -> Words], assigned : BOOLEAN]
        /\ \A g \in Field : ticket'.val[g] \in TicketValues(Type[g])
    BY <2>4, <2>5, AllColumnsType
  <2> QED BY <1>11, <1>12, <2>1, <2>6 DEF ResolveSheet, TypeOK, TextCells
<1>13. ASSUME NEW r \in Runs, NEW f \in Field, ResolveApp(r, f) PROVE TypeOK'
  <2> DEFINE p == [IdleRun EXCEPT !.pc = "write", !.op = "resolve",
                                  !.tk = ticket, !.puts = {f} \cap conn.mapped]
  <2>1. p \in Pass /\ PassValues(p)
    BY IdleRunType, FieldTypes DEF TypeOK, IdleRun, Pass, PassValues, TextCells, Blank
  <2>2. run' = [run EXCEPT ![r] = p]
    BY <1>13 DEF ResolveApp
  <2> HIDE DEF p
  <2>3. /\ run' \in [Runs -> Pass]
        /\ \A s \in Runs : run'[s].pc # "idle" => PassValues(run'[s])
    BY <2>1, <2>2, OneRunChanges
  <2>4. conflict[f].db \in Stored(f)
    BY DEF TypeOK
  <2> QED BY <1>11, <1>13, <2>3, <2>4 DEF ResolveApp, TypeOK, TextCells
<1>14. ASSUME Crash PROVE TypeOK'
  <2>1. budget' \in Nat
    BY <1>14 DEF Crash, TypeOK
  <2>2. run' \in [Runs -> Pass] /\ \A s \in Runs : run'[s].pc = "idle"
    BY <1>14, IdleRunType DEF Crash, IdleRun
  <2> QED BY <1>14, <2>1, <2>2 DEF Crash, TypeOK, TextCells
<1>15. ASSUME UNCHANGED vars PROVE TypeOK'
  BY <1>15 DEF vars, TypeOK, TextCells
<1>16. ASSUME ScheduledPass PROVE TypeOK'
  <2>1. PICK op \in {"import", "push", "reconcile"} : Load(AutoSync, op)
    BY <1>16 DEF ScheduledPass
  <2>2. AutoSync \in Runs /\ budget' \in Nat
    BY <1>16, SyncAssumption DEF ScheduledPass, TypeOK
  <2> QED BY <1>1, <2>1, <2>2
<1>17. ASSUME NEW r \in Runs, NEW op \in {"import", "push", "reconcile"}, RequestedPass(r, op)
       PROVE  TypeOK'
  <2>1. budget' \in Nat
    BY <1>17 DEF RequestedPass, UserActs, TypeOK
  <2> QED BY <1>1, <1>17, <2>1 DEF RequestedPass
<1> QED
  BY <1>2, <1>3, <1>4, <1>5, <1>6, <1>7, <1>8, <1>9, <1>10, <1>12, <1>13, <1>14, <1>15,
     <1>16, <1>17 DEF Next, PassStep

(* Whatever people type, wherever passes overlap, fail or die, a ticket     *)
(* holds values of its columns' types (services/import_service.go maps      *)
(* every status, amount and date) and so do the stored snapshots.           *)
THEOREM TypeCorrect ==
    ASSUME DefaultTransforms PROVE Spec => []TypeOK
<1>1. Init => TypeOK
  BY InitType
<1>2. TypeOK /\ [Next]_vars => TypeOK'
  BY StepType
<1> QED BY <1>1, <1>2, PTL DEF Spec
=============================================================================
