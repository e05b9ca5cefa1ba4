-------------------------- MODULE SheetMergeProofs --------------------------
(***************************************************************************)
(* The baseline that Reconcile merges against is a common ancestor of cell *)
(* and ticket, and so a reconcile overwrites nothing that the other side   *)
(* has not had, and a second one changes nothing, for any number of        *)
(* fields, values, passes and user actions, on the connections that Clean  *)
(* describes.                                                              *)
(***************************************************************************)
EXTENDS SheetMerge, SheetSyncProofs

(* One pass or person at a time, no failed cell writes or crashes, every    *)
(* ticket assigned, the mapping left alone, conflicts reviewed while they   *)
(* are up to date, and only the column types that round-trip.  Outside of   *)
(* it the theorems below are false: TLC finds the counterexamples.          *)
Clean ==
    /\ Hazards \subseteq {"insert_error"}
    /\ DefaultTransforms
    /\ \A f \in Field : Type[f] \in {"text", "custom", "currency", "bool"}

(* A value that both sides have had. *)
Shared(f, v) == v \in sheetHeld[f] \cap ticketHeld[f]

Steady == \A f \in conn.mapped : Shared(f, baseline[f])

(* The present values are among those observed; a custom field, which only  *)
(* the sheet can change, has no other.                                      *)
Observed ==
    \A f \in Field :
        /\ SheetValue(f, cell[f]) \in sheetHeld[f]
        /\ ticket.val[f] \in ticketHeld[f]
        /\ Type[f] = "custom" /\ f \in conn.mapped => ticket.val[f] \in sheetHeld[f]

(* Two values are too few for a conflict. *)
BoolsAgree ==
    \A f \in Field : Type[f] = "bool" =>
        /\ ~conflict[f].open
        /\ f \in conn.mapped => baseline[f] \in {"true", "false"}

OneAtATime == \A r, s \in Runs : Idle(r) \/ Idle(s) \/ r = s

(* The ticket that a pass leaves behind. *)
Outcome(p) ==
    CASE p.op = "import" -> ImportedTicket(p)
      [] p.op = "push"   -> p.tk.val
      [] OTHER           -> MergedTicket(p)

(* What a pass knows stays true while it is alone.  Until it saves the link *)
(* the baseline is shared; afterwards it is, or it is being delivered.      *)
Loaded(p) ==
    /\ p.row = cell
    /\ p.maps = conn.mapped
    /\ p.op \in {"import", "push", "reconcile"}
    /\ Steady

HasRead(p) ==
    /\ p.base = baseline
    /\ p.tk.assigned
    /\ \A f \in Field : p.tk.val[f] \in ticketHeld[f]

Delivers(p) ==
    /\ p.puts \subseteq conn.mapped
    /\ \A f \in conn.mapped :
          IF f \in p.puts
          THEN /\ baseline[f] = p.tk.val[f]
               /\ baseline[f] \in ticketHeld[f]
               /\ p.op = "reconcile" => SheetValue(f, cell[f]) \in ticketHeld[f]
          ELSE Shared(f, baseline[f])

RunInv(p) ==
    /\ p.pc \in {"read", "ticket", "link"} => Loaded(p)
    /\ p.pc \in {"ticket", "link"} => HasRead(p)
    /\ p.pc = "ticket" => p.tk = ticket /\ p.op # "push"
    /\ p.pc = "link" => ticket.val = Outcome(p)
    /\ p.pc = "write" => Delivers(p)

MergeInv ==
    /\ TypeOK
    /\ ticket.assigned
    /\ Observed
    /\ BoolsAgree
    /\ OneAtATime
    /\ (\A r \in Runs : Idle(r)) => Steady
    /\ \A r \in Runs : RunInv(run[r])
-----------------------------------------------------------------------------
(* On clean columns conversions lose nothing.  (The review hands over a     *)
(* value in canonical form where a cell's text is expected: "true" is not   *)
(* "Yes", but a yes/no column has no conflicts.)                            *)
LEMMA Conversions ==
    ASSUME Clean, NEW f \in Field
    PROVE  /\ \A v \in TicketValues(Type[f]) :
                 SheetValue(f, FormatFieldValue(Type[f], v)) = v
           /\ \A raw, old \in Words : SetTicketField(Type[f], raw, old) = SheetValue(f, raw)
           /\ Type[f] # "bool" => \A v \in TicketValues(Type[f]) : SheetValue(f, v) = v
<1>1. /\ Type[f] \in {"text", "custom", "currency", "bool"}
      /\ Transform[f] = TransformFor(Type[f])
  BY DEF Clean, DefaultTransforms
<1>2. RoundTrips(Type[f])
  BY <1>1, FourTypesRoundTrip
<1>3. Type[f] # "bool" => \A v \in TicketValues(Type[f]) : SheetValue(f, v) = v
  BY <1>1, ValuesAssumption
     DEF SheetValue, CanonicalValue, TransformFor, ParseCurrency, TicketValues
<1> QED BY <1>1, <1>2, <1>3 DEF RoundTrips, SheetValue

(* What has been observed is not forgotten.                                 *)
LEMMA Grows ==
    ASSUME Observe, NEW f \in Field
    PROVE  /\ sheetHeld[f] \subseteq sheetHeld'[f] /\ ticketHeld[f] \subseteq ticketHeld'[f]
           /\ SheetValue(f, cell'[f]) \in sheetHeld'[f]
           /\ ticket'.val[f] \in ticketHeld'[f]
BY DEF Observe

(* Baselines that stay put stay shared. *)
LEMMA SteadyStays ==
    ASSUME TypeOK, Observe, Steady, UNCHANGED <<conn, baseline>> PROVE Steady'
BY Grows DEF Steady, Shared, TypeOK

(* Sides that stay put have been observed already.                          *)
LEMMA ObservedStays ==
    ASSUME TypeOK, Observed, Observe, UNCHANGED conn,
           \A f \in conn.mapped : Type[f] = "custom" => ticket'.val[f] \in sheetHeld'[f]
    PROVE  Observed'
BY Grows DEF Observed

(* The only pass under way moves on, begins or ends. *)
LEMMA Solo ==
    ASSUME TypeOK, NEW r \in Runs, \A s \in Runs : s = r \/ Idle(s), NEW p \in Pass,
           run' = [run EXCEPT ![r] = p], RunInv(p)', p.pc = "idle" => Steady'
    PROVE  /\ OneAtATime'
           /\ (\A s \in Runs : Idle(s))' => Steady'
           /\ (\A s \in Runs : RunInv(run[s]))'
<1>1. run'[r] = p /\ \A s \in Runs : s # r => run'[s] = run[s] /\ run'[s].pc = "idle"
  BY DEF TypeOK, Idle
<1>2. OneAtATime'
  BY <1>1 DEF OneAtATime, Idle
<1>3. (\A s \in Runs : Idle(s))' => Steady'
  BY <1>1 DEF Idle
<1>4. (\A s \in Runs : RunInv(run[s]))'
  BY <1>1 DEF RunInv
<1> QED BY <1>2, <1>3, <1>4

(* Somebody acts while no pass is under way. *)
LEMMA Quiet ==
    ASSUME \A s \in Runs : Idle(s), UNCHANGED run, Steady'
    PROVE  /\ OneAtATime'
           /\ (\A s \in Runs : Idle(s))' => Steady'
           /\ (\A s \in Runs : RunInv(run[s]))'
BY DEF OneAtATime, Idle, RunInv

(* What a pass makes of a mapped field: the ticket it leaves behind says    *)
(* what the new baseline says, or the new baseline is kept or delivered.    *)
LEMMA Ancestors ==
    ASSUME Clean, MergeInv, NEW r \in Runs, run[r].pc = "link", NEW f \in conn.mapped
    PROVE  LET p == run[r]
               v == NewBaseline(p)[f]
           IN  /\ f \in Queued(p) =>
                     /\ v = p.tk.val[f]
                     /\ v \in ticketHeld[f]
                     /\ p.op = "reconcile" => SheetValue(f, cell[f]) \in ticketHeld[f]
               /\ f \notin Queued(p) => Shared(f, v)
               /\ Type[f] = "bool" => v \in {"true", "false"}
<1> DEFINE p == run[r]
<1>1. /\ p \in Pass /\ PassValues(p) /\ p.pc = "link"
      /\ p.row = cell /\ p.maps = conn.mapped /\ f \in Field
      /\ p.op \in {"import", "push", "reconcile"}
      /\ p.base = baseline /\ p.tk.val[f] \in ticketHeld[f]
      /\ Shared(f, baseline[f])
      /\ ticket.val = Outcome(p)
      /\ ticket.val[f] \in ticketHeld[f]
      /\ SheetValue(f, cell[f]) \in sheetHeld[f]
      /\ Type[f] = "custom" => ticket.val[f] \in sheetHeld[f]
  BY DEF MergeInv, TypeOK, RunInv, Loaded, HasRead, Steady, Observed
<1>2. /\ cell[f] \in Words /\ p.tk.val[f] \in Words
      /\ SetTicketField(Type[f], cell[f], p.tk.val[f]) = SheetValue(f, cell[f])
  BY <1>1, Conversions DEF Pass
<1>3. Type[f] = "bool" =>
         {ticket.val[f], p.tk.val[f], SheetValue(f, cell[f]), baseline[f]} \subseteq {"true", "false"}
  BY <1>1, <1>2 DEF MergeInv, TypeOK, BoolsAgree, PassValues, TicketValues, SheetValue,
                    Clean, DefaultTransforms, TransformFor, CanonicalValue, ParseBool
<1> HIDE DEF p
<1>4. CASE p.op = "import"
  <2>1. NewBaseline(p)[f] = ticket.val[f] /\ f \notin Queued(p)
    BY <1>1, <1>4 DEF NewBaseline, Outcome, Queued
  <2>2. ticket.val[f] = ImportField(Type[f], cell[f], p.tk.val[f])
    BY <1>1, <1>4 DEF Outcome, ImportedTicket
  <2>3. ticket.val[f] \in sheetHeld[f]
    BY <1>1, <1>2, <2>2 DEF ImportField
  <2> QED BY <1>1, <1>3, <1>4, <2>1, <2>3 DEF Shared, p
<1>5. CASE p.op = "push"
  <2>1. NewBaseline(p)[f] = p.tk.val[f] /\ f \in Queued(p)
    BY <1>1, <1>5 DEF NewBaseline, Queued
  <2> QED BY <1>1, <1>3, <1>5, <2>1 DEF p
<1>6. CASE p.op = "reconcile"
  <2>1. /\ ticket.val[f] = IF Verdict(p, f) = "sheetWins" THEN SheetValue(f, cell[f])
                           ELSE p.tk.val[f]
        /\ NewBaseline(p)[f] = CASE Verdict(p, f) = "sheetWins" -> SheetValue(f, cell[f])
                                  [] Verdict(p, f) = "conflict"  -> baseline[f]
                                  [] OTHER                       -> p.tk.val[f]
        /\ f \in Queued(p) <=> Verdict(p, f) = "dbWins"
    BY <1>1, <1>2, <1>6 DEF NewBaseline, Outcome, Queued, MergedTicket, InClass
  <2>2. Verdict(p, f) = ClassifyField(baseline[f], SheetValue(f, cell[f]), p.tk.val[f])
    BY <1>1 DEF Verdict
  <2>3. CASE Verdict(p, f) = "dbWins"
    <3>1. SheetValue(f, cell[f]) = baseline[f]
      BY <2>2, <2>3 DEF ClassifyField
    <3>2. NewBaseline(p)[f] = p.tk.val[f] /\ f \in Queued(p)
      BY <2>1, <2>3
    <3> QED BY <1>1, <1>3, <3>1, <3>2 DEF Shared, p
  <2>4. CASE Verdict(p, f) \in {"agree", "sheetWins"}
    <3>1. ticket.val[f] = SheetValue(f, cell[f])
      BY <2>1, <2>2, <2>4, VerdictMeaning
    <3>2. NewBaseline(p)[f] = ticket.val[f] /\ f \notin Queued(p)
      BY <2>1, <2>4
    <3> QED BY <1>1, <1>3, <3>1, <3>2 DEF Shared, p
  <2>5. CASE Verdict(p, f) = "conflict"
    BY <1>1, <1>3, <1>6, <2>1, <2>5 DEF Shared, p
  <2> QED BY <2>2, <2>3, <2>4, <2>5 DEF ClassifyField
<1> QED BY <1>1, <1>4, <1>5, <1>6
-----------------------------------------------------------------------------
(* What follows for the whole state while pass r is under way. *)
LEMMA Busy ==
    ASSUME MergeInv, NEW r \in Runs, ~Idle(r)
    PROVE  /\ TypeOK /\ ticket.assigned /\ Observed /\ BoolsAgree
           /\ run[r] \in Pass /\ PassValues(run[r]) /\ RunInv(run[r])
           /\ \A s \in Runs : s = r \/ Idle(s)
BY DEF MergeInv, OneAtATime, TypeOK, Idle

(* A pass loads the row and the mapping.                                    *)
LEMMA PassBegins ==
    ASSUME Clean, MergeInv, Observe, TypeOK', Undisturbed,
           NEW r \in Runs, NEW op \in {"import", "push", "reconcile"}, Load(r, op)
    PROVE  MergeInv'
<1>1. \A s \in Runs : Idle(s)
  BY DEF Undisturbed, Clean
<1>2. UNCHANGED <<ticket, cell, conn, baseline, conflict>>
  BY DEF Load
<1>3. Steady'
  BY <1>1, <1>2, SteadyStays DEF MergeInv
<1> DEFINE q == [IdleRun EXCEPT !.pc = "read", !.op = op, !.maps = conn.mapped, !.row = cell]
<1>q. /\ q \in Pass /\ run' = [run EXCEPT ![r] = q]
      /\ q.pc = "read" /\ q.op = op /\ q.maps = conn.mapped /\ q.row = cell
  <2>1. conn.mapped \in SUBSET Field /\ cell \in [Field -> Words]
    BY DEF MergeInv, TypeOK
  <2>2. q \in Pass /\ q.pc = "read" /\ q.op = op /\ q.maps = conn.mapped /\ q.row = cell
    BY <2>1, IdleRunType DEF Pass
  <2> QED BY <2>2 DEF Load
<1> HIDE DEF q
<1>4. PICK p \in Pass : p = q /\ run' = [run EXCEPT ![r] = p]
  BY <1>q
<1>5. RunInv(p)'
  BY <1>2, <1>3, <1>4, <1>q DEF RunInv, Loaded
<1>6. p.pc = "read"
  BY <1>4, <1>q
<1>7. /\ OneAtATime' /\ ((\A s \in Runs : Idle(s))' => Steady')
      /\ (\A s \in Runs : RunInv(run[s]))'
  BY <1>1, <1>4, <1>5, <1>6, Solo DEF MergeInv
<1>8. Observed'
  BY <1>2, ObservedStays, Grows DEF MergeInv, Observed, TypeOK
<1> QED BY <1>2, <1>7, <1>8 DEF MergeInv, BoolsAgree

(* The ticket and the baseline that a pass reads are those of the moment.   *)
LEMMA TicketIsRead ==
    ASSUME Clean, MergeInv, Observe, TypeOK', NEW r \in Runs, ReadTicket(r)
    PROVE  MergeInv'
<1>1. ~Idle(r) /\ run[r].pc = "read"
  BY DEF ReadTicket, Idle
<1>2. UNCHANGED <<ticket, cell, conn, baseline, conflict>>
  BY DEF ReadTicket
<1>3. Loaded(run[r])
  BY <1>1, Busy DEF RunInv
<1>4. Steady'
  BY <1>2, <1>3, SteadyStays DEF MergeInv, Loaded
<1> DEFINE q == [run[r] EXCEPT !.tk = ticket, !.base = baseline,
                               !.pc = IF run[r].op = "push" THEN "link" ELSE "ticket"]
<1>q. /\ q \in Pass /\ run' = [run EXCEPT ![r] = q]
      /\ q.pc \in {"link", "ticket"} /\ (q.pc = "link" <=> q.op = "push")
      /\ q.op = run[r].op /\ q.row = run[r].row /\ q.maps = run[r].maps
      /\ q.tk = ticket /\ q.base = baseline
  BY <1>1, Busy DEF ReadTicket, TypeOK, Pass
<1> HIDE DEF q
<1>5. PICK p \in Pass : p = q /\ run' = [run EXCEPT ![r] = p]
  BY <1>q
<1>6. /\ p.pc \in {"link", "ticket"} /\ (p.pc = "link" <=> p.op = "push")
      /\ p.op = run[r].op /\ p.row = run[r].row /\ p.maps = run[r].maps
      /\ p.tk = ticket /\ p.base = baseline
  BY <1>5, <1>q
<1>7. RunInv(p)'
  <2>1. Loaded(p)'
    BY <1>2, <1>3, <1>4, <1>6 DEF Loaded
  <2>2. HasRead(p)'
    BY <1>1, <1>2, <1>6, Busy, Grows DEF HasRead, Observed
  <2>3. p.pc = "link" => (ticket.val = Outcome(p))'
    BY <1>2, <1>6 DEF Outcome
  <2> QED BY <1>2, <1>6, <2>1, <2>2, <2>3 DEF RunInv
<1>8. /\ OneAtATime' /\ ((\A s \in Runs : Idle(s))' => Steady')
      /\ (\A s \in Runs : RunInv(run[s]))'
  BY <1>1, <1>4, <1>5, <1>7, Busy, Solo
<1>9. Observed'
  BY <1>2, ObservedStays, Grows DEF MergeInv, Observed, TypeOK
<1> QED BY <1>2, <1>8, <1>9 DEF MergeInv, BoolsAgree

(* The ticket is updated, by an import or by a merge, to the pass's outcome. *)
LEMMA TicketIsUpdated ==
    ASSUME Clean, MergeInv, Observe, TypeOK', NEW r \in Runs, run[r].pc = "ticket",
           UNCHANGED <<cell, conn, baseline>>, BoolsAgree',
           run' = [run EXCEPT ![r] = [run[r] EXCEPT !.pc = "link"]],
           ticket' = [val |-> Outcome(run[r]), assigned |-> TRUE]
    PROVE  MergeInv'
<1>1. ~Idle(r) /\ Loaded(run[r]) /\ HasRead(run[r]) /\ run[r].tk = ticket
  BY Busy DEF Idle, RunInv
<1>2. Steady'
  BY <1>1, SteadyStays DEF MergeInv, Loaded
<1> DEFINE q == [run[r] EXCEPT !.pc = "link"]
<1>3. /\ q \in Pass /\ run' = [run EXCEPT ![r] = q] /\ q.pc = "link"
      /\ q.op = run[r].op /\ q.row = run[r].row /\ q.maps = run[r].maps
      /\ q.tk = run[r].tk /\ q.base = run[r].base
  BY <1>1, Busy DEF Pass
<1>4. Outcome(q) = Outcome(run[r])
  BY <1>3 DEF Outcome, ImportedTicket, MergedTicket, InClass, Verdict
<1> HIDE DEF q
<1>5. PICK p \in Pass : p = q /\ run' = [run EXCEPT ![r] = p]
  BY <1>3
<1>6. RunInv(p)'
  <2>1. Loaded(p)'
    BY <1>1, <1>2, <1>3, <1>5 DEF Loaded
  <2>2. HasRead(p)'
    BY <1>1, <1>3, <1>5, Grows DEF HasRead
  <2>3. ticket'.val = Outcome(p)
    BY <1>4, <1>5
  <2>4. p.pc = "link"
    BY <1>3, <1>5
  <2> QED BY <2>1, <2>2, <2>3, <2>4 DEF RunInv, Outcome, ImportedTicket, MergedTicket, InClass, Verdict
<1>7. /\ OneAtATime' /\ ((\A s \in Runs : Idle(s))' => Steady')
      /\ (\A s \in Runs : RunInv(run[s]))'
  BY <1>1, <1>2, <1>5, <1>6, Busy, Solo
<1>8. ASSUME NEW f \in conn.mapped, Type[f] = "custom"
      PROVE  ticket'.val[f] \in sheetHeld'[f]
  <2>1. f \in Field /\ ticket.val[f] \in sheetHeld[f] /\ SheetValue(f, cell[f]) \in sheetHeld[f]
    BY <1>8 DEF MergeInv, TypeOK, Observed
  <2>2. SetTicketField(Type[f], cell[f], ticket.val[f]) = SheetValue(f, cell[f])
    BY <2>1, Conversions DEF MergeInv, TypeOK
  <2>3. Outcome(run[r])[f] \in {ticket.val[f], SheetValue(f, cell[f])}
    BY <1>1, <2>1, <2>2
       DEF Outcome, ImportedTicket, ImportField, MergedTicket, Loaded
  <2> QED BY <2>1, <2>3, Grows
<1>9. Observed'
  BY <1>8, ObservedStays DEF MergeInv
<1> QED BY <1>7, <1>9 DEF MergeInv

(* An import's ticket update.                                               *)
LEMMA TicketIsImported ==
    ASSUME Clean, MergeInv, Observe, TypeOK', NEW r \in Runs, ImportTicket(r)
    PROVE  MergeInv'
<1>1. /\ run[r].pc = "ticket" /\ run[r].op = "import"
      /\ UNCHANGED <<cell, conn, baseline, conflict>>
  BY DEF ImportTicket
<1>2. run[r].tk.assigned
  BY <1>1, Busy DEF Idle, RunInv, HasRead
<1>3. run' = [run EXCEPT ![r] = [run[r] EXCEPT !.pc = "link"]]
  BY <1>2 DEF ImportTicket, MergeInv, TypeOK
<1>4. ticket' = [val |-> Outcome(run[r]), assigned |-> TRUE]
  BY <1>1, <1>2 DEF ImportTicket, UpdateAllColumns, Outcome
<1>5. BoolsAgree'
  BY <1>1 DEF MergeInv, BoolsAgree
<1> QED BY <1>1, <1>3, <1>4, <1>5, TicketIsUpdated

(* A reconcile's ticket update.                                             *)
LEMMA TicketIsMerged ==
    ASSUME Clean, MergeInv, Observe, TypeOK', NEW r \in Runs, MergeTicket(r)
    PROVE  MergeInv'
<1>1. /\ run[r].pc = "ticket" /\ run[r].op = "reconcile"
      /\ UNCHANGED <<cell, conn, baseline>>
  BY DEF MergeTicket
<1>2. /\ ~Idle(r) /\ run[r].tk.assigned /\ run[r].tk = ticket
      /\ Loaded(run[r]) /\ run[r].base = baseline
  BY <1>1, Busy DEF Idle, RunInv, HasRead
<1>3. run' = [run EXCEPT ![r] = [run[r] EXCEPT !.pc = "link"]]
  BY DEF MergeTicket, MergeInv, TypeOK
<1>4. ticket' = [val |-> Outcome(run[r]), assigned |-> TRUE]
  <2>1. CASE InClass(run[r], "sheetWins") = {}
    <3>1. MergedTicket(run[r]) = [f \in Field |-> ticket.val[f]]
      BY <1>2, <2>1 DEF MergedTicket
    <3>2. ticket = [val |-> [f \in Field |-> ticket.val[f]], assigned |-> TRUE]
      BY DEF MergeInv, TypeOK
    <3> QED BY <1>1, <2>1, <3>1, <3>2 DEF MergeTicket, Outcome
  <2>2. CASE InClass(run[r], "sheetWins") # {}
    BY <1>1, <1>2, <2>2 DEF MergeTicket, UpdateAllColumns, Outcome
  <2> QED BY <2>1, <2>2
<1>5. ASSUME NEW f \in Field, Type[f] = "bool" PROVE f \notin InClass(run[r], "conflict")
  <2>1. SUFFICES ASSUME f \in conn.mapped, Verdict(run[r], f) = "conflict" PROVE FALSE
    BY <1>2 DEF InClass, Loaded
  <2>2. {ticket.val[f], SheetValue(f, cell[f]), baseline[f]} \subseteq {"true", "false"}
    BY <1>5, <2>1 DEF MergeInv, TypeOK, BoolsAgree, TicketValues, SheetValue, Clean,
                      DefaultTransforms, TransformFor, CanonicalValue, ParseBool
  <2>3. ClassifyField(baseline[f], SheetValue(f, cell[f]), ticket.val[f]) = "conflict"
    BY <1>2, <2>1 DEF Verdict, Loaded
  <2> QED BY <2>2, <2>3 DEF ClassifyField
<1>6. BoolsAgree'
  BY <1>1, <1>5 DEF MergeInv, BoolsAgree, MergeTicket, RecordConflicts
<1> QED BY <1>1, <1>3, <1>4, <1>6, TicketIsUpdated

(* The new baseline is shared, or it is queued for the cell.                *)
LEMMA LinkIsSaved ==
    ASSUME Clean, MergeInv, Observe, TypeOK', NEW r \in Runs, SaveLink(r)
    PROVE  MergeInv'
<1>1. /\ run[r].pc = "link" /\ ~Idle(r)
      /\ baseline' = NewBaseline(run[r])
      /\ UNCHANGED <<ticket, cell, conn, conflict>>
  BY DEF SaveLink, Idle
<1>2. /\ Loaded(run[r]) /\ run[r] \in Pass /\ Queued(run[r]) \subseteq conn.mapped
      /\ run[r].op = "import" => Queued(run[r]) = {}
  BY <1>1, Busy DEF RunInv, Loaded, Queued, InClass
<1> DEFINE q == IF run[r].op = "import" THEN IdleRun
                ELSE [run[r] EXCEPT !.pc = "write", !.puts = Queued(run[r])]
<1>3. /\ q \in Pass /\ run' = [run EXCEPT ![r] = q]
      /\ q.pc = IF run[r].op = "import" THEN "idle" ELSE "write"
      /\ q.pc = "write" => q.puts = Queued(run[r]) /\ q.tk = run[r].tk /\ q.op = run[r].op
  <2>1. Queued(run[r]) \subseteq Field
    BY <1>2 DEF MergeInv, TypeOK
  <2> QED BY <1>2, <2>1, IdleRunType DEF SaveLink, IdleRun, Pass, MergeInv, TypeOK
<1> HIDE DEF q
<1>4. PICK p \in Pass : p = q /\ run' = [run EXCEPT ![r] = p]
  BY <1>3
<1>5. ASSUME NEW f \in conn.mapped, f \notin Queued(run[r]) PROVE Shared(f, baseline[f])'
  BY <1>1, <1>5, Ancestors, Grows DEF Shared, MergeInv, TypeOK
<1>6. p.pc = "idle" => Steady'
  BY <1>1, <1>2, <1>3, <1>4, <1>5 DEF Steady
<1>7. RunInv(p)'
  <2>1. CASE p.pc = "idle"
    BY <2>1 DEF RunInv
  <2>2. CASE p.pc = "write"
    <3>1. ASSUME NEW f \in conn.mapped, f \in p.puts
          PROVE  /\ baseline'[f] = p.tk.val[f]
                 /\ baseline'[f] \in ticketHeld'[f]
                 /\ p.op = "reconcile" => SheetValue(f, cell'[f]) \in ticketHeld'[f]
      BY <1>1, <1>3, <1>4, <2>2, <3>1, Ancestors, Grows DEF MergeInv, TypeOK
    <3>2. Delivers(p)'
      BY <1>1, <1>2, <1>3, <1>4, <1>5, <2>2, <3>1 DEF Delivers
    <3> QED BY <2>2, <3>2 DEF RunInv
  <2> QED BY <1>3, <1>4, <2>1, <2>2
<1>8. /\ OneAtATime' /\ ((\A s \in Runs : Idle(s))' => Steady')
      /\ (\A s \in Runs : RunInv(run[s]))'
  BY <1>1, <1>4, <1>6, <1>7, Busy, Solo
<1>9. Observed'
  BY <1>1, ObservedStays, Grows DEF MergeInv, Observed, TypeOK
<1>10. BoolsAgree'
  BY <1>1, Ancestors DEF MergeInv, BoolsAgree
<1> QED BY <1>1, <1>8, <1>9, <1>10 DEF MergeInv

(* Once the cells are written every baseline is shared.                     *)
LEMMA CellsAreWritten ==
    ASSUME Clean, MergeInv, Observe, TypeOK', NEW r \in Runs, WriteCells(r)
    PROVE  MergeInv'
<1>1. /\ run[r].pc = "write" /\ ~Idle(r)
      /\ UNCHANGED <<ticket, conn, baseline, conflict>>
      /\ run' = [run EXCEPT ![r] = IdleRun]
  BY DEF WriteCells, Idle
<1>2. Delivers(run[r]) /\ PassValues(run[r])
  BY <1>1, Busy DEF RunInv
<1>3. ASSUME NEW f \in conn.mapped PROVE Shared(f, baseline[f])'
  <2>1. f \in Field
    BY DEF MergeInv, TypeOK
  <2>2. CASE f \in run[r].puts
    <3>1. cell'[f] = FormatFieldValue(Type[f], run[r].tk.val[f])
      BY <2>1, <2>2 DEF WriteCells
    <3>2. SheetValue(f, cell'[f]) = run[r].tk.val[f]
      BY <1>1, <1>2, <2>1, <3>1, Conversions DEF PassValues
    <3> QED BY <1>1, <1>2, <2>1, <2>2, <3>2, Grows DEF Delivers, Shared
  <2>3. CASE f \notin run[r].puts
    BY <1>1, <1>2, <2>1, <2>3, Grows DEF Delivers, Shared
  <2> QED BY <2>2, <2>3
<1>4. Steady'
  BY <1>1, <1>3 DEF Steady
<1>5. PICK p \in Pass : p.pc = "idle" /\ run' = [run EXCEPT ![r] = p]
  BY <1>1, IdleRunType DEF IdleRun
<1>6. RunInv(p)'
  BY <1>5 DEF RunInv
<1>7. /\ OneAtATime' /\ ((\A s \in Runs : Idle(s))' => Steady')
      /\ (\A s \in Runs : RunInv(run[s]))'
  BY <1>1, <1>4, <1>5, <1>6, Busy, Solo
<1>8. Observed'
  BY <1>1, ObservedStays, Grows DEF MergeInv, Observed, TypeOK
<1> QED BY <1>1, <1>7, <1>8 DEF MergeInv, BoolsAgree

(* People edit a ticket or the sheet; baselines stay.                       *)
LEMMA PeopleEdit ==
    ASSUME Clean, MergeInv, Observe, TypeOK',
           \/ \E f \in Field : \E v \in TicketInput[f] : EditTicket(f, v)
           \/ \E f \in Field : \E raw \in CellInput[f] : EditSheet(f, raw)
    PROVE  MergeInv'
<1>1. /\ \A s \in Runs : Idle(s)
      /\ UNCHANGED <<conn, baseline, conflict, run>>
      /\ ticket'.assigned
      /\ \A f \in Field : Type[f] = "custom" => ticket'.val[f] = ticket.val[f]
  BY DEF EditTicket, EditSheet, UserActs, Undisturbed, Clean, MergeInv, TypeOK
<1>2. Steady'
  BY <1>1, SteadyStays DEF MergeInv
<1>3. Observed'
  BY <1>1, ObservedStays, Grows DEF MergeInv, Observed, TypeOK
<1> QED BY <1>1, <1>2, <1>3, Quiet DEF MergeInv, BoolsAgree

(* "Sheet": the value the cell still has becomes the ticket's and the baseline. *)
LEMMA SheetIsChosen ==
    ASSUME Clean, MergeInv, Observe, TypeOK', NEW f \in Field, ResolveSheet(f)
    PROVE  MergeInv'
<1>1. /\ \A s \in Runs : Idle(s)
      /\ UNCHANGED <<cell, conn, run>>
      /\ conflict[f].open /\ Type[f] # "bool"
      /\ conflict[f].sheet = SheetValue(f, cell[f])
      /\ baseline' = [baseline EXCEPT ![f] = SheetValue(f, cell[f])]
      /\ conflict' = [conflict EXCEPT ![f] = NoConflict]
  BY DEF ResolveSheet, Review, UpToDate, UserActs, Undisturbed, Clean, MergeInv, BoolsAgree
<1>2. SheetValue(f, cell[f]) \in TicketValues(Type[f])
  BY CellTypes DEF Clean, MergeInv, TypeOK, TextCells
<1>3. SetTicketField(Type[f], SheetValue(f, cell[f]), ticket.val[f]) = SheetValue(f, cell[f])
  <2>1. {SheetValue(f, cell[f]), ticket.val[f]} \subseteq Words
    BY <1>2, FieldTypes DEF MergeInv, TypeOK
  <2>2. SheetValue(f, SheetValue(f, cell[f])) = SheetValue(f, cell[f])
    BY <1>1, <1>2, Conversions
  <2> QED BY <2>1, <2>2, Conversions
<1>4. ticket' = [val |-> [ticket.val EXCEPT ![f] = SheetValue(f, cell[f])], assigned |-> TRUE]
  BY <1>1, <1>3 DEF ResolveSheet, UpdateAllColumns, MergeInv, TypeOK
<1>5. ticket'.assigned /\ \A g \in Field :
         ticket'.val[g] = IF g = f THEN SheetValue(f, cell[f]) ELSE ticket.val[g]
  BY <1>4 DEF MergeInv, TypeOK
<1>6. Steady'
  <2>1. ASSUME NEW g \in conn.mapped PROVE Shared(g, baseline[g])'
    <3>1. g \in Field /\ Shared(g, baseline[g])
      BY <1>1 DEF MergeInv, TypeOK, Steady
    <3>2. CASE g = f
      BY <1>1, <1>5, <3>1, <3>2, Grows DEF Shared, MergeInv, TypeOK
    <3>3. CASE g # f
      BY <1>1, <3>1, <3>3, Grows DEF Shared, MergeInv, TypeOK
    <3> QED BY <3>2, <3>3
  <2> QED BY <1>1, <2>1 DEF Steady
<1>7. Observed'
  BY <1>1, <1>5, ObservedStays, Grows DEF MergeInv, Observed, TypeOK
<1>8. BoolsAgree'
  BY <1>1 DEF MergeInv, BoolsAgree, TypeOK
<1> QED BY <1>1, <1>5, <1>6, <1>7, <1>8, Quiet DEF MergeInv

(* "App": the value the ticket still has becomes the baseline, to be delivered. *)
LEMMA AppIsChosen ==
    ASSUME Clean, MergeInv, Observe, TypeOK', NEW r \in Runs, NEW f \in Field, ResolveApp(r, f)
    PROVE  MergeInv'
<1>1. /\ \A s \in Runs : Idle(s)
      /\ UNCHANGED <<ticket, cell, conn>>
      /\ Type[f] # "bool"
      /\ baseline' = [baseline EXCEPT ![f] = ticket.val[f]]
      /\ conflict' = [conflict EXCEPT ![f] = NoConflict]
  BY DEF ResolveApp, Review, UpToDate, UserActs, Undisturbed, Clean, MergeInv, BoolsAgree
<1> DEFINE q == [IdleRun EXCEPT !.pc = "write", !.op = "resolve",
                                !.tk = ticket, !.puts = {f} \cap conn.mapped]
<1>2. /\ q \in Pass /\ run' = [run EXCEPT ![r] = q]
      /\ q.pc = "write" /\ q.op = "resolve" /\ q.tk = ticket /\ q.puts = {f} \cap conn.mapped
  BY IdleRunType DEF ResolveApp, MergeInv, TypeOK, IdleRun, Pass, Blank
<1> HIDE DEF q
<1>3. PICK p \in Pass : p = q /\ run' = [run EXCEPT ![r] = p]
  BY <1>2
<1>4. ASSUME NEW g \in conn.mapped
      PROVE  IF g = f THEN baseline'[g] = ticket.val[g] /\ baseline'[g] \in ticketHeld'[g]
                      ELSE Shared(g, baseline[g])'
  <2>1. g \in Field /\ Shared(g, baseline[g]) /\ ticket.val[g] \in ticketHeld[g]
    BY <1>1 DEF MergeInv, TypeOK, Steady, Observed
  <2> QED BY <1>1, <2>1, Grows DEF Shared, MergeInv, TypeOK
<1>5. RunInv(p)'
  BY <1>1, <1>2, <1>3, <1>4 DEF RunInv, Delivers
<1>6. p.pc = "write"
  BY <1>2, <1>3
<1>7. /\ OneAtATime' /\ ((\A s \in Runs : Idle(s))' => Steady')
      /\ (\A s \in Runs : RunInv(run[s]))'
  BY <1>1, <1>3, <1>5, <1>6, Solo DEF MergeInv
<1>8. Observed'
  BY <1>1, ObservedStays, Grows DEF MergeInv, Observed, TypeOK
<1>9. BoolsAgree'
  BY <1>1 DEF MergeInv, BoolsAgree, TypeOK
<1> QED BY <1>1, <1>7, <1>8, <1>9 DEF MergeInv

(* The import that created the ticket gave both sides one value.            *)
LEMMA MergeInvHoldsAtFirst ==
    ASSUME Clean, MInit PROVE MergeInv
<1>1. TypeOK
  BY InitType DEF Clean, MInit
<1>2. \A r \in Runs : Idle(r) /\ run[r].pc = "idle"
  BY DEF MInit, Init, Idle, IdleRun
<1>3. ASSUME NEW f \in Field, f \in conn.mapped
      PROVE  /\ ticket.val[f] = SheetValue(f, cell[f]) \/ (Type[f] = "custom" /\ cell[f] = ""
                                                             /\ ticket.val[f] = "")
             /\ baseline[f] = ticket.val[f]
  <2>1. /\ ticket.val[f] = ImportField(Type[f], cell[f], NewTicketValue(Type[f]))
        /\ baseline[f] = ticket.val[f]
    BY <1>3 DEF MInit, Init
  <2>2. cell[f] \in Words /\ NewTicketValue(Type[f]) \in Words
    BY <1>1, FieldTypes DEF TypeOK
  <2> QED BY <2>1, <2>2, Conversions DEF ImportField, NewTicketValue
<1>4. \A f \in Field : Type[f] = "custom" => SheetValue(f, "") = ""
  BY DEF Clean, DefaultTransforms, SheetValue, TransformFor, CanonicalValue
<1>5. Observed
  BY <1>3, <1>4 DEF MInit, Observed
<1>6. Steady
  BY <1>1, <1>3, <1>4 DEF MInit, Steady, Shared, TypeOK
<1>7. BoolsAgree
  BY <1>1, <1>3 DEF MInit, Init, BoolsAgree, NoConflict, TypeOK, TicketValues
<1>8. ticket.assigned
  BY DEF MInit, Init, Clean
<1> QED BY <1>1, <1>2, <1>5, <1>6, <1>7, <1>8 DEF MergeInv, OneAtATime, RunInv

(* Every step of the system keeps the inductive invariant.                  *)
LEMMA MergeInvIsKept ==
    ASSUME Clean, MergeInv, [MNext]_mvars PROVE MergeInv'
<1>1. TypeOK'
  BY StepType DEF Clean, MergeInv, MNext, mvars
<1>2. CASE UNCHANGED mvars
  BY <1>1, <1>2 DEF mvars, vars, MergeInv, Observed, BoolsAgree, OneAtATime, Idle, Steady,
                    Shared, RunInv, Loaded, HasRead, Delivers, Outcome, ImportedTicket,
                    MergedTicket, InClass, Verdict
<1>3. CASE MNext
  <2>1. Observe /\ Next
    BY <1>3 DEF MNext
  <2>2. ASSUME ScheduledPass PROVE MergeInv'
    <3>1. PICK op \in {"import", "push", "reconcile"} : Load(AutoSync, op)
      BY <2>2 DEF ScheduledPass
    <3> QED BY <1>1, <2>1, <2>2, <3>1, SyncAssumption, PassBegins DEF ScheduledPass
  <2>3. ASSUME NEW r \in Runs, NEW op \in {"import", "push", "reconcile"}, RequestedPass(r, op)
        PROVE  MergeInv'
    BY <1>1, <2>1, <2>3, PassBegins DEF RequestedPass, UserActs
  <2>4. ASSUME NEW r \in Runs, PassStep(r) PROVE MergeInv'
    <3>1. ~WriteFails(r)
      BY DEF WriteFails, Clean
    <3> QED BY <1>1, <2>1, <2>4, <3>1, TicketIsRead, TicketIsImported, TicketIsMerged,
               LinkIsSaved, CellsAreWritten DEF PassStep
  <2>5. ~ChangeAssignee /\ ~Crash /\ \A m : ~SaveMapping(m)
    BY DEF ChangeAssignee, Crash, SaveMapping, Clean
  <2> QED BY <1>1, <2>1, <2>2, <2>3, <2>4, <2>5, PeopleEdit, SheetIsChosen, AppIsChosen DEF Next
<1> QED BY <1>2, <1>3

(* The inductive invariant behind the three properties of the merge.        *)
THEOREM MergeInvCorrect ==
    ASSUME Clean PROVE MSpec => []MergeInv
<1>1. MInit => MergeInv
  BY MergeInvHoldsAtFirst
<1>2. MergeInv /\ [MNext]_mvars => MergeInv'
  BY MergeInvIsKept
<1> QED BY <1>1, <1>2, PTL DEF MSpec

(* classifyField may take the baseline of a mapped field for a value that   *)
(* both the cell and the ticket have had (or that is on its way to the      *)
(* cell): Import, Push, Reconcile and the conflict review keep it so.       *)
THEOREM BaselineIsCommonAncestor ==
    ASSUME Clean PROVE MSpec => []CommonAncestor
<1>1. ASSUME MergeInv PROVE CommonAncestor
  <2>1. CASE \A r \in Runs : Idle(r)
    BY <1>1, <2>1 DEF MergeInv, Steady, Shared, CommonAncestor
  <2>2. ASSUME NEW r \in Runs, ~Idle(r) PROVE CommonAncestor
    <3>1. RunInv(run[r]) /\ run[r].pc \in {"read", "ticket", "link", "write"}
      BY <1>1, <2>2, Busy DEF Pass, Idle
    <3>2. CASE run[r].pc # "write"
      BY <3>1, <3>2 DEF RunInv, Loaded, Steady, Shared, CommonAncestor
    <3>3. CASE run[r].pc = "write"
      BY <3>1, <3>3 DEF RunInv, Delivers, Shared, CommonAncestor, Delivering
    <3> QED BY <3>2, <3>3
  <2> QED BY <2>1, <2>2
<1> QED BY <1>1, MergeInvCorrect, PTL

(* Reconcile overwrites a ticket's value only if the sheet has once shown   *)
(* it: nothing that people entered in the app is lost undelivered.          *)
THEOREM TicketEditsSurvive ==
    ASSUME Clean PROVE MSpec => NoLostTicketEdit
<1>1. ASSUME MergeInv, NEW r \in Runs, NEW f \in Field, run[r].op = "reconcile",
             MergeTicket(r), ticket'.val[f] # ticket.val[f]
      PROVE  ticket.val[f] \in sheetHeld[f]
  <2>1. run[r].pc = "ticket" /\ ~Idle(r)
    BY <1>1 DEF MergeTicket, Idle
  <2>2. /\ run[r].tk = ticket /\ run[r].base = baseline /\ run[r].tk.assigned
        /\ run[r].maps = conn.mapped /\ Steady
    BY <1>1, <2>1, Busy DEF RunInv, HasRead, Loaded
  <2>3. f \in InClass(run[r], "sheetWins")
    BY <1>1, <2>2 DEF MergeTicket, UpdateAllColumns, MergedTicket
  <2>4. f \in conn.mapped /\ ticket.val[f] = baseline[f]
    BY <2>2, <2>3 DEF InClass, Verdict, ClassifyField
  <2> QED BY <2>2, <2>4 DEF Steady, Shared
<1>2. MergeInv => [\A r \in Runs, f \in Field :
          run[r].op = "reconcile" /\ MergeTicket(r) /\ ticket'.val[f] # ticket.val[f]
             => ticket.val[f] \in sheetHeld[f]]_mvars
  BY <1>1
<1> QED BY <1>2, MergeInvCorrect, PTL DEF NoLostTicketEdit

(* Reconcile overwrites a cell only if the ticket has once had what the     *)
(* cell says: nothing that people typed in the sheet is lost unread.        *)
THEOREM SheetEditsSurvive ==
    ASSUME Clean PROVE MSpec => NoLostSheetEdit
<1>1. ASSUME MergeInv, NEW r \in Runs, NEW f \in Field, run[r].op = "reconcile",
             WriteCells(r), cell'[f] # cell[f]
      PROVE  SheetValue(f, cell[f]) \in ticketHeld[f]
  <2>1. run[r].pc = "write" /\ ~Idle(r) /\ f \in run[r].puts
    BY <1>1 DEF WriteCells, Idle
  <2>2. Delivers(run[r])
    BY <1>1, <2>1, Busy DEF RunInv
  <2> QED BY <1>1, <2>1, <2>2 DEF Delivers
<1>2. MergeInv => [\A r \in Runs, f \in Field :
          run[r].op = "reconcile" /\ WriteCells(r) /\ cell'[f] # cell[f]
             => SheetValue(f, cell[f]) \in ticketHeld[f]]_mvars
  BY <1>1
<1> QED BY <1>2, MergeInvCorrect, PTL DEF NoLostSheetEdit
-----------------------------------------------------------------------------
(* A field at which a reconcile would change nothing. *)
AtRest(f) ==
    LET verdict == ClassifyField(baseline[f], SheetValue(f, cell[f]), ticket.val[f])
    IN  \/ verdict = "agree"
        \/ verdict = "conflict" /\ (conflict[f].open => UpToDate(f))

(* A reconcile between its ticket update and its link has its conflicts on  *)
(* record; after the link, what is not queued for a cell is at rest.        *)
Settles(p) ==
    p.op = "reconcile" =>
        /\ conn.direction = "two_way"
        /\ p.pc = "link" => \A f \in InClass(p, "conflict") : conflict[f].open => UpToDate(f)
        /\ p.pc = "write" =>
              \A f \in conn.mapped : IF f \in p.puts THEN ticket.val[f] = p.tk.val[f] ELSE AtRest(f)

(* Until somebody acts there is no other pass than the scheduler's, and     *)
(* that is a reconcile.                                                     *)
RestInv ==
    /\ \A r \in Runs : Settles(run[r])
    /\ reconciled =>
          /\ conn.direction = "two_way"
          /\ \A f \in conn.mapped : AtRest(f)
          /\ \A r \in Runs : ~Idle(r) => run[r].op = "reconcile" /\ run[r].puts = {}

(* Somebody acts while no pass is under way. *)
LEMMA ActsEndRest ==
    ASSUME MergeInv, RestInv, Observe, UserActs, UNCHANGED conn,
           NEW r \in Runs, NEW p \in Pass, run' = [run EXCEPT ![r] = p],
           \A s \in Runs : Idle(s), Settles(p)'
    PROVE  RestInv'
<1>1. ~reconciled'
  <2>1. budget' # budget
    BY DEF UserActs, MergeInv, TypeOK
  <2> QED BY <2>1 DEF Observe
<1>2. run'[r] = p /\ \A s \in Runs : s # r => run'[s] = run[s]
  BY DEF MergeInv, TypeOK
<1>3. ASSUME NEW s \in Runs, s # r PROVE Settles(run[s])'
  BY <1>2, <1>3 DEF RestInv, Settles, Idle
<1> QED BY <1>1, <1>2, <1>3 DEF RestInv

(* The only pass under way moves on, or the scheduler's begins. *)
LEMMA SoloRest ==
    ASSUME MergeInv, RestInv, UNCHANGED conn, NEW r \in Runs, NEW p \in Pass,
           run' = [run EXCEPT ![r] = p], \A s \in Runs : s = r \/ Idle(s),
           Settles(p)',
           reconciled' => /\ conn.direction = "two_way"
                          /\ \A f \in conn.mapped : AtRest(f)'
                          /\ p.pc # "idle" => p.op = "reconcile" /\ p.puts = {}
    PROVE  RestInv'
<1>1. run'[r] = p /\ \A s \in Runs : s # r => run'[s] = run[s] /\ run'[s].pc = "idle"
  BY DEF MergeInv, TypeOK, Idle
<1>2. ASSUME NEW s \in Runs, s # r PROVE Settles(run[s])'
  BY <1>1, <1>2 DEF RestInv, Settles
<1> QED BY <1>1, <1>2 DEF RestInv, Idle

(* Only the end of a reconcile begins a rest. *)
LEMMA NoNewRest ==
    ASSUME Observe, UNCHANGED budget, NEW r \in Runs, run[r].pc # "write",
           \A s \in Runs : s = r \/ Idle(s)
    PROVE  reconciled' => reconciled
BY DEF Observe, WriteCells, Idle

(* At first no reconcile has finished, and none is under way. *)
LEMMA RestAtFirst == ASSUME MInit PROVE RestInv
BY DEF MInit, Init, IdleRun, RestInv, Settles

(* A pass begins: a requested one ends the rest, the scheduler's is a       *)
(* reconcile.                                                               *)
LEMMA PassBeginsAtRest ==
    ASSUME Clean, MergeInv, RestInv, Observe, Undisturbed,
           NEW r \in Runs, NEW op \in {"import", "push", "reconcile"}, Load(r, op),
           \/ UserActs
           \/ r = AutoSync /\ UNCHANGED budget
    PROVE  RestInv'
<1>1. \A s \in Runs : Idle(s)
  BY DEF Undisturbed, Clean
<1>2. UNCHANGED <<ticket, cell, conn, baseline, conflict>>
  BY DEF Load
<1>3. PICK p \in Pass : /\ run' = [run EXCEPT ![r] = p]
                        /\ p.pc = "read" /\ p.op = op /\ p.puts = {}
  <2> DEFINE q == [IdleRun EXCEPT !.pc = "read", !.op = op, !.maps = conn.mapped, !.row = cell]
  <2>1. conn.mapped \in SUBSET Field /\ cell \in [Field -> Words]
    BY DEF MergeInv, TypeOK
  <2>2. q \in Pass /\ q.pc = "read" /\ q.op = op /\ q.puts = {}
    BY <2>1, IdleRunType DEF Pass, IdleRun
  <2>3. run' = [run EXCEPT ![r] = q]
    BY DEF Load
  <2> HIDE DEF q
  <2> QED BY <2>2, <2>3
<1>4. conn.direction \in {"pull", "push", "two_way"}
  BY SyncAssumption DEF MergeInv, TypeOK
<1>5. op = "reconcile" => conn.direction = "two_way"
  BY <1>4 DEF Load, Allowed
<1>6. Settles(p)'
  BY <1>2, <1>3, <1>5 DEF Settles
<1>7. CASE UserActs
  BY <1>1, <1>2, <1>3, <1>6, <1>7, ActsEndRest
<1>8. CASE r = AutoSync /\ UNCHANGED budget
  <2>1. ASSUME reconciled' PROVE reconciled /\ conn.direction = "two_way" /\ op = "reconcile"
    <3>1. reconciled
      BY <1>1, <1>8, <2>1, NoNewRest DEF Idle
    <3> QED BY <1>8, <3>1 DEF RestInv, Load, Allowed
  <2>2. reconciled' => \A f \in conn.mapped : AtRest(f)'
    BY <1>2, <2>1 DEF RestInv, AtRest, UpToDate
  <2> QED BY <1>1, <1>2, <1>3, <1>6, <2>1, <2>2, SoloRest
<1> QED BY <1>7, <1>8

(* The ticket is read. *)
LEMMA ReadAtRest ==
    ASSUME Clean, MergeInv, RestInv, Observe, NEW r \in Runs, ReadTicket(r)
    PROVE  RestInv'
<1>1. /\ run[r].pc = "read" /\ ~Idle(r)
      /\ UNCHANGED <<ticket, cell, conn, baseline, conflict, budget>>
  BY DEF ReadTicket, Idle
<1>2. PICK p \in Pass : /\ run' = [run EXCEPT ![r] = p]
                        /\ p.pc \in {"link", "ticket"} /\ (p.pc = "link" => p.op = "push")
                        /\ p.op = run[r].op /\ p.puts = run[r].puts
  <2> DEFINE q == [run[r] EXCEPT !.tk = ticket, !.base = baseline,
                                 !.pc = IF run[r].op = "push" THEN "link" ELSE "ticket"]
  <2>1. /\ run[r] \in Pass /\ baseline \in [Field -> Words]
        /\ ticket \in [val : [Field -> Words], assigned : BOOLEAN]
    BY DEF MergeInv, TypeOK
  <2>2. /\ q \in Pass /\ q.op = run[r].op /\ q.puts = run[r].puts
        /\ q.pc \in {"link", "ticket"} /\ (q.pc = "link" => q.op = "push")
    BY <2>1 DEF Pass
  <2>3. run' = [run EXCEPT ![r] = q]
    BY <2>1 DEF ReadTicket, MergeInv, TypeOK
  <2> HIDE DEF q
  <2> QED BY <2>2, <2>3
<1>3. Settles(p)'
  BY <1>1, <1>2 DEF Settles, RestInv
<1>4. reconciled' => reconciled
  BY <1>1, Busy, NoNewRest
<1>5. reconciled' => \A f \in conn.mapped : AtRest(f)'
  BY <1>1, <1>4 DEF RestInv, AtRest, UpToDate
<1> QED BY <1>1, <1>2, <1>3, <1>4, <1>5, Busy, SoloRest DEF RestInv

(* An import is not under way at rest. *)
LEMMA ImportAtRest ==
    ASSUME Clean, MergeInv, RestInv, Observe, NEW r \in Runs, ImportTicket(r)
    PROVE  RestInv'
<1>1. /\ run[r].pc = "ticket" /\ run[r].op = "import" /\ ~Idle(r)
      /\ UNCHANGED <<cell, conn, baseline, conflict, budget>>
  BY DEF ImportTicket, Idle
<1>2. ~reconciled'
  BY <1>1, Busy, NoNewRest DEF RestInv
<1>3. PICK p \in Pass : run' = [run EXCEPT ![r] = p] /\ p.op # "reconcile"
  <2> DEFINE q == IF run[r].tk.assigned THEN [run[r] EXCEPT !.pc = "link"] ELSE IdleRun
  <2>1. run[r] \in Pass
    BY <1>1, Busy
  <2>2. q \in Pass /\ q.op # "reconcile"
    BY <1>1, <2>1, IdleRunType DEF Pass, IdleRun
  <2>3. run' = [run EXCEPT ![r] = q]
    BY DEF ImportTicket, MergeInv, TypeOK
  <2> HIDE DEF q
  <2> QED BY <2>2, <2>3
<1>4. Settles(p)'
  BY <1>3 DEF Settles
<1> QED BY <1>1, <1>2, <1>3, <1>4, Busy, SoloRest

(* What a reconcile that has read the ticket makes of its fields. *)
LEMMA ReadVerdicts ==
    ASSUME MergeInv, NEW r \in Runs, run[r].pc \in {"ticket", "link"}
    PROVE  /\ ~Idle(r) /\ run[r].row = cell /\ run[r].base = baseline /\ run[r].maps = conn.mapped
           /\ \A f \in Field : Verdict(run[r], f) =
                 ClassifyField(baseline[f], SheetValue(f, cell[f]), run[r].tk.val[f])
BY Busy DEF Idle, RunInv, Loaded, HasRead, Verdict

(* The merge records its conflicts, and at rest leaves the ticket alone. *)
LEMMA MergeAtRest ==
    ASSUME Clean, MergeInv, RestInv, Observe, NEW r \in Runs, MergeTicket(r)
    PROVE  RestInv'
<1>1. /\ run[r].pc = "ticket" /\ run[r].op = "reconcile" /\ ~Idle(r)
      /\ UNCHANGED <<cell, conn, baseline, budget>>
      /\ run[r].tk = ticket /\ run[r].tk.assigned
      /\ conn.mapped \subseteq Field /\ run[r].maps = conn.mapped
  BY Busy, ReadVerdicts DEF MergeTicket, Idle, RunInv, TypeOK, HasRead
<1> DEFINE conflicts == InClass(run[r], "conflict")
<1>2. PICK p \in Pass : /\ run' = [run EXCEPT ![r] = p] /\ p.pc = "link"
                        /\ p.op = run[r].op /\ p.row = run[r].row /\ p.maps = run[r].maps
                        /\ p.tk = run[r].tk /\ p.base = run[r].base /\ p.puts = run[r].puts
  <2> DEFINE q == [run[r] EXCEPT !.pc = "link"]
  <2>1. /\ q \in Pass /\ run' = [run EXCEPT ![r] = q] /\ q.pc = "link"
        /\ q.op = run[r].op /\ q.row = run[r].row /\ q.maps = run[r].maps
        /\ q.tk = run[r].tk /\ q.base = run[r].base /\ q.puts = run[r].puts
    BY <1>1, Busy DEF MergeTicket, TypeOK, Pass
  <2> HIDE DEF q
  <2> QED BY <2>1
<1>3. InClass(p, "conflict") = conflicts /\ conflicts \subseteq conn.mapped
  BY <1>1, <1>2 DEF InClass, Verdict
<1>4. \A f \in Field : f \notin InClass(run[r], "sheetWins") => ticket'.val[f] = ticket.val[f]
  BY <1>1 DEF MergeTicket, UpdateAllColumns, MergedTicket
<1>5. ASSUME NEW f \in conflicts, conflict'[f].open PROVE UpToDate(f)'
  <2>1. f \in Field /\ ticket'.val[f] = ticket.val[f] /\ SheetValue(f, cell'[f]) = SheetValue(f, run[r].row[f])
    BY <1>1, <1>3, <1>4, ReadVerdicts DEF InClass
  <2>2. PICK lost \in SUBSET {g \in conflicts : ~conflict[g].open} :
           conflict' = [g \in Field |->
                          IF g \in conflicts \ lost
                          THEN [open |-> TRUE, base |-> run[r].base[g],
                                sheet |-> SheetValue(g, run[r].row[g]), db |-> run[r].tk.val[g]]
                          ELSE conflict[g]]
    BY DEF MergeTicket, RecordConflicts
  <2>3. f \notin lost
    BY <1>5, <2>1, <2>2
  <2> QED BY <1>1, <2>1, <2>2, <2>3 DEF UpToDate
<1>6. \A f \in Field \ conflicts : conflict'[f] = conflict[f]
  BY DEF MergeTicket, RecordConflicts
<1>7. Settles(p)'
  <2>1. \A f \in Field : Verdict(p, f) = Verdict(run[r], f)
    BY <1>2 DEF Verdict
  <2>2. (\A f \in InClass(p, "conflict") : conflict[f].open => UpToDate(f))'
    BY <1>3, <1>5, <2>1 DEF InClass, Verdict
  <2>3. conn.direction = "two_way"
    BY <1>1 DEF RestInv, Settles
  <2> QED BY <1>1, <1>2, <2>2, <2>3 DEF Settles
<1>8. reconciled' => reconciled
  BY <1>1, Busy, NoNewRest
<1>9. ASSUME reconciled', NEW f \in conn.mapped PROVE AtRest(f)'
  <2>1. /\ AtRest(f) /\ f \in Field /\ Verdict(run[r], f) \in {"agree", "conflict"}
        /\ f \in conflicts <=> Verdict(run[r], f) = "conflict"
        /\ Verdict(run[r], f) = ClassifyField(baseline[f], SheetValue(f, cell[f]), ticket.val[f])
    BY <1>1, <1>8, <1>9, ReadVerdicts DEF RestInv, AtRest, InClass
  <2>2. ticket'.val[f] = ticket.val[f]
    BY <1>4, <2>1 DEF InClass
  <2> QED BY <1>1, <1>5, <2>1, <2>2 DEF AtRest
<1> QED BY <1>1, <1>2, <1>7, <1>8, <1>9, Busy, SoloRest DEF RestInv

(* With the new baseline each field is at rest or queued for its cell; at   *)
(* rest none is queued.                                                     *)
LEMMA LinkAtRest ==
    ASSUME Clean, MergeInv, RestInv, Observe, NEW r \in Runs, SaveLink(r)
    PROVE  RestInv'
<1>1. /\ run[r].pc = "link" /\ ~Idle(r) /\ baseline' = NewBaseline(run[r])
      /\ UNCHANGED <<ticket, cell, conn, conflict, budget>>
      /\ conn.mapped \subseteq Field /\ run[r].maps = conn.mapped
      /\ run[r] \in Pass /\ ticket.val = Outcome(run[r])
  BY Busy, ReadVerdicts DEF SaveLink, Idle, RunInv, TypeOK
<1>2. PICK p \in Pass :
         /\ run' = [run EXCEPT ![r] = p]
         /\ run[r].op # "import" =>
               p.pc = "write" /\ p.op = run[r].op /\ p.puts = Queued(run[r]) /\ p.tk = run[r].tk
         /\ run[r].op = "import" => p.op = "none"
  <2> DEFINE q == IF run[r].op = "import" THEN IdleRun
                  ELSE [run[r] EXCEPT !.pc = "write", !.puts = Queued(run[r])]
  <2>1. Queued(run[r]) \subseteq Field
    BY <1>1 DEF Queued, InClass
  <2>2. /\ q \in Pass
        /\ run[r].op # "import" =>
              q.pc = "write" /\ q.op = run[r].op /\ q.puts = Queued(run[r]) /\ q.tk = run[r].tk
        /\ run[r].op = "import" => q.op = "none"
    BY <1>1, <2>1, IdleRunType DEF IdleRun, Pass
  <2>3. run' = [run EXCEPT ![r] = q]
    BY DEF SaveLink, MergeInv, TypeOK
  <2> HIDE DEF q
  <2> QED BY <2>2, <2>3
<1>3. reconciled' => reconciled
  BY <1>1, Busy, NoNewRest
<1>4. CASE run[r].op # "reconcile"
  <2>1. Settles(p)' /\ ~reconciled'
    BY <1>1, <1>2, <1>3, <1>4 DEF Settles, RestInv
  <2> QED BY <1>1, <1>2, <2>1, Busy, SoloRest
<1>5. CASE run[r].op = "reconcile"
  <2>1. ASSUME NEW f \in conn.mapped
        PROVE  IF f \in Queued(run[r]) THEN ticket'.val[f] = run[r].tk.val[f] ELSE AtRest(f)'
    <3>1. /\ f \in Field /\ cell[f] \in Words /\ run[r].tk.val[f] \in Words
          /\ SetTicketField(Type[f], cell[f], run[r].tk.val[f]) = SheetValue(f, cell[f])
      BY <1>1, Conversions DEF MergeInv, TypeOK, Pass
    <3>2. Verdict(run[r], f) = ClassifyField(baseline[f], SheetValue(f, cell[f]), run[r].tk.val[f])
      BY <1>1, <3>1, ReadVerdicts
    <3>3. /\ ticket'.val[f] = IF Verdict(run[r], f) = "sheetWins" THEN SheetValue(f, cell[f])
                              ELSE run[r].tk.val[f]
          /\ baseline'[f] = CASE Verdict(run[r], f) = "sheetWins" -> SheetValue(f, cell[f])
                              [] Verdict(run[r], f) = "conflict"  -> baseline[f]
                              [] OTHER                            -> run[r].tk.val[f]
          /\ f \in Queued(run[r]) <=> Verdict(run[r], f) = "dbWins"
      BY <1>1, <1>5, <3>1, ReadVerdicts DEF NewBaseline, Outcome, Queued, MergedTicket, InClass
    <3>4. Verdict(run[r], f) = "conflict" => (conflict'[f].open => UpToDate(f)')
      BY <1>1, <1>5 DEF RestInv, Settles, InClass, UpToDate
    <3>5. UNCHANGED cell
      BY <1>1
    <3> QED BY <3>2, <3>3, <3>4, <3>5, VerdictMeaning DEF AtRest
  <2>2. Settles(p)'
    BY <1>1, <1>2, <1>5, <2>1 DEF Settles, RestInv
  <2>3. ASSUME reconciled' PROVE Queued(run[r]) = {}
    <3>1. SUFFICES ASSUME NEW f \in conn.mapped, f \in Queued(run[r]) PROVE FALSE
      BY <1>1, <1>5 DEF Queued, InClass
    <3>2. AtRest(f) /\ ticket.val[f] = run[r].tk.val[f] /\ f \in Field
      BY <1>1, <1>3, <2>1, <2>3, <3>1 DEF RestInv
    <3>3. ClassifyField(baseline[f], SheetValue(f, cell[f]), ticket.val[f]) = "dbWins"
      BY <1>1, <1>5, <3>1, <3>2, ReadVerdicts DEF Queued, InClass
    <3> QED BY <3>2, <3>3 DEF AtRest
  <2> QED BY <1>1, <1>2, <1>3, <1>5, <2>1, <2>2, <2>3, Busy, SoloRest DEF RestInv
<1> QED BY <1>4, <1>5

(* The cells of a reconcile are written: every field is at rest. *)
LEMMA CellsAtRest ==
    ASSUME Clean, MergeInv, RestInv, Observe, NEW r \in Runs, WriteCells(r)
    PROVE  RestInv'
<1>1. /\ run[r].pc = "write" /\ ~Idle(r)
      /\ UNCHANGED <<ticket, conn, baseline, conflict, budget>>
      /\ run' = [run EXCEPT ![r] = IdleRun]
      /\ conn.mapped \subseteq Field
  BY Busy DEF WriteCells, Idle, TypeOK
<1>2. IdleRun.pc = "idle" /\ IdleRun.op = "none"
  BY DEF IdleRun
<1>3. Settles(IdleRun)'
  BY <1>2 DEF Settles
<1>4. ASSUME run[r].op = "reconcile", NEW f \in conn.mapped PROVE AtRest(f)'
  <2>1. f \in Field /\ PassValues(run[r])
    BY <1>1, Busy
  <2>2. CASE f \in run[r].puts
    <3>1. SheetValue(f, cell'[f]) = run[r].tk.val[f]
      BY <1>1, <2>1, <2>2, Conversions DEF WriteCells, PassValues
    <3>2. ticket'.val[f] = run[r].tk.val[f]
      BY <1>1, <1>4, <2>2 DEF RestInv, Settles
    <3> QED BY <3>1, <3>2, VerdictMeaning DEF AtRest
  <2>3. CASE f \notin run[r].puts
    <3>1. AtRest(f)
      BY <1>1, <1>4, <2>3 DEF RestInv, Settles
    <3>2. cell'[f] = cell[f]
      BY <2>1, <2>3 DEF WriteCells
    <3> QED BY <1>1, <3>1, <3>2 DEF AtRest, UpToDate
  <2> QED BY <2>2, <2>3
<1>5. reconciled' => run[r].op = "reconcile" /\ conn.direction = "two_way"
  <2>1. \A s \in Runs : WriteCells(s) => s = r
    BY <1>1, Busy DEF WriteCells, Idle
  <2>2. reconciled' => reconciled \/ run[r].op = "reconcile"
    BY <1>1, <2>1 DEF Observe
  <2> QED BY <1>1, <2>2 DEF RestInv, Settles
<1> QED BY <1>1, <1>2, <1>3, <1>4, <1>5, Busy, IdleRunType, SoloRest

(* Every step of the system keeps it. *)
LEMMA RestIsKept ==
    ASSUME Clean, MergeInv, RestInv, [MNext]_mvars PROVE RestInv'
<1>1. CASE UNCHANGED mvars
  BY <1>1 DEF mvars, vars, RestInv, Settles, AtRest, UpToDate, InClass, Verdict, Idle
<1>2. CASE MNext
  <2>1. Observe /\ Next
    BY <1>2 DEF MNext
  <2>2. ASSUME ScheduledPass PROVE RestInv'
    <3>1. PICK op \in {"import", "push", "reconcile"} : Load(AutoSync, op)
      BY <2>2 DEF ScheduledPass
    <3> QED BY <2>1, <2>2, <3>1, SyncAssumption, PassBeginsAtRest DEF ScheduledPass
  <2>3. ASSUME NEW r \in Runs, NEW op \in {"import", "push", "reconcile"}, RequestedPass(r, op)
        PROVE  RestInv'
    BY <2>1, <2>3, PassBeginsAtRest DEF RequestedPass, UserActs
  <2>4. ASSUME NEW r \in Runs, PassStep(r) PROVE RestInv'
    <3>1. ~WriteFails(r)
      BY DEF WriteFails, Clean
    <3> QED BY <2>1, <2>4, <3>1, ReadAtRest, ImportAtRest, MergeAtRest, LinkAtRest,
               CellsAtRest DEF PassStep
  <2>5. ASSUME UserActs, UNCHANGED <<conn, run>> PROVE RestInv'
    <3>1. \A s \in Runs : Idle(s)
      BY <2>5 DEF UserActs, Undisturbed, Clean
    <3>2. PICK p \in Pass : p = run[AutoSync] /\ run' = [run EXCEPT ![AutoSync] = p]
      <4>1. run \in [Runs -> Pass] /\ AutoSync \in Runs /\ run' = run
        BY <2>5, SyncAssumption DEF MergeInv, TypeOK
      <4>2. run = [run EXCEPT ![AutoSync] = run[AutoSync]] /\ run[AutoSync] \in Pass
        BY <4>1
      <4> QED BY <4>1, <4>2
    <3>3. Settles(p)'
      <4>1. AutoSync \in Runs /\ p.pc = "idle" /\ Settles(p)
        BY <3>1, <3>2, SyncAssumption DEF RestInv, Idle
      <4>2. p.op = "reconcile" => conn'.direction = "two_way"
        BY <2>5, <4>1 DEF Settles
      <4> QED BY <4>1, <4>2 DEF Settles
    <3> QED BY <2>1, <2>5, <3>1, <3>2, <3>3, SyncAssumption, ActsEndRest
  <2>6. ASSUME NEW r \in Runs, NEW f \in Field, ResolveApp(r, f) PROVE RestInv'
    <3>1. UserActs /\ UNCHANGED conn /\ \A s \in Runs : Idle(s)
      BY <2>6 DEF ResolveApp, Review, UserActs, Undisturbed, Clean
    <3>2. PICK p \in Pass : run' = [run EXCEPT ![r] = p] /\ p.op = "resolve"
      <4> DEFINE q == [IdleRun EXCEPT !.pc = "write", !.op = "resolve",
                                      !.tk = ticket, !.puts = {f} \cap conn.mapped]
      <4>1. q \in Pass /\ run' = [run EXCEPT ![r] = q] /\ q.op = "resolve"
        BY <2>6, IdleRunType DEF ResolveApp, MergeInv, TypeOK, IdleRun, Pass, Blank
      <4> HIDE DEF q
      <4> QED BY <4>1
    <3>3. Settles(p)'
      BY <3>2 DEF Settles
    <3> QED BY <2>1, <3>1, <3>2, <3>3, ActsEndRest
  <2>7. ~ChangeAssignee /\ ~Crash /\ \A m : ~SaveMapping(m)
    BY DEF ChangeAssignee, Crash, SaveMapping, Clean
  <2>8. ASSUME NEW f \in Field,
               \/ \E v \in TicketInput[f] : EditTicket(f, v)
               \/ \E raw \in CellInput[f] : EditSheet(f, raw)
               \/ ResolveSheet(f)
        PROVE  RestInv'
    BY <2>5, <2>8 DEF EditTicket, EditSheet, ResolveSheet, Review
  <2> QED BY <2>1, <2>2, <2>3, <2>4, <2>6, <2>7, <2>8 DEF Next
<1> QED BY <1>1, <1>2

(* A reconcile after a reconcile, with nobody acting in between, pulls and  *)
(* pushes nothing and finds its conflicts on record as they are.            *)
THEOREM SecondReconcileChangesNothing ==
    ASSUME Clean PROVE MSpec => []ReconcileIsIdempotent
<1>1. MInit => MergeInv /\ RestInv
  BY MergeInvHoldsAtFirst, RestAtFirst
<1>2. MergeInv /\ RestInv /\ [MNext]_mvars => (MergeInv /\ RestInv)'
  BY MergeInvIsKept, RestIsKept
<1>3. ASSUME MergeInv, RestInv PROVE ReconcileIsIdempotent
  <2>1. SUFFICES ASSUME NEW r \in Runs, reconciled, run[r].pc = "ticket"
                 PROVE  /\ InClass(run[r], "sheetWins") = {} /\ InClass(run[r], "dbWins") = {}
                        /\ \A f \in InClass(run[r], "conflict") : conflict[f].open => UpToDate(f)
    BY DEF ReconcileIsIdempotent
  <2>2. run[r].tk = ticket /\ run[r].maps = conn.mapped /\ conn.mapped \subseteq Field
    BY <1>3, <2>1, ReadVerdicts, Busy DEF RunInv, TypeOK
  <2>3. \A f \in conn.mapped : AtRest(f) /\
           Verdict(run[r], f) = ClassifyField(baseline[f], SheetValue(f, cell[f]), ticket.val[f])
    BY <1>3, <2>1, <2>2, ReadVerdicts DEF RestInv
  <2> QED BY <2>2, <2>3 DEF InClass, AtRest
<1> QED BY <1>1, <1>2, <1>3, PTL DEF MSpec
=============================================================================
