-------------------------- MODULE SchedulerProofs ---------------------------
(***************************************************************************)
(* For any number of connections, goroutines and requests: the scheduler   *)
(* never has two passes of one connection under way, and its in-flight map *)
(* lists exactly the connections that have one, across failures, panics    *)
(* and restarts.                                                           *)
(***************************************************************************)
EXTENDS Scheduler, TLAPS

(* A worker that is busy has a connection and a copy of its row.            *)
LEMMA JobFields ==
    ASSUME TypeOK, NEW w \in Workers, worker[w] # NoJob
    PROVE  /\ worker[w] \in Jobs
           /\ worker[w].conn \in Conns /\ worker[w].copy \in Rows
           /\ worker[w].kind \in {"scheduled", "request", "toggle", "mapping"}
BY DEF TypeOK, Jobs

(* An idle worker is told from a busy one.                                  *)
LEMMA NoJobIsNone == NoJob \notin Jobs
BY DEF NoJob, Jobs

(* Before the first tick no pass is under way and the map is empty.         *)
LEMMA InitInv == Init => TypeOK /\ OnePassPerConnection
<1>1. ASSUME Init PROVE TypeOK
  BY <1>1, SchedulerAssumption DEF Init, Drafts, TypeOK, Workers
<1>2. ASSUME Init PROVE OnePassPerConnection
  BY <1>2 DEF Init, OnePassPerConnection, Scheduled
<1> QED BY <1>1, <1>2

(* One step after the other keeps the types. *)
LEMMA StepType ==
    ASSUME TypeOK, [Next]_vars PROVE TypeOK'
<1>1. CASE ReadDue
  BY <1>1 DEF ReadDue, DueConns, Enabled, TypeOK, Due
<1>2. ASSUME NEW d \in todo, PassOver(d) PROVE TypeOK'
  BY <1>2 DEF PassOver, TypeOK
<1>3. ASSUME NEW d \in todo, NEW w \in Goroutines, Launch(w, d) PROVE TypeOK'
  <2>1. d.conn \in Conns /\ d.copy \in Rows /\ w \in Workers /\ w \notin Requests
    BY SchedulerAssumption DEF TypeOK, Due, Workers
  <2>2. [kind |-> "scheduled", conn |-> d.conn, copy |-> d.copy, pc |-> "sync"] \in Jobs
    BY <2>1 DEF Jobs
  <2> QED BY <1>3, <2>1, <2>2 DEF Launch, TypeOK
<1>4. ASSUME NEW w \in Requests, NEW c \in Conns, NEW kind \in {"request", "toggle", "mapping"},
             NEW copy \in Rows, Load(w, c, kind, copy)
      PROVE  TypeOK'
  <2>1. [kind |-> kind, conn |-> c, copy |-> copy, pc |-> "sync"] \in Jobs
    BY DEF Jobs
  <2> QED BY <1>4, <2>1 DEF Load, TypeOK, Workers
<1>5. CASE Request
  <2>1. PICK w \in Requests, c \in Conns :
          \/ RequestPass(w, c)
          \/ ToggleAutoSync(w, c)
          \/ \E auto \in BOOLEAN, setting \in Settings : SaveMapping(w, c, auto, setting)
    BY <1>5 DEF Request
  <2>2. row[c] \in Rows
    BY DEF TypeOK
  <2>3. CASE RequestPass(w, c)
    BY <1>4, <2>2, <2>3 DEF RequestPass
  <2>4. CASE ToggleAutoSync(w, c)
    <3>1. [row[c] EXCEPT !.auto = ~@] \in Rows
      BY <2>2 DEF Rows
    <3> QED BY <1>4, <2>4, <3>1 DEF ToggleAutoSync
  <2>5. ASSUME NEW auto \in BOOLEAN, NEW setting \in Settings, SaveMapping(w, c, auto, setting)
        PROVE  TypeOK'
    <3>1. [row[c] EXCEPT !.auto = auto, !.setting = setting, !.mapped = TRUE] \in Rows
      BY <2>2 DEF Rows
    <3> QED BY <1>4, <2>5, <3>1 DEF SaveMapping
  <2> QED BY <2>1, <2>3, <2>4, <2>5
<1>6. ASSUME NEW w \in Workers, Finish(w), worker[w] \in Jobs, worker[w].pc = "sync"
      PROVE  /\ worker' \in [Workers -> Jobs \cup {NoJob}]
             /\ \A v \in Requests : worker'[v] # NoJob => worker'[v].kind # "scheduled"
  <2>1. CASE worker[w].kind = "scheduled"
    <3>1. [worker[w] EXCEPT !.pc = "record"] \in Jobs
      BY <1>6, <2>1 DEF Jobs
    <3>2. w \notin Requests
      BY <1>6, <2>1, NoJobIsNone DEF TypeOK
    <3> QED BY <1>6, <2>1, <3>1, <3>2 DEF Finish, TypeOK
  <2>2. CASE worker[w].kind # "scheduled"
    BY <1>6, <2>2 DEF Finish, TypeOK
  <2> QED BY <2>1, <2>2
<1>7. ASSUME NEW w \in Workers, Save(w) \/ Fail(w) PROVE TypeOK'
  <2>1. worker[w] \in Jobs /\ worker[w].pc = "sync" /\ Finish(w)
    BY <1>7, JobFields DEF Save, Fail, Busy
  <2>2. row' \in [Conns -> Rows] /\ UNCHANGED <<there, spare>>
    BY <1>7, <2>1 DEF Save, Fail, TypeOK, Jobs
  <2> QED BY <1>6, <1>7, <2>1, <2>2 DEF Save, Fail, TypeOK
<1>8. ASSUME NEW w \in Workers, RecordAutoRun(w) PROVE TypeOK'
  <2>1. worker[w] \in Jobs /\ worker[w].kind = "scheduled" /\ worker[w].conn \in Conns
    BY <1>8, JobFields DEF RecordAutoRun, Busy
  <2>2. [worker[w] EXCEPT !.pc = "release"] \in Jobs
    BY <2>1 DEF Jobs
  <2>3. w \notin Requests
    BY <1>8, <2>1, NoJobIsNone DEF TypeOK
  <2>4. row' \in [Conns -> Rows]
    <3> DEFINE c == worker[w].conn
               recorded == [row[c] EXCEPT !.recent = TRUE]
    <3>1. c \in Conns /\ row \in [Conns -> Rows]
      BY <2>1 DEF TypeOK
    <3>2. recorded \in Rows
      BY <3>1 DEF Rows
    <3>3. row' = [row EXCEPT ![c] = recorded] \/ row' = row
      BY <1>8 DEF RecordAutoRun
    <3> HIDE DEF c, recorded
    <3> QED BY <3>1, <3>2, <3>3
  <2> QED BY <1>8, <2>2, <2>3, <2>4 DEF RecordAutoRun, TypeOK
<1>9. ASSUME NEW w \in Workers, Release(w) PROVE TypeOK'
  BY <1>9 DEF Release, TypeOK
<1>10. ASSUME NEW c \in Conns, Elapse(c) PROVE TypeOK'
  <2>1. row' \in [Conns -> Rows]
    BY <1>10 DEF Elapse, TypeOK, Rows
  <2>2. todo' \subseteq Due
    <3>1. \A d \in Due : [d EXCEPT !.copy.recent = FALSE] \in Due
      BY DEF Due, Rows
    <3> QED BY <1>10, <3>1 DEF Elapse, TypeOK
  <2>3. \A w \in Workers : worker[w] # NoJob =>
            [worker[w] EXCEPT !.copy.recent = FALSE] \in Jobs
    <3>1. \A copy \in Rows : [copy EXCEPT !.recent = FALSE] \in Rows
      BY DEF Rows
    <3>2. \A j \in Jobs : [j EXCEPT !.copy.recent = FALSE] \in Jobs
      BY <3>1 DEF Jobs
    <3> QED BY <3>2, JobFields
  <2>4. \A w \in Workers : worker[w] # NoJob =>
            [worker[w] EXCEPT !.copy.recent = FALSE].kind = worker[w].kind
    BY JobFields DEF Jobs
  <2>5. worker' \in [Workers -> Jobs \cup {NoJob}]
    BY <1>10, <2>3 DEF Elapse, TypeOK
  <2>6. \A w \in Requests : worker'[w] # NoJob => worker'[w].kind # "scheduled"
    BY <1>10, <2>4 DEF Elapse, TypeOK, Workers
  <2> QED BY <1>10, <2>1, <2>2, <2>5, <2>6 DEF Elapse, TypeOK
<1>11. CASE Restart
  BY <1>11 DEF Restart, TypeOK, Workers
<1>12. ASSUME NEW c \in Conns, Create(c) \/ Delete(c) PROVE TypeOK'
  BY <1>12 DEF Create, Delete, Drafts, TypeOK
<1>13. CASE UNCHANGED vars
  BY <1>13 DEF vars, TypeOK
<1> QED BY <1>1, <1>2, <1>3, <1>5, <1>7, <1>8, <1>9, <1>10, <1>11, <1>12, <1>13 DEF Next, Consider, Step

(* The passes under way are what matters: a step that neither starts nor    *)
(* ends a scheduled one, and leaves the map alone, keeps the property.      *)
LEMMA SamePasses ==
    ASSUME OnePassPerConnection, UNCHANGED inflight,
           \A w \in Workers, c \in Conns : Scheduled(w, c)' <=> Scheduled(w, c)
    PROVE  OnePassPerConnection'
BY DEF OnePassPerConnection

(* Every step keeps the in-flight map and the scheduled passes together.    *)
LEMMA StepPasses ==
    ASSUME TypeOK, OnePassPerConnection, [Next]_vars PROVE OnePassPerConnection'
<1>1. CASE ReadDue \/ UNCHANGED vars
  BY <1>1, SamePasses DEF ReadDue, vars, Scheduled
<1>2. ASSUME NEW d \in todo, PassOver(d) PROVE OnePassPerConnection'
  BY <1>2, SamePasses DEF PassOver, Scheduled
<1>3. ASSUME NEW d \in todo, NEW w \in Goroutines, Launch(w, d) PROVE OnePassPerConnection'
  <2>1. d.conn \in Conns /\ w \in Workers /\ d.conn \notin inflight
    BY <1>3 DEF TypeOK, Due, Workers, Launch
  <2>2. \A v \in Workers, c \in Conns :
           Scheduled(v, c)' <=> Scheduled(v, c) \/ (v = w /\ c = d.conn)
    BY <1>3, <2>1 DEF Launch, Scheduled, TypeOK, NoJob
  <2>3. \A v \in Workers : ~Scheduled(v, d.conn)
    BY <2>1 DEF OnePassPerConnection
  <2>4. inflight' = inflight \cup {d.conn}
    BY <1>3 DEF Launch
  <2> QED BY <2>1, <2>2, <2>3, <2>4 DEF OnePassPerConnection
<1>4. CASE Request
  <2>1. PICK w \in Requests, c \in Conns, kind \in {"request", "toggle", "mapping"} :
          \E copy : Load(w, c, kind, copy)
    BY <1>4 DEF Request, RequestPass, ToggleAutoSync, SaveMapping
  <2>2. \A v \in Workers, e \in Conns : Scheduled(v, e)' <=> Scheduled(v, e)
    BY <2>1 DEF Load, Scheduled, TypeOK
  <2> QED BY <2>1, <2>2, SamePasses DEF Load
<1>5. ASSUME NEW w \in Workers, Save(w) \/ Fail(w) PROVE OnePassPerConnection'
  <2>1. /\ worker[w] # NoJob /\ worker[w] \in Jobs
        /\ Finish(w) /\ UNCHANGED inflight
    BY <1>5, JobFields DEF Save, Fail, Busy
  <2>2. \A v \in Workers, c \in Conns : Scheduled(v, c)' <=> Scheduled(v, c)
    BY <2>1, NoJobIsNone DEF Finish, Scheduled, TypeOK, Jobs
  <2> QED BY <2>1, <2>2, SamePasses
<1>6. ASSUME NEW w \in Workers, RecordAutoRun(w) PROVE OnePassPerConnection'
  <2>1. worker[w] # NoJob /\ worker[w] \in Jobs
    BY <1>6, JobFields DEF RecordAutoRun, Busy
  <2>2. \A v \in Workers, c \in Conns : Scheduled(v, c)' <=> Scheduled(v, c)
    BY <1>6, <2>1, NoJobIsNone DEF RecordAutoRun, Scheduled, TypeOK, Jobs
  <2> QED BY <1>6, <2>2, SamePasses DEF RecordAutoRun
<1>7. ASSUME NEW w \in Workers, Release(w) PROVE OnePassPerConnection'
  <2>1. Scheduled(w, worker[w].conn) /\ worker[w].conn \in Conns
    BY <1>7, JobFields DEF Release, Busy, Scheduled
  <2>2. \A v \in Workers, c \in Conns : Scheduled(v, c)' <=> Scheduled(v, c) /\ v # w
    BY <1>7 DEF Release, Scheduled, TypeOK
  <2>3. inflight' = inflight \ {worker[w].conn}
    BY <1>7 DEF Release
  <2>4. \A c \in Conns : Scheduled(w, c) => c = worker[w].conn
    BY DEF Scheduled
  <2> QED BY <2>1, <2>2, <2>3, <2>4 DEF OnePassPerConnection
<1>8. ASSUME NEW c \in Conns, Elapse(c) PROVE OnePassPerConnection'
  <2>1. ASSUME NEW w \in Workers, worker[w] # NoJob
        PROVE  LET j == [worker[w] EXCEPT !.copy.recent = FALSE]
               IN  j # NoJob /\ j.kind = worker[w].kind /\ j.conn = worker[w].conn
    <3>1. worker[w] \in Jobs
      BY <2>1, JobFields
    <3>2. [worker[w] EXCEPT !.copy.recent = FALSE] \in Jobs
      BY <3>1 DEF Jobs, Rows
    <3> QED BY <3>1, <3>2, NoJobIsNone DEF Jobs
  <2>2. \A w \in Workers, e \in Conns : Scheduled(w, e)' <=> Scheduled(w, e)
    BY <1>8, <2>1 DEF Elapse, Scheduled
  <2> QED BY <1>8, <2>2, SamePasses DEF Elapse
<1>9. CASE Restart
  BY <1>9 DEF Restart, OnePassPerConnection, Scheduled
<1>10. ASSUME NEW c \in Conns, Create(c) \/ Delete(c) PROVE OnePassPerConnection'
  BY <1>10, SamePasses DEF Create, Delete, Scheduled
<1> QED BY <1>1, <1>2, <1>3, <1>4, <1>5, <1>6, <1>7, <1>8, <1>9, <1>10 DEF Next, Consider, Step

(* LoadOrStore before the goroutine and the deferred Delete after it keep   *)
(* scheduled passes of one connection apart, and leave no entry behind.     *)
THEOREM OnePassCorrect ==
    Spec => [](TypeOK /\ OnePassPerConnection)
<1>1. Init => TypeOK /\ OnePassPerConnection
  BY InitInv
<1>2. TypeOK /\ OnePassPerConnection /\ [Next]_vars => (TypeOK /\ OnePassPerConnection)'
  BY StepType, StepPasses
<1> QED BY <1>1, <1>2, PTL DEF Spec

(* The connections, the in-flight entries and the copies that passes and    *)
(* pages work on keep their types.                                          *)
THEOREM SchedulerTypes == Spec => []TypeOK
BY OnePassCorrect, PTL
=============================================================================
