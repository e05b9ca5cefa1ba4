----------------------------- MODULE Scheduler ------------------------------
(***************************************************************************)
(* The auto-sync scheduler (services/scheduler_service.go) and the other   *)
(* writers of a connection's row: the passes that administrators request,  *)
(* the auto-sync switch and the mapping page.                              *)
(*                                                                         *)
(* Connections are created and deleted meanwhile; ids are not used again.  *)
(* Everybody works on a copy of the row, read when the request or the      *)
(* tick began.  A pass and the two pages write the whole copy back (Save); *)
(* only recordAutoRun writes named columns.  What a pass does to a sheet   *)
(* and its tickets is SheetSync's.                                         *)
(***************************************************************************)
EXTENDS Naturals, FiniteSets

CONSTANTS
    Conns,      \* ids of sheet_connections
    Goroutines, \* those that the scheduler starts
    Requests,   \* HTTP requests under way
    Settings,   \* what the mapping page sets besides auto-sync: tab, direction, ...
    MaxDeletions, \* bound on the deletions of connections
    MaxRestarts \* bound on the restarts of the server

ASSUME SchedulerAssumption ==
    /\ Goroutines \cap Requests = {}
    /\ MaxDeletions \in Nat
    /\ MaxRestarts \in Nat

VARIABLES
    row,        \* sheet_connections, by id
    there,      \* the ids of the rows that exist
    spare,      \* the ids not given to a row yet
    inflight,   \* schedulerInflight, in memory
    todo,       \* what runDueConnections read and has not come to yet
    worker,     \* the goroutines and requests, with their copy of a row
    restarts    \* restarts left

vars == <<row, there, spare, inflight, todo, worker, restarts>>

(* recent: last_auto_run_at lies within the connection's interval.          *)
(* mapped: its status.                                                      *)
Rows == [auto : BOOLEAN, mapped : BOOLEAN, setting : Settings, recent : BOOLEAN]

Workers == Goroutines \cup Requests

Jobs == [kind : {"scheduled"}, conn : Conns, copy : Rows, pc : {"sync", "record", "release"}]
        \cup [kind : {"request", "toggle", "mapping"}, conn : Conns, copy : Rows, pc : {"sync"}]

NoJob == [kind |-> "none"]

Due == [conn : Conns, copy : {r \in Rows : r.auto /\ r.mapped}]

Drafts == {r \in Rows : ~r.auto /\ ~r.mapped /\ ~r.recent}

Init ==
    /\ row \in [Conns -> Drafts]
    /\ there = {}
    /\ spare = Conns
    /\ inflight = {}
    /\ todo = {}
    /\ worker = [w \in Workers |-> NoJob]
    /\ restarts = MaxRestarts

Busy(w, kinds, pc) ==
    worker[w] # NoJob /\ worker[w].kind \in kinds /\ worker[w].pc = pc

Enabled(c) == row[c].auto /\ row[c].mapped

\* Mutant: a connection that was never mapped is scheduled, too.
DueUnmapped == {c \in there : row[c].auto}

(* The query of runDueConnections. *)
DueConns == {c \in there : Enabled(c)}

(* runDueConnections reads the rows once a minute. *)
ReadDue ==
    /\ todo = {}
    /\ todo' = {[conn |-> c, copy |-> row[c]] : c \in DueConns}
    /\ UNCHANGED <<row, there, spare, inflight, worker, restarts>>

(* A connection that ran within its interval, or whose last pass is still   *)
(* under way, waits for another tick.                                       *)
PassOver(d) ==
    /\ d.copy.recent \/ d.conn \in inflight
    /\ todo' = todo \ {d}
    /\ UNCHANGED <<row, there, spare, inflight, worker, restarts>>

\* Mutant: a goroutine is started whether or not one is under way.
LaunchUnguarded(w, d) ==
    /\ worker[w] = NoJob
    /\ ~d.copy.recent
    /\ inflight' = inflight \cup {d.conn}
    /\ worker' = [worker EXCEPT ![w] = [kind |-> "scheduled", conn |-> d.conn,
                                        copy |-> d.copy, pc |-> "sync"]]
    /\ todo' = todo \ {d}
    /\ UNCHANGED <<row, there, spare, restarts>>

(* LoadOrStore, and the goroutine. *)
Launch(w, d) ==
    /\ worker[w] = NoJob
    /\ ~d.copy.recent /\ d.conn \notin inflight
    /\ inflight' = inflight \cup {d.conn}
    /\ worker' = [worker EXCEPT ![w] = [kind |-> "scheduled", conn |-> d.conn,
                                        copy |-> d.copy, pc |-> "sync"]]
    /\ todo' = todo \ {d}
    /\ UNCHANGED <<row, there, spare, restarts>>

Create(c) ==
    /\ c \in spare
    /\ there' = there \cup {c}
    /\ spare' = spare \ {c}
    /\ UNCHANGED <<row, inflight, todo, worker, restarts>>

(* Delete reads the row to see that it is there, and takes it away under    *)
(* whatever pass or request is at work on it.  Of an id without a row, what *)
(* "row" says is void.                                                      *)
Delete(c) ==
    /\ c \in there
    /\ Cardinality(Conns \ (there \cup spare)) < MaxDeletions
    /\ there' = there \ {c}
    /\ \E r \in Drafts : row' = [row EXCEPT ![c] = r]
    /\ UNCHANGED <<spare, inflight, todo, worker, restarts>>

(* A request loads the row: for a pass, to flip auto-sync, or to save the   *)
(* mapping page.                                                            *)
Load(w, c, kind, copy) ==
    /\ worker[w] = NoJob
    /\ c \in there
    /\ worker' = [worker EXCEPT ![w] = [kind |-> kind, conn |-> c, copy |-> copy, pc |-> "sync"]]
    /\ UNCHANGED <<row, there, spare, inflight, todo, restarts>>

RequestPass(w, c) == Load(w, c, "request", row[c])

ToggleAutoSync(w, c) == Load(w, c, "toggle", [row[c] EXCEPT !.auto = ~@])

SaveMapping(w, c, auto, setting) ==
    Load(w, c, "mapping", [row[c] EXCEPT !.auto = auto, !.setting = setting, !.mapped = TRUE])

(* A scheduled pass goes on to record its run; all others are done. *)
Finish(w) ==
    worker' = [worker EXCEPT ![w] = IF @.kind = "scheduled" THEN [@ EXCEPT !.pc = "record"]
                                                            ELSE NoJob]

(* SheetConnectionService.Save: every column.  An update of a row that was  *)
(* deleted meanwhile writes nothing and is no error.                        *)
Save(w) ==
    /\ Busy(w, {"scheduled", "request", "toggle", "mapping"}, "sync")
    /\ row' = IF worker[w].conn \in there
              THEN [row EXCEPT ![worker[w].conn] = worker[w].copy] ELSE row
    /\ Finish(w)
    /\ UNCHANGED <<there, spare, inflight, todo, restarts>>

\* Mutant: the in-flight entry is deleted on success only.
FailKeepingEntry(w) ==
    /\ Busy(w, {"scheduled", "request"}, "sync")
    /\ worker' = [worker EXCEPT ![w] = NoJob]
    /\ UNCHANGED <<row, there, spare, inflight, todo, restarts>>

(* A pass ends in an error, or in a panic that runScheduledSync recovers. *)
Fail(w) ==
    /\ Busy(w, {"scheduled", "request"}, "sync")
    /\ Finish(w)
    /\ UNCHANGED <<row, there, spare, inflight, todo, restarts>>

RecordAutoRun(w) ==
    /\ Busy(w, {"scheduled"}, "record")
    /\ row' = IF worker[w].conn \in there
              THEN [row EXCEPT ![worker[w].conn].recent = TRUE] ELSE row
    /\ worker' = [worker EXCEPT ![w].pc = "release"]
    /\ UNCHANGED <<there, spare, inflight, todo, restarts>>

\* Mutant: the entry of a connection that is gone is not deleted.
ReleaseWhatIsThere(w) ==
    /\ Busy(w, {"scheduled"}, "release")
    /\ inflight' = IF worker[w].conn \in there THEN inflight \ {worker[w].conn} ELSE inflight
    /\ worker' = [worker EXCEPT ![w] = NoJob]
    /\ UNCHANGED <<row, there, spare, todo, restarts>>

(* The deferred schedulerInflight.Delete. *)
Release(w) ==
    /\ Busy(w, {"scheduled"}, "release")
    /\ inflight' = inflight \ {worker[w].conn}
    /\ worker' = [worker EXCEPT ![w] = NoJob]
    /\ UNCHANGED <<row, there, spare, todo, restarts>>

(* The connection's interval goes by: no copy's time stamp is recent now. *)
Elapse(c) ==
    /\ row' = [row EXCEPT ![c].recent = FALSE]
    /\ todo' = {IF d.conn = c THEN [d EXCEPT !.copy.recent = FALSE] ELSE d : d \in todo}
    /\ worker' = [w \in Workers |->
                    IF worker[w] # NoJob /\ worker[w].conn = c
                    THEN [worker[w] EXCEPT !.copy.recent = FALSE] ELSE worker[w]]
    /\ UNCHANGED <<there, spare, inflight, restarts>>

(* The server restarts; the in-flight map and the goroutines are gone. *)
Restart ==
    /\ restarts > 0 /\ restarts' = restarts - 1
    /\ inflight' = {}
    /\ todo' = {}
    /\ worker' = [w \in Workers |-> NoJob]
    /\ UNCHANGED <<row, there, spare>>

Request ==
    \E w \in Requests, c \in Conns :
        \/ RequestPass(w, c)
        \/ ToggleAutoSync(w, c)
        \/ \E auto \in BOOLEAN, setting \in Settings : SaveMapping(w, c, auto, setting)

Step(w) == Save(w) \/ Fail(w) \/ RecordAutoRun(w) \/ Release(w)

Consider == \E d \in todo : PassOver(d) \/ \E w \in Goroutines : Launch(w, d)

Next ==
    \/ ReadDue
    \/ Consider
    \/ Request
    \/ \E c \in Conns : Create(c) \/ Delete(c)
    \/ \E w \in Workers : Step(w)
    \/ \E c \in Conns : Elapse(c)
    \/ Restart

Spec == Init /\ [][Next]_vars

(* The ticker never stops, a tick works through its list, a pass returns    *)
(* (the Google client and the database answer or fail), and time goes by.   *)
Fairness ==
    /\ WF_vars(ReadDue) /\ WF_vars(Consider)
    /\ \A w \in Workers : WF_vars(Step(w))
    /\ \A c \in Conns : WF_vars(Elapse(c))

FairSpec == Spec /\ Fairness
-----------------------------------------------------------------------------
TypeOK ==
    /\ row \in [Conns -> Rows]
    /\ there \subseteq Conns /\ spare \subseteq Conns
    /\ inflight \subseteq Conns
    /\ todo \subseteq Due
    /\ worker \in [Workers -> Jobs \cup {NoJob}]
    /\ restarts \in Nat
    /\ \A w \in Requests : worker[w] # NoJob => worker[w].kind # "scheduled"

Scheduled(w, c) ==
    worker[w] # NoJob /\ worker[w].kind = "scheduled" /\ worker[w].conn = c

(* The in-flight map lists the connections with a scheduled pass, which has *)
(* one goroutine: SheetSync's AutoSync is a single run.                     *)
OnePassPerConnection ==
    \A c \in Conns :
        /\ c \in inflight <=> \E w \in Workers : Scheduled(w, c)
        /\ \A v, w \in Workers : Scheduled(v, c) /\ Scheduled(w, c) => v = w

UnderWay(c) == \E w \in Workers : Scheduled(w, c)

(* A connection that stays enabled is synchronised again and again,         *)
(* whatever became of the passes before.                                    *)
KeepsSyncing ==
    \A c \in Conns : <>[](c \in there /\ Enabled(c)) => []<>UnderWay(c)

(* A connection that was deleted is left alone in the end: the pass that    *)
(* the deletion ran into, or that a tick starts from its earlier read, is   *)
(* the last, and gives its in-flight entry back.                            *)
DeletedConnectionsRest ==
    \A c \in Conns :
        [](c \notin there \cup spare => <>[](~UnderWay(c) /\ c \notin inflight))

(* A connection is configured as an administrator has left it: the save at  *)
(* the end of a pass does not undo what was chosen while the pass ran.      *)
OnlyAdminsConfigure ==
    [][\A w \in Workers : Save(w) /\ worker[w].kind \in {"scheduled", "request"}
          => \A c \in Conns : /\ row'[c].auto = row[c].auto
                              /\ row'[c].setting = row[c].setting]_vars
=============================================================================
