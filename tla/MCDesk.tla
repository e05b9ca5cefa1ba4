------------------------------- MODULE MCDesk -------------------------------
(***************************************************************************)
(* Desk for TLC: a technician and a super admin, two requests at a time.   *)
(***************************************************************************)
EXTENDS Desk, TLC

MCRole == [u \in {1, 2} |-> IF u = 1 THEN "technician" ELSE "super_admin"]
MCSteps == <<"rma_initiated", "box_requested", "workflow_complete">>

Workload(fields, create, edit, status, assign, delete, import, work, users) ==
    [fields |-> fields,
     times |-> [create |-> create, edit |-> edit, status |-> status, assign |-> assign,
                delete |-> delete, import |-> import, workflow |-> work, users |-> users]]

(* Two people edit a ticket; two people and an import do, or somebody and   *)
(* two imports; imports repeat rows while issues are edited, and tickets    *)
(* deleted; a ticket is created, assigned and edited; its status changes;   *)
(* workflows; users come and go.                                            *)
MCWorkloads ==
    {Workload({"text"}, 1, 6, 0, 0, 0, 0, 0, 0),
     Workload({"text"}, 0, 4, 0, 0, 0, 1, 0, 0),
     Workload({"text"}, 0, 3, 0, 0, 0, 2, 0, 0),
     Workload({"issue"}, 0, 2, 0, 0, 0, 3, 0, 0),
     Workload({"issue"}, 0, 2, 0, 0, 1, 2, 0, 0),
     Workload({"assignee"}, 1, 4, 0, 1, 0, 0, 0, 0),
     Workload({}, 0, 0, 3, 0, 0, 2, 0, 0),
     Workload({}, 2, 0, 0, 0, 1, 0, 7, 0),
     Workload({}, 1, 0, 0, 0, 0, 0, 0, 4)}

Symmetry == Permutations(Requests) \cup Permutations(Texts) \cup Permutations(Issues)
=============================================================================
