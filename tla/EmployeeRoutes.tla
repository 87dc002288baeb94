--------------------------- MODULE EmployeeRoutes ---------------------------
(* The handlers of src/src/routes/employees.ts that change who may hold a     *)
(* device: POST /employees/:id/offboard and /employees/:id/reactivate.        *)
EXTENDS AssetStore

\* The employee is read together with its open assignments: "had" is the
\* length of that list, which later decides whether anything is closed.
OffboardReceive(p) ==
  \E e \in Employee, role \in Role :
    /\ active[e]
    /\ role # "admin" => ApprovalRoom
    /\ Accept(p, [Idle EXCEPT
         !.pc = IF role = "admin" THEN "offboard_update" ELSE "offboard_gate",
         !.role = role, !.employee = e, !.had = OpenOf(e) # {}])
    /\ UNCHANGED tables

OffboardGate(p) ==
  /\ At(p, "offboard_gate")
  /\ IF PendingOffboard(req[p].employee) = {}
     THEN Go(p, "offboard_request") ELSE Reply(p)
  /\ UNCHANGED tables

OffboardRequest(p) ==
  /\ At(p, "offboard_request")
  /\ \E a \in ApprovalId :
       /\ NextApproval(a)
       /\ approval' = Requested(a, "offboard", None, req[p].employee)
  /\ Reply(p)
  /\ UNCHANGED <<status, active, assignment>>

OffboardUpdate(p) ==
  /\ At(p, "offboard_update")
  /\ active' = [active EXCEPT ![req[p].employee] = FALSE]
  /\ IF req[p].had THEN Go(p, "offboard_close") ELSE Reply(p)
  /\ UNCHANGED <<status, assignment, approval>>

\* The devices are freed by a statement of its own, and keep their status.
OffboardClose(p) ==
  /\ At(p, "offboard_close")
  /\ assignment' = Closed(OpenOf(req[p].employee))
  /\ Reply(p)
  /\ UNCHANGED <<status, active, approval>>

-----------------------------------------------------------------------------
ReactivateReceive(p) ==
  \E e \in Employee, role \in Role :
    /\ ~active[e]
    /\ Accept(p, [Idle EXCEPT !.pc = "reactivate_update", !.role = role,
                              !.employee = e])
    /\ UNCHANGED tables

ReactivateUpdate(p) ==
  /\ At(p, "reactivate_update")
  /\ active' = [active EXCEPT ![req[p].employee] = TRUE]
  /\ Reply(p)
  /\ UNCHANGED <<status, assignment, approval>>

EmployeeStep(p) ==
  \/ OffboardReceive(p) \/ OffboardGate(p) \/ OffboardRequest(p)
  \/ OffboardUpdate(p) \/ OffboardClose(p)
  \/ ReactivateReceive(p) \/ ReactivateUpdate(p)
=============================================================================
