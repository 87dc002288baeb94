---------------------------- MODULE DeviceRoutes ----------------------------
(* The handlers of src/src/routes/devices.ts that move a device: PATCH        *)
(* /devices/:id with a status, POST /devices/:id/assign and /unassign.  The   *)
(* first read is one step with the arrival of the request: nothing the        *)
(* handler does before it can be told apart.  A reply before any write leaves *)
(* no trace and is a stuttering step, or the Reply of the step that decides.  *)
EXTENDS AssetStore

ValidTransitions ==
  [in_stock |-> {"assigned", "under_repair", "decommissioned"},
   assigned |-> {"under_repair", "decommissioned"},
   under_repair |-> {"in_stock", "decommissioned"},
   decommissioned |-> {"in_stock", "under_repair"}]

\* Mutant of PatchAllowed: the table is not consulted.
PatchAny(from, to, role) == from = "decommissioned" => role = "admin"

\* The check of the PATCH handler, against the status it has just read.
PatchAllowed(from, to, role) ==
  from = to \/ ( /\ to \in ValidTransitions[from]
                 /\ from = "decommissioned" => role = "admin" )

PatchReceive(p) ==
  \E d \in Device, to \in DeviceStatus, role \in Role :
    /\ PatchAllowed(status[d], to, role)
    /\ to = "decommissioned" /\ role # "admin" => ApprovalRoom
    /\ Accept(p, [Idle EXCEPT
         !.pc = IF to = "decommissioned" /\ role # "admin"
                THEN "patch_gate" ELSE "patch_update",
         !.role = role, !.device = d, !.to = to])
    /\ UNCHANGED tables

\* The governance gate: no second request while one is pending.
PatchGate(p) ==
  /\ At(p, "patch_gate")
  /\ IF PendingOn(req[p].device) = {} THEN Go(p, "patch_request") ELSE Reply(p)
  /\ UNCHANGED tables

PatchRequest(p) ==
  /\ At(p, "patch_request")
  /\ \E a \in ApprovalId :
       /\ NextApproval(a)
       /\ approval' = Requested(a, "decommission", req[p].device, None)
  /\ Reply(p)
  /\ UNCHANGED <<status, active, assignment>>

\* Mutant of AutoClose: a device sent for repair stays with its holder.
AutoCloseRetired(to) == to = "decommissioned"

\* The statuses that take the device from its holder.
AutoClose(to) == to \in {"decommissioned", "under_repair"}

\* device.update is by id alone: the status it was checked against may be gone.
PatchUpdate(p) ==
  /\ At(p, "patch_update")
  /\ status' = [status EXCEPT ![req[p].device] = req[p].to]
  /\ IF AutoClose(req[p].to) THEN Go(p, "patch_close") ELSE Reply(p)
  /\ UNCHANGED <<active, assignment, approval>>

\* The open assignments are closed by a statement of its own.
PatchClose(p) ==
  /\ At(p, "patch_close")
  /\ assignment' = Closed(OpenOn(req[p].device))
  /\ Reply(p)
  /\ UNCHANGED <<status, active, approval>>

-----------------------------------------------------------------------------
AssignReceive(p) ==
  \E d \in Device, e \in Employee, role \in Role :
    /\ status[d] = "in_stock"
    /\ AssignmentRoom /\ ApprovalRoom
    /\ Accept(p, [Idle EXCEPT !.pc = "assign_employee", !.role = role,
                              !.device = d, !.employee = e])
    /\ UNCHANGED tables

\* Mutant of AfterEmployee: operators assign without asking.
AfterEmployeeDirect(p) == "assign_close"

\* Operators submit a request; admins execute directly.
AfterEmployee(p) == IF req[p].role = "admin" THEN "assign_close" ELSE "assign_gate"

AssignEmployee(p) ==
  /\ At(p, "assign_employee")
  /\ IF active[req[p].employee] THEN Go(p, AfterEmployee(p)) ELSE Reply(p)
  /\ UNCHANGED tables

AssignGate(p) ==
  /\ At(p, "assign_gate")
  /\ IF PendingOn(req[p].device) = {} THEN Go(p, "assign_request") ELSE Reply(p)
  /\ UNCHANGED tables

AssignRequest(p) ==
  /\ At(p, "assign_request")
  /\ \E a \in ApprovalId :
       /\ NextApproval(a)
       /\ approval' = Requested(a, "assignment", req[p].device, req[p].employee)
  /\ Reply(p)
  /\ UNCHANGED <<status, active, assignment>>

\* The transaction of the admin: close stale + create + status "assigned".
AssignClose(p) ==
  /\ At(p, "assign_close")
  /\ Snapshot(p, OpenOn(req[p].device), "assign_commit")
  /\ UNCHANGED tables

AssignCommit(p) ==
  /\ At(p, "assign_commit")
  /\ \E i \in AsgId :
       /\ NextAssignment(i)
       /\ assignment' = Handover(req[p].rows, i, req[p].device, req[p].employee)
  /\ status' = [status EXCEPT ![req[p].device] = "assigned"]
  /\ Reply(p)
  /\ UNCHANGED <<active, approval>>

-----------------------------------------------------------------------------
\* Neither the status nor the role is looked at, and the answer 409 "Device is
\* not currently assigned" comes after the commit.
UnassignReceive(p) ==
  \E d \in Device, role \in Role :
    /\ Accept(p, [Idle EXCEPT !.pc = "unassign_commit", !.role = role,
                              !.device = d, !.rows = OpenOn(d)])
    /\ UNCHANGED tables

UnassignCommit(p) ==
  /\ At(p, "unassign_commit")
  /\ assignment' = Closed(req[p].rows)
  /\ status' = [status EXCEPT ![req[p].device] = "in_stock"]
  /\ Reply(p)
  /\ UNCHANGED <<active, approval>>

DeviceStep(p) ==
  \/ PatchReceive(p) \/ PatchGate(p) \/ PatchRequest(p)
  \/ PatchUpdate(p) \/ PatchClose(p)
  \/ AssignReceive(p) \/ AssignEmployee(p) \/ AssignGate(p)
  \/ AssignRequest(p) \/ AssignClose(p) \/ AssignCommit(p)
  \/ UnassignReceive(p) \/ UnassignCommit(p)
=============================================================================
