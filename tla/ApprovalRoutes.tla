--------------------------- MODULE ApprovalRoutes ---------------------------
(* The handlers of src/src/routes/approvals.ts: an admin approves a pending   *)
(* request, whose effect is one transaction, or rejects it.  The approval is  *)
(* found pending by the first read and written by id at the end, whatever     *)
(* state it is in by then.                                                    *)
EXTENDS AssetStore

AfterFind == [assignment |-> "approve_both", decommission |-> "retire_device",
              offboard |-> "leave_employee"]

\* Mutant of Take: the approval is found whatever its status.
TakeAny(p, a, pc) ==
  /\ approval[a].state # "absent"
  /\ Accept(p, [Idle EXCEPT !.pc = pc, !.role = "admin", !.approval = a,
                            !.device = approval[a].device,
                            !.employee = approval[a].employee])

\* The request of an admin about approval a, which it finds pending.
Take(p, a, pc) ==
  /\ approval[a].state = "pending"
  /\ Accept(p, [Idle EXCEPT !.pc = pc, !.role = "admin", !.approval = a,
                            !.device = approval[a].device,
                            !.employee = approval[a].employee])

ApproveReceive(p) ==
  \E a \in ApprovalId :
    /\ approval[a].kind = "assignment" => AssignmentRoom
    /\ Take(p, a, AfterFind[approval[a].kind])
    /\ UNCHANGED tables

-----------------------------------------------------------------------------
(* Approving an assignment: the device and the employee are read in parallel. *)

\* One of the two reads; when it was the last one the transaction follows.
ReadDevice(p, from, to) ==
  /\ At(p, from)
  /\ IF status[req[p].device] = "in_stock" THEN Go(p, to) ELSE Reply(p)
  /\ UNCHANGED tables

\* Mutant of ReadEmployee: an offboarded employee is found too.
ReadAnyEmployee(p, from, to) ==
  /\ At(p, from)
  /\ Go(p, to)
  /\ UNCHANGED tables

ReadEmployee(p, from, to) ==
  /\ At(p, from)
  /\ IF active[req[p].employee] THEN Go(p, to) ELSE Reply(p)
  /\ UNCHANGED tables

ApproveRead(p) ==
  \/ ReadDevice(p, "approve_both", "approve_employee")
  \/ ReadDevice(p, "approve_device", "approve_close")
  \/ ReadEmployee(p, "approve_both", "approve_device")
  \/ ReadEmployee(p, "approve_employee", "approve_close")

\* Mutant of ApproveClose: the approval is settled before the transaction.
ApproveCloseSettling(p) ==
  /\ At(p, "approve_close")
  /\ Snapshot(p, OpenOn(req[p].device), "approve_commit")
  /\ approval' = Settled(req[p].approval, "approved")
  /\ UNCHANGED <<status, active, assignment>>

ApproveClose(p) ==
  /\ At(p, "approve_close")
  /\ Snapshot(p, OpenOn(req[p].device), "approve_commit")
  /\ UNCHANGED tables

ApproveCommit(p) ==
  /\ At(p, "approve_commit")
  /\ \E i \in AsgId :
       /\ NextAssignment(i)
       /\ assignment' = Handover(req[p].rows, i, req[p].device, req[p].employee)
  /\ status' = [status EXCEPT ![req[p].device] = "assigned"]
  /\ approval' = Settled(req[p].approval, "approved")
  /\ Reply(p)
  /\ UNCHANGED active

-----------------------------------------------------------------------------
(* Approving a decommission *)

RetireDevice(p) ==
  /\ At(p, "retire_device")
  /\ IF status[req[p].device] # "decommissioned"
     THEN Go(p, "retire_close") ELSE Reply(p)
  /\ UNCHANGED tables

RetireClose(p) ==
  /\ At(p, "retire_close")
  /\ Snapshot(p, OpenOn(req[p].device), "retire_commit")
  /\ UNCHANGED tables

\* Mutant of RetireCommit: the approval stays as it was.
RetireCommitOpen(p) ==
  /\ At(p, "retire_commit")
  /\ assignment' = Closed(req[p].rows)
  /\ status' = [status EXCEPT ![req[p].device] = "decommissioned"]
  /\ Reply(p)
  /\ UNCHANGED <<active, approval>>

RetireCommit(p) ==
  /\ At(p, "retire_commit")
  /\ assignment' = Closed(req[p].rows)
  /\ status' = [status EXCEPT ![req[p].device] = "decommissioned"]
  /\ approval' = Settled(req[p].approval, "approved")
  /\ Reply(p)
  /\ UNCHANGED active

-----------------------------------------------------------------------------
(* Approving an offboarding *)

\* The list of open assignments read here decides whether any is closed.
LeaveEmployee(p) ==
  /\ At(p, "leave_employee")
  /\ IF active[req[p].employee]
     THEN Go(p, IF OpenOf(req[p].employee) # {} THEN "leave_close"
                                                ELSE "leave_commit")
     ELSE Reply(p)
  /\ UNCHANGED tables

LeaveClose(p) ==
  /\ At(p, "leave_close")
  /\ Snapshot(p, OpenOf(req[p].employee), "leave_commit")
  /\ UNCHANGED tables

LeaveCommit(p) ==
  /\ At(p, "leave_commit")
  /\ active' = [active EXCEPT ![req[p].employee] = FALSE]
  /\ assignment' = Closed(req[p].rows)
  /\ approval' = Settled(req[p].approval, "approved")
  /\ Reply(p)
  /\ UNCHANGED status

-----------------------------------------------------------------------------
RejectReceive(p) ==
  \E a \in ApprovalId : Take(p, a, "reject_update") /\ UNCHANGED tables

RejectUpdate(p) ==
  /\ At(p, "reject_update")
  /\ approval' = Settled(req[p].approval, "rejected")
  /\ Reply(p)
  /\ UNCHANGED <<status, active, assignment>>

ApprovalStep(p) ==
  \/ ApproveReceive(p) \/ ApproveRead(p)
  \/ ApproveClose(p) \/ ApproveCommit(p)
  \/ RetireDevice(p) \/ RetireClose(p) \/ RetireCommit(p)
  \/ LeaveEmployee(p) \/ LeaveClose(p) \/ LeaveCommit(p)
  \/ RejectReceive(p) \/ RejectUpdate(p)
=============================================================================
