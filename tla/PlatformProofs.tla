--------------------------- MODULE PlatformProofs ---------------------------
(* Proofs about the custody workflow, for any number of devices, employees,   *)
(* requests in flight and rows.                                               *)
EXTENDS PlatformInvariant, TLAPS

-----------------------------------------------------------------------------
(* The statements keep the types of the tables, and the control steps those   *)
(* of the requests in flight.                                                 *)

LEMMA IdleType == Idle \in Request
  BY DEF Idle, Request, PC, Role, DeviceStatus

LEMMA ClosedType ==
  ASSUME TypeOK, NEW S
  PROVE  /\ Closed(S) \in [AsgId -> AssignmentRow]
         /\ \A i \in AsgId : /\ Closed(S)[i].device = assignment[i].device
                             /\ Closed(S)[i].employee = assignment[i].employee
                             /\ Closed(S)[i].state =
                                  IF i \in S /\ assignment[i].state = "open"
                                  THEN "returned" ELSE assignment[i].state
  BY DEF TypeOK, Closed, AssignmentRow

LEMMA HandoverType ==
  ASSUME TypeOK, NEW S, NEW i \in AsgId,
         NEW d \in Device \cup {None}, NEW e \in Employee \cup {None}
  PROVE  /\ Handover(S, i, d, e) \in [AsgId -> AssignmentRow]
         /\ Handover(S, i, d, e)[i] = [state |-> "open", device |-> d, employee |-> e]
         /\ \A j \in AsgId \ {i} : Handover(S, i, d, e)[j] = Closed(S)[j]
  BY ClosedType DEF Handover, AssignmentRow

LEMMA RequestedType ==
  ASSUME TypeOK, NEW a \in ApprovalId,
         NEW kind \in {"assignment", "decommission", "offboard"},
         NEW d \in Device \cup {None}, NEW e \in Employee \cup {None}
  PROVE  Requested(a, kind, d, e) \in [ApprovalId -> ApprovalRow]
  BY DEF TypeOK, Requested, ApprovalRow

LEMMA SettledType ==
  ASSUME TypeOK, NEW a, NEW outcome \in {"approved", "rejected"}
  PROVE  Settled(a, outcome) \in [ApprovalId -> ApprovalRow]
<1>1. \A row \in ApprovalRow : [row EXCEPT !.state = outcome] \in ApprovalRow
  BY DEF ApprovalRow
<1>2. approval \in [ApprovalId -> ApprovalRow]
  BY DEF TypeOK
<1> QED BY <1>1, <1>2 DEF Settled

LEMMA ReplyType ==
  ASSUME TypeOK, NEW p \in Proc, Reply(p)
  PROVE  req' \in [Proc -> Request]
  BY IdleType DEF TypeOK, Reply

LEMMA GoType ==
  ASSUME TypeOK, NEW p \in Proc, NEW pc \in PC, Go(p, pc)
  PROVE  req' \in [Proc -> Request]
<1>1. [req[p] EXCEPT !.pc = pc] \in Request
  BY DEF TypeOK, Request
<1> QED BY <1>1 DEF TypeOK, Go

LEMMA SnapshotType ==
  ASSUME TypeOK, NEW p \in Proc, NEW pc \in PC, NEW S \in SUBSET AsgId,
         Snapshot(p, S, pc)
  PROVE  req' \in [Proc -> Request]
<1>1. [req[p] EXCEPT !.rows = S, !.pc = pc] \in Request
  BY DEF TypeOK, Request
<1> QED BY <1>1 DEF TypeOK, Snapshot

LEMMA AcceptType ==
  ASSUME TypeOK, NEW p \in Proc, NEW r \in Request, Accept(p, r)
  PROVE  req' \in [Proc -> Request]
  BY DEF TypeOK, Accept

-----------------------------------------------------------------------------
(* Type correctness *)

LEMMA RequestFields ==
  ASSUME TypeOK, NEW p \in Proc
  PROVE  /\ req[p].pc \in PC /\ req[p].role \in Role
         /\ req[p].device \in Device \cup {None}
         /\ req[p].employee \in Employee \cup {None}
         /\ req[p].approval \in ApprovalId \cup {0}
         /\ req[p].to \in DeviceStatus /\ req[p].had \in BOOLEAN
         /\ req[p].rows \in SUBSET AsgId
  BY DEF TypeOK, Request

LEMMA DeviceTypes ==
  ASSUME TypeOK, NEW p \in Proc, DeviceStep(p)
  PROVE  TypeOK'
<1> USE RequestFields DEF TypeOK
<1>1. CASE PatchReceive(p)
  <2>1. PICK d \in Device, to \in DeviceStatus, role \in Role :
          Accept(p, [Idle EXCEPT
            !.pc = IF to = "decommissioned" /\ role # "admin"
                   THEN "patch_gate" ELSE "patch_update",
            !.role = role, !.device = d, !.to = to])
    BY <1>1 DEF PatchReceive
  <2>2. [Idle EXCEPT
            !.pc = IF to = "decommissioned" /\ role # "admin"
                   THEN "patch_gate" ELSE "patch_update",
            !.role = role, !.device = d, !.to = to] \in Request
    BY IdleType, ZenonT(30) DEF Request, PC
  <2> QED BY <1>1, <2>1, <2>2, AcceptType DEF PatchReceive, tables
<1>2. CASE PatchGate(p)
  BY <1>2, GoType, ReplyType DEF PatchGate, tables, PC
<1>3. CASE PatchRequest(p)
  <2>1. PICK a \in ApprovalId :
          approval' = Requested(a, "decommission", req[p].device, None)
    BY <1>3 DEF PatchRequest
  <2>2. Requested(a, "decommission", req[p].device, None)
          \in [ApprovalId -> ApprovalRow]
    BY RequestedType
  <2> QED BY <1>3, <2>1, <2>2, ReplyType DEF PatchRequest
<1>4. CASE PatchUpdate(p)
  BY <1>4, GoType, ReplyType DEF PatchUpdate, PC
<1>5. CASE PatchClose(p)
  BY <1>5, ClosedType, ReplyType DEF PatchClose
<1>6. CASE AssignReceive(p)
  <2>1. PICK d \in Device, e \in Employee, role \in Role :
          Accept(p, [Idle EXCEPT !.pc = "assign_employee", !.role = role,
                                 !.device = d, !.employee = e])
    BY <1>6 DEF AssignReceive
  <2>2. [Idle EXCEPT !.pc = "assign_employee", !.role = role,
                     !.device = d, !.employee = e] \in Request
    BY IdleType DEF Request, PC
  <2> QED BY <1>6, <2>1, <2>2, AcceptType DEF AssignReceive, tables
<1>7. CASE AssignEmployee(p)
  BY <1>7, GoType, ReplyType DEF AssignEmployee, AfterEmployee, tables, PC
<1>8. CASE AssignGate(p)
  BY <1>8, GoType, ReplyType DEF AssignGate, tables, PC
<1>9. CASE AssignRequest(p)
  <2>1. PICK a \in ApprovalId :
          approval' = Requested(a, "assignment", req[p].device, req[p].employee)
    BY <1>9 DEF AssignRequest
  <2>2. Requested(a, "assignment", req[p].device, req[p].employee)
          \in [ApprovalId -> ApprovalRow]
    BY RequestedType
  <2> QED BY <1>9, <2>1, <2>2, ReplyType DEF AssignRequest
<1>10. CASE AssignClose(p)
  BY <1>10, SnapshotType DEF AssignClose, OpenOn, tables, PC
<1>11. CASE AssignCommit(p)
  <2>1. PICK i \in AsgId :
          assignment' = Handover(req[p].rows, i, req[p].device, req[p].employee)
    BY <1>11 DEF AssignCommit
  <2>2. assignment' \in [AsgId -> AssignmentRow]
    BY <2>1, HandoverType
  <2> QED BY <1>11, <2>2, ReplyType DEF AssignCommit, DeviceStatus
<1>12. CASE UnassignReceive(p)
  <2>1. PICK d \in Device, role \in Role :
          Accept(p, [Idle EXCEPT !.pc = "unassign_commit", !.role = role,
                                 !.device = d, !.rows = OpenOn(d)])
    BY <1>12 DEF UnassignReceive
  <2>2. [Idle EXCEPT !.pc = "unassign_commit", !.role = role,
                     !.device = d, !.rows = OpenOn(d)] \in Request
    BY IdleType DEF Request, PC, OpenOn
  <2> QED BY <1>12, <2>1, <2>2, AcceptType DEF UnassignReceive, tables
<1>13. CASE UnassignCommit(p)
  BY <1>13, ClosedType, ReplyType DEF UnassignCommit, DeviceStatus
<1> QED
  BY <1>1, <1>2, <1>3, <1>4, <1>5, <1>6, <1>7, <1>8, <1>9, <1>10, <1>11,
     <1>12, <1>13 DEF DeviceStep

LEMMA EmployeeTypes ==
  ASSUME TypeOK, NEW p \in Proc, EmployeeStep(p)
  PROVE  TypeOK'
<1> USE RequestFields DEF TypeOK
<1>1. CASE OffboardReceive(p)
  <2>1. PICK e \in Employee, role \in Role :
          Accept(p, [Idle EXCEPT
            !.pc = IF role = "admin" THEN "offboard_update" ELSE "offboard_gate",
            !.role = role, !.employee = e, !.had = OpenOf(e) # {}])
    BY <1>1 DEF OffboardReceive
  <2>2. [Idle EXCEPT
            !.pc = IF role = "admin" THEN "offboard_update" ELSE "offboard_gate",
            !.role = role, !.employee = e, !.had = OpenOf(e) # {}] \in Request
    <3>1. ASSUME NEW pc \in PC, NEW had \in BOOLEAN
          PROVE  [Idle EXCEPT !.pc = pc, !.role = role, !.employee = e,
                              !.had = had] \in Request
      BY IdleType DEF Request
    <3> QED BY <3>1 DEF PC
  <2> QED BY <1>1, <2>1, <2>2, AcceptType DEF OffboardReceive, tables
<1>2. CASE OffboardGate(p)
  BY <1>2, GoType, ReplyType DEF OffboardGate, tables, PC
<1>3. CASE OffboardRequest(p)
  <2>1. PICK a \in ApprovalId :
          approval' = Requested(a, "offboard", None, req[p].employee)
    BY <1>3 DEF OffboardRequest
  <2>2. Requested(a, "offboard", None, req[p].employee)
          \in [ApprovalId -> ApprovalRow]
    BY RequestedType
  <2> QED BY <1>3, <2>1, <2>2, ReplyType DEF OffboardRequest
<1>4. CASE OffboardUpdate(p)
  BY <1>4, GoType, ReplyType DEF OffboardUpdate, PC
<1>5. CASE OffboardClose(p)
  BY <1>5, ClosedType, ReplyType DEF OffboardClose
<1>6. CASE ReactivateReceive(p)
  <2>1. PICK e \in Employee, role \in Role :
          Accept(p, [Idle EXCEPT !.pc = "reactivate_update", !.role = role,
                                 !.employee = e])
    BY <1>6 DEF ReactivateReceive
  <2>2. [Idle EXCEPT !.pc = "reactivate_update", !.role = role,
                     !.employee = e] \in Request
    BY IdleType DEF Request, PC
  <2> QED BY <1>6, <2>1, <2>2, AcceptType DEF ReactivateReceive, tables
<1>7. CASE ReactivateUpdate(p)
  BY <1>7, ReplyType DEF ReactivateUpdate
<1> QED
  BY <1>1, <1>2, <1>3, <1>4, <1>5, <1>6, <1>7 DEF EmployeeStep

LEMMA TakeType ==
  ASSUME TypeOK, NEW p \in Proc, NEW a \in ApprovalId, NEW pc \in PC,
         Take(p, a, pc)
  PROVE  req' \in [Proc -> Request]
<1>1. /\ approval[a].device \in Device \cup {None}
      /\ approval[a].employee \in Employee \cup {None}
  BY DEF TypeOK, ApprovalRow
<1>2. [Idle EXCEPT !.pc = pc, !.role = "admin", !.approval = a,
                   !.device = approval[a].device,
                   !.employee = approval[a].employee] \in Request
  BY <1>1, IdleType DEF Request, Role
<1> QED BY <1>2, AcceptType DEF Take

LEMMA ApprovalTypes ==
  ASSUME TypeOK, NEW p \in Proc, ApprovalStep(p)
  PROVE  TypeOK'
<1> USE RequestFields DEF TypeOK
<1>1. CASE ApproveReceive(p)
  <2>1. \A a \in ApprovalId : AfterFind[approval[a].kind] \in PC
    BY DEF ApprovalRow, AfterFind, PC
  <2> QED BY <1>1, <2>1, TakeType DEF ApproveReceive, tables
<1>2. CASE ApproveRead(p)
  BY <1>2, GoType, ReplyType
     DEF ApproveRead, ReadDevice, ReadEmployee, tables, PC
<1>3. CASE ApproveClose(p)
  BY <1>3, SnapshotType DEF ApproveClose, OpenOn, tables, PC
<1>4. CASE ApproveCommit(p)
  <2>1. PICK i \in AsgId :
          assignment' = Handover(req[p].rows, i, req[p].device, req[p].employee)
    BY <1>4 DEF ApproveCommit
  <2>2. assignment' \in [AsgId -> AssignmentRow]
    BY <2>1, HandoverType
  <2> QED BY <1>4, <2>2, SettledType, ReplyType DEF ApproveCommit, DeviceStatus
<1>5. CASE RetireDevice(p)
  BY <1>5, GoType, ReplyType DEF RetireDevice, tables, PC
<1>6. CASE RetireClose(p)
  BY <1>6, SnapshotType DEF RetireClose, OpenOn, tables, PC
<1>7. CASE RetireCommit(p)
  BY <1>7, ClosedType, SettledType, ReplyType DEF RetireCommit, DeviceStatus
<1>8. CASE LeaveEmployee(p)
  BY <1>8, GoType, ReplyType DEF LeaveEmployee, tables, PC
<1>9. CASE LeaveClose(p)
  BY <1>9, SnapshotType DEF LeaveClose, OpenOf, tables, PC
<1>10. CASE LeaveCommit(p)
  BY <1>10, ClosedType, SettledType, ReplyType DEF LeaveCommit
<1>11. CASE RejectReceive(p)
  BY <1>11, TakeType DEF RejectReceive, tables, PC
<1>12. CASE RejectUpdate(p)
  BY <1>12, SettledType, ReplyType DEF RejectUpdate
<1> QED
  BY <1>1, <1>2, <1>3, <1>4, <1>5, <1>6, <1>7, <1>8, <1>9, <1>10, <1>11,
     <1>12 DEF ApprovalStep

LEMMA InitType == Init => TypeOK
  BY IdleType DEF Init, TypeOK, AssignmentRow, ApprovalRow, DeviceStatus

LEMMA NextType == TypeOK /\ [Next]_vars => TypeOK'
<1> SUFFICES ASSUME TypeOK, [Next]_vars PROVE TypeOK'
  OBVIOUS
<1>1. ASSUME NEW p \in Proc, Fail(p) PROVE TypeOK'
  BY <1>1, ReplyType DEF Fail, tables, TypeOK
<1>2. CASE UNCHANGED vars
  BY <1>2 DEF vars, TypeOK
<1> QED
  BY <1>1, <1>2, DeviceTypes, EmployeeTypes, ApprovalTypes DEF Next

(* Every column holds a value of its type and every handler's variables stay  *)
(* within theirs, for any number of devices, employees and requests.          *)
THEOREM TypeCorrect == Spec => []TypeOK
  BY InitType, NextType, PTL DEF Spec

-----------------------------------------------------------------------------
(* What the control steps do to the requests in flight *)

LEMMA Replied ==
  ASSUME TypeOK, NEW p \in Proc, Reply(p)
  PROVE  req'[p] = Idle /\ \A q \in Proc \ {p} : req'[q] = req[q]
  BY DEF TypeOK, Reply

\* What a request carries from one step to the next.
Keeps(p) ==
  /\ req'[p].role = req[p].role
  /\ req'[p].device = req[p].device
  /\ req'[p].employee = req[p].employee
  /\ req'[p].approval = req[p].approval
  /\ req'[p].to = req[p].to
  /\ req'[p].had = req[p].had

LEMMA Gone ==
  ASSUME TypeOK, NEW p \in Proc, NEW pc, Go(p, pc)
  PROVE  /\ req'[p].pc = pc /\ req'[p].rows = req[p].rows /\ Keeps(p)
         /\ \A q \in Proc \ {p} : req'[q] = req[q]
  BY DEF TypeOK, Request, Go, Keeps

LEMMA Snapped ==
  ASSUME TypeOK, NEW p \in Proc, NEW S, NEW pc, Snapshot(p, S, pc)
  PROVE  /\ req'[p].pc = pc /\ req'[p].rows = S /\ Keeps(p)
         /\ \A q \in Proc \ {p} : req'[q] = req[q]
  BY DEF TypeOK, Request, Snapshot, Keeps

LEMMA Accepted ==
  ASSUME TypeOK, NEW p \in Proc, NEW r, Accept(p, r)
  PROVE  /\ req[p].pc = "idle" /\ req'[p] = r
         /\ Contention \/ Alone(p, req'[p].device, req'[p].employee)
         /\ \A q \in Proc \ {p} : req'[q] = req[q]
  BY DEF TypeOK, Accept

-----------------------------------------------------------------------------
(* How a request arrives *)

Arrives(p) ==
  /\ req[p].pc = "idle"
  /\ Contention \/ Alone(p, req'[p].device, req'[p].employee)
  /\ \A q \in Proc \ {p} : req'[q] = req[q]
  /\ UNCHANGED tables

LEMMA PatchArrives ==
  ASSUME TypeOK, NEW p \in Proc, PatchReceive(p)
  PROVE  /\ Arrives(p)
         /\ req'[p].pc \in {"patch_gate", "patch_update"}
         /\ req'[p].device \in Device /\ req'[p].employee = None
         /\ req'[p].approval = 0
         /\ PatchAllowed(status[req'[p].device], req'[p].to, req'[p].role)
<1>1. PICK d \in Device, to \in DeviceStatus, role \in Role :
        /\ PatchAllowed(status[d], to, role)
        /\ Accept(p, [Idle EXCEPT
             !.pc = IF to = "decommissioned" /\ role # "admin"
                    THEN "patch_gate" ELSE "patch_update",
             !.role = role, !.device = d, !.to = to])
  BY DEF PatchReceive
<1>2. req'[p] = [Idle EXCEPT
                   !.pc = IF to = "decommissioned" /\ role # "admin"
                          THEN "patch_gate" ELSE "patch_update",
                   !.role = role, !.device = d, !.to = to]
  BY <1>1, Accepted
<1>3. Arrives(p)
  BY <1>1, Accepted DEF Arrives, PatchReceive
<1> QED BY <1>1, <1>2, <1>3 DEF Idle

LEMMA AssignArrives ==
  ASSUME TypeOK, NEW p \in Proc, AssignReceive(p)
  PROVE  /\ Arrives(p)
         /\ req'[p].pc = "assign_employee"
         /\ req'[p].device \in Device /\ req'[p].employee \in Employee
         /\ req'[p].approval = 0
         /\ status[req'[p].device] = "in_stock"
<1>1. PICK d \in Device, e \in Employee, role \in Role :
        /\ status[d] = "in_stock"
        /\ Accept(p, [Idle EXCEPT !.pc = "assign_employee", !.role = role,
                                  !.device = d, !.employee = e])
  BY DEF AssignReceive
<1>2. req'[p] = [Idle EXCEPT !.pc = "assign_employee", !.role = role,
                             !.device = d, !.employee = e]
  BY <1>1, Accepted
<1>3. Arrives(p)
  BY <1>1, Accepted DEF Arrives, AssignReceive
<1> QED BY <1>1, <1>2, <1>3 DEF Idle

LEMMA UnassignArrives ==
  ASSUME TypeOK, NEW p \in Proc, UnassignReceive(p)
  PROVE  /\ Arrives(p)
         /\ req'[p].pc = "unassign_commit"
         /\ req'[p].device \in Device /\ req'[p].employee = None
         /\ req'[p].approval = 0
         /\ req'[p].rows = OpenOn(req'[p].device)
<1>1. PICK d \in Device, role \in Role :
        Accept(p, [Idle EXCEPT !.pc = "unassign_commit", !.role = role,
                               !.device = d, !.rows = OpenOn(d)])
  BY DEF UnassignReceive
<1>2. req'[p] = [Idle EXCEPT !.pc = "unassign_commit", !.role = role,
                             !.device = d, !.rows = OpenOn(d)]
  BY <1>1, Accepted
<1>3. Arrives(p)
  BY <1>1, Accepted DEF Arrives, UnassignReceive
<1> QED BY <1>1, <1>2, <1>3 DEF Idle

LEMMA OffboardArrives ==
  ASSUME TypeOK, NEW p \in Proc, OffboardReceive(p)
  PROVE  /\ Arrives(p)
         /\ req'[p].pc \in {"offboard_gate", "offboard_update"}
         /\ req'[p].device = None /\ req'[p].employee \in Employee
         /\ req'[p].approval = 0
         /\ ~req'[p].had => OpenOf(req'[p].employee) = {}
<1>1. PICK e \in Employee, role \in Role :
        Accept(p, [Idle EXCEPT
          !.pc = IF role = "admin" THEN "offboard_update" ELSE "offboard_gate",
          !.role = role, !.employee = e, !.had = OpenOf(e) # {}])
  BY DEF OffboardReceive
<1>2. req'[p] = [Idle EXCEPT
                   !.pc = IF role = "admin" THEN "offboard_update"
                                            ELSE "offboard_gate",
                   !.role = role, !.employee = e, !.had = OpenOf(e) # {}]
  BY <1>1, Accepted
<1>3. Arrives(p)
  BY <1>1, Accepted DEF Arrives, OffboardReceive
<1> QED BY <1>1, <1>2, <1>3 DEF Idle

LEMMA ReactivateArrives ==
  ASSUME TypeOK, NEW p \in Proc, ReactivateReceive(p)
  PROVE  /\ Arrives(p)
         /\ req'[p].pc = "reactivate_update"
         /\ req'[p].device = None /\ req'[p].employee \in Employee
         /\ req'[p].approval = 0
<1>1. PICK e \in Employee, role \in Role :
        Accept(p, [Idle EXCEPT !.pc = "reactivate_update", !.role = role,
                               !.employee = e])
  BY DEF ReactivateReceive
<1>2. req'[p] = [Idle EXCEPT !.pc = "reactivate_update", !.role = role,
                             !.employee = e]
  BY <1>1, Accepted
<1>3. Arrives(p)
  BY <1>1, Accepted DEF Arrives, ReactivateReceive
<1> QED BY <1>1, <1>2, <1>3 DEF Idle

LEMMA Taken ==
  ASSUME TypeOK, NEW p \in Proc, NEW a \in ApprovalId, NEW pc,
         Take(p, a, pc), UNCHANGED tables
  PROVE  /\ Arrives(p)
         /\ req'[p].pc = pc
         /\ req'[p].device = approval[a].device
         /\ req'[p].employee = approval[a].employee
         /\ req'[p].approval = a /\ approval[a].state = "pending"
<1>1. req'[p] = [Idle EXCEPT !.pc = pc, !.role = "admin", !.approval = a,
                             !.device = approval[a].device,
                             !.employee = approval[a].employee]
  BY Accepted DEF Take
<1>2. Arrives(p)
  BY Accepted DEF Arrives, Take
<1> QED BY <1>1, <1>2 DEF Idle, Take

LEMMA ApproveArrives ==
  ASSUME TypeOK, Subjects, NEW p \in Proc, ApproveReceive(p)
  PROVE  /\ Arrives(p)
         /\ req'[p].approval \in ApprovalId
         /\ approval[req'[p].approval].state = "pending"
         /\ req'[p].device = approval[req'[p].approval].device
         /\ req'[p].employee = approval[req'[p].approval].employee
         /\ \/ /\ req'[p].pc = "approve_both"
               /\ req'[p].device \in Device /\ req'[p].employee \in Employee
            \/ req'[p].pc = "retire_device" /\ req'[p].device \in Device
            \/ req'[p].pc = "leave_employee" /\ req'[p].employee \in Employee
<1>1. PICK a \in ApprovalId : /\ Take(p, a, AfterFind[approval[a].kind])
                              /\ UNCHANGED tables
  BY DEF ApproveReceive
<1>2. approval[a].kind \in {"assignment", "decommission", "offboard"}
  BY DEF TypeOK, ApprovalRow
<1> QED BY <1>1, <1>2, Taken DEF Subjects, AfterFind

LEMMA RejectArrives ==
  ASSUME TypeOK, NEW p \in Proc, RejectReceive(p)
  PROVE  /\ Arrives(p)
         /\ req'[p].pc = "reject_update"
         /\ req'[p].approval \in ApprovalId
         /\ approval[req'[p].approval].state = "pending"
         /\ req'[p].device = approval[req'[p].approval].device
         /\ req'[p].employee = approval[req'[p].approval].employee
  BY Taken DEF RejectReceive

-----------------------------------------------------------------------------
(* What one step of a handler can change *)

Step(p) == DeviceStep(p) \/ EmployeeStep(p) \/ ApprovalStep(p) \/ Fail(p)

\* The rows a step of p writes are about the assets of its own request.
Effect(p) ==
  /\ \A q \in Proc \ {p} : req'[q] = req[q]
  /\ \/ status' = status
     \/ \E s \in DeviceStatus : status' = [status EXCEPT ![req[p].device] = s]
  /\ \/ active' = active
     \/ \E b \in BOOLEAN : active' = [active EXCEPT ![req[p].employee] = b]
  /\ \/ assignment' = assignment
     \/ \E S \in SUBSET AsgId : assignment' = Closed(S)
     \/ /\ req[p].pc \in {"assign_commit", "approve_commit"}
        /\ req'[p] = Idle
        /\ \E i \in AsgId :
             /\ assignment[i].state = "absent"
             /\ assignment' = Handover(req[p].rows, i, req[p].device, req[p].employee)

\* What a step of p may do to the approvals.
Filing(p) ==
  \/ approval' = approval
  \/ /\ req'[p] = Idle
     /\ \E outcome \in {"approved", "rejected"} :
          approval' = Settled(req[p].approval, outcome)
  \/ /\ req'[p] = Idle
     /\ \E a \in ApprovalId :
          /\ approval[a].state = "absent"
          /\ \/ /\ req[p].pc = "patch_request"
                /\ approval' = Requested(a, "decommission", req[p].device, None)
             \/ /\ req[p].pc = "assign_request"
                /\ approval' = Requested(a, "assignment", req[p].device,
                                         req[p].employee)
             \/ /\ req[p].pc = "offboard_request"
                /\ approval' = Requested(a, "offboard", None, req[p].employee)

\* A request keeps its assets to the end; a new one is admitted alone.
Footprint(p) ==
  \/ req'[p] = Idle
  \/ /\ req[p].pc # "idle"
     /\ req'[p].device = req[p].device
     /\ req'[p].employee = req[p].employee
     /\ req'[p].pc # "idle"
     /\ req'[p].pc \in OnDevice => req[p].pc \in OnDevice
     /\ req'[p].pc \in OnEmployee => req[p].pc \in OnEmployee
  \/ /\ req[p].pc = "idle"
     /\ Contention \/ Alone(p, req'[p].device, req'[p].employee)
     /\ req'[p].pc # "idle"
     /\ req'[p].pc \in OnDevice => req'[p].device \in Device
     /\ req'[p].pc \in OnEmployee => req'[p].employee \in Employee

\* A snapshot is taken of the database as it is, by a step that writes nothing.
Snapshots(p) ==
  req'[p].pc \in {"assign_commit", "unassign_commit", "approve_commit",
                  "retire_commit"} =>
    UNCHANGED tables /\ req'[p].rows = OpenOn(req'[p].device)

LEMMA ReplyFootprint ==
  ASSUME TypeOK, NEW p \in Proc, Reply(p)
  PROVE  Footprint(p)
  BY Replied DEF Footprint

LEMMA GoFootprint ==
  ASSUME TypeOK, NEW p \in Proc, NEW pc, Go(p, pc),
         req[p].pc # "idle", pc # "idle",
         pc \in OnDevice => req[p].pc \in OnDevice,
         pc \in OnEmployee => req[p].pc \in OnEmployee
  PROVE  Footprint(p)
  BY Gone DEF Footprint, Keeps

LEMMA SnapshotFootprint ==
  ASSUME TypeOK, NEW p \in Proc, NEW S, NEW pc, Snapshot(p, S, pc),
         req[p].pc # "idle", pc # "idle",
         pc \in OnDevice => req[p].pc \in OnDevice,
         pc \in OnEmployee => req[p].pc \in OnEmployee
  PROVE  Footprint(p)
  BY Snapped DEF Footprint, Keeps

LEMMA DeviceEffect ==
  ASSUME TypeOK, Subjects, NEW p \in Proc, DeviceStep(p)
  PROVE  Effect(p)
<1> USE DEF Effect, tables, At
<1>1. CASE PatchReceive(p)
  BY <1>1, PatchArrives DEF PatchReceive, Arrives
<1>2. CASE PatchGate(p)
  BY <1>2, Gone, Replied DEF PatchGate
<1>3. CASE PatchRequest(p)
  BY <1>3, Replied DEF PatchRequest
<1>4. CASE PatchUpdate(p)
  BY <1>4, Gone, Replied, RequestFields DEF PatchUpdate
<1>5. CASE PatchClose(p)
  BY <1>5, Replied DEF PatchClose, OpenOn
<1>6. CASE AssignReceive(p)
  BY <1>6, AssignArrives DEF AssignReceive, Arrives
<1>7. CASE AssignEmployee(p)
  BY <1>7, Gone, Replied DEF AssignEmployee, AfterEmployee
<1>8. CASE AssignGate(p)
  BY <1>8, Gone, Replied DEF AssignGate
<1>9. CASE AssignRequest(p)
  BY <1>9, Replied DEF AssignRequest
<1>10. CASE AssignClose(p)
  BY <1>10, Snapped DEF AssignClose
<1>11. CASE AssignCommit(p)
  BY <1>11, Replied DEF AssignCommit, NextAssignment, DeviceStatus
<1>12. CASE UnassignReceive(p)
  BY <1>12, UnassignArrives DEF UnassignReceive, Arrives
<1>13. CASE UnassignCommit(p)
  BY <1>13, Replied, RequestFields DEF UnassignCommit, DeviceStatus
<1> QED
  BY <1>1, <1>2, <1>3, <1>4, <1>5, <1>6, <1>7, <1>8, <1>9, <1>10, <1>11, <1>12, <1>13 DEF DeviceStep

LEMMA EmployeeEffect ==
  ASSUME TypeOK, Subjects, NEW p \in Proc, EmployeeStep(p)
  PROVE  Effect(p)
<1> USE DEF Effect, tables, At
<1>1. CASE OffboardReceive(p)
  BY <1>1, OffboardArrives DEF OffboardReceive, Arrives
<1>2. CASE OffboardGate(p)
  BY <1>2, Gone, Replied DEF OffboardGate
<1>3. CASE OffboardRequest(p)
  BY <1>3, Replied DEF OffboardRequest
<1>4. CASE OffboardUpdate(p)
  BY <1>4, Gone, Replied DEF OffboardUpdate
<1>5. CASE OffboardClose(p)
  BY <1>5, Replied DEF OffboardClose, OpenOf
<1>6. CASE ReactivateReceive(p)
  BY <1>6, ReactivateArrives DEF ReactivateReceive, Arrives
<1>7. CASE ReactivateUpdate(p)
  BY <1>7, Replied DEF ReactivateUpdate
<1> QED
  BY <1>1, <1>2, <1>3, <1>4, <1>5, <1>6, <1>7 DEF EmployeeStep

LEMMA ApprovalEffect ==
  ASSUME TypeOK, Subjects, NEW p \in Proc, ApprovalStep(p)
  PROVE  Effect(p)
<1> USE DEF Effect, tables, At
<1>1. CASE ApproveReceive(p)
  BY <1>1, ApproveArrives DEF ApproveReceive, Arrives
<1>2. CASE ApproveRead(p)
  BY <1>2, Gone, Replied DEF ApproveRead, ReadDevice, ReadEmployee
<1>3. CASE ApproveClose(p)
  BY <1>3, Snapped DEF ApproveClose
<1>4. CASE ApproveCommit(p)
  BY <1>4, Replied DEF ApproveCommit, NextAssignment, DeviceStatus
<1>5. CASE RetireDevice(p)
  BY <1>5, Gone, Replied DEF RetireDevice
<1>6. CASE RetireClose(p)
  BY <1>6, Snapped DEF RetireClose
<1>7. CASE RetireCommit(p)
  BY <1>7, Replied, RequestFields DEF RetireCommit, DeviceStatus
<1>8. CASE LeaveEmployee(p)
  BY <1>8, Gone, Replied DEF LeaveEmployee
<1>9. CASE LeaveClose(p)
  BY <1>9, Snapped DEF LeaveClose
<1>10. CASE LeaveCommit(p)
  BY <1>10, Replied, RequestFields DEF LeaveCommit
<1>11. CASE RejectReceive(p)
  BY <1>11, RejectArrives DEF RejectReceive, Arrives
<1>12. CASE RejectUpdate(p)
  BY <1>12, Replied DEF RejectUpdate
<1> QED
  BY <1>1, <1>2, <1>3, <1>4, <1>5, <1>6, <1>7, <1>8, <1>9, <1>10, <1>11, <1>12 DEF ApprovalStep

LEMMA DeviceFiling ==
  ASSUME TypeOK, Subjects, NEW p \in Proc, DeviceStep(p)
  PROVE  Filing(p)
<1> USE DEF Filing, tables, At
<1>1. CASE PatchReceive(p)
  BY <1>1, PatchArrives DEF PatchReceive, Arrives
<1>2. CASE PatchGate(p)
  BY <1>2, Gone, Replied DEF PatchGate
<1>3. CASE PatchRequest(p)
  BY <1>3, Replied DEF PatchRequest, NextApproval
<1>4. CASE PatchUpdate(p)
  BY <1>4, Gone, Replied DEF PatchUpdate
<1>5. CASE PatchClose(p)
  BY <1>5, Replied DEF PatchClose
<1>6. CASE AssignReceive(p)
  BY <1>6, AssignArrives DEF AssignReceive, Arrives
<1>7. CASE AssignEmployee(p)
  BY <1>7, Gone, Replied DEF AssignEmployee, AfterEmployee
<1>8. CASE AssignGate(p)
  BY <1>8, Gone, Replied DEF AssignGate
<1>9. CASE AssignRequest(p)
  BY <1>9, Replied DEF AssignRequest, NextApproval
<1>10. CASE AssignClose(p)
  BY <1>10, Snapped DEF AssignClose
<1>11. CASE AssignCommit(p)
  BY <1>11, Replied DEF AssignCommit
<1>12. CASE UnassignReceive(p)
  BY <1>12, UnassignArrives DEF UnassignReceive, Arrives
<1>13. CASE UnassignCommit(p)
  BY <1>13, Replied DEF UnassignCommit
<1> QED
  BY <1>1, <1>2, <1>3, <1>4, <1>5, <1>6, <1>7, <1>8, <1>9, <1>10, <1>11, <1>12, <1>13 DEF DeviceStep

LEMMA EmployeeFiling ==
  ASSUME TypeOK, Subjects, NEW p \in Proc, EmployeeStep(p)
  PROVE  Filing(p)
<1> USE DEF Filing, tables, At
<1>1. CASE OffboardReceive(p)
  BY <1>1, OffboardArrives DEF OffboardReceive, Arrives
<1>2. CASE OffboardGate(p)
  BY <1>2, Gone, Replied DEF OffboardGate
<1>3. CASE OffboardRequest(p)
  BY <1>3, Replied DEF OffboardRequest, NextApproval
<1>4. CASE OffboardUpdate(p)
  BY <1>4, Gone, Replied DEF OffboardUpdate
<1>5. CASE OffboardClose(p)
  BY <1>5, Replied DEF OffboardClose
<1>6. CASE ReactivateReceive(p)
  BY <1>6, ReactivateArrives DEF ReactivateReceive, Arrives
<1>7. CASE ReactivateUpdate(p)
  BY <1>7, Replied DEF ReactivateUpdate
<1> QED
  BY <1>1, <1>2, <1>3, <1>4, <1>5, <1>6, <1>7 DEF EmployeeStep

LEMMA ApprovalFiling ==
  ASSUME TypeOK, Subjects, NEW p \in Proc, ApprovalStep(p)
  PROVE  Filing(p)
<1> USE DEF Filing, tables, At
<1>1. CASE ApproveReceive(p)
  BY <1>1, ApproveArrives DEF ApproveReceive, Arrives
<1>2. CASE ApproveRead(p)
  BY <1>2, Gone, Replied DEF ApproveRead, ReadDevice, ReadEmployee
<1>3. CASE ApproveClose(p)
  BY <1>3, Snapped DEF ApproveClose
<1>4. CASE ApproveCommit(p)
  BY <1>4, Replied DEF ApproveCommit
<1>5. CASE RetireDevice(p)
  BY <1>5, Gone, Replied DEF RetireDevice
<1>6. CASE RetireClose(p)
  BY <1>6, Snapped DEF RetireClose
<1>7. CASE RetireCommit(p)
  BY <1>7, Replied DEF RetireCommit
<1>8. CASE LeaveEmployee(p)
  BY <1>8, Gone, Replied DEF LeaveEmployee
<1>9. CASE LeaveClose(p)
  BY <1>9, Snapped DEF LeaveClose
<1>10. CASE LeaveCommit(p)
  BY <1>10, Replied DEF LeaveCommit
<1>11. CASE RejectReceive(p)
  BY <1>11, RejectArrives DEF RejectReceive, Arrives
<1>12. CASE RejectUpdate(p)
  BY <1>12, Replied DEF RejectUpdate
<1> QED
  BY <1>1, <1>2, <1>3, <1>4, <1>5, <1>6, <1>7, <1>8, <1>9, <1>10, <1>11, <1>12 DEF ApprovalStep

LEMMA DeviceFootprint ==
  ASSUME TypeOK, Subjects, NEW p \in Proc, DeviceStep(p)
  PROVE  Footprint(p)
<1> USE DEF At, OnDevice, OnEmployee
<1>1. CASE PatchReceive(p)
  BY <1>1, PatchArrives DEF PatchReceive, Arrives, Footprint
<1>2. CASE PatchGate(p)
  BY <1>2, GoFootprint, ReplyFootprint DEF PatchGate
<1>3. CASE PatchRequest(p)
  BY <1>3, ReplyFootprint DEF PatchRequest
<1>4. CASE PatchUpdate(p)
  BY <1>4, GoFootprint, ReplyFootprint DEF PatchUpdate
<1>5. CASE PatchClose(p)
  BY <1>5, ReplyFootprint DEF PatchClose
<1>6. CASE AssignReceive(p)
  BY <1>6, AssignArrives DEF AssignReceive, Arrives, Footprint
<1>7. CASE AssignEmployee(p)
  BY <1>7, GoFootprint, ReplyFootprint DEF AssignEmployee, AfterEmployee
<1>8. CASE AssignGate(p)
  BY <1>8, GoFootprint, ReplyFootprint DEF AssignGate
<1>9. CASE AssignRequest(p)
  BY <1>9, ReplyFootprint DEF AssignRequest
<1>10. CASE AssignClose(p)
  BY <1>10, SnapshotFootprint DEF AssignClose
<1>11. CASE AssignCommit(p)
  BY <1>11, ReplyFootprint DEF AssignCommit
<1>12. CASE UnassignReceive(p)
  BY <1>12, UnassignArrives DEF UnassignReceive, Arrives, Footprint
<1>13. CASE UnassignCommit(p)
  BY <1>13, ReplyFootprint DEF UnassignCommit
<1> QED
  BY <1>1, <1>2, <1>3, <1>4, <1>5, <1>6, <1>7, <1>8, <1>9, <1>10, <1>11, <1>12, <1>13 DEF DeviceStep

LEMMA EmployeeFootprint ==
  ASSUME TypeOK, Subjects, NEW p \in Proc, EmployeeStep(p)
  PROVE  Footprint(p)
<1> USE DEF At, OnDevice, OnEmployee
<1>1. CASE OffboardReceive(p)
  BY <1>1, OffboardArrives DEF OffboardReceive, Arrives, Footprint
<1>2. CASE OffboardGate(p)
  BY <1>2, GoFootprint, ReplyFootprint DEF OffboardGate
<1>3. CASE OffboardRequest(p)
  BY <1>3, ReplyFootprint DEF OffboardRequest
<1>4. CASE OffboardUpdate(p)
  BY <1>4, GoFootprint, ReplyFootprint DEF OffboardUpdate
<1>5. CASE OffboardClose(p)
  BY <1>5, ReplyFootprint DEF OffboardClose
<1>6. CASE ReactivateReceive(p)
  BY <1>6, ReactivateArrives DEF ReactivateReceive, Arrives, Footprint
<1>7. CASE ReactivateUpdate(p)
  BY <1>7, ReplyFootprint DEF ReactivateUpdate
<1> QED
  BY <1>1, <1>2, <1>3, <1>4, <1>5, <1>6, <1>7 DEF EmployeeStep

LEMMA ApprovalFootprint ==
  ASSUME TypeOK, Subjects, NEW p \in Proc, ApprovalStep(p)
  PROVE  Footprint(p)
<1> USE DEF At, OnDevice, OnEmployee
<1>1. CASE ApproveReceive(p)
  BY <1>1, ApproveArrives DEF ApproveReceive, Arrives, Footprint
<1>2. CASE ApproveRead(p)
  BY <1>2, GoFootprint, ReplyFootprint DEF ApproveRead, ReadDevice, ReadEmployee
<1>3. CASE ApproveClose(p)
  BY <1>3, SnapshotFootprint DEF ApproveClose
<1>4. CASE ApproveCommit(p)
  BY <1>4, ReplyFootprint DEF ApproveCommit
<1>5. CASE RetireDevice(p)
  BY <1>5, GoFootprint, ReplyFootprint DEF RetireDevice
<1>6. CASE RetireClose(p)
  BY <1>6, SnapshotFootprint DEF RetireClose
<1>7. CASE RetireCommit(p)
  BY <1>7, ReplyFootprint DEF RetireCommit
<1>8. CASE LeaveEmployee(p)
  BY <1>8, GoFootprint, ReplyFootprint DEF LeaveEmployee
<1>9. CASE LeaveClose(p)
  BY <1>9, SnapshotFootprint DEF LeaveClose
<1>10. CASE LeaveCommit(p)
  BY <1>10, ReplyFootprint DEF LeaveCommit
<1>11. CASE RejectReceive(p)
  BY <1>11, RejectArrives DEF RejectReceive, Arrives, Footprint
<1>12. CASE RejectUpdate(p)
  BY <1>12, ReplyFootprint DEF RejectUpdate
<1> QED
  BY <1>1, <1>2, <1>3, <1>4, <1>5, <1>6, <1>7, <1>8, <1>9, <1>10, <1>11, <1>12 DEF ApprovalStep

LEMMA DeviceSnapshots ==
  ASSUME TypeOK, Subjects, NEW p \in Proc, DeviceStep(p)
  PROVE  Snapshots(p)
<1> USE DEF Snapshots, At, Idle, Keeps
<1>1. CASE PatchReceive(p)
  BY <1>1, PatchArrives DEF PatchReceive, Arrives
<1>2. CASE PatchGate(p)
  BY <1>2, Gone, Replied DEF PatchGate
<1>3. CASE PatchRequest(p)
  BY <1>3, Replied DEF PatchRequest
<1>4. CASE PatchUpdate(p)
  BY <1>4, Gone, Replied DEF PatchUpdate
<1>5. CASE PatchClose(p)
  BY <1>5, Replied DEF PatchClose
<1>6. CASE AssignReceive(p)
  BY <1>6, AssignArrives DEF AssignReceive, Arrives
<1>7. CASE AssignEmployee(p)
  BY <1>7, Gone, Replied DEF AssignEmployee, AfterEmployee
<1>8. CASE AssignGate(p)
  BY <1>8, Gone, Replied DEF AssignGate
<1>9. CASE AssignRequest(p)
  BY <1>9, Replied DEF AssignRequest
<1>10. CASE AssignClose(p)
  BY <1>10, Snapped DEF AssignClose
<1>11. CASE AssignCommit(p)
  BY <1>11, Replied DEF AssignCommit
<1>12. CASE UnassignReceive(p)
  BY <1>12, UnassignArrives DEF UnassignReceive, Arrives
<1>13. CASE UnassignCommit(p)
  BY <1>13, Replied DEF UnassignCommit
<1> QED
  BY <1>1, <1>2, <1>3, <1>4, <1>5, <1>6, <1>7, <1>8, <1>9, <1>10, <1>11, <1>12, <1>13 DEF DeviceStep

LEMMA EmployeeSnapshots ==
  ASSUME TypeOK, Subjects, NEW p \in Proc, EmployeeStep(p)
  PROVE  Snapshots(p)
<1> USE DEF Snapshots, At, Idle, Keeps
<1>1. CASE OffboardReceive(p)
  BY <1>1, OffboardArrives DEF OffboardReceive, Arrives
<1>2. CASE OffboardGate(p)
  BY <1>2, Gone, Replied DEF OffboardGate
<1>3. CASE OffboardRequest(p)
  BY <1>3, Replied DEF OffboardRequest
<1>4. CASE OffboardUpdate(p)
  BY <1>4, Gone, Replied DEF OffboardUpdate
<1>5. CASE OffboardClose(p)
  BY <1>5, Replied DEF OffboardClose
<1>6. CASE ReactivateReceive(p)
  BY <1>6, ReactivateArrives DEF ReactivateReceive, Arrives
<1>7. CASE ReactivateUpdate(p)
  BY <1>7, Replied DEF ReactivateUpdate
<1> QED
  BY <1>1, <1>2, <1>3, <1>4, <1>5, <1>6, <1>7 DEF EmployeeStep

LEMMA ApprovalSnapshots ==
  ASSUME TypeOK, Subjects, NEW p \in Proc, ApprovalStep(p)
  PROVE  Snapshots(p)
<1> USE DEF Snapshots, At, Idle, Keeps
<1>1. CASE ApproveReceive(p)
  BY <1>1, ApproveArrives DEF ApproveReceive, Arrives
<1>2. CASE ApproveRead(p)
  BY <1>2, Gone, Replied DEF ApproveRead, ReadDevice, ReadEmployee
<1>3. CASE ApproveClose(p)
  BY <1>3, Snapped DEF ApproveClose
<1>4. CASE ApproveCommit(p)
  BY <1>4, Replied DEF ApproveCommit
<1>5. CASE RetireDevice(p)
  BY <1>5, Gone, Replied DEF RetireDevice
<1>6. CASE RetireClose(p)
  BY <1>6, Snapped DEF RetireClose
<1>7. CASE RetireCommit(p)
  BY <1>7, Replied DEF RetireCommit
<1>8. CASE LeaveEmployee(p)
  BY <1>8, Gone, Replied DEF LeaveEmployee
<1>9. CASE LeaveClose(p)
  BY <1>9, Snapped DEF LeaveClose
<1>10. CASE LeaveCommit(p)
  BY <1>10, Replied DEF LeaveCommit
<1>11. CASE RejectReceive(p)
  BY <1>11, RejectArrives DEF RejectReceive, Arrives
<1>12. CASE RejectUpdate(p)
  BY <1>12, Replied DEF RejectUpdate
<1> QED
  BY <1>1, <1>2, <1>3, <1>4, <1>5, <1>6, <1>7, <1>8, <1>9, <1>10, <1>11, <1>12 DEF ApprovalStep

LEMMA StepFacts ==
  ASSUME TypeOK, Subjects, NEW p \in Proc, Step(p)
  PROVE  Effect(p) /\ Filing(p) /\ Footprint(p) /\ Snapshots(p)
<1>1. CASE DeviceStep(p)
  BY <1>1, DeviceEffect, DeviceFiling, DeviceFootprint, DeviceSnapshots
<1>2. CASE EmployeeStep(p)
  BY <1>2, EmployeeEffect, EmployeeFiling, EmployeeFootprint, EmployeeSnapshots
<1>3. CASE ApprovalStep(p)
  BY <1>3, ApprovalEffect, ApprovalFiling, ApprovalFootprint, ApprovalSnapshots
<1>4. CASE Fail(p)
  <2>1. Effect(p)
    BY <1>4, Replied DEF Fail, tables, Effect
  <2>2. Filing(p)
    BY <1>4, Replied DEF Fail, tables, Filing
  <2>3. Footprint(p)
    BY <1>4, ReplyFootprint DEF Fail
  <2>4. Snapshots(p)
    BY <1>4, Replied DEF Fail, Snapshots, Idle
  <2> QED BY <2>1, <2>2, <2>3, <2>4
<1> QED BY <1>1, <1>2, <1>3, <1>4 DEF Step

-----------------------------------------------------------------------------
(* The custody invariant is inductive as long as requests are admitted only   *)
(* when no other one in flight concerns the same asset.                       *)

\* A pending approval that was not there before was filed by this step.
LEMMA PendingFiled ==
  ASSUME TypeOK, NEW p \in Proc, Filing(p), NEW a \in ApprovalId,
         approval'[a].state = "pending", approval'[a] # approval[a]
  PROVE  /\ approval[a].state = "absent" /\ req'[p] = Idle
         /\ \/ approval'[a] = [state |-> "pending", kind |-> "decommission",
                               device |-> req[p].device, employee |-> None]
               /\ req[p].pc = "patch_request"
            \/ approval'[a] = [state |-> "pending", kind |-> "assignment",
                               device |-> req[p].device,
                               employee |-> req[p].employee]
               /\ req[p].pc = "assign_request"
            \/ approval'[a] = [state |-> "pending", kind |-> "offboard",
                               device |-> None, employee |-> req[p].employee]
               /\ req[p].pc = "offboard_request"
<1>1. CASE \E outcome \in {"approved", "rejected"} :
             approval' = Settled(req[p].approval, outcome)
  BY <1>1 DEF Settled, TypeOK, ApprovalRow
<1>2. CASE \E b \in ApprovalId :
             /\ approval[b].state = "absent" /\ req'[p] = Idle
             /\ \/ /\ req[p].pc = "patch_request"
                   /\ approval' = Requested(b, "decommission", req[p].device, None)
                \/ /\ req[p].pc = "assign_request"
                   /\ approval' = Requested(b, "assignment", req[p].device,
                                            req[p].employee)
                \/ /\ req[p].pc = "offboard_request"
                   /\ approval' = Requested(b, "offboard", None, req[p].employee)
  BY <1>2 DEF Requested, TypeOK
<1> QED BY <1>1, <1>2 DEF Filing

LEMMA SubjectsStep ==
  ASSUME TypeOK, Subjects, NEW p \in Proc, Step(p)
  PROVE  Subjects'
<1>1. ASSUME NEW q \in Proc
      PROVE  /\ req'[q].pc \in OnDevice => req'[q].device \in Device
             /\ req'[q].pc \in OnEmployee => req'[q].employee \in Employee
             /\ req'[q].pc = "idle" => req'[q] = Idle
  <2>1. CASE q # p
    BY <2>1, StepFacts DEF Effect, Subjects
  <2>2. CASE req'[p] = Idle
    BY <2>1, <2>2 DEF Idle, OnDevice, OnEmployee
  <2> QED BY <2>1, <2>2, StepFacts DEF Footprint, Subjects
<1>2. ASSUME NEW a \in ApprovalId, approval'[a].state = "pending",
             approval'[a] # approval[a]
      PROVE  /\ approval'[a].kind = "assignment" =>
                  approval'[a].device \in Device /\ approval'[a].employee \in Employee
             /\ approval'[a].kind = "decommission" => approval'[a].device \in Device
             /\ approval'[a].kind = "offboard" => approval'[a].employee \in Employee
  <2>1. \/ approval'[a] = [state |-> "pending", kind |-> "decommission",
                           device |-> req[p].device, employee |-> None]
           /\ req[p].pc = "patch_request"
        \/ approval'[a] = [state |-> "pending", kind |-> "assignment",
                           device |-> req[p].device, employee |-> req[p].employee]
           /\ req[p].pc = "assign_request"
        \/ approval'[a] = [state |-> "pending", kind |-> "offboard",
                           device |-> None, employee |-> req[p].employee]
           /\ req[p].pc = "offboard_request"
    BY <1>2, StepFacts, PendingFiled
  <2> QED BY <2>1 DEF Subjects, OnDevice, OnEmployee
<1>3. \A a \in ApprovalId : approval'[a].state = "pending" =>
        /\ approval'[a].kind = "assignment" =>
             approval'[a].device \in Device /\ approval'[a].employee \in Employee
        /\ approval'[a].kind = "decommission" => approval'[a].device \in Device
        /\ approval'[a].kind = "offboard" => approval'[a].employee \in Employee
  BY <1>2 DEF Subjects
<1> QED BY <1>1, <1>3 DEF Subjects

LEMMA ExclusiveStep ==
  ASSUME TypeOK, Subjects, Exclusive, ~Contention, NEW p \in Proc, Step(p)
  PROVE  Exclusive'
<1>1. \A q \in Proc \ {p} : req'[q] = req[q]
  BY StepFacts DEF Effect
<1>2. CASE req'[p] = Idle
  BY <1>1, <1>2 DEF Exclusive, Idle
<1>3. CASE req'[p].device = req[p].device /\ req'[p].employee = req[p].employee
  BY <1>1, <1>3 DEF Exclusive
<1>4. CASE Alone(p, req'[p].device, req'[p].employee)
  BY <1>1, <1>4 DEF Exclusive, Alone
<1> QED BY <1>2, <1>3, <1>4, StepFacts DEF Footprint

\* What the rows are after the commit that hands a device over.
LEMMA HandedOver ==
  ASSUME TypeOK, NEW p \in Proc, NEW i \in AsgId,
         assignment' = Handover(req[p].rows, i, req[p].device, req[p].employee)
  PROVE  /\ assignment'[i] = [state |-> "open", device |-> req[p].device,
                              employee |-> req[p].employee]
         /\ \A j \in AsgId \ {i} : assignment'[j] = Closed(req[p].rows)[j]
<1>1. req[p].device \in Device \cup {None} /\ req[p].employee \in Employee \cup {None}
  BY RequestFields
<1> QED BY <1>1, HandoverType

\* An open assignment of another device stays as it is or is closed.
LEMMA OpenElsewhere ==
  ASSUME TypeOK, NEW p \in Proc, Effect(p), NEW i \in AsgId,
         assignment'[i].state = "open",
         assignment'[i].device # req[p].device
  PROVE  assignment'[i] = assignment[i]
<1>1. CASE assignment' = assignment
  BY <1>1
<1>2. CASE \E S \in SUBSET AsgId : assignment' = Closed(S)
  BY <1>2 DEF Closed, TypeOK, AssignmentRow
<1>3. ASSUME NEW j \in AsgId,
             assignment' = Handover(req[p].rows, j, req[p].device, req[p].employee)
      PROVE  assignment'[i] = assignment[i]
  <2>1. /\ assignment'[j] = [state |-> "open", device |-> req[p].device,
                              employee |-> req[p].employee]
        /\ \A k \in AsgId \ {j} : assignment'[k] = Closed(req[p].rows)[k]
    BY <1>3, HandedOver
  <2>2. assignment'[i] = Closed(req[p].rows)[i]
    BY <2>1
  <2> QED BY <2>2 DEF Closed, TypeOK, AssignmentRow
<1> QED BY <1>1, <1>2, <1>3 DEF Effect

LEMMA SnapshotCompleteStep ==
  ASSUME CustodyInv, ~Contention, NEW p \in Proc, Step(p)
  PROVE  SnapshotComplete'
<1> USE DEF CustodyInv
<1>1. SUFFICES ASSUME NEW q \in Proc,
                      req'[q].pc \in {"assign_commit", "unassign_commit",
                                      "approve_commit", "retire_commit"},
                      NEW i \in AsgId, assignment'[i].state = "open",
                      assignment'[i].device = req'[q].device
               PROVE  i \in req'[q].rows
  BY DEF SnapshotComplete, SeesOpen, OpenOn
<1>2. CASE q = p
  BY <1>1, <1>2, StepFacts DEF Snapshots, tables, OpenOn
<1>3. CASE q # p
  <2>1. req'[q] = req[q] /\ req[q].device # req[p].device
    <3>1. req'[q] = req[q]
      BY <1>3, StepFacts DEF Effect
    <3>2. req[q].device \in Device
      BY <1>1, <3>1 DEF Subjects, OnDevice
    <3> QED BY <1>3, <3>1, <3>2, NoneAssumption DEF Exclusive
  <2>2. assignment'[i] = assignment[i]
    BY <1>1, <2>1, StepFacts, OpenElsewhere
  <2> QED BY <1>1, <2>1, <2>2 DEF SnapshotComplete, SeesOpen, OpenOn
<1> QED BY <1>2, <1>3

LEMMA AtMostOneOpenStep ==
  ASSUME CustodyInv, NEW p \in Proc, Step(p)
  PROVE  AtMostOneOpen'
<1> USE DEF CustodyInv
<1>1. CASE assignment' = assignment
  BY <1>1 DEF AtMostOneOpen
<1>2. ASSUME NEW S \in SUBSET AsgId, assignment' = Closed(S)
      PROVE  AtMostOneOpen'
  BY <1>2, ClosedType DEF AtMostOneOpen
<1>3. ASSUME NEW i \in AsgId, req[p].pc \in {"assign_commit", "approve_commit"},
             assignment' = Handover(req[p].rows, i, req[p].device, req[p].employee)
      PROVE  AtMostOneOpen'
  <2>1. /\ assignment'[i] = [state |-> "open", device |-> req[p].device,
                              employee |-> req[p].employee]
        /\ \A j \in AsgId \ {i} : assignment'[j] = Closed(req[p].rows)[j]
    BY <1>3, HandedOver
  <2>2. \A j \in AsgId \ {i} : assignment'[j].state = "open" =>
          /\ assignment[j].state = "open" /\ j \notin req[p].rows
          /\ assignment'[j].device = assignment[j].device
    BY <2>1, ClosedType
  <2>3. \A j \in AsgId \ {i} : assignment'[j].state = "open" =>
          assignment'[j].device # req[p].device
    BY <1>3, <2>2 DEF SnapshotComplete, SeesOpen, OpenOn
  <2> QED BY <2>1, <2>2, <2>3 DEF AtMostOneOpen
<1> QED BY <1>1, <1>2, <1>3, StepFacts DEF Effect

LEMMA CustodyInit == Init => CustodyInv
<1> SUFFICES ASSUME Init PROVE CustodyInv
  OBVIOUS
<1>1. \A p \in Proc : req[p] = Idle
  BY DEF Init
<1>2. Subjects /\ Exclusive /\ SnapshotComplete
  BY <1>1 DEF Init, Idle, Subjects, Exclusive, SnapshotComplete, SeesOpen, OnDevice, OnEmployee
<1>3. AtMostOneOpen
  BY DEF Init, AtMostOneOpen
<1> QED BY <1>2, <1>3, InitType DEF CustodyInv

LEMMA CustodyStutter == CustodyInv /\ UNCHANGED vars => CustodyInv'
  BY DEF CustodyInv, TypeOK, Subjects, Exclusive, SnapshotComplete, SeesOpen, OpenOn,
         AtMostOneOpen, vars

LEMMA CustodyNext == ~Contention /\ CustodyInv /\ [Next]_vars => CustodyInv'
<1> SUFFICES ASSUME ~Contention, CustodyInv, [Next]_vars PROVE CustodyInv'
  OBVIOUS
<1>1. ASSUME NEW p \in Proc, Step(p) PROVE CustodyInv'
  BY <1>1, NextType, SubjectsStep, ExclusiveStep, SnapshotCompleteStep,
     AtMostOneOpenStep DEF CustodyInv, Next, Step
<1> QED BY <1>1, CustodyStutter DEF Next, Step

-----------------------------------------------------------------------------
(* What holds with contention as well.                                        *)

LEMMA SubjectsNext == TypeOK /\ Subjects /\ [Next]_vars => Subjects'
<1> SUFFICES ASSUME TypeOK, Subjects, [Next]_vars PROVE Subjects'
  OBVIOUS
<1>1. ASSUME NEW p \in Proc, Step(p) PROVE Subjects'
  BY <1>1, SubjectsStep
<1>2. CASE UNCHANGED vars
  BY <1>2 DEF vars, Subjects
<1> QED BY <1>1, <1>2 DEF Next, Step

LEMMA SubjectsAlways == Spec => [](TypeOK /\ Subjects)
<1>1. Init => Subjects
  BY CustodyInit DEF CustodyInv
<1> QED BY <1>1, SubjectsNext, TypeCorrect, PTL DEF Spec

(* The assignment history is only appended to: no interleaving of the routes  *)
(* deletes, reopens or rewrites a row.                                        *)
THEOREM HistoryKept == Spec => AssignmentHistory
<1> DEFINE Kept(i) ==
      /\ assignment[i].state # "absent" =>
           /\ assignment'[i].device = assignment[i].device
           /\ assignment'[i].employee = assignment[i].employee
           /\ assignment'[i].state # "absent"
      /\ assignment[i].state = "returned" => assignment'[i].state = "returned"
<1>1. Init => Subjects
  BY CustodyInit DEF CustodyInv
<1>2. TypeOK /\ Subjects /\ [Next]_vars => [\A i \in AsgId : Kept(i)]_vars
  <2> SUFFICES ASSUME TypeOK, Subjects, NEW p \in Proc, Step(p), NEW i \in AsgId
               PROVE  Kept(i)
    BY DEF Next, Step
  <2>1. Effect(p)
    BY StepFacts
  <2>2. CASE assignment' = assignment
    BY <2>2
  <2>3. ASSUME NEW S \in SUBSET AsgId, assignment' = Closed(S) PROVE Kept(i)
    BY <2>3, ClosedType
  <2>4. ASSUME NEW j \in AsgId, assignment[j].state = "absent",
               assignment' = Handover(req[p].rows, j, req[p].device, req[p].employee)
        PROVE  Kept(i)
    <3>1. /\ assignment'[j] = [state |-> "open", device |-> req[p].device,
                                employee |-> req[p].employee]
          /\ \A k \in AsgId \ {j} : assignment'[k] = Closed(req[p].rows)[k]
      BY <2>4, HandedOver
    <3>2. CASE i = j
      BY <2>4, <3>2
    <3>3. CASE i # j
      BY <3>1, <3>3, ClosedType
    <3> QED BY <3>2, <3>3
  <2> QED BY <2>1, <2>2, <2>3, <2>4 DEF Effect
<1> QED BY <1>1, <1>2, SubjectsNext, TypeCorrect, PTL DEF Spec, AssignmentHistory

-----------------------------------------------------------------------------
(* An admin's decision is about what was asked; an operator's own request     *)
(* never comes to a statement that executes anything.                         *)

Approving == {"approve_both", "approve_device", "approve_employee",
              "approve_close", "approve_commit"}
Retiring == {"retire_device", "retire_close", "retire_commit"}
Leaving == {"leave_employee", "leave_close", "leave_commit"}

Operating == {"patch_gate", "patch_request", "patch_update", "patch_close",
              "assign_employee", "assign_gate", "assign_request",
              "unassign_commit", "offboard_gate", "offboard_request",
              "reactivate_update"}

About(p) ==
  /\ req[p].pc \in Approving \cup Retiring \cup Leaving \cup {"reject_update"} =>
       req[p].approval # 0
  /\ req[p].approval # 0 =>
       /\ approval[req[p].approval].state # "absent"
       /\ approval[req[p].approval].device = req[p].device
       /\ approval[req[p].approval].employee = req[p].employee
       /\ req[p].pc \in Approving => approval[req[p].approval].kind = "assignment"
       /\ req[p].pc \in Retiring => approval[req[p].approval].kind = "decommission"
       /\ req[p].pc \in Leaving => approval[req[p].approval].kind = "offboard"

Rights(p) ==
  req[p].role = "operator" =>
    /\ req[p].pc \in Operating
    /\ req[p].pc = "patch_update" => req[p].to # "decommissioned"

Grounds == \A p \in Proc : About(p) /\ Rights(p)

LEMMA IdleGrounds ==
  ASSUME NEW p \in Proc, req'[p] = Idle
  PROVE  About(p)' /\ Rights(p)'
  BY DEF Idle, About, Rights, Approving, Retiring, Leaving

LEMMA PatchRights ==
  ASSUME TypeOK, NEW p \in Proc, PatchReceive(p)
  PROVE  Rights(p)'
<1>1. PICK d \in Device, to \in DeviceStatus, role \in Role :
        Accept(p, [Idle EXCEPT
          !.pc = IF to = "decommissioned" /\ role # "admin"
                 THEN "patch_gate" ELSE "patch_update",
          !.role = role, !.device = d, !.to = to])
  BY DEF PatchReceive
<1>2. req'[p] = [Idle EXCEPT
                   !.pc = IF to = "decommissioned" /\ role # "admin"
                          THEN "patch_gate" ELSE "patch_update",
                   !.role = role, !.device = d, !.to = to]
  BY <1>1, Accepted
<1> QED BY <1>2 DEF Idle, Rights, Operating

LEMMA OffboardRights ==
  ASSUME TypeOK, NEW p \in Proc, OffboardReceive(p)
  PROVE  Rights(p)'
<1>1. PICK e \in Employee, role \in Role :
        Accept(p, [Idle EXCEPT
          !.pc = IF role = "admin" THEN "offboard_update" ELSE "offboard_gate",
          !.role = role, !.employee = e, !.had = OpenOf(e) # {}])
  BY DEF OffboardReceive
<1>2. req'[p] = [Idle EXCEPT
                   !.pc = IF role = "admin" THEN "offboard_update"
                                            ELSE "offboard_gate",
                   !.role = role, !.employee = e, !.had = OpenOf(e) # {}]
  BY <1>1, Accepted
<1> QED BY <1>2 DEF Idle, Rights, Operating

LEMMA TakenGrounds ==
  ASSUME TypeOK, NEW p \in Proc, NEW a \in ApprovalId, NEW pc,
         Take(p, a, pc), UNCHANGED tables,
         pc \in Approving => approval[a].kind = "assignment",
         pc \in Retiring => approval[a].kind = "decommission",
         pc \in Leaving => approval[a].kind = "offboard"
  PROVE  About(p)' /\ Rights(p)'
<1>1. req'[p] = [Idle EXCEPT !.pc = pc, !.role = "admin", !.approval = a,
                             !.device = approval[a].device,
                             !.employee = approval[a].employee]
  BY Accepted DEF Take
<1> QED BY <1>1 DEF Idle, Take, About, Rights, tables, ApprovalId

LEMMA DeviceGrounds ==
  ASSUME TypeOK, Grounds, NEW p \in Proc, DeviceStep(p)
  PROVE  About(p)' /\ Rights(p)'
<1> USE DEF At, tables, Keeps, Arrives, Grounds
<1>1. CASE PatchReceive(p)
  BY <1>1, PatchArrives, PatchRights DEF About, Approving, Retiring, Leaving
<1>2. CASE AssignReceive(p)
  BY <1>2, AssignArrives DEF About, Rights, Approving, Retiring, Leaving, Operating
<1>3. CASE UnassignReceive(p)
  BY <1>3, UnassignArrives DEF About, Rights, Approving, Retiring, Leaving, Operating
<1>4. CASE PatchGate(p)
  BY <1>4, Gone, Replied, IdleGrounds
     DEF PatchGate, About, Rights, Approving, Retiring, Leaving, Operating
<1>5. CASE PatchUpdate(p)
  BY <1>5, Gone, Replied, IdleGrounds
     DEF PatchUpdate, About, Rights, Approving, Retiring, Leaving, Operating
<1>6. CASE AssignEmployee(p)
  <2>1. req[p].role \in {"operator", "admin"}
    BY RequestFields DEF Role
  <2> QED BY <1>6, <2>1, Gone, Replied, IdleGrounds
     DEF AssignEmployee, AfterEmployee, About, Rights, Approving, Retiring,
         Leaving, Operating
<1>7. CASE AssignGate(p)
  BY <1>7, Gone, Replied, IdleGrounds
     DEF AssignGate, About, Rights, Approving, Retiring, Leaving, Operating
<1>8. CASE AssignClose(p)
  BY <1>8, Snapped
     DEF AssignClose, About, Rights, Approving, Retiring, Leaving, Operating
<1>9. CASE \/ PatchRequest(p) \/ PatchClose(p) \/ AssignRequest(p)
           \/ AssignCommit(p) \/ UnassignCommit(p)
  BY <1>9, Replied, IdleGrounds
     DEF PatchRequest, PatchClose, AssignRequest, AssignCommit, UnassignCommit
<1> QED
  BY <1>1, <1>2, <1>3, <1>4, <1>5, <1>6, <1>7, <1>8, <1>9 DEF DeviceStep

LEMMA EmployeeGrounds ==
  ASSUME TypeOK, Grounds, NEW p \in Proc, EmployeeStep(p)
  PROVE  About(p)' /\ Rights(p)'
<1> USE DEF At, tables, Keeps, Arrives, Grounds
<1>1. CASE OffboardReceive(p)
  BY <1>1, OffboardArrives, OffboardRights DEF About, Approving, Retiring, Leaving
<1>2. CASE ReactivateReceive(p)
  BY <1>2, ReactivateArrives
     DEF About, Rights, Approving, Retiring, Leaving, Operating
<1>3. CASE OffboardGate(p)
  BY <1>3, Gone, Replied, IdleGrounds
     DEF OffboardGate, About, Rights, Approving, Retiring, Leaving, Operating
<1>4. CASE OffboardUpdate(p)
  BY <1>4, Gone, Replied, IdleGrounds
     DEF OffboardUpdate, About, Rights, Approving, Retiring, Leaving, Operating
<1>5. CASE OffboardRequest(p) \/ OffboardClose(p) \/ ReactivateUpdate(p)
  BY <1>5, Replied, IdleGrounds DEF OffboardRequest, OffboardClose, ReactivateUpdate
<1> QED BY <1>1, <1>2, <1>3, <1>4, <1>5 DEF EmployeeStep

LEMMA ApprovalGrounds ==
  ASSUME TypeOK, Grounds, NEW p \in Proc, ApprovalStep(p)
  PROVE  About(p)' /\ Rights(p)'
<1> USE DEF At, tables, Keeps, Grounds
<1>1. CASE ApproveReceive(p)
  <2>1. PICK a \in ApprovalId : /\ Take(p, a, AfterFind[approval[a].kind])
                                /\ UNCHANGED tables
    BY <1>1 DEF ApproveReceive
  <2>2. approval[a].kind \in {"assignment", "decommission", "offboard"}
    BY DEF TypeOK, ApprovalRow
  <2> QED BY <2>1, <2>2, TakenGrounds DEF AfterFind, Approving, Retiring, Leaving
<1>2. CASE RejectReceive(p)
  BY <1>2, TakenGrounds DEF RejectReceive, Approving, Retiring, Leaving
<1>3. CASE ApproveRead(p)
  BY <1>3, Gone, Replied, IdleGrounds
     DEF ApproveRead, ReadDevice, ReadEmployee, About, Rights, Approving,
         Retiring, Leaving, Operating
<1>4. CASE ApproveClose(p)
  BY <1>4, Snapped
     DEF ApproveClose, About, Rights, Approving, Retiring, Leaving, Operating
<1>5. CASE RetireDevice(p)
  BY <1>5, Gone, Replied, IdleGrounds
     DEF RetireDevice, About, Rights, Approving, Retiring, Leaving, Operating
<1>6. CASE RetireClose(p)
  BY <1>6, Snapped
     DEF RetireClose, About, Rights, Approving, Retiring, Leaving, Operating
<1>7. CASE LeaveEmployee(p)
  BY <1>7, Gone, Replied, IdleGrounds
     DEF LeaveEmployee, About, Rights, Approving, Retiring, Leaving, Operating
<1>8. CASE LeaveClose(p)
  BY <1>8, Snapped
     DEF LeaveClose, About, Rights, Approving, Retiring, Leaving, Operating
<1>9. CASE ApproveCommit(p) \/ RetireCommit(p) \/ LeaveCommit(p) \/ RejectUpdate(p)
  BY <1>9, Replied, IdleGrounds
     DEF ApproveCommit, RetireCommit, LeaveCommit, RejectUpdate
<1> QED
  BY <1>1, <1>2, <1>3, <1>4, <1>5, <1>6, <1>7, <1>8, <1>9 DEF ApprovalStep

\* What an approval is about never changes.
LEMMA SubjectKept ==
  ASSUME TypeOK, NEW p \in Proc, Filing(p), NEW a \in ApprovalId,
         approval[a].state # "absent"
  PROVE  /\ approval'[a].state # "absent"
         /\ approval'[a].kind = approval[a].kind
         /\ approval'[a].device = approval[a].device
         /\ approval'[a].employee = approval[a].employee
  BY DEF Filing, Settled, Requested, TypeOK, ApprovalRow

LEMMA GroundsInit == Init => Grounds
  BY DEF Init, Idle, Grounds, About, Rights, Approving, Retiring, Leaving

LEMMA GroundsNext == TypeOK /\ Subjects /\ Grounds /\ [Next]_vars => Grounds'
<1> SUFFICES ASSUME TypeOK, Subjects, Grounds, [Next]_vars PROVE Grounds'
  OBVIOUS
<1>1. ASSUME NEW p \in Proc, Step(p), NEW q \in Proc \ {p}
      PROVE  About(q)' /\ Rights(q)'
  <2>1. req'[q] = req[q] /\ Filing(p)
    BY <1>1, StepFacts DEF Effect
  <2>2. req[q].approval \in ApprovalId \cup {0}
    BY RequestFields
  <2> QED BY <2>1, <2>2, SubjectKept DEF Grounds, About, Rights
<1>2. ASSUME NEW p \in Proc, Step(p)
      PROVE  About(p)' /\ Rights(p)'
  BY <1>2, DeviceGrounds, EmployeeGrounds, ApprovalGrounds, Replied, IdleGrounds
     DEF Step, Fail
<1>3. CASE UNCHANGED vars
  BY <1>3 DEF vars, Grounds, About, Rights
<1> QED BY <1>1, <1>2, <1>3 DEF Next, Step, Grounds

LEMMA ApprovesNow ==
  ASSUME TypeOK, Subjects, Grounds, NEW p \in Proc, Step(p), NEW a \in ApprovalId,
         Approves(a)
  PROVE  /\ req[p].approval = a
         /\ ApproveCommit(p) \/ RetireCommit(p) \/ LeaveCommit(p)
<1>1. ~DeviceStep(p)
  <2>1. SUFFICES ASSUME DeviceStep(p) PROVE ~Approves(a)
    OBVIOUS
  <2>2. CASE PatchRequest(p) \/ AssignRequest(p)
    BY <2>2 DEF PatchRequest, AssignRequest, Requested, TypeOK, Approves
  <2>3. CASE ~PatchRequest(p) /\ ~AssignRequest(p)
    <3>1. approval' = approval
      BY <2>1, <2>3 DEF DeviceStep, PatchReceive, PatchGate, PatchUpdate,
         PatchClose, AssignReceive, AssignEmployee, AssignGate, AssignClose,
         AssignCommit, UnassignReceive, UnassignCommit, tables
    <3> QED BY <3>1 DEF Approves
  <2> QED BY <2>2, <2>3
<1>2. ~EmployeeStep(p)
  <2>1. SUFFICES ASSUME EmployeeStep(p) PROVE ~Approves(a)
    OBVIOUS
  <2>2. CASE OffboardRequest(p)
    BY <2>2 DEF OffboardRequest, Requested, TypeOK, Approves
  <2>3. CASE ~OffboardRequest(p)
    <3>1. approval' = approval
      BY <2>1, <2>3 DEF EmployeeStep, OffboardReceive, OffboardGate,
         OffboardUpdate, OffboardClose, ReactivateReceive, ReactivateUpdate, tables
    <3> QED BY <3>1 DEF Approves
  <2> QED BY <2>2, <2>3
<1>3. ~RejectUpdate(p)
  BY DEF Approves, TypeOK, RejectUpdate, Settled, ApprovalRow
<1>4. ApproveCommit(p) \/ RetireCommit(p) \/ LeaveCommit(p)
  BY <1>1, <1>2, <1>3 DEF Approves, Step, Fail, ApprovalStep, ApproveReceive,
     ApproveRead, ReadDevice, ReadEmployee, ApproveClose, RetireDevice,
     RetireClose, LeaveEmployee, LeaveClose, RejectReceive, tables
<1>5. req[p].approval = a
  BY <1>4 DEF Approves, ApproveCommit, RetireCommit, LeaveCommit, Settled, TypeOK
<1> QED BY <1>4, <1>5

(* An approval turns "approved" in the step that gives it its effect, for the *)
(* device and the employee it was about, whatever is in flight.               *)
THEOREM ApprovedInEffect == Spec => ApprovalTakesEffect
<1> DEFINE InEffect(a) ==
      Approves(a) =>
       LET r == approval[a] IN
       CASE r.kind = "assignment" ->
              /\ status'[r.device] = "assigned"
              /\ \E i \in AsgId : /\ Inserted(i)
                                  /\ assignment'[i].device = r.device
                                  /\ assignment'[i].employee = r.employee
         [] r.kind = "decommission" -> status'[r.device] = "decommissioned"
         [] r.kind = "offboard" -> ~active'[r.employee]
<1>1. TypeOK /\ Subjects /\ Grounds /\ [Next]_vars
        => [\A a \in ApprovalId : InEffect(a)]_vars
  <2> SUFFICES ASSUME TypeOK, Subjects, Grounds, NEW p \in Proc, Step(p),
                      NEW a \in ApprovalId, Approves(a)
               PROVE  InEffect(a)
    BY DEF Next, Step
  <2>1. /\ req[p].approval = a
        /\ ApproveCommit(p) \/ RetireCommit(p) \/ LeaveCommit(p)
    BY ApprovesNow
  <2>2. a # 0 /\ approval[a].device = req[p].device /\ approval[a].employee = req[p].employee
    BY <2>1 DEF Grounds, About, ApprovalId
  <2>3. CASE ApproveCommit(p)
    <3>1. approval[a].kind = "assignment" /\ req[p].device \in Device
      BY <2>1, <2>2, <2>3 DEF ApproveCommit, At, Grounds, About, Approving,
         Subjects, OnDevice
    <3>2. status'[req[p].device] = "assigned"
      BY <2>3, <3>1 DEF ApproveCommit, TypeOK
    <3>3. PICK i \in AsgId :
            /\ assignment[i].state = "absent"
            /\ assignment' = Handover(req[p].rows, i, req[p].device, req[p].employee)
      BY <2>3 DEF ApproveCommit, NextAssignment
    <3>4. assignment'[i] = [state |-> "open", device |-> req[p].device,
                            employee |-> req[p].employee]
      BY <3>3, HandedOver
    <3>5. Inserted(i)
      BY <3>3, <3>4 DEF Inserted
    <3> QED BY <2>2, <3>1, <3>2, <3>4, <3>5
  <2>4. CASE RetireCommit(p)
    <3>1. approval[a].kind = "decommission" /\ req[p].device \in Device
      BY <2>1, <2>2, <2>4 DEF RetireCommit, At, Grounds, About, Retiring,
         Subjects, OnDevice
    <3>2. status'[req[p].device] = "decommissioned"
      BY <2>4, <3>1 DEF RetireCommit, TypeOK
    <3> QED BY <2>2, <3>1, <3>2
  <2>5. CASE LeaveCommit(p)
    <3>1. approval[a].kind = "offboard" /\ req[p].employee \in Employee
      BY <2>1, <2>2, <2>5 DEF LeaveCommit, At, Grounds, About, Leaving,
         Subjects, OnEmployee
    <3>2. ~active'[req[p].employee]
      BY <2>5, <3>1 DEF LeaveCommit, TypeOK
    <3> QED BY <2>2, <3>1, <3>2
  <2> QED BY <2>1, <2>3, <2>4, <2>5
<1>2. Init => Subjects
  BY CustodyInit DEF CustodyInv
<1> QED BY <1>1, <1>2, SubjectsNext, GroundsInit, GroundsNext, TypeCorrect, PTL
        DEF Spec, ApprovalTakesEffect

LEMMA OperatorWrites ==
  ASSUME TypeOK, Subjects, Grounds, NEW p \in Proc, Step(p),
         req[p].role = "operator"
  PROVE  /\ \A i \in AsgId : ~Inserted(i)
         /\ \A d \in Device : status[d] # "decommissioned" => status'[d] # "decommissioned"
         /\ \A e \in Employee : active[e] => active'[e]
<1>1. req[p].pc \in Operating /\ (req[p].pc = "patch_update" => req[p].to # "decommissioned")
  BY DEF Grounds, Rights
<1>2. \A i \in AsgId : ~Inserted(i)
  <2>1. assignment' = assignment \/ \E S \in SUBSET AsgId : assignment' = Closed(S)
    BY <1>1, StepFacts DEF Effect, Operating
  <2> QED BY <2>1, ClosedType DEF Inserted
<1>3. CASE PatchUpdate(p)
  BY <1>1, <1>2, <1>3 DEF PatchUpdate, At, TypeOK
<1>4. CASE UnassignCommit(p)
  BY <1>2, <1>4 DEF UnassignCommit, TypeOK
<1>5. CASE ReactivateUpdate(p)
  BY <1>2, <1>5 DEF ReactivateUpdate, TypeOK
<1>6. ASSUME ~PatchUpdate(p), ~UnassignCommit(p), ~ReactivateUpdate(p)
      PROVE  UNCHANGED <<status, active>>
  <2>1. CASE DeviceStep(p)
    BY <1>1, <1>6, <2>1 DEF Operating, At, DeviceStep, PatchReceive, PatchGate,
       PatchRequest, PatchClose, AssignReceive, AssignEmployee, AssignGate,
       AssignRequest, AssignClose, AssignCommit, UnassignReceive, tables
  <2>2. CASE EmployeeStep(p)
    BY <1>1, <1>6, <2>2 DEF Operating, At, EmployeeStep, OffboardReceive,
       OffboardGate, OffboardRequest, OffboardUpdate, OffboardClose,
       ReactivateReceive, tables
  <2>3. CASE ApprovalStep(p)
    BY <1>1, <2>3 DEF Operating, At, ApprovalStep, ApproveReceive, ApproveRead,
       ReadDevice, ReadEmployee, ApproveClose, ApproveCommit, RetireDevice,
       RetireClose, RetireCommit, LeaveEmployee, LeaveClose, LeaveCommit,
       RejectReceive, RejectUpdate, tables
  <2> QED BY <2>1, <2>2, <2>3 DEF Step, Fail, tables
<1> QED BY <1>2, <1>3, <1>4, <1>5, <1>6

(* An operator's own request never hands a device over, retires one or        *)
(* offboards anybody, whatever is in flight with it.                          *)
THEOREM OperatorsAsk == Spec => OperatorsOnlyRequest
<1> DEFINE Asks(p) ==
      req[p].role = "operator" /\ req'[p] # req[p] =>
       /\ \A i \in AsgId : ~Inserted(i)
       /\ \A d \in Device : status[d] # "decommissioned" => status'[d] # "decommissioned"
       /\ \A e \in Employee : active[e] => active'[e]
<1>1. TypeOK /\ Subjects /\ Grounds /\ [Next]_vars => [\A p \in Proc : Asks(p)]_vars
  <2> SUFFICES ASSUME TypeOK, Subjects, Grounds, NEW q \in Proc, Step(q),
                      NEW p \in Proc, req[p].role = "operator", req'[p] # req[p]
               PROVE  Asks(p)
    BY DEF Next, Step
  <2>1. p = q
    BY StepFacts DEF Effect
  <2> QED BY <2>1, OperatorWrites
<1>2. Init => Subjects
  BY CustodyInit DEF CustodyInv
<1> QED BY <1>1, <1>2, SubjectsNext, GroundsInit, GroundsNext, TypeCorrect, PTL
        DEF Spec, OperatorsOnlyRequest
-----------------------------------------------------------------------------
(* Overtaken handlers.  Nothing is assumed here of what is in flight          *)
(* together.  A handler's own step leaves true what it has found (the lemmas  *)
(* ...Finds), a step of another one can undo it only by writing what it       *)
(* depends on, and a write based on what is still true keeps the promise.     *)

\* A step files one request at most.
LEMMA FiledOnce ==
  ASSUME TypeOK, NEW p \in Proc, Filing(p), NEW a \in ApprovalId, NEW b \in ApprovalId,
         approval'[a].state = "pending", approval'[a] # approval[a],
         approval'[b].state = "pending", approval'[b] # approval[b]
  PROVE  a = b
  BY DEF TypeOK, Filing, Settled, Requested, ApprovalRow

\* What a handler finds out is so when it has found it out, and its own steps
\* do not undo it.
LEMMA DeviceFinds ==
  ASSUME TypeOK, Subjects, NEW p \in Proc, DeviceStep(p)
  PROVE  SeesQuiet(p)' /\ (SeesStatus(p) => SeesStatus(p)')
<1> USE DEF SeesQuiet, SeesStatus, At, tables, Keeps, Arrives, Idle, PendingOn, PendingOffboard
<1>1. CASE PatchReceive(p)
  BY <1>1, PatchArrives
<1>2. CASE PatchGate(p)
  BY <1>2, Gone, Replied DEF PatchGate
<1>3. CASE PatchRequest(p)
  BY <1>3, Replied DEF PatchRequest
<1>4. CASE PatchUpdate(p)
  BY <1>4, Gone, Replied DEF PatchUpdate
<1>5. CASE PatchClose(p)
  BY <1>5, Replied DEF PatchClose
<1>6. CASE AssignReceive(p)
  BY <1>6, AssignArrives
<1>7. CASE AssignEmployee(p)
  BY <1>7, Gone, Replied DEF AssignEmployee, AfterEmployee
<1>8. CASE AssignGate(p)
  BY <1>8, Gone, Replied DEF AssignGate
<1>9. CASE AssignRequest(p)
  BY <1>9, Replied DEF AssignRequest
<1>10. CASE AssignClose(p)
  BY <1>10, Snapped DEF AssignClose
<1>11. CASE AssignCommit(p)
  BY <1>11, Replied DEF AssignCommit
<1>12. CASE UnassignReceive(p)
  BY <1>12, UnassignArrives
<1>13. CASE UnassignCommit(p)
  BY <1>13, Replied DEF UnassignCommit
<1> QED
  BY <1>1, <1>2, <1>3, <1>4, <1>5, <1>6, <1>7, <1>8, <1>9, <1>10, <1>11, <1>12, <1>13 DEF DeviceStep

LEMMA EmployeeFinds ==
  ASSUME TypeOK, Subjects, NEW p \in Proc, EmployeeStep(p)
  PROVE  SeesQuiet(p)' /\ (SeesStatus(p) => SeesStatus(p)')
<1> USE DEF SeesQuiet, SeesStatus, At, tables, Keeps, Arrives, Idle, PendingOn, PendingOffboard
<1>1. CASE OffboardReceive(p)
  BY <1>1, OffboardArrives
<1>2. CASE OffboardGate(p)
  BY <1>2, Gone, Replied DEF OffboardGate
<1>3. CASE OffboardRequest(p)
  BY <1>3, Replied DEF OffboardRequest
<1>4. CASE OffboardUpdate(p)
  BY <1>4, Gone, Replied DEF OffboardUpdate
<1>5. CASE OffboardClose(p)
  BY <1>5, Replied DEF OffboardClose
<1>6. CASE ReactivateReceive(p)
  BY <1>6, ReactivateArrives
<1>7. CASE ReactivateUpdate(p)
  BY <1>7, Replied DEF ReactivateUpdate
<1> QED
  BY <1>1, <1>2, <1>3, <1>4, <1>5, <1>6, <1>7 DEF EmployeeStep

LEMMA ApprovalFinds ==
  ASSUME TypeOK, Subjects, NEW p \in Proc, ApprovalStep(p)
  PROVE  SeesQuiet(p)' /\ (SeesStatus(p) => SeesStatus(p)')
<1> USE DEF SeesQuiet, SeesStatus, At, tables, Keeps, Arrives, Idle, PendingOn, PendingOffboard
<1>1. CASE ApproveReceive(p)
  BY <1>1, ApproveArrives
<1>2. CASE ApproveRead(p)
  BY <1>2, Gone, Replied DEF ApproveRead, ReadDevice, ReadEmployee
<1>3. CASE ApproveClose(p)
  BY <1>3, Snapped DEF ApproveClose
<1>4. CASE ApproveCommit(p)
  BY <1>4, Replied DEF ApproveCommit
<1>5. CASE RetireDevice(p)
  BY <1>5, Gone, Replied DEF RetireDevice
<1>6. CASE RetireClose(p)
  BY <1>6, Snapped DEF RetireClose
<1>7. CASE RetireCommit(p)
  BY <1>7, Replied DEF RetireCommit
<1>8. CASE LeaveEmployee(p)
  BY <1>8, Gone, Replied DEF LeaveEmployee
<1>9. CASE LeaveClose(p)
  BY <1>9, Snapped DEF LeaveClose
<1>10. CASE LeaveCommit(p)
  BY <1>10, Replied DEF LeaveCommit
<1>11. CASE RejectReceive(p)
  BY <1>11, RejectArrives
<1>12. CASE RejectUpdate(p)
  BY <1>12, Replied DEF RejectUpdate
<1> QED
  BY <1>1, <1>2, <1>3, <1>4, <1>5, <1>6, <1>7, <1>8, <1>9, <1>10, <1>11, <1>12 DEF ApprovalStep

LEMMA OwnFinds ==
  ASSUME TypeOK, Subjects, NEW p \in Proc, Step(p)
  PROVE  SeesOpen(p)' /\ SeesQuiet(p)' /\ (SeesStatus(p) => SeesStatus(p)')
<1>1. SeesOpen(p)'
  BY StepFacts DEF Snapshots, SeesOpen, OpenOn, tables
<1>2. CASE Fail(p)
  BY <1>1, <1>2, Replied DEF Fail, Idle, SeesQuiet, SeesStatus
<1> QED BY <1>1, <1>2, DeviceFinds, EmployeeFinds, ApprovalFinds DEF Step

(* A device comes to be held twice only by a commit that was overtaken.       *)
THEOREM SecondHolder == Spec => SecondHolderByRace
<1> DEFINE Twice(d) ==
      HeldTwice(d)' /\ ~HeldTwice(d) =>
        \E p \in Proc : /\ req[p].pc \in {"assign_commit", "approve_commit"}
                        /\ req[p].device = d /\ ~SeesOpen(p)
                        /\ req'[p] = Idle
    Missed(p) ==
      ~SeesOpen(p)' /\ SeesOpen(p) =>
        /\ req'[p] = req[p]
        /\ \E i \in AsgId : Inserted(i) /\ assignment'[i].device = req[p].device
<1>1. ASSUME TypeOK, Subjects, NEW p \in Proc, Step(p),
             NEW i \in AsgId, assignment'[i].state = "open",
             ~( /\ assignment[i].state = "open"
                /\ assignment[i].device = assignment'[i].device )
      PROVE  /\ req[p].pc \in {"assign_commit", "approve_commit"}
             /\ assignment'[i].device = req[p].device
             /\ req'[p] = Idle /\ Inserted(i)
             /\ \A j \in AsgId \ {i} : assignment'[j].state = "open" =>
                  /\ assignment[j].state = "open" /\ j \notin req[p].rows
                  /\ assignment'[j].device = assignment[j].device
  <2>1. Effect(p)
    BY <1>1, StepFacts
  <2>2. ASSUME NEW S \in SUBSET AsgId, NEW j \in AsgId, Closed(S)[j].state = "open"
        PROVE  /\ assignment[j].state = "open" /\ j \notin S
               /\ Closed(S)[j].device = assignment[j].device
    BY <2>2, <1>1, ClosedType DEF Closed
  <2>3. PICK k \in AsgId :
          /\ req[p].pc \in {"assign_commit", "approve_commit"}
          /\ req'[p] = Idle
          /\ assignment[k].state = "absent"
          /\ assignment' = Handover(req[p].rows, k, req[p].device, req[p].employee)
    BY <1>1, <2>1, <2>2 DEF Effect
  <2>4. /\ assignment'[k] = [state |-> "open", device |-> req[p].device,
                              employee |-> req[p].employee]
        /\ \A j \in AsgId \ {k} : assignment'[j] = Closed(req[p].rows)[j]
    BY <1>1, <2>3, HandedOver
  <2>5. req[p].rows \in SUBSET AsgId
    BY <1>1, RequestFields
  <2>6. \A j \in AsgId \ {k} : assignment'[j].state = "open" =>
          /\ assignment[j].state = "open" /\ j \notin req[p].rows
          /\ assignment'[j].device = assignment[j].device
    BY <2>2, <2>4, <2>5
  <2>7. i = k
    BY <1>1, <2>6
  <2> QED BY <2>3, <2>4, <2>6, <2>7 DEF Inserted
<1>2. ASSUME TypeOK, Subjects, NEW p \in Proc, Step(p), NEW d \in Device
      PROVE  Twice(d)
  <2> SUFFICES ASSUME HeldTwice(d)', ~HeldTwice(d) PROVE Twice(d)
    OBVIOUS
  <2>1. PICK i \in AsgId, j \in AsgId :
          /\ i # j
          /\ assignment'[i].state = "open" /\ assignment'[i].device = d
          /\ assignment'[j].state = "open" /\ assignment'[j].device = d
    BY DEF HeldTwice, OpenOn
  <2>2. ASSUME NEW k \in {i, j},
               ~(assignment[k].state = "open" /\ assignment[k].device = d)
        PROVE  Twice(d)
    <3>1. /\ req[p].pc \in {"assign_commit", "approve_commit"}
          /\ req[p].device = d /\ req'[p] = Idle
          /\ \A l \in AsgId \ {k} : assignment'[l].state = "open" =>
               /\ assignment[l].state = "open" /\ l \notin req[p].rows
               /\ assignment'[l].device = assignment[l].device
      BY <1>1, <1>2, <2>1, <2>2
    <3>2. PICK l \in {i, j} : l # k
      BY <2>1
    <3>3. l \in OpenOn(d) /\ l \notin req[p].rows
      BY <2>1, <3>1, <3>2 DEF OpenOn
    <3> QED BY <3>1, <3>3 DEF SeesOpen
  <2>3. ~(assignment[i].state = "open" /\ assignment[i].device = d)
        \/ ~(assignment[j].state = "open" /\ assignment[j].device = d)
    BY <2>1 DEF HeldTwice, OpenOn
  <2> QED BY <2>2, <2>3
<1>3. ASSUME TypeOK, Subjects, NEW p \in Proc, Step(p), NEW q \in Proc
      PROVE  Missed(q)
  <2> SUFFICES ASSUME ~SeesOpen(q)', SeesOpen(q) PROVE Missed(q)
    OBVIOUS
  <2>1. req'[q] = req[q]
    BY <1>3, OwnFinds, StepFacts DEF Effect
  <2>2. PICK i \in AsgId : /\ assignment'[i].state = "open"
                           /\ assignment'[i].device = req[q].device
                           /\ i \notin req[q].rows
    BY <2>1 DEF SeesOpen, OpenOn
  <2>3. ~(assignment[i].state = "open" /\ assignment[i].device = req[q].device)
    BY <2>1, <2>2 DEF SeesOpen, OpenOn
  <2> QED BY <1>1, <1>3, <2>1, <2>2, <2>3
<1>4. TypeOK /\ Subjects /\ [Next]_vars =>
        [(\A d \in Device : Twice(d)) /\ (\A p \in Proc : Missed(p))]_vars
  BY <1>2, <1>3 DEF Next, Step
<1>5. Spec => [][(\A d \in Device : Twice(d)) /\ (\A p \in Proc : Missed(p))]_vars
  BY <1>4, SubjectsAlways, PTL DEF Spec
<1> QED BY <1>5, PTL DEF SecondHolderByRace

(* A second request about one asset is filed only by an overtaken handler.    *)
THEOREM SecondRequest == Spec => SecondRequestByRace
<1> DEFINE Second(a, b) ==
      Rivals(a, b)' /\ ~Rivals(a, b) =>
        \E p \in Proc : ~SeesQuiet(p) /\ req'[p] = Idle
    Disturbed(p) ==
      ~SeesQuiet(p)' /\ SeesQuiet(p) =>
        /\ req'[p] = req[p]
        /\ \E a \in ApprovalId, q \in Proc : Filed(a) /\ q # p /\ req'[q] = Idle
<1>1. ASSUME TypeOK, Subjects, NEW p \in Proc, Step(p),
             NEW a \in ApprovalId, NEW b \in ApprovalId,
             Rivals(a, b)', approval'[a] # approval[a]
      PROVE  ~SeesQuiet(p) /\ req'[p] = Idle
  <2>1. Filing(p)
    BY <1>1, StepFacts
  <2>2. /\ approval'[a].state = "pending" /\ approval'[b].state = "pending"
        /\ a # b
    BY <1>1 DEF Rivals
  <2>3. approval'[b] = approval[b]
    BY <1>1, <2>1, <2>2, FiledOnce
  <2>4. /\ req'[p] = Idle
        /\ \/ approval'[a] = [state |-> "pending", kind |-> "decommission",
                               device |-> req[p].device, employee |-> None]
              /\ req[p].pc = "patch_request"
           \/ approval'[a] = [state |-> "pending", kind |-> "assignment",
                               device |-> req[p].device,
                               employee |-> req[p].employee]
              /\ req[p].pc = "assign_request"
           \/ approval'[a] = [state |-> "pending", kind |-> "offboard",
                               device |-> None, employee |-> req[p].employee]
              /\ req[p].pc = "offboard_request"
    BY <1>1, <2>1, <2>2, PendingFiled
  <2> QED BY <1>1, <2>2, <2>3, <2>4 DEF Rivals, SeesQuiet, PendingOn, PendingOffboard
<1>2. ASSUME TypeOK, Subjects, NEW p \in Proc, Step(p),
             NEW a \in ApprovalId, NEW b \in ApprovalId
      PROVE  Second(a, b)
  <2> SUFFICES ASSUME Rivals(a, b)', ~Rivals(a, b) PROVE Second(a, b)
    OBVIOUS
  <2>1. approval'[a] # approval[a] \/ approval'[b] # approval[b]
    BY DEF Rivals
  <2>2. Rivals(b, a)'
    BY DEF Rivals
  <2> QED BY <1>1, <1>2, <2>1, <2>2
<1>3. ASSUME TypeOK, Subjects, NEW p \in Proc, Step(p), NEW q \in Proc
      PROVE  Disturbed(q)
  <2> SUFFICES ASSUME ~SeesQuiet(q)', SeesQuiet(q) PROVE Disturbed(q)
    OBVIOUS
  <2>1. q # p /\ req'[q] = req[q]
    BY <1>3, OwnFinds, StepFacts DEF Effect
  <2>2. PICK a \in ApprovalId : /\ approval'[a].state = "pending"
                                /\ approval'[a] # approval[a]
    BY <2>1 DEF SeesQuiet, PendingOn, PendingOffboard
  <2>3. approval[a].state = "absent" /\ req'[p] = Idle
    BY <1>3, <2>2, StepFacts, PendingFiled
  <2> QED BY <2>1, <2>2, <2>3 DEF Filed
<1>4. TypeOK /\ Subjects /\ [Next]_vars =>
        [/\ \A a, b \in ApprovalId : Second(a, b)
         /\ \A p \in Proc : Disturbed(p)]_vars
  BY <1>2, <1>3 DEF Next, Step
<1>5. Spec => [][/\ \A a, b \in ApprovalId : Second(a, b)
                 /\ \A p \in Proc : Disturbed(p)]_vars
  BY <1>4, SubjectsAlways, PTL DEF Spec
<1> QED BY <1>5, PTL DEF SecondRequestByRace

\* An approval comes into the hand of a handler only while it is pending.
NewInHand(p) ==
  req'[p].approval \in ApprovalId /\ req'[p].approval # req[p].approval =>
    approval[req'[p].approval].state = "pending"

LEMMA DeviceHands ==
  ASSUME TypeOK, Subjects, NEW p \in Proc, DeviceStep(p)
  PROVE  NewInHand(p)
<1> USE DEF ApprovalId, NewInHand, At, Keeps, Arrives, Idle
<1>1. CASE PatchReceive(p)
  BY <1>1, PatchArrives
<1>2. CASE PatchGate(p)
  BY <1>2, Gone, Replied DEF PatchGate
<1>3. CASE PatchRequest(p)
  BY <1>3, Replied DEF PatchRequest
<1>4. CASE PatchUpdate(p)
  BY <1>4, Gone, Replied DEF PatchUpdate
<1>5. CASE PatchClose(p)
  BY <1>5, Replied DEF PatchClose
<1>6. CASE AssignReceive(p)
  BY <1>6, AssignArrives
<1>7. CASE AssignEmployee(p)
  BY <1>7, Gone, Replied DEF AssignEmployee, AfterEmployee
<1>8. CASE AssignGate(p)
  BY <1>8, Gone, Replied DEF AssignGate
<1>9. CASE AssignRequest(p)
  BY <1>9, Replied DEF AssignRequest
<1>10. CASE AssignClose(p)
  BY <1>10, Snapped DEF AssignClose
<1>11. CASE AssignCommit(p)
  BY <1>11, Replied DEF AssignCommit
<1>12. CASE UnassignReceive(p)
  BY <1>12, UnassignArrives
<1>13. CASE UnassignCommit(p)
  BY <1>13, Replied DEF UnassignCommit
<1> QED
  BY <1>1, <1>2, <1>3, <1>4, <1>5, <1>6, <1>7, <1>8, <1>9, <1>10, <1>11, <1>12, <1>13 DEF DeviceStep

LEMMA EmployeeHands ==
  ASSUME TypeOK, Subjects, NEW p \in Proc, EmployeeStep(p)
  PROVE  NewInHand(p)
<1> USE DEF ApprovalId, NewInHand, At, Keeps, Arrives, Idle
<1>1. CASE OffboardReceive(p)
  BY <1>1, OffboardArrives
<1>2. CASE OffboardGate(p)
  BY <1>2, Gone, Replied DEF OffboardGate
<1>3. CASE OffboardRequest(p)
  BY <1>3, Replied DEF OffboardRequest
<1>4. CASE OffboardUpdate(p)
  BY <1>4, Gone, Replied DEF OffboardUpdate
<1>5. CASE OffboardClose(p)
  BY <1>5, Replied DEF OffboardClose
<1>6. CASE ReactivateReceive(p)
  BY <1>6, ReactivateArrives
<1>7. CASE ReactivateUpdate(p)
  BY <1>7, Replied DEF ReactivateUpdate
<1> QED
  BY <1>1, <1>2, <1>3, <1>4, <1>5, <1>6, <1>7 DEF EmployeeStep

LEMMA ApprovalHands ==
  ASSUME TypeOK, Subjects, NEW p \in Proc, ApprovalStep(p)
  PROVE  NewInHand(p)
<1> USE DEF ApprovalId, NewInHand, At, Keeps, Arrives, Idle
<1>1. CASE ApproveReceive(p)
  BY <1>1, ApproveArrives
<1>2. CASE ApproveRead(p)
  BY <1>2, Gone, Replied DEF ApproveRead, ReadDevice, ReadEmployee
<1>3. CASE ApproveClose(p)
  BY <1>3, Snapped DEF ApproveClose
<1>4. CASE ApproveCommit(p)
  BY <1>4, Replied DEF ApproveCommit
<1>5. CASE RetireDevice(p)
  BY <1>5, Gone, Replied DEF RetireDevice
<1>6. CASE RetireClose(p)
  BY <1>6, Snapped DEF RetireClose
<1>7. CASE RetireCommit(p)
  BY <1>7, Replied DEF RetireCommit
<1>8. CASE LeaveEmployee(p)
  BY <1>8, Gone, Replied DEF LeaveEmployee
<1>9. CASE LeaveClose(p)
  BY <1>9, Snapped DEF LeaveClose
<1>10. CASE LeaveCommit(p)
  BY <1>10, Replied DEF LeaveCommit
<1>11. CASE RejectReceive(p)
  BY <1>11, RejectArrives
<1>12. CASE RejectUpdate(p)
  BY <1>12, Replied DEF RejectUpdate
<1> QED
  BY <1>1, <1>2, <1>3, <1>4, <1>5, <1>6, <1>7, <1>8, <1>9, <1>10, <1>11, <1>12 DEF ApprovalStep

LEMMA HandKept ==
  ASSUME TypeOK, Subjects, NEW p \in Proc, Step(p), NEW a \in ApprovalId,
         approval[a].state # "pending", req'[p].approval = a
  PROVE  req[p].approval = a
<1>1. CASE Fail(p)
  BY <1>1, Replied DEF Fail, Idle, ApprovalId
<1> QED BY <1>1, DeviceHands, EmployeeHands, ApprovalHands DEF Step, NewInHand

(* A settled approval is settled anew only by who had found it pending.       *)
THEOREM SettledAgain == Spec => SettledAgainByRace
<1> DEFINE Stands(a) ==
      approval[a].state \in {"approved", "rejected"} =>
       /\ InHand(a)' \subseteq InHand(a)
       /\ approval'[a] # approval[a] =>
            /\ InHand(a)' # InHand(a)
            /\ \E outcome \in {"approved", "rejected"} :
                 approval'[a] = [approval[a] EXCEPT !.state = outcome]
<1>1. ASSUME TypeOK, Subjects, NEW p \in Proc, Step(p), NEW a \in ApprovalId
      PROVE  Stands(a)
  <2> SUFFICES ASSUME approval[a].state \in {"approved", "rejected"}
               PROVE  Stands(a)
    OBVIOUS
  <2>1. \A q \in Proc \ {p} : req'[q] = req[q]
    BY <1>1, StepFacts DEF Effect
  <2>2. req'[p].approval = a => req[p].approval = a
    BY <1>1, HandKept
  <2>3. InHand(a)' \subseteq InHand(a)
    BY <2>1, <2>2 DEF InHand
  <2>4. ASSUME approval'[a] # approval[a]
        PROVE  /\ InHand(a)' # InHand(a)
               /\ \E outcome \in {"approved", "rejected"} :
                    approval'[a] = [approval[a] EXCEPT !.state = outcome]
    <3>1. PICK outcome \in {"approved", "rejected"} :
            req'[p] = Idle /\ approval' = Settled(req[p].approval, outcome)
      BY <1>1, <2>4, StepFacts DEF Filing, Requested, TypeOK
    <3>2. req[p].approval = a
      BY <2>4, <3>1 DEF Settled
    <3>3. p \in InHand(a) /\ p \notin InHand(a)'
      BY <3>1, <3>2 DEF InHand, Idle, ApprovalId
    <3> QED BY <1>1, <3>1, <3>2, <3>3 DEF Settled, TypeOK
  <2> QED BY <2>3, <2>4
<1>2. TypeOK /\ Subjects /\ [Next]_vars => [\A a \in ApprovalId : Stands(a)]_vars
  BY <1>1 DEF Next, Step
<1>3. Spec => [][\A a \in ApprovalId : Stands(a)]_vars
  BY <1>2, SubjectsAlways, PTL DEF Spec
<1> QED BY <1>3, PTL DEF SettledAgainByRace

-----------------------------------------------------------------------------
(* The statuses *)

\* What a step of p may do to the statuses.
Sets(p) ==
  \/ status' = status
  \/ /\ req[p].pc \in {"patch_update", "assign_commit", "unassign_commit",
                       "approve_commit", "retire_commit"}
     /\ req'[p] # req[p]
     /\ status' = [status EXCEPT ![req[p].device] = Target(p)]

LEMMA StatusSet ==
  ASSUME TypeOK, Subjects, NEW p \in Proc, Step(p)
  PROVE  Sets(p)
<1> USE RequestFields DEF Sets, Target, At, tables
<1>1. CASE PatchUpdate(p)
  BY <1>1, Gone, Replied DEF PatchUpdate, Idle
<1>2. CASE AssignCommit(p)
  BY <1>2, Replied DEF AssignCommit, Idle
<1>3. CASE UnassignCommit(p)
  BY <1>3, Replied DEF UnassignCommit, Idle
<1>4. CASE ApproveCommit(p)
  BY <1>4, Replied DEF ApproveCommit, Idle
<1>5. CASE RetireCommit(p)
  BY <1>5, Replied DEF RetireCommit, Idle
<1>6. ~DeviceStep(p) \/ PatchUpdate(p) \/ AssignCommit(p) \/ UnassignCommit(p)
      \/ UNCHANGED status
  BY DEF DeviceStep, PatchReceive, PatchGate, PatchRequest, PatchClose,
     AssignReceive, AssignEmployee, AssignGate, AssignRequest, AssignClose,
     UnassignReceive
<1>7. ~EmployeeStep(p) \/ UNCHANGED status
  BY DEF EmployeeStep, OffboardReceive, OffboardGate, OffboardRequest,
     OffboardUpdate, OffboardClose, ReactivateReceive, ReactivateUpdate
<1>8. ~ApprovalStep(p) \/ ApproveCommit(p) \/ RetireCommit(p) \/ UNCHANGED status
  BY DEF ApprovalStep, ApproveReceive, ApproveRead, ReadDevice, ReadEmployee,
     ApproveClose, RetireDevice, RetireClose, LeaveEmployee, LeaveClose,
     LeaveCommit, RejectReceive, RejectUpdate
<1>9. ~Fail(p) \/ UNCHANGED status
  BY DEF Fail
<1> QED BY <1>1, <1>2, <1>3, <1>4, <1>5, <1>6, <1>7, <1>8, <1>9 DEF Step

(* A device leaves VALID_TRANSITIONS only by /unassign, which does not look   *)
(* at the status, or by a handler that was overtaken.                         *)
THEOREM TableFollowed == Spec => StatusFollowsTable
<1> DEFINE Moved(d) ==
      status'[d] # status[d] =>
        \E p \in Proc :
          /\ req[p].device = d /\ status'[d] = Target(p) /\ req'[p] # req[p]
          /\ \/ req[p].pc = "unassign_commit"
             \/ ~SeesStatus(p)
             \/ /\ status'[d] \in ValidTransitions[status[d]]
                /\ status[d] = "decommissioned" => req[p].role = "admin"
    Misled(p) ==
      ~SeesStatus(p)' /\ SeesStatus(p) =>
        /\ req'[p] = req[p]
        /\ status'[req[p].device] # status[req[p].device]
<1>1. ASSUME TypeOK, Subjects, NEW p \in Proc, Step(p), NEW d \in Device
      PROVE  Moved(d)
  <2> SUFFICES ASSUME status'[d] # status[d] PROVE Moved(d)
    OBVIOUS
  <2>1. /\ req[p].pc \in {"patch_update", "assign_commit", "unassign_commit",
                          "approve_commit", "retire_commit"}
        /\ req'[p] # req[p]
        /\ req[p].device = d /\ status'[d] = Target(p)
    BY <1>1, StatusSet DEF Sets, TypeOK
  <2>2. status[d] \in DeviceStatus
    BY <1>1 DEF TypeOK
  <2>3. ASSUME SeesStatus(p), req[p].pc # "unassign_commit"
        PROVE  /\ status'[d] \in ValidTransitions[status[d]]
               /\ status[d] = "decommissioned" => req[p].role = "admin"
    <3>1. CASE req[p].pc = "patch_update"
      <4>1. status'[d] = req[p].to
        BY <2>1, <3>1 DEF Target
      <4> QED BY <2>1, <2>3, <3>1, <4>1 DEF SeesStatus, PatchAllowed
    <3>2. CASE req[p].pc \in {"assign_commit", "approve_commit"}
      BY <2>1, <2>3, <3>2 DEF SeesStatus, Target, ValidTransitions
    <3>3. CASE req[p].pc = "retire_commit"
      BY <2>1, <2>2, <2>3, <3>3 DEF SeesStatus, Target, ValidTransitions, DeviceStatus
    <3> QED BY <2>1, <2>3, <3>1, <3>2, <3>3
  <2> QED BY <2>1, <2>3
<1>2. ASSUME TypeOK, Subjects, NEW p \in Proc, Step(p), NEW q \in Proc
      PROVE  Misled(q)
  <2> SUFFICES ASSUME ~SeesStatus(q)', SeesStatus(q) PROVE Misled(q)
    OBVIOUS
  <2>1. req'[q] = req[q]
    BY <1>2, OwnFinds, StepFacts DEF Effect
  <2> QED BY <2>1 DEF SeesStatus
<1>3. TypeOK /\ Subjects /\ [Next]_vars =>
        [(\A d \in Device : Moved(d)) /\ (\A p \in Proc : Misled(p))]_vars
  BY <1>1, <1>2 DEF Next, Step
<1>4. Spec => [][(\A d \in Device : Moved(d)) /\ (\A p \in Proc : Misled(p))]_vars
  BY <1>3, SubjectsAlways, PTL DEF Spec
<1> QED BY <1>4, PTL DEF StatusFollowsTable

=============================================================================
