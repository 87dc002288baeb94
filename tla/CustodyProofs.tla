---------------------------- MODULE CustodyProofs ----------------------------
(* Proofs about the custody workflow when no two requests in flight concern   *)
(* the same asset: what a handler has read stays true until it is used, so    *)
(* status, employment and assignment come apart only when a handler dies, and *)
(* Platform implements Custody, under the mapping of PlatformCustody.         *)
EXTENDS PlatformCustody, PlatformProofs

-----------------------------------------------------------------------------
(* The invariant, one handler at a time *)

\* What PlatformInvariant and PlatformCustody say of the handler p.
TakenOf(p) ==
  req[p].approval # 0 =>
    /\ approval[req[p].approval].state = "pending"
    /\ approval[req[p].approval].device = req[p].device
    /\ approval[req[p].approval].employee = req[p].employee

StatusOf(p) ==
  /\ SeesStatus(p)
  /\ req[p].pc = "patch_close" => AutoClose(status[req[p].device])

ActiveOf(p) ==
  /\ req[p].pc \in {"assign_gate", "assign_request", "assign_close",
                    "assign_commit", "approve_device", "approve_close",
                    "approve_commit",
                    "offboard_gate", "offboard_request", "offboard_update",
                    "leave_close", "leave_commit"} => active[req[p].employee]
  /\ req[p].pc \in {"offboard_close", "reactivate_update"} =>
       ~active[req[p].employee]

OpenOfOf(p) ==
  /\ req[p].pc = "offboard_update" /\ ~req[p].had =>
       OpenOf(req[p].employee) = {}
  /\ req[p].pc = "leave_commit" =>
       OpenOf(req[p].employee) \subseteq req[p].rows

Knows(p) == SeesQuiet(p) /\ TakenOf(p) /\ StatusOf(p) /\ ActiveOf(p) /\ OpenOfOf(p)

Inv == CustodyInv /\ OnePending /\ \A p \in Proc : Knows(p)

LEMMA InvParts == Inv <=> UnbrokenInv /\ StillRead
  BY DEF Inv, UnbrokenInv, ApartInv, StillRead, Knows, SeesQuiet, TakenOf,
     StatusOf, SeesStatus, ActiveOf, OpenOfOf, GateHolds, TakenIsPending, StatusRead, EmployeeRead

\* A reply leaves nothing to know.
LEMMA IdleKnows ==
  ASSUME NEW p \in Proc, req'[p] = Idle
  PROVE  Knows(p)'
  BY DEF Idle, Knows, SeesQuiet, TakenOf, StatusOf, SeesStatus, ActiveOf,
     OpenOfOf

-----------------------------------------------------------------------------
(* A handler's own steps *)

LEMMA DeviceKnows ==
  ASSUME Inv, NEW p \in Proc, DeviceStep(p)
  PROVE  Knows(p)'
<1> USE DEF Inv, CustodyInv, At, tables, Keeps, Arrives
<1> USE DEF Knows, SeesQuiet, TakenOf, StatusOf, SeesStatus, ActiveOf, OpenOfOf,
            PendingOn, PendingOffboard, OpenOf
<1>1. CASE PatchReceive(p)
  BY <1>1, PatchArrives
<1>2. CASE PatchGate(p)
  BY <1>2, Gone, Replied, IdleKnows DEF PatchGate
<1>3. CASE PatchRequest(p)
  BY <1>3, Replied, IdleKnows DEF PatchRequest
<1>4. CASE PatchUpdate(p)
  BY <1>4, Gone, Replied, IdleKnows, RequestFields
     DEF PatchUpdate, Subjects, OnDevice, TypeOK
<1>5. CASE PatchClose(p)
  BY <1>5, Replied, IdleKnows DEF PatchClose
<1>6. CASE AssignReceive(p)
  BY <1>6, AssignArrives
<1>7. CASE AssignEmployee(p)
  BY <1>7, Gone, Replied, IdleKnows DEF AssignEmployee, AfterEmployee
<1>8. CASE AssignGate(p)
  BY <1>8, Gone, Replied, IdleKnows DEF AssignGate
<1>9. CASE AssignRequest(p)
  BY <1>9, Replied, IdleKnows DEF AssignRequest
<1>10. CASE AssignClose(p)
  BY <1>10, Snapped DEF AssignClose
<1>11. CASE AssignCommit(p)
  BY <1>11, Replied, IdleKnows DEF AssignCommit
<1>12. CASE UnassignReceive(p)
  BY <1>12, UnassignArrives
<1>13. CASE UnassignCommit(p)
  BY <1>13, Replied, IdleKnows DEF UnassignCommit
<1> QED
  BY <1>1, <1>2, <1>3, <1>4, <1>5, <1>6, <1>7, <1>8, <1>9, <1>10, <1>11,
     <1>12, <1>13 DEF DeviceStep

LEMMA OffboardFinds ==
  ASSUME TypeOK, NEW p \in Proc, OffboardReceive(p)
  PROVE  active[req'[p].employee]
<1>1. PICK e \in Employee, role \in Role :
        /\ active[e]
        /\ Accept(p, [Idle EXCEPT
             !.pc = IF role = "admin" THEN "offboard_update" ELSE "offboard_gate",
             !.role = role, !.employee = e, !.had = OpenOf(e) # {}])
  BY DEF OffboardReceive
<1>2. req'[p] = [Idle EXCEPT
                   !.pc = IF role = "admin" THEN "offboard_update"
                                            ELSE "offboard_gate",
                   !.role = role, !.employee = e, !.had = OpenOf(e) # {}]
  BY <1>1, Accepted
<1> QED BY <1>1, <1>2 DEF Idle

LEMMA ReactivateFinds ==
  ASSUME TypeOK, NEW p \in Proc, ReactivateReceive(p)
  PROVE  ~active[req'[p].employee]
<1>1. PICK e \in Employee, role \in Role :
        /\ ~active[e]
        /\ Accept(p, [Idle EXCEPT !.pc = "reactivate_update", !.role = role,
                                  !.employee = e])
  BY DEF ReactivateReceive
<1>2. req'[p] = [Idle EXCEPT !.pc = "reactivate_update", !.role = role,
                             !.employee = e]
  BY <1>1, Accepted
<1> QED BY <1>1, <1>2 DEF Idle

LEMMA EmployeeKnows ==
  ASSUME Inv, NEW p \in Proc, EmployeeStep(p)
  PROVE  Knows(p)'
<1> USE DEF Inv, CustodyInv, At, tables, Keeps, Arrives
<1> USE DEF Knows, SeesQuiet, TakenOf, StatusOf, SeesStatus, ActiveOf, OpenOfOf,
            PendingOn, PendingOffboard, OpenOf
<1>1. CASE OffboardReceive(p)
  BY <1>1, OffboardArrives, OffboardFinds
<1>2. CASE OffboardGate(p)
  BY <1>2, Gone, Replied, IdleKnows DEF OffboardGate
<1>3. CASE OffboardRequest(p)
  BY <1>3, Replied, IdleKnows DEF OffboardRequest
<1>4. CASE OffboardUpdate(p)
  BY <1>4, Gone, Replied, IdleKnows, RequestFields
     DEF OffboardUpdate, Subjects, OnEmployee, TypeOK
<1>5. CASE OffboardClose(p)
  BY <1>5, Replied, IdleKnows DEF OffboardClose
<1>6. CASE ReactivateReceive(p)
  BY <1>6, ReactivateArrives, ReactivateFinds
<1>7. CASE ReactivateUpdate(p)
  BY <1>7, Replied, IdleKnows DEF ReactivateUpdate
<1> QED
  BY <1>1, <1>2, <1>3, <1>4, <1>5, <1>6, <1>7 DEF EmployeeStep

LEMMA ApprovalKnows ==
  ASSUME Inv, NEW p \in Proc, ApprovalStep(p)
  PROVE  Knows(p)'
<1> USE DEF Inv, CustodyInv, At, tables, Keeps, Arrives
<1> USE DEF Knows, SeesQuiet, TakenOf, StatusOf, SeesStatus, ActiveOf, OpenOfOf,
            PendingOn, PendingOffboard, OpenOf
<1>1. CASE ApproveReceive(p)
  BY <1>1, ApproveArrives
<1>2. CASE ApproveRead(p)
  BY <1>2, Gone, Replied, IdleKnows DEF ApproveRead, ReadDevice, ReadEmployee
<1>3. CASE ApproveClose(p)
  BY <1>3, Snapped DEF ApproveClose
<1>4. CASE ApproveCommit(p)
  BY <1>4, Replied, IdleKnows DEF ApproveCommit
<1>5. CASE RetireDevice(p)
  BY <1>5, Gone, Replied, IdleKnows DEF RetireDevice
<1>6. CASE RetireClose(p)
  BY <1>6, Snapped DEF RetireClose
<1>7. CASE RetireCommit(p)
  BY <1>7, Replied, IdleKnows DEF RetireCommit
<1>8. CASE LeaveEmployee(p)
  BY <1>8, Gone, Replied, IdleKnows DEF LeaveEmployee
<1>9. CASE LeaveClose(p)
  BY <1>9, Snapped DEF LeaveClose
<1>10. CASE LeaveCommit(p)
  BY <1>10, Replied, IdleKnows DEF LeaveCommit
<1>11. CASE RejectReceive(p)
  BY <1>11, RejectArrives
<1>12. CASE RejectUpdate(p)
  BY <1>12, Replied, IdleKnows DEF RejectUpdate
<1> QED
  BY <1>1, <1>2, <1>3, <1>4, <1>5, <1>6, <1>7, <1>8, <1>9, <1>10, <1>11,
     <1>12 DEF ApprovalStep

LEMMA OwnStep ==
  ASSUME Inv, NEW p \in Proc, Step(p)
  PROVE  Knows(p)'
<1>1. CASE Fail(p)
  BY <1>1, Replied, IdleKnows DEF Fail, Inv, CustodyInv
<1> QED BY <1>1, DeviceKnows, EmployeeKnows, ApprovalKnows DEF Step

-----------------------------------------------------------------------------
(* The steps of the others *)

\* The approval a handler settles is pending, so no other handler's.
LEMMA TakenApart ==
  ASSUME Inv, NEW p \in Proc, NEW q \in Proc \ {p}, req[q].approval # 0
  PROVE  req[p].approval # req[q].approval
<1> SUFFICES ASSUME req[p].approval = req[q].approval PROVE FALSE
  OBVIOUS
<1>1. /\ req[q].approval \in ApprovalId
      /\ approval[req[q].approval].state = "pending"
      /\ approval[req[q].approval].device = req[q].device
      /\ approval[req[q].approval].employee = req[q].employee
      /\ req[p].device = req[q].device
      /\ req[p].employee = req[q].employee
  BY RequestFields DEF Inv, CustodyInv, Knows, TakenOf
<1>2. approval[req[q].approval].kind \in {"assignment", "decommission", "offboard"}
  BY <1>1 DEF Inv, CustodyInv, TypeOK, ApprovalRow
<1>3. req[q].device \in Device \/ req[q].employee \in Employee
  BY <1>1, <1>2 DEF Inv, CustodyInv, Subjects
<1> QED BY <1>1, <1>3, NoneAssumption DEF Inv, CustodyInv, Exclusive

\* An approval that is somebody else's to settle stays as it is.
LEMMA TakenStays ==
  ASSUME Inv, NEW p \in Proc, Step(p), NEW q \in Proc \ {p}, req[q].approval # 0
  PROVE  approval'[req[q].approval] = approval[req[q].approval]
<1>1. /\ req[q].approval \in ApprovalId
      /\ approval[req[q].approval].state = "pending"
      /\ req[p].approval # req[q].approval
  BY TakenApart, RequestFields DEF Inv, CustodyInv, Knows, TakenOf
<1>2. Filing(p)
  BY StepFacts DEF Inv, CustodyInv
<1> QED BY <1>1, <1>2 DEF Filing, Settled, Requested, Inv, CustodyInv, TypeOK

\* No request is filed about the assets of a handler in flight by another one.
LEMMA NothingFiled ==
  ASSUME Inv, NEW p \in Proc, Step(p), NEW q \in Proc \ {p}
  PROVE  /\ req[q].device \in Device =>
              PendingOn(req[q].device)' \subseteq PendingOn(req[q].device)
         /\ req[q].employee \in Employee =>
              PendingOffboard(req[q].employee)' \subseteq PendingOffboard(req[q].employee)
<1> USE DEF Inv, CustodyInv
<1>0. req'[q] = req[q]
  BY StepFacts DEF Effect
<1>1. ASSUME NEW a \in ApprovalId, approval'[a].state = "pending",
             approval'[a] # approval[a]
      PROVE  /\ req[q].device \in Device => approval'[a].device # req[q].device
             /\ req[q].employee \in Employee /\ approval'[a].kind = "offboard" =>
                  approval'[a].employee # req[q].employee
  <2>1. \/ approval'[a] = [state |-> "pending", kind |-> "decommission",
                           device |-> req[p].device, employee |-> None]
        \/ approval'[a] = [state |-> "pending", kind |-> "assignment",
                           device |-> req[p].device, employee |-> req[p].employee]
        \/ approval'[a] = [state |-> "pending", kind |-> "offboard",
                           device |-> None, employee |-> req[p].employee]
    BY <1>1, StepFacts, PendingFiled
  <2> QED BY <2>1, NoneAssumption DEF Exclusive
<1>2. req[q].device \in Device =>
        PendingOn(req[q].device)' \subseteq PendingOn(req[q].device)
  BY <1>0, <1>1 DEF PendingOn
<1>3. req[q].employee \in Employee =>
        PendingOffboard(req[q].employee)' \subseteq PendingOffboard(req[q].employee)
  BY <1>0, <1>1 DEF PendingOffboard
<1> QED BY <1>2, <1>3

\* An open assignment of another employee stays as it is or is closed.
LEMMA OpenOfElsewhere ==
  ASSUME TypeOK, NEW p \in Proc, Effect(p), NEW i \in AsgId,
         assignment'[i].state = "open",
         assignment'[i].employee # req[p].employee
  PROVE  assignment'[i] = assignment[i]
<1>1. CASE assignment' = assignment
  BY <1>1
<1>2. CASE \E S \in SUBSET AsgId : assignment' = Closed(S)
  BY <1>2 DEF Closed, TypeOK, AssignmentRow
<1>3. ASSUME NEW j \in AsgId,
             assignment' = Handover(req[p].rows, j, req[p].device, req[p].employee)
      PROVE  assignment'[i] = assignment[i]
  <2>1. /\ assignment'[j] = [state |-> "open", device |-> req[p].device,
                              employee |-> req[p].employee]
        /\ \A k \in AsgId \ {j} : assignment'[k] = Closed(req[p].rows)[k]
    BY <1>3, HandedOver
  <2>2. assignment'[i] = Closed(req[p].rows)[i]
    BY <2>1
  <2> QED BY <2>2 DEF Closed, TypeOK, AssignmentRow
<1> QED BY <1>1, <1>2, <1>3 DEF Effect

\* The assets of a handler in flight are left alone by the others.
LEMMA OtherStep ==
  ASSUME Inv, NEW p \in Proc, Step(p), NEW q \in Proc \ {p}
  PROVE  Knows(q)'
<1> USE DEF Inv, CustodyInv
<1>1. req'[q] = req[q] /\ Effect(p)
  BY StepFacts DEF Effect
<1>2. /\ req[q].pc \in OnDevice => req[q].device \in Device
      /\ req[q].pc \in OnEmployee => req[q].employee \in Employee
  BY DEF Subjects
<1>3. req[q].device \in Device => /\ req[q].device # req[p].device
                                  /\ status'[req[q].device] = status[req[q].device]
  BY <1>1, NoneAssumption DEF Effect, Exclusive, TypeOK
<1>4. req[q].employee \in Employee =>
        /\ req[q].employee # req[p].employee
        /\ active'[req[q].employee] = active[req[q].employee]
  BY <1>1, NoneAssumption DEF Effect, Exclusive, TypeOK
<1>5. SeesQuiet(q)'
  BY <1>1, <1>2, NothingFiled DEF Knows, SeesQuiet, OnDevice, OnEmployee
<1>6. TakenOf(q)'
  BY <1>1, TakenStays DEF Knows, TakenOf
<1>7. StatusOf(q)'
  BY <1>1, <1>2, <1>3 DEF Knows, StatusOf, SeesStatus, OnDevice
<1>8. ActiveOf(q)'
  BY <1>1, <1>2, <1>4 DEF Knows, ActiveOf, OnEmployee
<1>9. req[q].employee \in Employee =>
        OpenOf(req[q].employee)' \subseteq OpenOf(req[q].employee)
  BY <1>1, <1>4, OpenOfElsewhere DEF OpenOf
<1>10. OpenOfOf(q)'
  BY <1>1, <1>2, <1>9 DEF Knows, OpenOfOf, OnEmployee
<1> QED BY <1>5, <1>6, <1>7, <1>8, <1>10 DEF Knows

LEMMA OnePendingStep ==
  ASSUME Inv, NEW p \in Proc, Step(p)
  PROVE  OnePending'
<1> USE DEF Inv, CustodyInv
<1>1. Filing(p)
  BY StepFacts
<1>2. ASSUME NEW a \in ApprovalId, NEW b \in ApprovalId,
             approval'[a].state = "pending", approval'[a] # approval[a],
             approval'[b].state = "pending", approval'[b] = approval[b]
      PROVE  /\ ~(approval'[a].device # None /\ approval'[a].device = approval'[b].device)
             /\ ~( /\ approval'[a].kind = "offboard" /\ approval'[b].kind = "offboard"
                   /\ approval'[a].employee = approval'[b].employee )
  <2>1. \/ approval'[a] = [state |-> "pending", kind |-> "decommission",
                           device |-> req[p].device, employee |-> None]
           /\ req[p].pc = "patch_request"
        \/ approval'[a] = [state |-> "pending", kind |-> "assignment",
                           device |-> req[p].device, employee |-> req[p].employee]
           /\ req[p].pc = "assign_request"
        \/ approval'[a] = [state |-> "pending", kind |-> "offboard",
                           device |-> None, employee |-> req[p].employee]
           /\ req[p].pc = "offboard_request"
    BY <1>1, <1>2, PendingFiled
  <2> QED BY <1>2, <2>1 DEF Knows, SeesQuiet, PendingOn, PendingOffboard
<1> QED BY <1>1, <1>2, FiledOnce DEF OnePending, Rivals

LEMMA InvInit == Init => Inv
<1> SUFFICES ASSUME Init PROVE Inv
  OBVIOUS
<1>1. \A p \in Proc : Knows(p)
  BY DEF Init, Idle, Knows, SeesQuiet, TakenOf, StatusOf, SeesStatus,
     ActiveOf, OpenOfOf
<1>2. OnePending
  BY DEF Init, OnePending, Rivals
<1> QED BY <1>1, <1>2, CustodyInit DEF Inv

LEMMA InvNext == ~Contention /\ Inv /\ [Next]_vars => Inv'
<1> SUFFICES ASSUME ~Contention, Inv, [Next]_vars PROVE Inv'
  OBVIOUS
<1>1. CustodyInv'
  BY CustodyNext DEF Inv
<1>2. ASSUME NEW p \in Proc, Step(p) PROVE Inv'
  BY <1>1, <1>2, OwnStep, OtherStep, OnePendingStep DEF Inv
<1>3. CASE UNCHANGED vars
  BY <1>1, <1>3 DEF Inv, vars, OnePending, Rivals, Knows, SeesQuiet, TakenOf,
     StatusOf, SeesStatus,
     ActiveOf, OpenOfOf, PendingOn, PendingOffboard, OpenOf
<1> QED BY <1>2, <1>3 DEF Next, Step

-----------------------------------------------------------------------------
(* Status, employment and assignment together *)

\* Rows of another device or employee are not opened by a step.
LEMMA OthersRows ==
  ASSUME Inv, NEW p \in Proc, Step(p)
  PROVE  /\ \A d \in Device : d # req[p].device =>
              /\ OpenOn(d)' \subseteq OpenOn(d)
              /\ status'[d] = status[d]
         /\ \A e \in Employee : e # req[p].employee =>
              /\ OpenOf(e)' \subseteq OpenOf(e)
              /\ active'[e] = active[e]
<1> USE DEF Inv, CustodyInv
<1>1. Effect(p)
  BY StepFacts
<1>2. ASSUME NEW d \in Device, d # req[p].device
      PROVE  OpenOn(d)' \subseteq OpenOn(d) /\ status'[d] = status[d]
  BY <1>1, <1>2, OpenElsewhere DEF OpenOn, Effect, TypeOK
<1>3. ASSUME NEW e \in Employee, e # req[p].employee
      PROVE  OpenOf(e)' \subseteq OpenOf(e) /\ active'[e] = active[e]
  BY <1>1, <1>3, OpenOfElsewhere DEF OpenOf, Effect, TypeOK
<1> QED BY <1>2, <1>3

LEMMA ClosedOpens ==
  ASSUME TypeOK, NEW S, assignment' = Closed(S)
  PROVE  /\ \A d \in Device : OpenOn(d)' = OpenOn(d) \ S
         /\ \A e \in Employee : OpenOf(e)' = OpenOf(e) \ S
  BY ClosedType DEF OpenOn, OpenOf

\* Only the handler itself stops closing what it has to close.
LEMMA ClosingStays ==
  ASSUME Inv, NEW p \in Proc, Step(p)
  PROVE  /\ \A d \in Device : 
              Closing(d) => Closing(d)' \/ (At(p, "patch_close") /\ req[p].device = d)
         /\ \A e \in Employee : 
              Freeing(e) => Freeing(e)' \/ (At(p, "offboard_close") /\ req[p].employee = e)
<1>1. \A q \in Proc \ {p} : req'[q] = req[q]
  BY StepFacts DEF Inv, CustodyInv, Effect
<1> QED BY <1>1 DEF Closing, Freeing, At

\* The device of a handler that has not come to patch_close has no other one
\* that closes it.
LEMMA NoOtherCloses ==
  ASSUME Inv, NEW p \in Proc, req[p].device \in Device, ~At(p, "patch_close")
  PROVE  ~Closing(req[p].device)
  BY NoneAssumption DEF Inv, CustodyInv, Exclusive, Closing, At

LEMMA HolderShownStep ==
  ASSUME Inv, NEW p \in Proc, Step(p), NEW d \in Device, HolderShown(d)
  PROVE  HolderShown(d)' \/ (Closing(d) /\ UNCHANGED tables)
<1> USE DEF At
<1>1. CASE UNCHANGED tables
  BY <1>1 DEF tables, HolderShown, OpenOn
<1>2. CASE d # req[p].device
  BY <1>2, OthersRows, ClosingStays DEF HolderShown
<1>3. CASE /\ d = req[p].device /\ ~At(p, "patch_close")
           /\ status' = status /\ OpenOn(d)' \subseteq OpenOn(d)
  BY <1>3, NoOtherCloses DEF HolderShown
<1>4. CASE d = req[p].device /\ PatchUpdate(p)
  <2>1. CASE AutoClose(req[p].to)
    <3>1. Closing(d)'
      BY <1>4, <2>1, Gone DEF PatchUpdate, Closing, Keeps, Inv, CustodyInv
    <3> QED BY <3>1 DEF HolderShown
  <2>2. CASE ~AutoClose(req[p].to)
    <3>1. PatchAllowed(status[d], req[p].to, req[p].role)
      BY <1>4 DEF PatchUpdate, Inv, Knows, StatusOf, SeesStatus
    <3>2. req[p].to \in DeviceStatus /\ status[d] \in DeviceStatus
      BY RequestFields DEF Inv, CustodyInv, TypeOK
    <3>3. req[p].to = "assigned" \/ req[p].to = status[d] \/ status[d] # "assigned"
      BY <2>2, <3>1, <3>2 DEF AutoClose, PatchAllowed, ValidTransitions,
         DeviceStatus
    <3>4. ~Closing(d)
      BY <1>4, NoOtherCloses DEF PatchUpdate
    <3>5. status'[d] = req[p].to /\ OpenOn(d)' = OpenOn(d)
      BY <1>4 DEF PatchUpdate, OpenOn, Inv, CustodyInv, TypeOK
    <3> QED BY <3>3, <3>4, <3>5 DEF HolderShown
  <2> QED BY <2>1, <2>2
<1>5. CASE d = req[p].device /\ PatchClose(p)
  <2>1. OpenOn(d)' = {}
    BY <1>5, ClosedOpens DEF PatchClose, Inv, CustodyInv
  <2> QED BY <2>1 DEF HolderShown
<1>6. CASE d = req[p].device /\ (AssignCommit(p) \/ ApproveCommit(p))
  <2>1. status'[d] = "assigned"
    BY <1>6 DEF AssignCommit, ApproveCommit, Inv, CustodyInv, TypeOK
  <2> QED BY <2>1 DEF HolderShown
<1>7. CASE d = req[p].device /\ (UnassignCommit(p) \/ RetireCommit(p))
  <2>1. OpenOn(d)' = OpenOn(d) \ req[p].rows
    BY <1>7, ClosedOpens DEF UnassignCommit, RetireCommit, Inv, CustodyInv
  <2>2. OpenOn(d)' = {}
    BY <1>7, <2>1 DEF UnassignCommit, RetireCommit, Inv, CustodyInv,
       SnapshotComplete, SeesOpen
  <2> QED BY <2>2 DEF HolderShown
<1>8. ASSUME ~PatchUpdate(p), ~PatchClose(p), ~AssignCommit(p), ~ApproveCommit(p),
             ~UnassignCommit(p), ~RetireCommit(p), ~UNCHANGED tables
      PROVE  /\ ~At(p, "patch_close") /\ status' = status
             /\ OpenOn(d)' \subseteq OpenOn(d)
  <2>1. CASE LeaveCommit(p)
    BY <2>1, ClosedOpens DEF LeaveCommit, Inv, CustodyInv
  <2>2. CASE OffboardClose(p)
    BY <2>2, ClosedOpens DEF OffboardClose, Inv, CustodyInv
  <2>3. CASE \/ PatchRequest(p) \/ AssignRequest(p) \/ OffboardRequest(p)
             \/ OffboardUpdate(p) \/ ReactivateUpdate(p) \/ RejectUpdate(p)
    BY <2>3 DEF PatchRequest, AssignRequest, OffboardRequest, OffboardUpdate,
       ReactivateUpdate, RejectUpdate, OpenOn
  <2>4. ~DeviceStep(p) \/ PatchRequest(p) \/ AssignRequest(p)
    BY <1>8 DEF DeviceStep, PatchReceive, PatchGate, AssignReceive,
       AssignEmployee, AssignGate, AssignClose, UnassignReceive
  <2>5. ~EmployeeStep(p) \/ OffboardRequest(p) \/ OffboardUpdate(p)
        \/ ReactivateUpdate(p) \/ OffboardClose(p)
    BY <1>8 DEF EmployeeStep, OffboardReceive, OffboardGate, ReactivateReceive
  <2>6. ~ApprovalStep(p) \/ LeaveCommit(p) \/ RejectUpdate(p)
    BY <1>8 DEF ApprovalStep, ApproveReceive, ApproveRead, ReadDevice,
       ReadEmployee, ApproveClose, RetireDevice, RetireClose, LeaveEmployee,
       LeaveClose, RejectReceive
  <2> QED BY <1>8, <2>1, <2>2, <2>3, <2>4, <2>5, <2>6 DEF Step, Fail
<1> QED BY <1>1, <1>2, <1>3, <1>4, <1>5, <1>6, <1>7, <1>8

LEMMA LeaverFreedStep ==
  ASSUME Inv, NEW p \in Proc, Step(p), NEW e \in Employee, LeaverFreed(e)
  PROVE  LeaverFreed(e)' \/ (Freeing(e) /\ UNCHANGED tables)
<1> USE DEF At
<1>1. CASE UNCHANGED tables
  BY <1>1 DEF tables, LeaverFreed, OpenOf
<1>2. CASE e # req[p].employee
  BY <1>2, OthersRows, ClosingStays DEF LeaverFreed
<1>3. CASE /\ ~At(p, "offboard_close")
           /\ active' = active /\ OpenOf(e)' \subseteq OpenOf(e)
  BY <1>3, ClosingStays DEF LeaverFreed
<1>4. CASE e = req[p].employee /\ OffboardUpdate(p)
  <2>1. CASE req[p].had
    <3>1. Freeing(e)'
      BY <1>4, <2>1, Gone DEF OffboardUpdate, Freeing, Keeps, Inv, CustodyInv
    <3> QED BY <3>1 DEF LeaverFreed
  <2>2. CASE ~req[p].had
    <3>1. OpenOf(e)' = {}
      BY <1>4, <2>2 DEF OffboardUpdate, Inv, Knows, OpenOfOf, OpenOf
    <3> QED BY <3>1 DEF LeaverFreed
  <2> QED BY <2>1, <2>2
<1>5. CASE e = req[p].employee /\ OffboardClose(p)
  <2>1. OpenOf(e)' = {}
    BY <1>5, ClosedOpens DEF OffboardClose, Inv, CustodyInv
  <2> QED BY <2>1 DEF LeaverFreed
<1>6. CASE e = req[p].employee /\ LeaveCommit(p)
  <2>1. OpenOf(e)' = OpenOf(e) \ req[p].rows
    BY <1>6, ClosedOpens DEF LeaveCommit, Inv, CustodyInv
  <2>2. OpenOf(e)' = {}
    BY <1>6, <2>1 DEF LeaveCommit, Inv, Knows, OpenOfOf
  <2> QED BY <2>2 DEF LeaverFreed
<1>7. CASE e = req[p].employee /\ (AssignCommit(p) \/ ApproveCommit(p))
  BY <1>7 DEF AssignCommit, ApproveCommit, Inv, Knows, ActiveOf, LeaverFreed
<1>8. CASE e = req[p].employee /\ ReactivateUpdate(p)
  <2>1. active'[e]
    BY <1>8 DEF ReactivateUpdate, Inv, CustodyInv, TypeOK
  <2> QED BY <2>1 DEF LeaverFreed
<1>9. ASSUME ~OffboardUpdate(p), ~OffboardClose(p), ~LeaveCommit(p),
             ~AssignCommit(p), ~ApproveCommit(p), ~ReactivateUpdate(p),
             ~UNCHANGED tables
      PROVE  /\ ~At(p, "offboard_close") /\ active' = active
             /\ OpenOf(e)' \subseteq OpenOf(e)
  <2>1. CASE PatchClose(p)
    BY <2>1, ClosedOpens DEF PatchClose, Inv, CustodyInv
  <2>2. CASE UnassignCommit(p) \/ RetireCommit(p)
    BY <2>2, ClosedOpens DEF UnassignCommit, RetireCommit, Inv, CustodyInv
  <2>3. CASE \/ PatchRequest(p) \/ PatchUpdate(p) \/ AssignRequest(p)
             \/ OffboardRequest(p) \/ RejectUpdate(p)
    BY <2>3 DEF PatchRequest, PatchUpdate, AssignRequest, OffboardRequest,
       RejectUpdate, OpenOf
  <2>4. \/ ~DeviceStep(p) \/ PatchRequest(p) \/ AssignRequest(p)
        \/ PatchUpdate(p) \/ PatchClose(p) \/ UnassignCommit(p)
    BY <1>9 DEF DeviceStep, PatchReceive, PatchGate, AssignReceive,
       AssignEmployee, AssignGate, AssignClose, UnassignReceive
  <2>5. ~EmployeeStep(p) \/ OffboardRequest(p)
    BY <1>9 DEF EmployeeStep, OffboardReceive, OffboardGate, ReactivateReceive
  <2>6. ~ApprovalStep(p) \/ RetireCommit(p) \/ RejectUpdate(p)
    BY <1>9 DEF ApprovalStep, ApproveReceive, ApproveRead, ReadDevice,
       ReadEmployee, ApproveClose, RetireDevice, RetireClose, LeaveEmployee,
       LeaveClose, RejectReceive
  <2> QED BY <1>9, <2>1, <2>2, <2>3, <2>4, <2>5, <2>6 DEF Step, Fail
<1> QED BY <1>1, <1>2, <1>3, <1>4, <1>5, <1>6, <1>7, <1>8, <1>9

(* The status of a device and its assignments come apart only when a PATCH    *)
(* dies before it closes the assignment, as long as no two requests in flight *)
(* concern the same asset.                                                    *)
THEOREM HolderShownElse == ~Contention => (Spec => StatusShowsHolder)
<1> DEFINE Shown(d) ==
      HolderShown(d) /\ ~HolderShown(d)' => Closing(d) /\ UNCHANGED tables
<1>1. Inv /\ [Next]_vars => [\A d \in Device : Shown(d)]_vars
  BY HolderShownStep DEF Next, Step
<1>2. CASE ~Contention
  <2>1. Inv /\ [Next]_vars => Inv'
    BY <1>2, InvNext
  <2> QED BY <1>1, <2>1, InvInit, PTL DEF Spec, StatusShowsHolder
<1> QED BY <1>2

(* An offboarded employee comes to hold a device only when an offboarding     *)
(* dies before it closes the assignments, as long as no two requests in       *)
(* flight concern the same asset.                                             *)
THEOREM LeaversFreedElse == ~Contention => (Spec => OffboardingFrees)
<1> DEFINE Freed(e) ==
      LeaverFreed(e) /\ ~LeaverFreed(e)' => Freeing(e) /\ UNCHANGED tables
<1>1. Inv /\ [Next]_vars => [\A e \in Employee : Freed(e)]_vars
  BY LeaverFreedStep DEF Next, Step
<1>2. CASE ~Contention
  <2>1. Inv /\ [Next]_vars => Inv'
    BY <1>2, InvNext
  <2> QED BY <1>1, <2>1, InvInit, PTL DEF Spec, OffboardingFrees
<1> QED BY <1>2

-----------------------------------------------------------------------------
(* The refinement.                                                            *)
(* The rows a transaction has chosen are those of its device or employee.     *)

ChosenOf(p) ==
  /\ req[p].pc \in {"assign_commit", "unassign_commit", "approve_commit",
                    "retire_commit"} =>
       \A i \in req[p].rows : /\ assignment[i].state # "absent"
                              /\ assignment[i].device = req[p].device
  /\ req[p].pc = "leave_commit" =>
       \A i \in req[p].rows : /\ assignment[i].state # "absent"
                              /\ assignment[i].employee = req[p].employee
  /\ req[p].pc = "leave_employee" => req[p].rows = {}

Chosen == \A p \in Proc : ChosenOf(p)

\* A row keeps its device and employee.
LEMMA RowsKept ==
  ASSUME Inv, NEW p \in Proc, Step(p), NEW i \in AsgId,
         assignment[i].state # "absent"
  PROVE  /\ assignment'[i].state # "absent"
         /\ assignment'[i].device = assignment[i].device
         /\ assignment'[i].employee = assignment[i].employee
<1> USE DEF Inv, CustodyInv
<1>1. ASSUME NEW S \in SUBSET AsgId, assignment' = Closed(S)
      PROVE  /\ assignment'[i].state # "absent"
             /\ assignment'[i].device = assignment[i].device
             /\ assignment'[i].employee = assignment[i].employee
  BY <1>1, ClosedType
<1>2. ASSUME NEW j \in AsgId, assignment[j].state = "absent",
             assignment' = Handover(req[p].rows, j, req[p].device, req[p].employee)
      PROVE  /\ assignment'[i].state # "absent"
             /\ assignment'[i].device = assignment[i].device
             /\ assignment'[i].employee = assignment[i].employee
  <2>1. \A k \in AsgId \ {j} : assignment'[k] = Closed(req[p].rows)[k]
    BY <1>2, HandedOver
  <2>2. assignment'[i] = Closed(req[p].rows)[i]
    BY <1>2, <2>1
  <2> QED BY <2>2, ClosedType
<1> QED BY <1>1, <1>2, StepFacts DEF Effect

LEMMA LeaveChosen ==
  ASSUME Inv, NEW p \in Proc, ChosenOf(p), Step(p)
  PROVE  /\ req'[p].pc = "leave_employee" => req'[p].rows = {}
         /\ req'[p].pc = "leave_commit" =>
              UNCHANGED tables /\ req'[p].rows \subseteq OpenOf(req'[p].employee)
<1> USE DEF Inv, CustodyInv, At, Idle, Keeps
<1>1. CASE DeviceStep(p)
  <2>1. req'[p].pc \notin {"leave_employee", "leave_commit"}
    BY <1>1, PatchArrives, AssignArrives, UnassignArrives, Gone, Replied,
       Snapped
       DEF DeviceStep, PatchGate, PatchRequest, PatchUpdate, PatchClose,
           AssignEmployee, AfterEmployee, AssignGate, AssignRequest, AssignClose,
           AssignCommit, UnassignCommit
  <2> QED BY <2>1
<1>2. CASE EmployeeStep(p)
  <2>1. req'[p].pc \notin {"leave_employee", "leave_commit"}
    BY <1>2, OffboardArrives, ReactivateArrives, Gone, Replied
       DEF EmployeeStep, OffboardGate, OffboardRequest, OffboardUpdate,
           OffboardClose, ReactivateUpdate
  <2> QED BY <2>1
<1>3. CASE Fail(p)
  BY <1>3, Replied DEF Fail
<1>4. CASE ApproveReceive(p)
  <2>1. PICK a \in ApprovalId : Take(p, a, AfterFind[approval[a].kind])
    BY <1>4 DEF ApproveReceive
  <2>2. req'[p] = [Idle EXCEPT !.pc = AfterFind[approval[a].kind], !.role = "admin",
                              !.approval = a, !.device = approval[a].device,
                              !.employee = approval[a].employee]
    BY <2>1, Accepted DEF Take
  <2>3. req'[p].rows = {}
    BY <2>2
  <2> QED BY <1>4, <2>3, ApproveArrives
<1>5. CASE LeaveEmployee(p)
  BY <1>5, Gone, Replied DEF LeaveEmployee, ChosenOf
<1>6. CASE LeaveClose(p)
  BY <1>6, Snapped DEF LeaveClose
<1>7. CASE ApprovalStep(p) /\ ~ApproveReceive(p) /\ ~LeaveEmployee(p) /\ ~LeaveClose(p)
  <2>1. CASE ApproveRead(p) \/ ApproveClose(p) \/ ApproveCommit(p)
    BY <2>1, Gone, Replied, Snapped
       DEF ApproveRead, ReadDevice, ReadEmployee, ApproveClose, ApproveCommit
  <2>2. CASE RetireDevice(p) \/ RetireClose(p) \/ RetireCommit(p)
    BY <2>2, Gone, Replied, Snapped DEF RetireDevice, RetireClose, RetireCommit
  <2>3. CASE LeaveCommit(p) \/ RejectReceive(p) \/ RejectUpdate(p)
    BY <2>3, RejectArrives, Gone, Replied DEF LeaveCommit, RejectUpdate
  <2> QED BY <1>7, <2>1, <2>2, <2>3 DEF ApprovalStep
<1> QED BY <1>1, <1>2, <1>3, <1>4, <1>5, <1>6, <1>7 DEF Step

LEMMA ChosenInit == Init => Chosen
  BY DEF Init, Idle, Chosen, ChosenOf

LEMMA ChosenNext == Inv /\ Chosen /\ [Next]_vars => Chosen'
<1> SUFFICES ASSUME Inv, Chosen, [Next]_vars PROVE Chosen'
  OBVIOUS
<1> USE DEF Inv, CustodyInv
<1>1. ASSUME NEW p \in Proc, Step(p), NEW q \in Proc \ {p} PROVE ChosenOf(q)'
  <2>1. req'[q] = req[q] /\ req[q].rows \subseteq AsgId
    BY <1>1, StepFacts, RequestFields DEF Effect
  <2> QED BY <1>1, <2>1, RowsKept DEF Chosen, ChosenOf
<1>2. ASSUME NEW p \in Proc, Step(p) PROVE ChosenOf(p)'
  <2>1. req'[p].pc \in {"assign_commit", "unassign_commit", "approve_commit",
                        "retire_commit"} =>
          UNCHANGED tables /\ req'[p].rows = OpenOn(req'[p].device)
    BY <1>2, StepFacts DEF Snapshots
  <2>2. /\ req'[p].pc = "leave_employee" => req'[p].rows = {}
        /\ req'[p].pc = "leave_commit" =>
             UNCHANGED tables /\ req'[p].rows \subseteq OpenOf(req'[p].employee)
    BY <1>2, LeaveChosen DEF Chosen
  <2> QED BY <2>1, <2>2 DEF ChosenOf, OpenOn, OpenOf, tables
<1>3. CASE UNCHANGED vars
  BY <1>3 DEF vars, Chosen, ChosenOf
<1> QED BY <1>1, <1>2, <1>3 DEF Next, Step, Chosen

-----------------------------------------------------------------------------
(* The mapping: holders *)

\* Whoever has the open row of a device holds it.
LEMMA HolderIs ==
  ASSUME NEW t \in [AsgId -> AssignmentRow], NEW d \in Device, NEW i \in AsgId,
         t[i].state = "open", t[i].device = d,
         \A j \in AsgId : t[j].state = "open" /\ t[j].device = d => j = i
  PROVE  HolderIn(t, d) = t[i].employee
<1>1. OpenIn(t, d) = {i}
  BY DEF OpenIn
<1> QED BY <1>1 DEF HolderIn

LEMMA HeldByNobody ==
  ASSUME NEW t, NEW d, OpenIn(t, d) = {}
  PROVE  HolderIn(t, d) = None
  BY DEF HolderIn

\* Tables with the same open rows of a device have the same holder.
LEMMA SameHolder ==
  ASSUME NEW t, NEW u, NEW d,
         OpenIn(t, d) = OpenIn(u, d),
         \A i \in OpenIn(t, d) : t[i].employee = u[i].employee
  PROVE  HolderIn(t, d) = HolderIn(u, d)
<1>1. CASE OpenIn(t, d) = {}
  BY <1>1 DEF HolderIn
<1>2. CASE OpenIn(t, d) # {}
  <2>1. (CHOOSE i \in OpenIn(t, d) : TRUE) \in OpenIn(t, d)
    BY <1>2
  <2> QED BY <1>2, <2>1 DEF HolderIn
<1> QED BY <1>1, <1>2

LEMMA OpenInOn ==
  ASSUME NEW d
  PROVE  OpenIn(assignment, d) = OpenOn(d) /\ OpenIn(assignment', d) = OpenOn(d)'
  BY DEF OpenIn, OpenOn

LEMMA HolderPrime == Holder' = [d \in Device |-> HolderIn(assignment', d)]
  BY DEF Holder, HolderIn, OpenIn

\* A statement that closes the open rows of a device takes it from its holder.
LEMMA TakenBack ==
  ASSUME TypeOK, NEW d \in Device, NEW S \in SUBSET AsgId, assignment' = Closed(S),
         OpenOn(d) \subseteq S,
         \A i \in S : assignment[i].device = d
  PROVE  Holder' = [Holder EXCEPT ![d] = None]
<1>1. HolderIn(assignment', d) = None
  <2>1. OpenIn(assignment', d) = {}
    BY ClosedOpens, OpenInOn
  <2> QED BY <2>1, HeldByNobody
<1>2. ASSUME NEW c \in Device, c # d
      PROVE  HolderIn(assignment', c) = HolderIn(assignment, c)
  <2>1. OpenIn(assignment', c) = OpenIn(assignment, c)
    <3>1. OpenOn(c) \cap S = {}
      BY <1>2 DEF OpenOn
    <3> QED BY <3>1, ClosedOpens, OpenInOn
  <2>2. \A i \in OpenIn(assignment, c) : assignment'[i].employee = assignment[i].employee
    BY ClosedType DEF OpenIn
  <2> QED BY <2>1, <2>2, SameHolder
<1> QED BY <1>1, <1>2, HolderPrime DEF Holder

\* The transaction that closes what is open on a device and inserts a row
\* gives the device to the employee of that row.
LEMMA GivenTo ==
  ASSUME Inv, Chosen, NEW p \in Proc, NEW i \in AsgId,
         req[p].pc \in {"assign_commit", "approve_commit"},
         assignment[i].state = "absent",
         assignment' = Handover(req[p].rows, i, req[p].device, req[p].employee)
  PROVE  Holder' = [Holder EXCEPT ![req[p].device] = req[p].employee]
<1> USE DEF Inv, CustodyInv
<1>0. req[p].device \in Device /\ req[p].rows \subseteq AsgId
  BY RequestFields DEF Subjects, OnDevice
<1>1. /\ assignment'[i] = [state |-> "open", device |-> req[p].device,
                            employee |-> req[p].employee]
      /\ \A j \in AsgId \ {i} : assignment'[j] = Closed(req[p].rows)[j]
  BY HandedOver
<1>2. assignment' \in [AsgId -> AssignmentRow]
  BY <1>0, HandoverType, RequestFields
<1>3. HolderIn(assignment', req[p].device) = req[p].employee
  <2>1. \A j \in AsgId \ {i} :
          ~(assignment'[j].state = "open" /\ assignment'[j].device = req[p].device)
    BY <1>1, ClosedType DEF SnapshotComplete, SeesOpen, OpenOn
  <2>2. assignment'[i].state = "open" /\ assignment'[i].device = req[p].device
        /\ assignment'[i].employee = req[p].employee
    BY <1>1
  <2> HIDE DEF Inv, CustodyInv
  <2> QED BY <1>0, <1>2, <2>1, <2>2, HolderIs
<1>4. ASSUME NEW c \in Device, c # req[p].device
      PROVE  HolderIn(assignment', c) = HolderIn(assignment, c)
  <2>1. \A j \in req[p].rows : assignment[j].device = req[p].device
    BY DEF Chosen, ChosenOf
  <2>2. \A j \in AsgId : j \in OpenIn(assignment', c) <=> j \in OpenIn(assignment, c)
    BY <1>1, <1>4, <2>1, ClosedType DEF OpenIn
  <2>3. OpenIn(assignment', c) = OpenIn(assignment, c)
    BY <2>2 DEF OpenIn
  <2>4. \A j \in OpenIn(assignment, c) : assignment'[j].employee = assignment[j].employee
    BY <1>1, ClosedType DEF OpenIn
  <2> QED BY <2>3, <2>4, SameHolder
<1> QED BY <1>0, <1>3, <1>4, HolderPrime DEF Holder

\* Closing what an employee has open frees the devices of the employee.
LEMMA FreedFrom ==
  ASSUME Inv, NEW e \in Employee, NEW S \in SUBSET AsgId, assignment' = Closed(S),
         OpenOf(e) \subseteq S,
         \A i \in S : assignment[i].employee = e
  PROVE  Holder' = Abstract!Freed(e)
<1> USE DEF Inv, CustodyInv
<1>1. ASSUME NEW d \in Device
      PROVE  HolderIn(assignment', d) =
               IF HolderIn(assignment, d) = e THEN None ELSE HolderIn(assignment, d)
  <2>1. OpenIn(assignment', d) = OpenIn(assignment, d) \ S
    BY ClosedOpens, OpenInOn
  <2>2. CASE OpenIn(assignment, d) = {}
    BY <2>1, <2>2, HeldByNobody, NoneAssumption
  <2>3. ASSUME NEW i \in OpenIn(assignment, d)
        PROVE  HolderIn(assignment', d) =
                 IF HolderIn(assignment, d) = e THEN None ELSE HolderIn(assignment, d)
    <3>1. i \in AsgId /\ OpenIn(assignment, d) = {i}
      BY <2>3 DEF OpenIn, AtMostOneOpen
    <3>2. HolderIn(assignment, d) = assignment[i].employee
      BY <3>1 DEF HolderIn
    <3>3. CASE assignment[i].employee = e
      <4>1. i \in S
        BY <2>3, <3>1, <3>3 DEF OpenIn, OpenOf
      <4> QED BY <2>1, <3>1, <3>2, <3>3, <4>1, HeldByNobody
    <3>4. CASE assignment[i].employee # e
      <4>1. OpenIn(assignment', d) = OpenIn(assignment, d)
        BY <2>1, <3>1, <3>4
      <4>2. \A j \in OpenIn(assignment, d) :
              assignment'[j].employee = assignment[j].employee
        BY ClosedType DEF OpenIn
      <4> QED BY <3>2, <3>4, <4>1, <4>2, SameHolder
    <3> QED BY <3>3, <3>4
  <2> QED BY <2>2, <2>3
<1> QED BY <1>1, HolderPrime DEF Holder, Abstract!Freed

-----------------------------------------------------------------------------
(* The mapping: what is asked for *)

LEMMA AskedPrime == Asked' = {Subject(approval'[a]) : a \in PendingIn(approval')}
  BY DEF Asked, Subject, PendingIn

LEMMA AskedSame ==
  ASSUME approval' = approval
  PROVE  Asked' = Asked
  BY DEF Asked, Subject, PendingIn

LEMMA AskedMore ==
  ASSUME TypeOK, NEW a \in ApprovalId, approval[a].state = "absent", NEW kind,
         NEW d, NEW e, approval' = Requested(a, kind, d, e)
  PROVE  Asked' = Asked \cup {Abstract!Wish(kind, d, e)}
<1>1. /\ approval'[a] = [state |-> "pending", kind |-> kind, device |-> d, employee |-> e]
      /\ \A b \in ApprovalId \ {a} : approval'[b] = approval[b]
  BY DEF Requested, TypeOK
<1>2. PendingIn(approval') = PendingIn(approval) \cup {a}
  BY <1>1 DEF PendingIn
<1>3. Subject(approval'[a]) = Abstract!Wish(kind, d, e)
  BY <1>1 DEF Subject, Abstract!Wish
<1>4. \A b \in PendingIn(approval) : Subject(approval'[b]) = Subject(approval[b])
  BY <1>1 DEF PendingIn
<1> QED BY <1>2, <1>3, <1>4, AskedPrime DEF Asked

\* No two pending approvals ask for the same.
LEMMA AskedTwice ==
  ASSUME Inv, NEW a \in PendingIn(approval), NEW b \in PendingIn(approval),
         Subject(approval[a]) = Subject(approval[b])
  PROVE  a = b
<1>1. /\ approval[a].kind = approval[b].kind
      /\ approval[a].device = approval[b].device
      /\ approval[a].employee = approval[b].employee
  BY DEF Subject
<1>2. approval[a].kind \in {"assignment", "decommission", "offboard"}
  BY DEF Inv, CustodyInv, TypeOK, ApprovalRow, PendingIn
<1>3. approval[a].device \in Device \/ approval[a].kind = "offboard"
  BY <1>2 DEF Inv, CustodyInv, Subjects, PendingIn
<1> QED BY <1>1, <1>3, NoneAssumption DEF Inv, OnePending, Rivals, PendingIn

LEMMA AskedLess ==
  ASSUME Inv, NEW p \in Proc, req[p].approval # 0,
         NEW outcome \in {"approved", "rejected"},
         approval' = Settled(req[p].approval, outcome)
  PROVE  /\ Subject(approval[req[p].approval]) \in Asked
         /\ Asked' = Asked \ {Subject(approval[req[p].approval])}
<1> DEFINE a == req[p].approval
<1>1. a \in ApprovalId /\ a \in PendingIn(approval)
  BY RequestFields DEF Inv, CustodyInv, Knows, TakenOf, PendingIn
<1>2. approval'[a].state = outcome /\ \A b \in ApprovalId \ {a} : approval'[b] = approval[b]
  BY <1>1 DEF Settled, Inv, CustodyInv, TypeOK, ApprovalRow
<1>3. PendingIn(approval') = PendingIn(approval) \ {a}
  BY <1>1, <1>2 DEF PendingIn
<1>4. \A b \in PendingIn(approval) \ {a} : /\ approval'[b] = approval[b]
                                          /\ Subject(approval[b]) # Subject(approval[a])
  BY <1>1, <1>2, AskedTwice DEF PendingIn
<1> QED BY <1>1, <1>3, <1>4, AskedPrime DEF Asked

\* Nobody has asked for a device or an offboarding that the gate let pass.
LEMMA QuietDevice ==
  ASSUME Inv, NEW d \in Device, PendingOn(d) = {}, NEW kind, kind # "offboard", NEW e
  PROVE  Abstract!Quiet(Abstract!Wish(kind, d, e))
  BY DEF Abstract!Quiet, Abstract!Wish, Asked, Subject, PendingIn, PendingOn

LEMMA QuietEmployee ==
  ASSUME Inv, NEW e \in Employee, PendingOffboard(e) = {}
  PROVE  Abstract!Quiet(Abstract!Wish("offboard", None, e))
  BY DEF Abstract!Quiet, Abstract!Wish, Asked, Subject, PendingIn,
     PendingOffboard

-----------------------------------------------------------------------------
(* Each statement is a move of Custody, or none *)

LEMMA HolderSame ==
  ASSUME assignment' = assignment
  PROVE  Holder' = Holder
  BY DEF Holder, HolderIn, OpenIn

LEMMA MoveIsNext ==
  ASSUME Inv, NEW p \in Proc, PatchUpdate(p)
  PROVE  Abstract!Next \/ UNCHANGED Abstract!state
<1> USE DEF Inv, CustodyInv, At
<1>1. /\ status' = [status EXCEPT ![req[p].device] = req[p].to]
      /\ UNCHANGED <<active, assignment, approval>>
      /\ PatchAllowed(status[req[p].device], req[p].to, req[p].role)
      /\ req[p].device \in Device /\ req[p].to \in DeviceStatus
  BY RequestFields DEF PatchUpdate, Knows, StatusOf, SeesStatus, Subjects,
     OnDevice
<1>2. UNCHANGED <<Holder, Asked>>
  BY <1>1, HolderSame, AskedSame
<1>3. CASE req[p].to = status[req[p].device]
  <2>1. status' = status
    BY <1>1, <1>3 DEF TypeOK
  <2> QED BY <1>1, <1>2, <2>1 DEF Abstract!state
<1>4. CASE req[p].to \in ValidTransitions[status[req[p].device]]
  <2>1. req[p].to \in DOMAIN ValidTransitions
    BY <1>1 DEF ValidTransitions, DeviceStatus
  <2>2. Abstract!Move(req[p].device, req[p].to)
    BY <1>1, <1>2, <1>4 DEF Abstract!Move
  <2> QED BY <1>1, <1>2, <2>1, <2>2 DEF Abstract!Next, Abstract!Event
<1> QED BY <1>1, <1>3, <1>4 DEF PatchAllowed

\* PATCH takes the device from its holder; /unassign returns it.
LEMMA CollectIsNext ==
  ASSUME Inv, NEW p \in Proc, PatchClose(p)
  PROVE  Abstract!Next
<1> USE DEF Inv, CustodyInv, At
<1>1. /\ req[p].device \in Device
      /\ status[req[p].device] \in {"under_repair", "decommissioned"}
  BY DEF PatchClose, Knows, StatusOf, AutoClose, Subjects, OnDevice
<1>2. Holder' = [Holder EXCEPT ![req[p].device] = None]
  BY <1>1, TakenBack DEF PatchClose, OpenOn
<1>3. UNCHANGED <<status, active, Asked>>
  BY AskedSame DEF PatchClose
<1>4. Abstract!Collect(req[p].device)
  BY <1>1, <1>2, <1>3 DEF Abstract!Collect
<1> QED BY <1>1, <1>3, <1>4 DEF Abstract!Next, Abstract!Event

LEMMA ReturnIsNext ==
  ASSUME Inv, Chosen, NEW p \in Proc, UnassignCommit(p)
  PROVE  Abstract!Next
<1> USE DEF Inv, CustodyInv, At
<1>1. req[p].device \in Device /\ req[p].rows \in SUBSET AsgId
  BY RequestFields DEF UnassignCommit, Subjects, OnDevice
<1>2. Holder' = [Holder EXCEPT ![req[p].device] = None]
  BY <1>1, TakenBack DEF UnassignCommit, SnapshotComplete, SeesOpen, Chosen,
     ChosenOf
<1>3. UNCHANGED <<active, Asked>>
  BY AskedSame DEF UnassignCommit
<1>4. Abstract!Return(req[p].device)
  BY <1>2, <1>3 DEF Abstract!Return, UnassignCommit
<1> QED BY <1>1, <1>3, <1>4 DEF Abstract!Next, Abstract!Event

\* Both transactions that hand a device over.
LEMMA GiveIs ==
  ASSUME Inv, Chosen, NEW p \in Proc, AssignCommit(p) \/ ApproveCommit(p)
  PROVE  /\ req[p].device \in Device /\ req[p].employee \in Employee
         /\ Abstract!Give(req[p].device, req[p].employee)
<1> USE DEF Inv, CustodyInv, At
<1>1. req[p].pc \in {"assign_commit", "approve_commit"}
  BY DEF AssignCommit, ApproveCommit
<1>2. /\ req[p].device \in Device /\ req[p].employee \in Employee
      /\ status[req[p].device] = "in_stock" /\ active[req[p].employee]
  BY <1>1 DEF Knows, StatusOf, SeesStatus, ActiveOf, Subjects, OnDevice,
     OnEmployee
<1>3. Holder' = [Holder EXCEPT ![req[p].device] = req[p].employee]
  BY <1>1, GivenTo DEF AssignCommit, ApproveCommit, NextAssignment
<1> QED BY <1>2, <1>3 DEF Abstract!Give, AssignCommit, ApproveCommit

LEMMA AssignIsNext ==
  ASSUME Inv, Chosen, NEW p \in Proc, AssignCommit(p)
  PROVE  Abstract!Next
<1>1. Asked' = Asked
  BY AskedSame DEF AssignCommit
<1> QED BY <1>1, GiveIs DEF Abstract!Next, Abstract!Event

\* What the approval of p asks for, and that a decision answers it.
Wanted(p) == Subject(approval[req[p].approval])

LEMMA WantedIs ==
  ASSUME Inv, Grounds, NEW p \in Proc,
         req[p].pc \in Approving \cup Retiring \cup Leaving \cup {"reject_update"}
  PROVE  /\ req[p].approval # 0
         /\ Wanted(p).device = req[p].device /\ Wanted(p).employee = req[p].employee
         /\ req[p].pc \in Approving => Wanted(p).kind = "assignment"
         /\ req[p].pc \in Retiring => Wanted(p).kind = "decommission"
         /\ req[p].pc \in Leaving => Wanted(p).kind = "offboard"
  BY DEF Grounds, About, Wanted, Subject

LEMMA GrantAssignment ==
  ASSUME Inv, Chosen, Grounds, NEW p \in Proc, ApproveCommit(p)
  PROVE  Abstract!Next
<1>1. /\ req[p].approval # 0 /\ Wanted(p).kind = "assignment"
      /\ Wanted(p).device = req[p].device /\ Wanted(p).employee = req[p].employee
  BY WantedIs DEF ApproveCommit, At, Approving
<1>2. Wanted(p) \in Asked /\ Asked' = Asked \ {Wanted(p)}
  BY <1>1, AskedLess DEF ApproveCommit, Wanted
<1>3. Abstract!Grant(Wanted(p))
  BY <1>1, <1>2, GiveIs DEF Abstract!Grant
<1> QED BY <1>2, <1>3 DEF Abstract!Next

LEMMA GrantDecommission ==
  ASSUME Inv, Chosen, Grounds, NEW p \in Proc, RetireCommit(p)
  PROVE  Abstract!Next
<1> USE DEF At
<1>1. /\ req[p].approval # 0 /\ Wanted(p).kind = "decommission"
      /\ Wanted(p).device = req[p].device
  BY WantedIs DEF RetireCommit, Retiring
<1>2. Wanted(p) \in Asked /\ Asked' = Asked \ {Wanted(p)}
  BY <1>1, AskedLess DEF RetireCommit, Wanted
<1>3. /\ req[p].device \in Device /\ req[p].rows \in SUBSET AsgId
      /\ status[req[p].device] # "decommissioned"
  BY RequestFields DEF RetireCommit, Inv, CustodyInv, Knows, StatusOf,
     SeesStatus, Subjects,
     OnDevice
<1>4. Holder' = [Holder EXCEPT ![req[p].device] = None]
  BY <1>3, TakenBack DEF RetireCommit, Inv, CustodyInv, SnapshotComplete,
     SeesOpen,
     Chosen, ChosenOf
<1>5. Abstract!Retire(req[p].device)
  BY <1>3, <1>4 DEF Abstract!Retire, RetireCommit
<1>6. Abstract!Grant(Wanted(p))
  BY <1>1, <1>2, <1>5 DEF Abstract!Grant
<1> QED BY <1>2, <1>6 DEF Abstract!Next

LEMMA GrantOffboard ==
  ASSUME Inv, Chosen, Grounds, NEW p \in Proc, LeaveCommit(p)
  PROVE  Abstract!Next
<1> USE DEF At
<1>1. /\ req[p].approval # 0 /\ Wanted(p).kind = "offboard"
      /\ Wanted(p).employee = req[p].employee
  BY WantedIs DEF LeaveCommit, Leaving
<1>2. Wanted(p) \in Asked /\ Asked' = Asked \ {Wanted(p)}
  BY <1>1, AskedLess DEF LeaveCommit, Wanted
<1>3. /\ req[p].employee \in Employee /\ req[p].rows \in SUBSET AsgId
      /\ active[req[p].employee]
      /\ OpenOf(req[p].employee) \subseteq req[p].rows
  BY RequestFields DEF LeaveCommit, Inv, CustodyInv, Knows, ActiveOf,
     OpenOfOf,
     Subjects, OnEmployee
<1>4. Holder' = Abstract!Freed(req[p].employee)
  BY <1>3, FreedFrom DEF LeaveCommit, Chosen, ChosenOf
<1>5. Abstract!Leave(req[p].employee)
  BY <1>3, <1>4 DEF Abstract!Leave, LeaveCommit
<1>6. Abstract!Grant(Wanted(p))
  BY <1>1, <1>2, <1>5 DEF Abstract!Grant
<1> QED BY <1>2, <1>6 DEF Abstract!Next

LEMMA DenyIsNext ==
  ASSUME Inv, Grounds, NEW p \in Proc, RejectUpdate(p)
  PROVE  Abstract!Next
<1>1. req[p].approval # 0
  BY WantedIs DEF RejectUpdate, At
<1>2. Wanted(p) \in Asked /\ Asked' = Asked \ {Wanted(p)}
  BY <1>1, AskedLess DEF RejectUpdate, Wanted
<1>3. UNCHANGED <<Holder, status, active>>
  BY HolderSame DEF RejectUpdate
<1>4. Abstract!Deny(Wanted(p))
  BY <1>2, <1>3 DEF Abstract!Deny
<1> QED BY <1>2, <1>4 DEF Abstract!Next

LEMMA AskIsNext ==
  ASSUME Inv, NEW p \in Proc, PatchRequest(p) \/ AssignRequest(p) \/ OffboardRequest(p)
  PROVE  Abstract!Next
<1> USE DEF Inv, CustodyInv, At
<1>1. UNCHANGED <<Holder, status, active>>
  BY HolderSame DEF PatchRequest, AssignRequest, OffboardRequest
<1>2. CASE PatchRequest(p)
  <2>1. req[p].device \in Device /\ PendingOn(req[p].device) = {}
    BY <1>2 DEF PatchRequest, Knows, SeesQuiet, Subjects, OnDevice
  <2>2. Asked' = Asked \cup {Abstract!Wish("decommission", req[p].device, None)}
    BY <1>2, AskedMore DEF PatchRequest, NextApproval
  <2>3. Abstract!Quiet(Abstract!Wish("decommission", req[p].device, None))
    BY <2>1, QuietDevice
  <2>4. Abstract!Ask(Abstract!Wish("decommission", req[p].device, None))
    BY <1>1, <2>2, <2>3 DEF Abstract!Ask
  <2> QED BY <2>1, <2>4 DEF Abstract!Next, Abstract!AskAny
<1>3. CASE AssignRequest(p)
  <2>1. /\ req[p].device \in Device /\ PendingOn(req[p].device) = {}
        /\ req[p].employee \in Employee
        /\ status[req[p].device] = "in_stock" /\ active[req[p].employee]
    BY <1>3 DEF AssignRequest, Knows, SeesQuiet, StatusOf, SeesStatus,
       ActiveOf, Subjects,
       OnDevice, OnEmployee
  <2>2. Asked' = Asked \cup {Abstract!Wish("assignment", req[p].device, req[p].employee)}
    BY <1>3, AskedMore DEF AssignRequest, NextApproval
  <2>3. Abstract!Quiet(Abstract!Wish("assignment", req[p].device, req[p].employee))
    BY <2>1, QuietDevice
  <2>4. Abstract!Ask(Abstract!Wish("assignment", req[p].device, req[p].employee))
    BY <1>1, <2>2, <2>3 DEF Abstract!Ask
  <2> QED BY <2>1, <2>4 DEF Abstract!Next, Abstract!AskAny
<1>4. CASE OffboardRequest(p)
  <2>1. /\ req[p].employee \in Employee /\ PendingOffboard(req[p].employee) = {}
        /\ active[req[p].employee]
    BY <1>4 DEF OffboardRequest, Knows, SeesQuiet, ActiveOf, Subjects,
       OnEmployee
  <2>2. Asked' = Asked \cup {Abstract!Wish("offboard", None, req[p].employee)}
    BY <1>4, AskedMore DEF OffboardRequest, NextApproval
  <2>3. Abstract!Quiet(Abstract!Wish("offboard", None, req[p].employee))
    BY <2>1, QuietEmployee
  <2>4. Abstract!Ask(Abstract!Wish("offboard", None, req[p].employee))
    BY <1>1, <2>2, <2>3 DEF Abstract!Ask
  <2> QED BY <2>1, <2>4 DEF Abstract!Next, Abstract!AskAny
<1> QED BY <1>2, <1>3, <1>4

LEMMA EmploymentIsNext ==
  ASSUME Inv, NEW p \in Proc,
         OffboardUpdate(p) \/ OffboardClose(p) \/ ReactivateUpdate(p)
  PROVE  Abstract!Next
<1> USE DEF Inv, CustodyInv, At
<1>1. req[p].employee \in Employee /\ Asked' = Asked /\ status' = status
  BY AskedSame DEF OffboardUpdate, OffboardClose, ReactivateUpdate, Subjects,
     OnEmployee
<1>2. CASE OffboardUpdate(p)
  <2>1. active[req[p].employee] /\ Holder' = Holder
    BY <1>2, HolderSame DEF OffboardUpdate, Knows, ActiveOf
  <2>2. Abstract!Dismiss(req[p].employee)
    BY <1>1, <1>2, <2>1 DEF OffboardUpdate, Abstract!Dismiss
  <2> QED BY <1>1, <2>2 DEF Abstract!Next, Abstract!Event
<1>3. CASE OffboardClose(p)
  <2>1. ~active[req[p].employee]
    BY <1>3 DEF OffboardClose, Knows, ActiveOf
  <2>2. Holder' = Abstract!Freed(req[p].employee)
    BY <1>1, <1>3, FreedFrom DEF OffboardClose, OpenOf
  <2>3. Abstract!Free(req[p].employee)
    BY <1>1, <1>3, <2>1, <2>2 DEF OffboardClose, Abstract!Free
  <2> QED BY <1>1, <2>3 DEF Abstract!Next, Abstract!Event
<1>4. CASE ReactivateUpdate(p)
  <2>1. ~active[req[p].employee] /\ Holder' = Holder
    BY <1>4, HolderSame DEF ReactivateUpdate, Knows, ActiveOf
  <2>2. Abstract!Rehire(req[p].employee)
    BY <1>1, <1>4, <2>1 DEF ReactivateUpdate, Abstract!Rehire
  <2> QED BY <1>1, <2>2 DEF Abstract!Next, Abstract!Event
<1> QED BY <1>2, <1>3, <1>4

LEMMA SilentSteps ==
  ASSUME UNCHANGED tables
  PROVE  UNCHANGED Abstract!state
  BY HolderSame, AskedSame DEF tables, Abstract!state

-----------------------------------------------------------------------------
(* The refinement *)

LEMMA StepRefines ==
  ASSUME Inv, Chosen, Grounds, NEW p \in Proc, Step(p)
  PROVE  Abstract!Next \/ UNCHANGED Abstract!state
<1>1. CASE DeviceStep(p)
  <2>1. CASE PatchUpdate(p) \/ PatchClose(p) \/ UnassignCommit(p) \/ AssignCommit(p)
             \/ PatchRequest(p) \/ AssignRequest(p)
    BY <2>1, MoveIsNext, CollectIsNext, ReturnIsNext, AssignIsNext, AskIsNext
  <2>2. CASE \/ PatchReceive(p) \/ PatchGate(p) \/ AssignReceive(p)
             \/ AssignEmployee(p) \/ AssignGate(p) \/ AssignClose(p)
             \/ UnassignReceive(p)
    BY <2>2, SilentSteps DEF PatchReceive, PatchGate, AssignReceive,
       AssignEmployee, AssignGate, AssignClose, UnassignReceive
  <2> QED BY <1>1, <2>1, <2>2 DEF DeviceStep
<1>2. CASE EmployeeStep(p)
  <2>1. CASE OffboardUpdate(p) \/ OffboardClose(p) \/ ReactivateUpdate(p)
             \/ OffboardRequest(p)
    BY <2>1, EmploymentIsNext, AskIsNext
  <2>2. CASE OffboardReceive(p) \/ OffboardGate(p) \/ ReactivateReceive(p)
    BY <2>2, SilentSteps DEF OffboardReceive, OffboardGate, ReactivateReceive
  <2> QED BY <1>2, <2>1, <2>2 DEF EmployeeStep
<1>3. CASE ApprovalStep(p)
  <2>1. CASE ApproveCommit(p) \/ RetireCommit(p) \/ LeaveCommit(p) \/ RejectUpdate(p)
    BY <2>1, GrantAssignment, GrantDecommission, GrantOffboard, DenyIsNext
  <2>2. CASE \/ ApproveReceive(p) \/ ApproveRead(p) \/ ApproveClose(p)
             \/ RetireDevice(p) \/ RetireClose(p) \/ LeaveEmployee(p)
             \/ LeaveClose(p) \/ RejectReceive(p)
    BY <2>2, SilentSteps DEF ApproveReceive, ApproveRead, ReadDevice,
       ReadEmployee, ApproveClose, RetireDevice, RetireClose, LeaveEmployee,
       LeaveClose, RejectReceive
  <2> QED BY <1>3, <2>1, <2>2 DEF ApprovalStep
<1>4. CASE Fail(p)
  BY <1>4, SilentSteps DEF Fail
<1> QED BY <1>1, <1>2, <1>3, <1>4 DEF Step

LEMMA InitRefines == Init => Abstract!Init
<1> SUFFICES ASSUME Init PROVE Abstract!Init
  OBVIOUS
<1>1. \A d \in Device : OpenIn(assignment, d) = {}
  BY DEF Init, OpenIn
<1>2. Holder = [d \in Device |-> None]
  BY <1>1 DEF Holder, HolderIn
<1>3. Asked = {}
  BY DEF Init, Asked, PendingIn
<1> QED BY <1>2, <1>3 DEF Init, Abstract!Init

(* The routes implement Custody, whatever they interleave and wherever they   *)
(* die, as long as no two requests in flight concern the same asset.          *)
THEOREM Implementation == ~Contention => (Spec => ImplementsCustody)
<1>1. CASE ~Contention
  <2>1. Inv /\ [Next]_vars => Inv'
    BY <1>1, InvNext
  <2>2. Inv => TypeOK /\ Subjects
    BY DEF Inv, CustodyInv
  <2>3. Inv /\ Chosen /\ Grounds /\ [Next]_vars => [Abstract!Next]_Abstract!state
    <3> SUFFICES ASSUME Inv, Chosen, Grounds, [Next]_vars
                 PROVE  Abstract!Next \/ UNCHANGED Abstract!state
      OBVIOUS
    <3>1. CASE UNCHANGED vars
      BY <3>1, SilentSteps DEF vars, tables
    <3> QED BY <3>1, StepRefines DEF Next, Step
  <2> QED BY <2>1, <2>2, <2>3, InvInit, ChosenInit, ChosenNext, GroundsInit,
             GroundsNext, InitRefines, PTL
          DEF Spec, ImplementsCustody, Abstract!Spec
<1> QED BY <1>1
=============================================================================
