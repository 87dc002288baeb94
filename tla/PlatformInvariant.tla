------------------------- MODULE PlatformInvariant --------------------------
(* The inductive invariant behind the safety properties of Platform: what a   *)
(* handler has established about the database stays true until it uses it,    *)
(* as long as no other request in flight concerns the same asset.             *)
EXTENDS Platform

OnDevice == {"patch_gate", "patch_request", "patch_update", "patch_close",
             "assign_employee", "assign_gate", "assign_request",
             "assign_close", "assign_commit", "unassign_commit",
             "approve_both", "approve_device", "approve_employee",
             "approve_close", "approve_commit",
             "retire_device", "retire_close", "retire_commit"}

OnEmployee == {"assign_employee", "assign_gate", "assign_request",
               "assign_close", "assign_commit",
               "offboard_gate", "offboard_request", "offboard_update",
               "offboard_close", "reactivate_update",
               "approve_both", "approve_device", "approve_employee",
               "approve_close", "approve_commit",
               "leave_employee", "leave_close", "leave_commit"}

\* Every pending approval and every handler names the assets it is about.
Subjects ==
  /\ \A a \in ApprovalId : approval[a].state = "pending" =>
       /\ approval[a].kind = "assignment" =>
            approval[a].device \in Device /\ approval[a].employee \in Employee
       /\ approval[a].kind = "decommission" => approval[a].device \in Device
       /\ approval[a].kind = "offboard" => approval[a].employee \in Employee
  /\ \A p \in Proc : /\ req[p].pc \in OnDevice => req[p].device \in Device
                     /\ req[p].pc \in OnEmployee => req[p].employee \in Employee
                     /\ req[p].pc = "idle" => req[p] = Idle

\* Contention is FALSE.
Exclusive ==
  \A p, q \in Proc : p # q =>
    /\ req[p].device # None => req[q].device # req[p].device
    /\ req[p].employee # None => req[q].employee # req[p].employee

\* A snapshot by device holds every open row of the device until the commit.
SnapshotComplete == \A p \in Proc : SeesOpen(p)

CustodyInv == TypeOK /\ Subjects /\ Exclusive /\ SnapshotComplete /\ AtMostOneOpen

\* What a governance gate has found is still so when the request is inserted.
GateHolds == \A p \in Proc : SeesQuiet(p)

\* An approval being settled is pending, and about what its handler locks out.
TakenIsPending ==
  \A p \in Proc : req[p].approval # 0 =>
    /\ approval[req[p].approval].state = "pending"
    /\ approval[req[p].approval].device = req[p].device
    /\ approval[req[p].approval].employee = req[p].employee

\* The status a handler has read still allows what it is about to write.
StatusRead == \A p \in Proc : SeesStatus(p)

\* An employee found active still is; a list found empty still is; a snapshot
\* by employee is complete.
EmployeeRead ==
  \A p \in Proc :
    /\ req[p].pc \in {"assign_gate", "assign_request", "assign_close",
                      "assign_commit", "approve_device", "approve_close",
                      "approve_commit"} => active[req[p].employee]
    /\ req[p].pc = "offboard_update" /\ ~req[p].had =>
         OpenOf(req[p].employee) = {}
    /\ req[p].pc = "leave_commit" =>
         OpenOf(req[p].employee) \subseteq req[p].rows

ApartInv ==
  CustodyInv /\ OnePending /\ GateHolds /\ TakenIsPending /\ StatusRead

UnbrokenInv == ApartInv /\ EmployeeRead
=============================================================================
