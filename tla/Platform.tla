------------------------------ MODULE Platform ------------------------------
(* The custody workflow as a whole: the device, employee and approval routes  *)
(* over one database, with any number of requests in flight.                  *)
EXTENDS DeviceRoutes, EmployeeRoutes, ApprovalRoutes

Next ==
  \E p \in Proc :
    DeviceStep(p) \/ EmployeeStep(p) \/ ApprovalStep(p) \/ Fail(p)

Spec == Init /\ [][Next]_vars

-----------------------------------------------------------------------------
(* Every column holds a value of its type, and every handler knows the device *)
(* and the employee its remaining statements are about.                       *)
TypeOK ==
  /\ status \in [Device -> DeviceStatus]
  /\ active \in [Employee -> BOOLEAN]
  /\ assignment \in [AsgId -> AssignmentRow]
  /\ approval \in [ApprovalId -> ApprovalRow]
  /\ req \in [Proc -> Request]

-----------------------------------------------------------------------------
(* What holds whatever runs concurrently and whatever dies half-way.          *)

Approves(a) == approval[a].state = "pending" /\ approval'[a].state = "approved"

\* Row i comes into being in this step.
Inserted(i) == assignment[i].state = "absent" /\ assignment'[i].state # "absent"

(* An approval turns "approved" in the very step that gives it its effect:    *)
(* the transactions of POST /approvals/:id/approve hold the whole of it, for  *)
(* the device and the employee the request was about.                         *)
ApprovalTakesEffect ==
  [][\A a \in ApprovalId : Approves(a) =>
       LET r == approval[a] IN
       CASE r.kind = "assignment" ->
              /\ status'[r.device] = "assigned"
              /\ \E i \in AsgId : /\ Inserted(i)
                                  /\ assignment'[i].device = r.device
                                  /\ assignment'[i].employee = r.employee
         [] r.kind = "decommission" -> status'[r.device] = "decommissioned"
         [] r.kind = "offboard" -> ~active'[r.employee]]_vars

(* The history of who held what is only appended to: a row of                 *)
(* device_assignments is never deleted, reopened or moved to another device   *)
(* or employee, by any interleaving of the routes that write the table.       *)
AssignmentHistory ==
  [][\A i \in AsgId :
       /\ assignment[i].state # "absent" =>
            /\ assignment'[i].device = assignment[i].device
            /\ assignment'[i].employee = assignment[i].employee
            /\ assignment'[i].state # "absent"
       /\ assignment[i].state = "returned" => assignment'[i].state = "returned"]_vars

(* The governance gate (devices.ts, employees.ts): a statement of an          *)
(* operator's own request never hands a device over, retires one or offboards *)
(* anybody, whatever was decided and changed since the request arrived.       *)
OperatorsOnlyRequest ==
  [][\A p \in Proc : req[p].role = "operator" /\ req'[p] # req[p] =>
       /\ \A i \in AsgId : ~Inserted(i)
       /\ \A d \in Device : status[d] # "decommissioned" => status'[d] # "decommissioned"
       /\ \A e \in Employee : active[e] => active'[e]]_vars

-----------------------------------------------------------------------------
(* What a handler has found out in the database, and still relies on in the   *)
(* statements it has left.  Nothing keeps another request from changing it.   *)

\* The snapshot of a transaction holds every open row of its device.
SeesOpen(p) ==
  req[p].pc \in {"assign_commit", "unassign_commit", "approve_commit",
                 "retire_commit"} => OpenOn(req[p].device) \subseteq req[p].rows

\* The governance gate found nothing pending.
SeesQuiet(p) ==
  /\ req[p].pc \in {"patch_request", "assign_request"} =>
       PendingOn(req[p].device) = {}
  /\ req[p].pc = "offboard_request" => PendingOffboard(req[p].employee) = {}

\* The status of the device allows what the handler is about to write.
SeesStatus(p) ==
  /\ req[p].pc = "patch_update" =>
       PatchAllowed(status[req[p].device], req[p].to, req[p].role)
  /\ req[p].pc \in {"assign_employee", "assign_gate", "assign_request",
                    "assign_close", "assign_commit",
                    "approve_employee", "approve_close", "approve_commit"} =>
       status[req[p].device] = "in_stock"
  /\ req[p].pc \in {"retire_close", "retire_commit"} =>
       status[req[p].device] # "decommissioned"

\* The approvals an admin's request found pending.
InHand(a) == {p \in Proc : req[p].approval = a}

-----------------------------------------------------------------------------
(* Each promise of the routes is broken in one way only: by a handler that    *)
(* was overtaken, that is, by another request that changed what the handler   *)
(* had found between its check and its write.                                 *)

\* A device is in the hands of one employee at a time.
AtMostOneOpen ==
  \A i, j \in AsgId :
    /\ assignment[i].state = "open"
    /\ assignment[j].state = "open"
    /\ assignment[i].device = assignment[j].device
    => i = j

HeldTwice(d) == \E i, j \in OpenOn(d) : i # j

(* The transactions of assign and approve close what is open before they      *)
(* insert.  A device comes to have two open assignments only by the commit of *)
(* one of them whose updateMany missed an open row, and a row is missed only  *)
(* if another transaction inserted it after that updateMany.                  *)
SecondHolderByRace ==
  [][/\ \A d \in Device : HeldTwice(d)' /\ ~HeldTwice(d) =>
          \E p \in Proc : /\ req[p].pc \in {"assign_commit", "approve_commit"}
                          /\ req[p].device = d /\ ~SeesOpen(p)
                          /\ req'[p] = Idle
     /\ \A p \in Proc : ~SeesOpen(p)' /\ SeesOpen(p) =>
          /\ req'[p] = req[p]
          /\ \E i \in AsgId : Inserted(i) /\ assignment'[i].device = req[p].device]_vars

\* Two pending approvals about one device, or two to offboard one employee.
Rivals(a, b) ==
  /\ a # b
  /\ approval[a].state = "pending"
  /\ approval[b].state = "pending"
  /\ \/ approval[a].device # None /\ approval[a].device = approval[b].device
     \/ /\ approval[a].kind = "offboard" /\ approval[b].kind = "offboard"
        /\ approval[a].employee = approval[b].employee

OnePending == \A a, b \in ApprovalId : ~Rivals(a, b)

Filed(a) == approval[a].state = "absent" /\ approval'[a].state = "pending"

(* The conflict checks before approval.create.  A second request about a      *)
(* device, or to offboard an employee, is filed only by a handler that was    *)
(* overtaken, by another one that filed a request between its check and its   *)
(* create.                                                                    *)
SecondRequestByRace ==
  [][/\ \A a, b \in ApprovalId : Rivals(a, b)' /\ ~Rivals(a, b) =>
          \E p \in Proc : ~SeesQuiet(p) /\ req'[p] = Idle
     /\ \A p \in Proc : ~SeesQuiet(p)' /\ SeesQuiet(p) =>
          /\ req'[p] = req[p]
          /\ \E a \in ApprovalId, q \in Proc :
               Filed(a) /\ q # p /\ req'[q] = Idle]_vars

(* An approval that was settled is never found pending again: it is settled   *)
(* anew, and its effect repeated, only by the admins' requests that had found *)
(* it pending by then, each of them once, and it stays what it was about.     *)
SettledAgainByRace ==
  [][\A a \in ApprovalId : approval[a].state \in {"approved", "rejected"} =>
       /\ InHand(a)' \subseteq InHand(a)
       /\ approval'[a] # approval[a] =>
            /\ InHand(a)' # InHand(a)
            /\ \E outcome \in {"approved", "rejected"} :
                 approval'[a] = [approval[a] EXCEPT !.state = outcome]]_vars

\* What the next write of handler p makes of the status of its device.
Target(p) ==
  CASE req[p].pc = "unassign_commit" -> "in_stock"
    [] req[p].pc \in {"assign_commit", "approve_commit"} -> "assigned"
    [] req[p].pc = "retire_commit" -> "decommissioned"
    [] OTHER -> req[p].to

(* A device moves along VALID_TRANSITIONS, out of "decommissioned" by an      *)
(* admin, or back into stock through /unassign.  It leaves the table only by  *)
(* a handler that was overtaken, by another one that moved the device between *)
(* its check and its update.                                                  *)
StatusFollowsTable ==
  [][/\ \A d \in Device : status'[d] # status[d] =>
          \E p \in Proc :
            /\ req[p].device = d /\ status'[d] = Target(p) /\ req'[p] # req[p]
            /\ \/ req[p].pc = "unassign_commit"
               \/ ~SeesStatus(p)
               \/ /\ status'[d] \in ValidTransitions[status[d]]
                  /\ status[d] = "decommissioned" => req[p].role = "admin"
     /\ \A p \in Proc : ~SeesStatus(p)' /\ SeesStatus(p) =>
          /\ req'[p] = req[p]
          /\ status'[req[p].device] # status[req[p].device]]_vars

-----------------------------------------------------------------------------
(* Status, employment and assignment are written by statements of their own   *)
(* in PATCH and /offboard.                                                    *)

Closing(d) == \E p \in Proc : req[p].pc = "patch_close" /\ req[p].device = d
Freeing(e) == \E p \in Proc : req[p].pc = "offboard_close" /\ req[p].employee = e

\* A device somebody holds is "assigned", unless a PATCH has yet to close.
HolderShown(d) == OpenOn(d) # {} => status[d] = "assigned" \/ Closing(d)

\* Who was offboarded holds nothing, unless an offboarding has yet to close.
LeaverFreed(e) == ~active[e] => OpenOf(e) = {} \/ Freeing(e)

(* Status and assignments of a device come apart in one way only: a PATCH     *)
(* that took the device from its holder dies before it closes the assignment. *)
StatusShowsHolder ==
  [][\A d \in Device : HolderShown(d) /\ ~HolderShown(d)' =>
       Closing(d) /\ UNCHANGED tables]_vars

(* An offboarded employee comes to hold a device in one way only: an          *)
(* offboarding dies before it closes the assignments.                         *)
OffboardingFrees ==
  [][\A e \in Employee : LeaverFreed(e) /\ ~LeaverFreed(e)' =>
       Freeing(e) /\ UNCHANGED tables]_vars

-----------------------------------------------------------------------------
(* What a comment of the repository says besides, and the code does not do.   *)

(* "Only admins can reactivate a decommissioned device" (devices.ts:439).     *)
OnlyAdminReactivates ==
  [][\A d \in Device : status[d] = "decommissioned" /\ status'[d] # status[d] =>
       \E p \in Proc : req[p].role = "admin" /\ req'[p] # req[p]]_vars
=============================================================================
