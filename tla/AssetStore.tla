----------------------------- MODULE AssetStore -----------------------------
(* The rows the custody workflow of the platform reads and writes (devices,   *)
(* employees, device assignments and approvals, src/prisma/schema.prisma),    *)
(* and the API requests in flight over them.                                  *)
(*                                                                            *)
(* A Fastify handler awaits every database call, so another request may run   *)
(* between any two of its statements: a handler is one action per statement,  *)
(* and req[p] holds what its local variables still need.  PostgreSQL runs at  *)
(* its default isolation, READ COMMITTED.  An UPDATE ... WHERE of a           *)
(* transaction chooses its rows when it starts, evaluates the condition       *)
(* again on the rows it had to wait for, never sees a row inserted since, and *)
(* is visible to others at the commit: a transaction is a step that takes the *)
(* snapshot and a step that commits the whole of it.                          *)
EXTENDS Naturals, FiniteSets

CONSTANTS
  Device, Employee,  \* the rows of one organisation
  Proc,              \* the requests that can be in flight together
  None,              \* SQL NULL
  MaxAssignments,    \* bound: rows ever inserted in device_assignments
  MaxApprovals,      \* bound: rows ever inserted in approvals
  Contention,        \* may two requests in flight concern the same asset?
  Faults             \* may a handler die between two statements?

ASSUME NoneAssumption == None \notin Device \cup Employee
ASSUME BoundAssumption == MaxAssignments \in Nat /\ MaxApprovals \in Nat
ASSUME SwitchAssumption == Contention \in BOOLEAN /\ Faults \in BOOLEAN

AsgId == 1 .. MaxAssignments
ApprovalId == 1 .. MaxApprovals

DeviceStatus == {"in_stock", "assigned", "under_repair", "decommissioned"}
Role == {"operator", "admin"}

VARIABLES
  status,      \* devices.status
  active,      \* employees.status = 'active'
  assignment,  \* the device_assignments table; "open" is returned_at IS NULL
  approval,    \* the approvals table
  req          \* the handlers in flight

vars == <<status, active, assignment, approval, req>>
tables == <<status, active, assignment, approval>>

AssignmentRow ==
  [state : {"absent", "open", "returned"}, device : Device \cup {None},
   employee : Employee \cup {None}]

ApprovalRow ==
  [state : {"absent", "pending", "approved", "rejected"},
   kind : {"assignment", "decommission", "offboard"},
   device : Device \cup {None}, employee : Employee \cup {None}]

PC == {"idle",
       "patch_gate", "patch_request", "patch_update", "patch_close",
       "assign_employee", "assign_gate", "assign_request", "assign_close",
       "assign_commit", "unassign_commit",
       "offboard_gate", "offboard_request", "offboard_update",
       "offboard_close", "reactivate_update",
       "approve_both", "approve_device", "approve_employee", "approve_close",
       "approve_commit", "retire_device", "retire_close", "retire_commit",
       "leave_employee", "leave_close", "leave_commit", "reject_update"}

Request ==
  [pc : PC, role : Role, device : Device \cup {None},
   employee : Employee \cup {None}, approval : ApprovalId \cup {0},
   to : DeviceStatus, had : BOOLEAN, rows : SUBSET AsgId]

Idle == [pc |-> "idle", role |-> "admin", device |-> None, employee |-> None,
         approval |-> 0, to |-> "in_stock", had |-> FALSE, rows |-> {}]

Init ==
  /\ status = [d \in Device |-> "in_stock"]
  /\ active = [e \in Employee |-> TRUE]
  /\ assignment = [i \in AsgId |->
       [state |-> "absent", device |-> None, employee |-> None]]
  /\ approval = [a \in ApprovalId |->
       [state |-> "absent", kind |-> "offboard", device |-> None,
        employee |-> None]]
  /\ req = [p \in Proc |-> Idle]

-----------------------------------------------------------------------------
(* Queries *)

OpenOn(d) == {i \in AsgId : assignment[i].state = "open" /\ assignment[i].device = d}
OpenOf(e) == {i \in AsgId : assignment[i].state = "open" /\ assignment[i].employee = e}

\* Mutant of PendingOn: only an assignment that waits is a conflict.
PendingAssignment(d) ==
  {a \in ApprovalId : /\ approval[a].state = "pending"
                      /\ approval[a].kind = "assignment"
                      /\ approval[a].device = d}

\* The conflict of the governance gate of a device: whatever its kind.
PendingOn(d) ==
  {a \in ApprovalId : approval[a].state = "pending" /\ approval[a].device = d}

PendingOffboard(e) ==
  {a \in ApprovalId : /\ approval[a].state = "pending"
                      /\ approval[a].kind = "offboard"
                      /\ approval[a].employee = e}

-----------------------------------------------------------------------------
(* Statements: each is the new value of a table *)

\* Mutants of Closed: the updateMany is lost; it deletes the rows.
ClosedNone(S) == assignment
ClosedDeleted(S) ==
  [i \in AsgId |-> IF i \in S THEN [assignment[i] EXCEPT !.state = "absent"]
                              ELSE assignment[i]]

\* deviceAssignment.updateMany over the rows S: the condition
\* "returnedAt: null" is evaluated again when the rows are locked.
Closed(S) ==
  [i \in AsgId |-> IF i \in S /\ assignment[i].state = "open"
                   THEN [assignment[i] EXCEPT !.state = "returned"]
                   ELSE assignment[i]]

\* deviceAssignment.create, in the transaction that closes the rows S.
Handover(S, i, d, e) ==
  [Closed(S) EXCEPT ![i] = [state |-> "open", device |-> d, employee |-> e]]

\* Mutant of Requested: the two foreign keys are swapped.
RequestedSwapped(a, kind, d, e) ==
  [approval EXCEPT ![a] =
     [state |-> "pending", kind |-> kind, device |-> e, employee |-> d]]

\* approval.create
Requested(a, kind, d, e) ==
  [approval EXCEPT ![a] =
     [state |-> "pending", kind |-> kind, device |-> d, employee |-> e]]

\* approval.update: it is by id, whatever the state of the row is by now.
Settled(a, outcome) == [approval EXCEPT ![a].state = outcome]

NextAssignment(i) ==
  /\ i \in AsgId
  /\ assignment[i].state = "absent"
  /\ \A j \in AsgId : assignment[j].state = "absent" => i <= j

NextApproval(a) ==
  /\ a \in ApprovalId
  /\ approval[a].state = "absent"
  /\ \A b \in ApprovalId : approval[b].state = "absent" => a <= b

-----------------------------------------------------------------------------
(* Requests *)

\* The environment when Contention is FALSE: no two requests in flight
\* concern the same device or the same employee.
Alone(p, d, e) ==
  \A q \in Proc \ {p} : /\ d # None => req[q].device # d
                        /\ e # None => req[q].employee # e

Inserting(pcs) == {q \in Proc : req[q].pc \in pcs}

\* The bounds: a request that may insert a row is accepted while the table
\* has room for it and for the inserts of the requests already in flight.
AssignmentRoom ==
  Cardinality({i \in AsgId : assignment[i].state = "absent"})
    > Cardinality(Inserting({"assign_employee", "assign_close",
        "assign_commit", "approve_both", "approve_device",
        "approve_employee", "approve_close", "approve_commit"}))

ApprovalRoom ==
  Cardinality({a \in ApprovalId : approval[a].state = "absent"})
    > Cardinality(Inserting({"patch_gate", "patch_request",
        "assign_employee", "assign_gate", "assign_request",
        "offboard_gate", "offboard_request"}))

\* A request arrives, and the handler goes on to the step r.pc.
Accept(p, r) ==
  /\ req[p].pc = "idle"
  /\ Contention \/ Alone(p, r.device, r.employee)
  /\ req' = [req EXCEPT ![p] = r]

At(p, pc) == req[p].pc = pc
Go(p, pc) == req' = [req EXCEPT ![p].pc = pc]
Reply(p) == req' = [req EXCEPT ![p] = Idle]

\* The snapshot of the updateMany of a transaction.
Snapshot(p, S, pc) == req' = [req EXCEPT ![p] = [@ EXCEPT !.rows = S, !.pc = pc]]

\* The process stops or the connection fails between two statements: what
\* was committed stays, the rest of the handler never runs.  A crash of the
\* server is this step for every request in flight.
Fail(p) ==
  /\ Faults
  /\ req[p].pc # "idle"
  /\ Reply(p)
  /\ UNCHANGED tables
=============================================================================
