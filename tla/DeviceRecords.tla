---------------------------- MODULE DeviceRecords ----------------------------
(* What is on record about one device: its assignments with the receipts      *)
(* their holders confirm (routes/assignments.ts), its repairs                 *)
(* (routes/repairs.ts), and the audit entries (services/audit.service.ts),    *)
(* which every handler writes by a statement of its own after its change and  *)
(* from which GET /devices/:id works out who assigned the device to whom.     *)
EXTENDS Naturals, Sequences, FiniteSets, Functions

CONSTANTS
  User,           \* the operators and admins who act
  Proc,           \* the requests in flight
  MaxAssignments, \* bound: assignments of the device
  MaxRepairs      \* bound: repairs of the device

ASSUME BoundAssumption == MaxAssignments \in Nat /\ MaxRepairs \in Nat

VARIABLES
  status,
  row,     \* the assignments, oldest first; "by" is known to the audit log only
  entry,   \* the entries device.assigned, oldest first: the row each is about
  repair,  \* the repairs: in each, how often it was closed
  req

vars == <<status, row, entry, repair, req>>
tables == <<status, row, entry, repair>>

Status == {"in_stock", "assigned", "under_repair", "decommissioned"}

\* "confirmed" counts the writes of acknowledged_at, up to two.
Assignment == [by : User, open : BOOLEAN, expired : BOOLEAN, confirmed : 0 .. 2]

Idle == [pc |-> "idle", row |-> 0, repair |-> 0]

Init ==
  /\ status = "in_stock"
  /\ row = <<>>
  /\ entry = <<>>
  /\ repair = <<>>
  /\ req = [p \in Proc |-> Idle]

At(p, pc) == req[p].pc = pc
Accept(p, r) == req[p].pc = "idle" /\ req' = [req EXCEPT ![p] = r]
Go(p, pc) == req' = [req EXCEPT ![p].pc = pc]
Reply(p) == req' = [req EXCEPT ![p] = Idle]

Open == {i \in DOMAIN row : row[i].open}
Closed == [i \in DOMAIN row |-> [row[i] EXCEPT !.open = FALSE]]

-----------------------------------------------------------------------------
(* The handlers that move the device, as far as the records tell (Platform    *)
(* has their checks): the change, then the entry.                             *)

AssignReceive(p) ==
  /\ status = "in_stock"
  /\ Len(row) + Cardinality({q \in Proc : At(q, "assign")}) < MaxAssignments
  /\ Accept(p, [Idle EXCEPT !.pc = "assign"])
  /\ UNCHANGED tables

\* The transaction of /assign, or of an approval, by user u.
AssignCommit(p) ==
  /\ At(p, "assign")
  /\ \E u \in User :
       row' = Append(Closed, [by |-> u, open |-> TRUE, expired |-> FALSE,
                              confirmed |-> 0])
  /\ status' = "assigned"
  /\ req' = [req EXCEPT ![p] = [@ EXCEPT !.pc = "log_assigned", !.row = Len(row) + 1]]
  /\ UNCHANGED <<entry, repair>>

LogAssigned(p) ==
  /\ At(p, "log_assigned")
  /\ entry' = Append(entry, req[p].row)
  /\ Reply(p)
  /\ UNCHANGED <<status, row, repair>>

\* Mutant of Unassign: the name the status had before "in_stock".
UnassignActive(p) ==
  /\ At(p, "idle")
  /\ row' = Closed
  /\ status' = "active"
  /\ IF Open = {} THEN UNCHANGED req ELSE Go(p, "log")
  /\ UNCHANGED <<entry, repair>>

\* The answer 409 to a device nobody holds comes after the commit, and
\* before the entry.
Unassign(p) ==
  /\ At(p, "idle")
  /\ row' = Closed
  /\ status' = "in_stock"
  /\ IF Open = {} THEN UNCHANGED req ELSE Go(p, "log")
  /\ UNCHANGED <<entry, repair>>

\* PATCH with a status the table allows, here any other one.
PatchUpdate(p) ==
  /\ At(p, "idle")
  /\ \E s \in Status \ {status} :
       /\ s = "assigned" => status = "in_stock"
       /\ s = "in_stock" => status # "assigned"
       /\ status' = s
       /\ Go(p, IF s \in {"under_repair", "decommissioned"} THEN "close" ELSE "log")
  /\ UNCHANGED <<row, entry, repair>>

PatchClose(p) ==
  /\ At(p, "close")
  /\ row' = Closed
  /\ Go(p, "log")
  /\ UNCHANGED <<status, entry, repair>>

\* The approved decommission, and an offboarding that frees the device.
Retire(p) ==
  /\ At(p, "idle")
  /\ status # "decommissioned"
  /\ row' = Closed
  /\ status' = "decommissioned"
  /\ Go(p, "log")
  /\ UNCHANGED <<entry, repair>>

\* Mutant of Offboard: no entry follows.
OffboardSilent(p) ==
  /\ At(p, "idle")
  /\ Open # {}
  /\ row' = Closed
  /\ UNCHANGED <<status, entry, repair, req>>

Offboard(p) ==
  /\ At(p, "idle")
  /\ Open # {}
  /\ row' = Closed
  /\ Go(p, "log")
  /\ UNCHANGED <<status, entry, repair>>

\* An entry that is not about an assignment made.
Log(p) ==
  /\ At(p, "log")
  /\ Reply(p)
  /\ UNCHANGED tables

-----------------------------------------------------------------------------
(* The receipt: a link in a mail, good for 72 hours                           *)

\* Mutant of ConfirmRead: a link is good as long as the device is held.
ConfirmReadHeld(p) ==
  /\ \E i \in Open : /\ row[i].confirmed = 0
                     /\ Accept(p, [Idle EXCEPT !.pc = "confirm", !.row = i])
  /\ UNCHANGED tables

ConfirmRead(p) ==
  /\ \E i \in Open : /\ ~row[i].expired /\ row[i].confirmed = 0
                     /\ Accept(p, [Idle EXCEPT !.pc = "confirm", !.row = i])
  /\ UNCHANGED tables

\* By id, whatever has become of the row.
ConfirmUpdate(p) ==
  /\ At(p, "confirm")
  /\ row' = [row EXCEPT ![req[p].row].confirmed = IF @ < 2 THEN @ + 1 ELSE 2]
  /\ Reply(p)
  /\ UNCHANGED <<status, entry, repair>>

Expire ==
  /\ \E i \in DOMAIN row : /\ ~row[i].expired
                           /\ row' = [row EXCEPT ![i].expired = TRUE]
  /\ UNCHANGED <<status, entry, repair, req>>

-----------------------------------------------------------------------------
(* Repairs, whatever the status of the device                                 *)

RepairLog(p) ==
  /\ At(p, "idle")
  /\ Len(repair) < MaxRepairs
  /\ repair' = Append(repair, 0)
  /\ Go(p, "log")
  /\ UNCHANGED <<status, row, entry>>

\* Mutant of RepairCloseRead: a closed repair may be closed.
RepairCloseReadAny(p) ==
  /\ \E i \in DOMAIN repair :
       Accept(p, [Idle EXCEPT !.pc = "close_repair", !.repair = i])
  /\ UNCHANGED tables

RepairCloseRead(p) ==
  /\ \E i \in DOMAIN repair :
       /\ repair[i] = 0
       /\ Accept(p, [Idle EXCEPT !.pc = "close_repair", !.repair = i])
  /\ UNCHANGED tables

RepairClose(p) ==
  /\ At(p, "close_repair")
  /\ repair' = [repair EXCEPT ![req[p].repair] = IF @ < 2 THEN @ + 1 ELSE 2]
  /\ Go(p, "log")
  /\ UNCHANGED <<status, row, entry>>

Fail(p) ==
  /\ ~At(p, "idle")
  /\ Reply(p)
  /\ UNCHANGED tables

Next ==
  \/ Expire
  \/ \E p \in Proc :
       \/ AssignReceive(p) \/ AssignCommit(p) \/ LogAssigned(p)
       \/ Unassign(p) \/ PatchUpdate(p) \/ PatchClose(p)
       \/ Retire(p) \/ Offboard(p) \/ Log(p)
       \/ ConfirmRead(p) \/ ConfirmUpdate(p)
       \/ RepairLog(p) \/ RepairCloseRead(p) \/ RepairClose(p)
       \/ Fail(p)

Spec == Init /\ [][Next]_vars

-----------------------------------------------------------------------------
(* GET /devices/:id                                                           *)

\* Mutant of AssignedBy: the entries are read newest first.
AssignedByNewest(i) ==
  IF i \in DOMAIN entry THEN {row[entry[Len(entry) + 1 - i]].by} ELSE {}

\* assignedBy of the i-th assignment: the author of the i-th entry, if there
\* is one.
AssignedBy(i) == IF i \in DOMAIN entry THEN {row[entry[i]].by} ELSE {}

Misattributed(i) == AssignedBy(i) # {} /\ AssignedBy(i) # {row[i].by}

-----------------------------------------------------------------------------
TypeOK ==
  /\ status \in Status
  /\ row \in Seq(Assignment)
  /\ entry \in Seq(DOMAIN row)
  /\ repair \in Seq(0 .. 2)
  /\ \A p \in Proc :
       /\ req[p].pc \in {"idle", "assign", "log_assigned", "close", "log",
                         "confirm", "close_repair"}
       /\ req[p].row \in DOMAIN row \cup {0}
       /\ req[p].repair \in DOMAIN repair \cup {0}

(* "Attach assignedBy to each assignment by correlating with audit log in     *)
(* order" (devices.ts:387): an assignment comes to be shown with the wrong    *)
(* author only when the entry of an older assignment has been overtaken, or   *)
(* was never written.                                                         *)
AssignedByRight ==
  [][\A i \in DOMAIN row : Misattributed(i)' /\ ~Misattributed(i) =>
       \E j, k \in DOMAIN row : /\ j < k
                                /\ j \notin Range(entry) /\ k \in Range(entry')]_vars

(* "Every state change recorded" (README.md:21): a change of the device, its  *)
(* holder or its repairs leaves a handler that has yet to write the entry,    *)
(* except that /unassign changes the status of a device nobody holds.         *)
ChangesRecorded ==
  [][(status' # status \/ Open' # Open \/ repair' # repair) =>
       \/ \E p \in Proc : /\ req'[p] # req[p]
                          /\ req'[p].pc \in {"log_assigned", "close", "log"}
       \/ Open = {} /\ status' = "in_stock"]_vars

\* A link nobody can confirm with any more.
Dead(i) == ~row[i].open \/ row[i].expired \/ row[i].confirmed > 0
Confirming(i) == \E p \in Proc : At(p, "confirm") /\ req[p].row = i

(* A receipt that was confirmed, or whose device was returned or link has     *)
(* expired, stays as it is, unless a confirmation read it before: confirming  *)
(* twice, or after the return, takes two requests at once.                    *)
ReceiptStands ==
  [][\A i \in DOMAIN row : Dead(i) /\ ~Confirming(i) =>
       Dead(i)' /\ ~Confirming(i)' /\ row'[i].confirmed = row[i].confirmed]_vars

ClosingRepair(i) == \E p \in Proc : At(p, "close_repair") /\ req[p].repair = i

(* The dates of a closed repair stand, unless another close read it before.   *)
RepairStands ==
  [][\A i \in DOMAIN repair : repair[i] > 0 /\ ~ClosingRepair(i) =>
       repair'[i] = repair[i] /\ ~ClosingRepair(i)']_vars
=============================================================================
