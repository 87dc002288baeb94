-------------------------------- MODULE Units --------------------------------
(* Departments and locations (routes/departments.ts, routes/locations.ts:     *)
(* one code, two tables) and what devices and employees keep of them, foreign *)
(* keys of which the database treats those of devices and those of employees  *)
(* differently.  The names of units are left out, an index keeps them unique; *)
(* so is the audit entry a handler writes last.                               *)
EXTENDS FiniteSets

CONSTANTS
  Department, Location,  \* the ids of units, never used twice
  Device, Employee,
  Proc,                  \* the requests in flight that take several steps
  None                   \* SQL NULL

ASSUME NoneAssumption == None \notin Department \cup Location
ASSUME KindAssumption == Department \cap Location = {}
ASSUME OwnerAssumption == Device \cap Employee = {}

Kind == {"department", "location"}
UnitsOf(k) == IF k = "department" THEN Department ELSE Location
Unit == Department \cup Location
Owner == Device \cup Employee

VARIABLES
  unit,  \* the two tables of units
  rows,  \* the devices and employees registered so far
  link,  \* their columns department_id and location_id
  req

vars == <<unit, rows, link, req>>
tables == <<unit, rows, link>>

Request ==
  [pc : {"idle", "target", "move", "remove", "sync"}, kind : Kind,
   unit : Unit \cup {None}, to : Unit \cup {None}, found : SUBSET Device,
   device : Device \cup {None}]

Idle == [pc |-> "idle", kind |-> "department", unit |-> None, to |-> None,
         found |-> {}, device |-> None]

Init ==
  /\ unit = [u \in Unit |-> "unused"]
  /\ rows = {}
  /\ link = [o \in Owner |-> [k \in Kind |-> None]]
  /\ req = [p \in Proc |-> Idle]

\* The foreign keys of a row that is written: the unit is there.
ForeignKey(u) == u # None => unit[u] = "live"

\* The devices of unit u.
In(u, k) == {d \in Device : link[d][k] = u}

Accept(p, r) == req[p].pc = "idle" /\ req' = [req EXCEPT ![p] = r]
Go(p, pc) == req' = [req EXCEPT ![p].pc = pc]
Reply(p) == req' = [req EXCEPT ![p] = Idle]

-----------------------------------------------------------------------------
(* Requests of one write.  What they check before it, they check in vain or   *)
(* the write fails: a unit that is not there is refused by the foreign key.   *)

Create(k) ==
  /\ \E u \in UnitsOf(k) : /\ unit[u] = "unused"
                           /\ unit' = [unit EXCEPT ![u] = "live"]
  /\ UNCHANGED <<rows, link, req>>

CreateDepartment == Create("department")
CreateLocation == Create("location")

Register(o) ==
  /\ o \notin rows
  /\ rows' = rows \cup {o}
  /\ \E dept \in Department \cup {None}, loc \in Location \cup {None} :
       /\ ForeignKey(dept) /\ ForeignKey(loc)
       /\ link' = [link EXCEPT ![o] = [department |-> dept, location |-> loc]]
  /\ UNCHANGED <<unit, req>>

RegisterDevice == \E d \in Device : Register(d)
RegisterEmployee == \E e \in Employee : Register(e)

Relink(o) ==
  /\ o \in rows
  /\ \E k \in Kind : \E u \in UnitsOf(k) \cup {None} :
       /\ ForeignKey(u)
       /\ link' = [link EXCEPT ![o][k] = u]
  /\ UNCHANGED <<unit, rows, req>>

PatchDevice == \E d \in Device : Relink(d)
PatchEmployee == \E e \in Employee : Relink(e)

-----------------------------------------------------------------------------
(* POST /devices/:id/assign with syncDepartment, and its approval: the        *)
(* department of the employee is read, and written to the device by the       *)
(* transaction, all of which fails if the department is gone.                 *)

SyncRead(p) ==
  \E d \in Device \cap rows, e \in Employee \cap rows :
    /\ link[e]["department"] # None
    /\ Accept(p, [Idle EXCEPT !.pc = "sync", !.device = d,
                              !.to = link[e]["department"]])
    /\ UNCHANGED tables

\* Mutant of SyncCommit: the location of the device is written.
SyncCommitLocation(p) ==
  /\ req[p].pc = "sync"
  /\ link' = IF ForeignKey(req[p].to)
             THEN [link EXCEPT ![req[p].device]["location"] = req[p].to]
             ELSE link
  /\ Reply(p)
  /\ UNCHANGED <<unit, rows>>

SyncCommit(p) ==
  /\ req[p].pc = "sync"
  /\ link' = IF ForeignKey(req[p].to)
             THEN [link EXCEPT ![req[p].device]["department"] = req[p].to]
             ELSE link
  /\ Reply(p)
  /\ UNCHANGED <<unit, rows>>

-----------------------------------------------------------------------------
(* DELETE of a unit, with reassignTo or without: one transaction that moves   *)
(* the devices and deletes the unit.                                          *)

DeleteReceive(p, k) ==
  \E u \in UnitsOf(k), to \in UnitsOf(k) \cup {None} :
    /\ unit[u] = "live"
    /\ Accept(p, [Idle EXCEPT !.pc = IF to = None THEN "move" ELSE "target",
                              !.kind = k, !.unit = u, !.to = to])
    /\ UNCHANGED tables

DeleteDepartment(p) == DeleteReceive(p, "department")
DeleteLocation(p) == DeleteReceive(p, "location")

DeleteTarget(p) ==
  /\ req[p].pc = "target"
  /\ IF unit[req[p].to] = "live" THEN Go(p, "move") ELSE Reply(p)
  /\ UNCHANGED tables

\* device.updateMany chooses its rows.
DeleteMove(p) ==
  /\ req[p].pc = "move"
  /\ req' = [req EXCEPT ![p] = [@ EXCEPT !.pc = "remove",
                                         !.found = In(req[p].unit, req[p].kind)]]
  /\ UNCHANGED tables

\* Mutants of Moved: reassignTo is ignored; every device found is moved.
MovedNull(r) ==
  [o \in Owner |->
     [link[o] EXCEPT ![r.kind] = IF @ = r.unit /\ (o \in Employee \/ o \in r.found)
                                 THEN None ELSE @]]
MovedFound(r) ==
  [o \in Owner |->
     [link[o] EXCEPT ![r.kind] = IF o \in r.found THEN r.to
                                 ELSE IF o \in Employee /\ @ = r.unit THEN None
                                 ELSE @]]

\* The links after both statements: the devices found go to "to" if they are
\* still in the unit; ON DELETE SET NULL takes the employees out of it.
Moved(r) ==
  [o \in Owner |->
     [link[o] EXCEPT ![r.kind] = IF @ # r.unit THEN @
                                 ELSE IF o \in Employee THEN None
                                 ELSE IF o \in r.found THEN r.to ELSE @]]

\* Mutant of Commits: the constraint on devices is not there.
CommitsUnchecked(r) ==
  /\ unit[r.unit] = "live"
  /\ \A d \in r.found : link[d][r.kind] = r.unit => ForeignKey(r.to)

\* The transaction commits: the unit is still there, the target if a device
\* moves to it, and ON DELETE RESTRICT finds no device left in the unit, such
\* as one that came after the list was read or was "moved" to the unit itself.
Commits(r) ==
  /\ unit[r.unit] = "live"
  /\ \A d \in r.found : link[d][r.kind] = r.unit => ForeignKey(r.to)
  /\ \A d \in Device : Moved(r)[d][r.kind] # r.unit

DeleteRemove(p) ==
  /\ req[p].pc = "remove"
  /\ IF Commits(req[p])
     THEN /\ unit' = [unit EXCEPT ![req[p].unit] = "gone"]
          /\ link' = Moved(req[p])
     ELSE UNCHANGED <<unit, link>>
  /\ Reply(p)
  /\ UNCHANGED rows

\* A handler dies, or PostgreSQL breaks a deadlock of two such transactions.
Fail(p) ==
  /\ req[p].pc # "idle"
  /\ Reply(p)
  /\ UNCHANGED tables

Next ==
  \/ CreateDepartment \/ CreateLocation
  \/ RegisterDevice \/ RegisterEmployee \/ PatchDevice \/ PatchEmployee
  \/ \E p \in Proc :
       \/ SyncRead(p) \/ SyncCommit(p)
       \/ DeleteDepartment(p) \/ DeleteLocation(p)
       \/ DeleteTarget(p) \/ DeleteMove(p) \/ DeleteRemove(p)
       \/ Fail(p)

Spec == Init /\ [][Next]_vars

-----------------------------------------------------------------------------
TypeOK ==
  /\ unit \in [Unit -> {"unused", "live", "gone"}]
  /\ rows \in SUBSET Owner
  /\ link \in [Owner -> [department : Department \cup {None},
                        location : Location \cup {None}]]
  /\ req \in [Proc -> Request]

(* No device and no employee is in a department or a location that was        *)
(* deleted, although PATCH, POST, assign and reassignTo write ids they have   *)
(* checked long before, or not at all.                                        *)
LinksLive ==
  \A o \in Owner, k \in Kind : link[o][k] # None => unit[link[o][k]] = "live"

(* "Move devices to another department.  If omitted, device.departmentId is   *)
(* set to null" (departments.ts:88): a unit goes in the step that moves all   *)
(* of its devices, and only those, where the request said, also when units    *)
(* are merged into each other at once or devices move while the request runs. *)
DevicesFollow ==
  [][\A u \in Unit : unit[u] = "live" /\ unit'[u] # "live" =>
       \E p \in Proc :
         /\ req[p].pc = "remove" /\ req[p].unit = u
         /\ \A d \in Device :
              /\ link[d][req[p].kind] = u => link'[d][req[p].kind] = req[p].to
              /\ link[d][req[p].kind] # u => link'[d] = link[d]]_vars

(* A device in a unit is without one only after a PATCH of the device itself  *)
(* or a delete that names no other unit: two units merged into each other     *)
(* strand nobody.                                                             *)
NeverStranded ==
  [][\A d \in Device, k \in Kind :
       link[d][k] # None /\ link'[d][k] = None /\ req' # req =>
         \E p \in Proc : /\ req[p].pc = "remove" /\ req'[p].pc = "idle"
                         /\ req[p].unit = link[d][k] /\ req[p].to = None]_vars
=============================================================================
