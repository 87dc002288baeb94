------------------------------- MODULE Custody -------------------------------
(* What the custody workflow promises its users, without requests, tables or  *)
(* statements: each device is with one employee or with nobody, has a status, *)
(* and what operators ask for waits until an admin grants or denies it.       *)
CONSTANTS Device, Employee, None,
          Moves  \* the table of status changes, status -> set of statuses

VARIABLES
  holder,  \* the employee a device is with, or None
  status,
  active,  \* is the employee employed?
  asked    \* the requests that wait for an admin

state == <<holder, status, active, asked>>

Init ==
  /\ holder = [d \in Device |-> None]
  /\ status = [d \in Device |-> "in_stock"]
  /\ active = [e \in Employee |-> TRUE]
  /\ asked = {}

-----------------------------------------------------------------------------
\* A device leaves the stock for an employee who is there to receive it.
Give(d, e) ==
  /\ status[d] = "in_stock" /\ active[e]
  /\ holder' = [holder EXCEPT ![d] = e]
  /\ status' = [status EXCEPT ![d] = "assigned"]
  /\ UNCHANGED active

Return(d) ==
  /\ holder' = [holder EXCEPT ![d] = None]
  /\ status' = [status EXCEPT ![d] = "in_stock"]
  /\ UNCHANGED active

\* A change of status leaves the device where it is ...
Move(d, s) ==
  /\ s \in Moves[status[d]]
  /\ status' = [status EXCEPT ![d] = s]
  /\ UNCHANGED <<holder, active>>

\* ... until it is taken from its holder, for repair or for good.
Collect(d) ==
  /\ status[d] \in {"under_repair", "decommissioned"}
  /\ holder' = [holder EXCEPT ![d] = None]
  /\ UNCHANGED <<status, active>>

Retire(d) ==
  /\ status[d] # "decommissioned"
  /\ status' = [status EXCEPT ![d] = "decommissioned"]
  /\ holder' = [holder EXCEPT ![d] = None]
  /\ UNCHANGED active

\* The devices of an employee, without their holder.
Freed(e) == [d \in Device |-> IF holder[d] = e THEN None ELSE holder[d]]

Dismiss(e) ==
  /\ active[e]
  /\ active' = [active EXCEPT ![e] = FALSE]
  /\ UNCHANGED <<holder, status>>

Free(e) ==
  /\ ~active[e]
  /\ holder' = Freed(e)
  /\ UNCHANGED <<status, active>>

Leave(e) ==
  /\ active[e]
  /\ active' = [active EXCEPT ![e] = FALSE]
  /\ holder' = Freed(e)
  /\ UNCHANGED status

Rehire(e) ==
  /\ ~active[e]
  /\ active' = [active EXCEPT ![e] = TRUE]
  /\ UNCHANGED <<holder, status>>

\* What happens to a device or to an employee.
Event ==
  \/ \E d \in Device, e \in Employee : Give(d, e)
  \/ \E d \in Device : Return(d) \/ Collect(d) \/ \E s \in DOMAIN Moves : Move(d, s)
  \/ \E e \in Employee : Dismiss(e) \/ Free(e) \/ Rehire(e)

-----------------------------------------------------------------------------
Wish(kind, d, e) == [kind |-> kind, device |-> d, employee |-> e]

\* Nobody waits for an answer about the device, or about the offboarding.
Quiet(w) ==
  \A r \in asked :
    /\ w.device # None => r.device # w.device
    /\ w.kind = "offboard" /\ r.kind = "offboard" => r.employee # w.employee

Ask(w) == Quiet(w) /\ asked' = asked \cup {w} /\ UNCHANGED <<holder, status, active>>

AskAny ==
  \/ \E d \in Device, e \in Employee :
       status[d] = "in_stock" /\ active[e] /\ Ask(Wish("assignment", d, e))
  \/ \E d \in Device : Ask(Wish("decommission", d, None))
  \/ \E e \in Employee : active[e] /\ Ask(Wish("offboard", None, e))

\* Granted in the step that does what was asked, and nothing else.
Grant(w) ==
  /\ asked' = asked \ {w}
  /\ \/ w.kind = "assignment" /\ Give(w.device, w.employee)
     \/ w.kind = "decommission" /\ Retire(w.device)
     \/ w.kind = "offboard" /\ Leave(w.employee)

Deny(w) == asked' = asked \ {w} /\ UNCHANGED <<holder, status, active>>

Next ==
  \/ Event /\ UNCHANGED asked
  \/ AskAny
  \/ \E w \in asked : Grant(w) \/ Deny(w)

Spec == Init /\ [][Next]_state
=============================================================================
