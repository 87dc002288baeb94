----------------------------- MODULE AlertJobs ------------------------------
(* The two daily jobs (jobs/scheduler.ts) that raise alerts for the devices   *)
(* of an organisation, against the routes that move devices and resolve       *)
(* alerts.  pg-boss hands a scheduled job to one worker, once: at most one    *)
(* run of each kind is in flight, and a run that throws is not tried again    *)
(* before the next day.                                                       *)
EXTENDS Naturals, FiniteSets

CONSTANTS
  Device,      \* the devices of one organisation
  MaxOutages   \* bound: runs and handlers that ever throw half-way

ASSUME OutageAssumption == MaxOutages \in Nat

AlertType == {"unassigned_device", "warranty_expiry"}

VARIABLES
  place,      \* where a device is: what its status and assignments say
  due,        \* by alert type: the devices whose date is past the threshold
  open,       \* by alert type and device: how many alerts are not resolved
  job,        \* by alert type: the run in flight and the devices it has left
  resolving,  \* devices just assigned, whose alert.updateMany is to come
  outages     \* failures so far

vars == <<place, due, open, job, resolving, outages>>

Idle == [pc |-> "idle", todo |-> {}]

Init ==
  /\ place = [d \in Device |-> "stock"]
  /\ due = [t \in AlertType |-> {}]
  /\ open = [t \in AlertType |-> [d \in Device |-> 0]]
  /\ job = [t \in AlertType |-> Idle]
  /\ resolving = {}
  /\ outages = 0

\* "stock": in_stock, with nobody.  "held": assigned, with its holder.
\* "retired": decommissioned.  "adrift": neither in stock nor with anybody, that
\* is under_repair, or still assigned after its holder was offboarded, or
\* assigned by a PATCH.
Place == {"stock", "held", "adrift", "retired"}

-----------------------------------------------------------------------------
(* The jobs                                                                   *)

\* The devices an alert of type t is about: those in stock with no open
\* assignment; those not decommissioned.
Eligible(t) ==
  {d \in due[t] : IF t = "unassigned_device" THEN place[d] = "stock"
                                             ELSE place[d] # "retired"}

\* Mutant of Candidates: alerts still open are not looked for.
CandidatesAll(t) == Eligible(t)

Candidates(t) == {d \in Eligible(t) : open[t][d] = 0}

JobStart(t) ==
  /\ job[t].pc = "idle"
  /\ Candidates(t) # {}
  /\ job' = [job EXCEPT ![t] = [pc |-> "create", todo |-> Candidates(t)]]
  /\ UNCHANGED <<place, due, open, resolving, outages>>

\* alert.create for one device of the list read at the start, wherever that
\* device is by now.
JobCreate(t) ==
  /\ job[t].pc = "create"
  /\ \E d \in job[t].todo :
       /\ open' = [open EXCEPT ![t][d] = @ + 1]
       /\ job' = [job EXCEPT ![t] = [pc |-> "notify", todo |-> @.todo \ {d}]]
  /\ UNCHANGED <<place, due, resolving, outages>>

\* Mutant of JobNotify: the loop returns where it should continue.
JobNotifyReturn(t) ==
  /\ job[t].pc = "notify"
  /\ job' = [job EXCEPT ![t] = Idle]
  /\ UNCHANGED <<place, due, open, resolving, outages>>

\* The mail to the admin is awaited before the next device.
JobNotify(t) ==
  /\ job[t].pc = "notify"
  /\ job' = [job EXCEPT ![t] = IF @.todo = {} THEN Idle
                                              ELSE [@ EXCEPT !.pc = "create"]]
  /\ UNCHANGED <<place, due, open, resolving, outages>>

\* The mail server refuses, or the database or the process goes away: the
\* run ends, the devices it had left wait for the next one.
JobThrows(t) ==
  /\ job[t].pc # "idle"
  /\ outages < MaxOutages
  /\ outages' = outages + 1
  /\ job' = [job EXCEPT ![t] = Idle]
  /\ UNCHANGED <<place, due, open, resolving>>

-----------------------------------------------------------------------------
(* The routes                                                                 *)

\* The transaction of an /assign or of the approval of an assignment.  Either
\* finds the device in stock first and commits several reads later without
\* looking again; as any number of requests may have found it there, early on,
\* nothing is asked of its place now.  A held device is not due: its date is
\* the next return.
Hand(d) ==
  /\ place' = [place EXCEPT ![d] = "held"]
  /\ due' = [due EXCEPT !["unassigned_device"] = @ \ {d}]

\* POST /devices/:id/assign; the alerts come after its transaction.
AssignCommit(d) ==
  /\ Hand(d)
  /\ resolving' = resolving \cup {d}
  /\ UNCHANGED <<open, job, outages>>

AssignResolve(d) ==
  /\ d \in resolving
  /\ open' = [open EXCEPT !["unassigned_device"][d] = 0]
  /\ resolving' = resolving \ {d}
  /\ UNCHANGED <<place, due, job, outages>>

AssignThrows(d) ==
  /\ d \in resolving
  /\ outages < MaxOutages
  /\ outages' = outages + 1
  /\ resolving' = resolving \ {d}
  /\ UNCHANGED <<place, due, open, job>>

\* Mutant of ApproveAssign: the alerts are left to /assign.
ApproveAssignOnly(d) == Hand(d) /\ UNCHANGED <<open, job, resolving, outages>>

\* POST /approvals/:id/approve resolves the alerts inside its transaction.
\* One step: what a job inserts between snapshot and commit, it may as well
\* insert after the commit.
ApproveAssign(d) ==
  /\ Hand(d)
  /\ open' = [open EXCEPT !["unassigned_device"][d] = 0]
  /\ UNCHANGED <<job, resolving, outages>>

\* Mutant of Resolve: the check for an alert already resolved is gone.
ResolveAgain(t, d) ==
  /\ open' = [open EXCEPT ![t][d] = @ - 1]
  /\ UNCHANGED <<place, due, job, resolving, outages>>

\* PATCH /alerts/:id/resolve.  When two requests pass its check for the same
\* alert, the second update changes a timestamp only.
Resolve(t, d) ==
  /\ open[t][d] > 0
  /\ open' = [open EXCEPT ![t][d] = @ - 1]
  /\ UNCHANGED <<place, due, job, resolving, outages>>

\* None of the other routes that move a device touches an alert.
Move(d, to) ==
  /\ place[d] # to
  /\ place' = [place EXCEPT ![d] = to]
  /\ UNCHANGED <<due, open, job, resolving, outages>>

\* POST /devices/:id/unassign, whatever the status.
Unassign(d) == Move(d, "stock")

\* /offboard, and the approval of an offboarding, close the assignments of the
\* employee and leave the status of the devices.
Offboard(d) == place[d] = "held" /\ Move(d, "adrift")

\* PATCH with a status, or the approval of a decommission.  Neither puts a held
\* device into stock.
Patch(d, to) ==
  /\ to \in {"stock", "adrift", "retired"}
  /\ place[d] = "held" => to # "stock"
  /\ Move(d, to)

Renew(d) ==
  /\ d \in due["warranty_expiry"]
  /\ due' = [due EXCEPT !["warranty_expiry"] = @ \ {d}]
  /\ UNCHANGED <<place, open, job, resolving, outages>>

\* Time passes: the return, the registration or the warranty of d is now
\* further back than the threshold.
Elapses(t, d) ==
  /\ d \notin due[t]
  /\ t = "unassigned_device" => place[d] # "held"
  /\ due' = [due EXCEPT ![t] = @ \cup {d}]
  /\ UNCHANGED <<place, open, job, resolving, outages>>

\* PATCH /org changes unassignedAlertDays: a higher threshold makes some
\* devices not due yet, a lower one makes more of them due at once.
SetThreshold ==
  /\ \E S \in SUBSET Device :
       LET late == due["unassigned_device"] IN
       /\ S # late
       /\ S \subseteq late \/ (late \subseteq S /\ \A d \in S \ late : place[d] # "held")
       /\ due' = [due EXCEPT !["unassigned_device"] = S]
  /\ UNCHANGED <<place, open, job, resolving, outages>>

-----------------------------------------------------------------------------
Next ==
  \/ \E t \in AlertType :
       JobStart(t) \/ JobCreate(t) \/ JobNotify(t) \/ JobThrows(t)
  \/ \E d \in Device :
       \/ AssignCommit(d) \/ AssignResolve(d) \/ AssignThrows(d)
       \/ ApproveAssign(d) \/ Unassign(d) \/ Offboard(d) \/ Renew(d)
       \/ \E to \in Place : Patch(d, to)
  \/ \E t \in AlertType, d \in Device : Resolve(t, d) \/ Elapses(t, d)
  \/ SetThreshold

Spec == Init /\ [][Next]_vars

\* The schedule starts a run again and again, and a run goes on.  Nothing is
\* assumed of users or of time.
Fairness ==
  \A t \in AlertType :
    WF_vars(JobStart(t)) /\ WF_vars(JobCreate(t)) /\ WF_vars(JobNotify(t))

FairSpec == Spec /\ Fairness

-----------------------------------------------------------------------------
TypeOK ==
  /\ place \in [Device -> Place]
  /\ due \in [AlertType -> SUBSET Device]
  /\ open \in [AlertType -> [Device -> Nat]]
  /\ job \in [AlertType -> [pc : {"idle", "create", "notify"}, todo : SUBSET Device]]
  /\ resolving \in SUBSET Device
  /\ outages \in 0 .. MaxOutages

(* A device has at most one open alert of a type, whatever the routes do      *)
(* while a run works through its list.  The unique key of the table           *)
(* (deviceId, type, resolvedAt) does not see to it: NULLs are distinct, and   *)
(* two open alerts would make the updateMany of /assign fail on that key.     *)
OneOpenAlert == \A t \in AlertType, d \in Device : open[t][d] <= 1

(* Again and again until it is so, a device in stock past the threshold has   *)
(* an alert or is in stock no more, and one whose warranty ends has its own,  *)
(* although a run that throws drops what it had left and users resolve alerts *)
(* in between.  Of "devices sitting unassigned past threshold" (README.md:19) *)
(* those adrift, as after an offboarding, are not among them: the job asks    *)
(* for status in_stock.                                                       *)
DueDevicesAlerted ==
  \A t \in AlertType, d \in Device :
    []<>(d \notin Eligible(t) \/ open[t][d] > 0)

\* Somebody holds the device, which is still alerted as unassigned.
WronglyAlerted(d) ==
  place[d] = "held" /\ d \notin resolving /\ open["unassigned_device"][d] > 0

(* "Resolve any open unassigned alert" (devices.ts:680): a device that is     *)
(* held has an unassigned alert only if a run alerts it from a list read      *)
(* before the assignment, or the assign fails before it resolves the alert,   *)
(* also when the assignment commits on a status read long before.             *)
HeldHasNoAlert ==
  [][\A d \in Device : WronglyAlerted(d)' /\ ~WronglyAlerted(d) =>
       \/ d \in job["unassigned_device"].todo
       \/ d \in resolving /\ outages' # outages]_vars
=============================================================================
