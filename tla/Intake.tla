------------------------------- MODULE Intake -------------------------------
(* How devices enter the register (POST /devices and the CSV import of        *)
(* routes/devices.ts), what the audit log says of it, and the settings of the *)
(* organisation (routes/org.ts), which PATCH /org reads, merges and writes    *)
(* back.  A device is its serial number and its department.                   *)
EXTENDS Naturals, Sequences, FiniteSets, FiniteSetsExt

CONSTANTS
  Serial, Department,
  Hook,        \* the URLs of Slack webhooks
  Proc,        \* the requests in flight
  MaxRows,     \* bound: rows of a file (500 in the code)
  None

ASSUME NoneAssumption == None \notin Department \cup Hook
ASSUME RowsAssumption == MaxRows \in Nat
ASSUME ProcAssumption == IsFiniteSet(Proc)

VARIABLES
  live,      \* the departments there are
  device,    \* serials registered, with the department of the device
  recorded,  \* how many devices the audit log says were created or imported
  webhook,   \* settings.slackWebhookUrl
  req

vars == <<live, device, recorded, webhook, req>>
tables == <<live, device, recorded, webhook>>

Row == [serial : Serial, department : Department \cup {None}]

\* What a PATCH /org asks of the webhook; "keep" leaves it out of its body.
Wish == Hook \cup {None, "keep"}

Idle == [pc |-> "idle", todo |-> <<>>, made |-> 0, seen |-> None, want |-> "keep"]

Init ==
  /\ live = Department
  /\ device = <<>>
  /\ recorded = 0
  /\ webhook = None
  /\ req = [p \in Proc |-> Idle]

Accept(p, r) == req[p].pc = "idle" /\ req' = [req EXCEPT ![p] = r]
Reply(p) == req' = [req EXCEPT ![p] = Idle]

Registered == DOMAIN device

\* Mutant of CanCreate: the department of the row is not looked at.
CanCreateAny(row) == row.serial \notin Registered

\* device.create: the serial is new and the department there, or it throws.
CanCreate(row) ==
  row.serial \notin Registered /\ row.department \in live \cup {None}

Created(row) ==
  [s \in Registered \cup {row.serial} |->
     IF s = row.serial THEN row.department ELSE device[s]]

\* A department is deleted and its devices go to another one (Units).
DeleteDepartment ==
  /\ \E d \in live, to \in Department \cup {None} :
       /\ to \in (live \ {d}) \cup {None}
       /\ live' = live \ {d}
       /\ device' = [s \in Registered |-> IF device[s] = d THEN to ELSE device[s]]
  /\ UNCHANGED <<recorded, webhook, req>>

-----------------------------------------------------------------------------
(* POST /devices: one device, then its audit entry                            *)

CreateDevice(p) ==
  \E row \in Row :
    /\ CanCreate(row)
    /\ Accept(p, [Idle EXCEPT !.pc = "log", !.made = 1])
    /\ device' = Created(row)
    /\ UNCHANGED <<live, recorded, webhook>>

-----------------------------------------------------------------------------
(* POST /devices/import: names become ids once, before the first row; each    *)
(* row is looked up and created by statements of its own, and a create that   *)
(* throws is reported and the loop goes on; one audit entry has the count.    *)

ImportReceive(p) ==
  \E n \in 1 .. MaxRows : \E file \in [1 .. n -> Row] :
    /\ \A i \in 1 .. n : file[i].department \in live \cup {None}
    /\ Accept(p, [Idle EXCEPT !.pc = "check", !.todo = file])
    /\ UNCHANGED tables

\* After a row: the next one, or the audit entry.
NextRow(r) ==
  [r EXCEPT !.todo = Tail(@), !.pc = IF Len(r.todo) = 1 THEN "log" ELSE "check"]

\* A row that is not acceptable for its other columns is like one whose
\* serial is taken: reported, and not created.
ImportCheck(p) ==
  /\ req[p].pc = "check"
  /\ \/ /\ Head(req[p].todo).serial \notin Registered
        /\ req' = [req EXCEPT ![p].pc = "create"]
     \/ req' = [req EXCEPT ![p] = NextRow(@)]
  /\ UNCHANGED tables

\* Mutant of ImportCreate: the row is counted before it is known to be there.
ImportCreateCounted(p) ==
  /\ req[p].pc = "create"
  /\ req' = [req EXCEPT ![p] = NextRow([req[p] EXCEPT !.made = @ + 1])]
  /\ device' = IF CanCreate(Head(req[p].todo)) THEN Created(Head(req[p].todo))
                                               ELSE device
  /\ UNCHANGED <<live, recorded, webhook>>

ImportCreate(p) ==
  /\ req[p].pc = "create"
  /\ IF CanCreate(Head(req[p].todo))
     THEN /\ device' = Created(Head(req[p].todo))
          /\ req' = [req EXCEPT ![p] = NextRow([req[p] EXCEPT !.made = @ + 1])]
     ELSE /\ req' = [req EXCEPT ![p] = NextRow(@)]
          /\ UNCHANGED device
  /\ UNCHANGED <<live, recorded, webhook>>

\* Mutant of Log: an import counts as one.
LogOne(p) ==
  /\ req[p].pc = "log"
  /\ recorded' = IF req[p].made = 0 THEN recorded ELSE recorded + 1
  /\ Reply(p)
  /\ UNCHANGED <<live, device, webhook>>

\* device.created, device.bulk_imported with the number of devices, or
\* org.settings_updated.
Log(p) ==
  /\ req[p].pc = "log"
  /\ recorded' = recorded + req[p].made
  /\ Reply(p)
  /\ UNCHANGED <<live, device, webhook>>

-----------------------------------------------------------------------------
(* PATCH /org                                                                 *)

SettingsReceive(p) ==
  \E want \in Wish :
    /\ Accept(p, [Idle EXCEPT !.pc = "merge", !.want = want, !.seen = webhook])
    /\ UNCHANGED tables

\* Mutant of Merged: the settings are what the body has of them.
MergedBody(r) == IF r.want = "keep" THEN None ELSE r.want

\* The settings as read, with the webhook of the body if it has one.
Merged(r) == IF r.want = "keep" THEN r.seen ELSE r.want

\* The whole object is written, whatever the body was about.
SettingsUpdate(p) ==
  /\ req[p].pc = "merge"
  /\ webhook' = Merged(req[p])
  /\ req' = [req EXCEPT ![p] = [Idle EXCEPT !.pc = "log"]]
  /\ UNCHANGED <<live, device, recorded>>

Fail(p) ==
  /\ req[p].pc # "idle"
  /\ Reply(p)
  /\ UNCHANGED tables

Next ==
  \/ DeleteDepartment
  \/ \E p \in Proc :
       \/ CreateDevice(p)
       \/ ImportReceive(p) \/ ImportCheck(p) \/ ImportCreate(p) \/ Log(p)
       \/ SettingsReceive(p) \/ SettingsUpdate(p)
       \/ Fail(p)

Spec == Init /\ [][Next]_vars

-----------------------------------------------------------------------------
TypeOK ==
  /\ live \in SUBSET Department
  /\ Registered \in SUBSET Serial
  /\ \A s \in Registered : device[s] \in live \cup {None}
  /\ recorded \in Nat
  /\ webhook \in Hook \cup {None}
  /\ \A p \in Proc :
       /\ req[p].pc \in {"idle", "check", "create", "log", "merge"}
       /\ req[p].todo \in Seq(Row)
       /\ req[p].made \in Nat
       /\ req[p].seen \in Hook \cup {None}
       /\ req[p].want \in Wish

\* The devices the audit log says were created, and those it is about to say.
Accounted == recorded + MapThenSumSet(LAMBDA p : req[p].made, Proc)

Unrecorded == Cardinality(Registered) - Accounted

(* The audit entries of creation never speak of more devices than there are:  *)
(* two imports of one file at once count each device once between them.       *)
NeverOverstated == Accounted <= Cardinality(Registered)

(* "Every state change recorded" (README.md:21): a device that entered the    *)
(* register stays without an entry only if its request dies before it writes  *)
(* the entry; a row that fails, or a department deleted during an import,     *)
(* loses no count.                                                            *)
CountsLost ==
  [][Unrecorded' > Unrecorded =>
       \E p \in Proc : /\ req[p].made > 0 /\ req'[p] = Idle
                       /\ UNCHANGED tables]_vars

(* The webhook changes only to what a PATCH asked for, or to what a PATCH     *)
(* about something else has read before it was overtaken by another one.      *)
WebhookKept ==
  [][webhook' # webhook =>
       \E p \in Proc :
         /\ req[p].pc = "merge" /\ req'[p].pc = "log"
         /\ \/ req[p].want = webhook'
            \/ /\ req[p].want = "keep" /\ req[p].seen = webhook'
               /\ req[p].seen # webhook]_vars
=============================================================================
