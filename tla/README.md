# Device management platform: a TLA+ model

The repository is a multi-tenant REST API (Fastify, Prisma, PostgreSQL, pg-boss) that tracks which
device an organisation owns, who holds it, what state it is in and who approved the change. This
project models the parts of it where several requests, background jobs or a crash can meet, checks
them with TLC on small instances and proves the most important invariants with TLAPS for instances
of every size. Paths are relative to the repository; `devices.ts:656` is a line of
`src/routes/devices.ts`, and so on.

## 1. The system

### Components

| Component | State it keeps | Operations that change it | What makes it correct |
| --- | --- | --- | --- |
| Custody: `routes/devices.ts` (PATCH status, `/assign`, `/unassign`) | `devices.status`, `device_assignments` | PATCH `/devices/:id`, POST `/assign`, POST `/unassign` | one holder per device; the status tells the truth about the assignment and moves along `VALID_TRANSITIONS`; the history is never rewritten |
| Offboarding: `routes/employees.ts` | `employees.status`, `device_assignments` | POST `/offboard`, `/reactivate` | who left holds nothing |
| Approvals: `routes/approvals.ts` | `approvals`, and all of the above | `/approve` (three kinds), `/reject` | operators ask and admins act; one pending request per asset; a request is settled once, together with its effect |
| Device images: `routes/devices.ts`, `services/storage/*` | `device_images`, files in the storage provider | upload (several parts), deletion | rows never name a missing file; files do not leak; at most MAX_IMAGES |
| Alert jobs: `jobs/*`, `routes/alerts.ts` | `alerts` | two daily jobs, `/resolve`, and `/assign` and `/approve`, which resolve | one open alert per type and device; whoever is due is alerted; held devices are not called unassigned |
| Sessions: `services/auth.service.ts`, `routes/auth.ts`, `routes/users.ts` | `users` (hash, lockout), `refresh_tokens`, `password_reset_tokens` | login, refresh, logout, forgot, reset, change, PATCH `/users/:id`, weekly clean-up | a sign-in that is over stays over; one live token per sign-in; a reset token works once; failures add up; a session ends with the password or the account it was opened with |
| Role check: `middleware/rbac.ts`, `plugins/auth.ts` | none | per request | viewer < operator < admin |
| Receipt acknowledgement: `routes/assignments.ts` | `acknowledgedAt` of an assignment | POST `/assignments/:token/ack` | confirmed once, while held and before the link expires |
| Departments, locations: `routes/departments.ts`, `locations.ts` | two tables, foreign keys of devices and employees | create, rename, delete with `reassignTo` | nothing points at a deleted unit; a deletion moves its devices, and only those |
| Employee register: `routes/employees.ts` | `employees` | POST, PATCH `/employees` | department and location exist |
| Repairs: `routes/repairs.ts` | `repairs` | log, close | closed once |
| Organisation settings: `routes/org.ts` | `organizations.settings`, `unassignedAlertDays` | PATCH `/org` | an update changes what it was about |
| Inventory: `routes/devices.ts` (create, import, attributes) | `devices` | POST `/devices`, `/devices/import`, PATCH without a status | serials unique in an organisation; an import says what it did |
| Audit log: `services/audit.service.ts`, `routes/audit.ts` | `audit_logs` | `logAudit`, called by every handler that writes | an entry for every change; GET `/devices/:id` names the right author of each assignment |
| Analytics: `routes/analytics.ts` | none | reads | a chart has every month |
| Reports, lists: `routes/reports.ts` and others | none | reads | |
| Mail and Slack: `services/notification.service.ts` | none | sends | a failure does not undo what happened |
| Start-up, configuration, plugins; `stale-device.job.ts` | none | | wiring, and a stub |

### How they interact

Every request is one `async` handler of a single Node process; several processes may run against the
same database. A handler awaits each database call, so other handlers and the jobs run between any
two of its statements: *all* interaction is through PostgreSQL rows (and files). The jobs run inside
the same process, are started by pg-boss from its own tables, and call the mail provider between two
inserts. Custody is written from three route modules (five places close assignments: by device in
PATCH, `/assign`, `/unassign` and the approvals of an assignment and a decommission, by employee in
`/offboard` and the approval of an offboarding), and alerts are written from the jobs, the
alert route, `/assign` and `/approve`.

### What is hard

There is no test in the repository, no row is locked by a read, no `UPDATE` is conditional on what
was read before it, and the only uniqueness the database gives is that of keys and hashes. So:
check-then-act across awaits (the governance gate, the status machine, MAX_IMAGES, the failure
counter, `usedAt`), updates by id after a conditional read (approvals, refresh tokens, receipts,
repairs), sequences of statements that should be one transaction (`/offboard`, PATCH, every change and
its audit entry), transactions that do not see each other's inserts (`/assign`, forgot-password), lists
read before a loop of mails (the jobs), names turned into ids before a loop of inserts (the import), an
object read, merged and written back (the settings), and two stores without a common commit (images). `PROJECT.json` lists each at its line, with the
properties that would catch it.

## 2. How code becomes actions

* **One action per statement.** A handler is a small state machine; `req[p]` is a request in flight,
  `pc` the statement that comes next, its other fields the local variables still needed. The first read
  is one step with the arrival of the request. What a handler does after its last write to the
  modelled tables (mail, answer) is not a step; the audit entry is one in `DeviceRecords` and `Intake`,
  which are about it, and in no other module. A reply before any write
  changes nothing and is either a stuttering step or the `Reply` of the step that decides.
* **Transactions.** PostgreSQL runs at READ COMMITTED (nothing in the repository sets another level).
  A statement outside a transaction is atomic. A `prisma.$transaction([...])` is two steps:
  one takes the snapshot of its `updateMany` (which rows match), the other commits all of it.
  The `updateMany` waits for rows that others have locked and evaluates its condition again on
  them, which is why `Closed(S)` looks at the state of the rows at the commit; it never sees a row
  inserted after its snapshot. Its later statements write by id or insert: they do not depend on the
  moment, nothing they write can be seen before the commit, and so they move to the commit step.
  The transaction of an offboarding updates the employee before it takes its snapshot; this write,
  too, is seen by nobody before the commit.
* **Failure.** `Fail(p)` ends a handler between two statements: an exception, a lost connection or a
  stopped process. A crash of the server is that step for each request in flight. The database keeps
  what was committed; there is nothing else to recover.
* **Roles.** The modelled handlers tell an admin from everybody else; viewers are refused before
  the first statement.
* **Tenants.** Every query of the handlers is limited to one organisation, every account statement to
  one user, every image statement to one device: one organisation, account and device is modelled.

## 3. Modules

| Module | Contents |
| --- | --- |
| `AssetStore` | the custody tables and requests in flight; `Closed`, `Handover`, `Requested`, `Settled` are the statements, `PendingOn` ... the queries, `Accept`, `Go`, `Reply`, `Snapshot`, `Fail` the control of a handler |
| `DeviceRoutes` | PATCH with a status, `/assign`, `/unassign`, with the operator's branches |
| `EmployeeRoutes` | `/offboard`, `/reactivate` |
| `ApprovalRoutes` | `/approve` of the three kinds, `/reject` |
| `Platform` | the three route modules over one store, and the properties of custody |
| `PlatformInvariant` | the inductive invariants |
| `Custody` | the abstract specification: who holds which device, its status, who is employed, what is asked for |
| `PlatformCustody` | the refinement mapping from `Platform` to `Custody` |
| `PlatformProofs` | types, and what holds whatever overlaps: history, effect, roles, and the races by which alone a promise breaks |
| `CustodyProofs` | the two properties about deaths half-way, and that `Platform` implements `Custody` |
| `DeviceImages`, `DeviceImagesProofs` | rows and files of one device's images |
| `AlertJobs`, `AlertJobsProofs` | the two jobs against the routes and the threshold of PATCH `/org` |
| `Sessions`, `SessionsProofs` | one account: passwords, lockout, refresh and reset tokens; all proofs about them |
| `SignIns` | the abstract specification: sign-ins tried, open, in use or over, an account that is active or not, its password |
| `SessionsSignIns` | the refinement mapping from `Sessions` to `SignIns` |
| `Units`, `UnitsProofs` | departments and locations, the columns of devices and employees that point at them, `reassignTo`, `syncDepartment` of `/assign` |
| `DeviceRecords`, `DeviceRecordsProofs` | one device's assignments with their receipts, its repairs, its audit entries and what GET `/devices/:id` makes of them |
| `Intake`, `IntakeProofs` | POST `/devices` and the CSV import with their audit entries; the settings object of PATCH `/org` |
| `Calendar` | the months of the growth chart |
| `MC*` | the instances TLC checks: symmetry sets |

**The refinements.** `Custody` knows neither requests nor statements: `Give`, `Return`, `Move`, `Collect`,
`Retire`, `Dismiss`, `Free`, `Leave`, `Rehire` happen to a device or an employee at once, and what is asked for
waits in a set until it is granted, in the step that does it, or denied. `PlatformCustody` maps the holder
of a device to the employee of its open row and the set to the pending approvals. Two statements where the
user sees one action are two moves: PATCH is `Move` and then `Collect`, `/offboard` is `Dismiss` and then
`Free`; when the handler dies between them, the second never comes, which `Custody` allows.

`SignIns` knows neither tokens nor requests nor reset links nor locks. Somebody tries a sign-in while the account is
active and opens a session with the password of that moment (`Try`, `SignIn`); a session is used, and ends by
itself or with all others (`Use`, `Used`, `Quit`, `QuitAll`); an owner's new password makes the end of all
sessions due (`Change`), and an admin deactivates or sets a password only after such an end (`Administer`).
What an end cannot reach is part of the promise: a session in use at the moment may go on, and a sign-in under way may
still open one. `due` is the revocation an owner's change owes; with `Deaths` (= `Faults`) it may never
come. `ready` keeps, for each end an admin has prepared a change with, whom it spared: a session that is
open when the account changes was spared by that end or there is no change. `SessionsSignIns` names a
session by the refresh token it began with; it is open as long as a token that descends from it is live *or a
refresh in flight has found one that was*, since that refresh will issue another (refreshAccessToken does not
look again). The ghost `spared` of a request is what `ready` is made of: the sign-ins not over after its
`updateMany`, and no handler reads it.

Data is abstracted to what the properties tell apart. An assignment row is a state (absent, open,
returned), a device and an employee. A token is its state, the sign-in it descends from and the
password of that sign-in; a password is a number, new at every change. In `AlertJobs` the place of a
device (stock, held, adrift, retired) stands for its status with its assignments: `adrift` is whatever is
neither in stock nor with anybody, a device in repair, one that is still `assigned` after its holder was
offboarded, one that a PATCH called `assigned`. An assignment commits wherever the device is by then (`Hand`), as its check
is several reads old. The clock is the set `due` of devices past the threshold, into which time may put any
device that qualifies. An alert of `/approve` is resolved in the same step as the assignment: what the job inserts
between snapshot and commit of that transaction it may as well insert after it. In `DeviceRecords` the checks of
the custody handlers are reduced to what the records depend on (`Platform` has them in full), and a
counter that stops at two tells a receipt or repair that was written again. In `Units` a request of one
write is one step: what it checked before is decided by the foreign key when it writes. In `Intake` the settings are the
one key any code reads, the webhook, and a device is its serial number and its department.

Next to a definition a few modules define variants of it, each under a comment "Mutant of ...": the
definition with a plausible bug. Replacing the definition by the variant makes the property named in
`PROJECT.json` fail, which shows the property depends on that piece of the code.

### Switches

Two environment switches say under which circumstances a property is claimed:

* `Contention` (custody): may two requests in flight concern the same device or employee? Only
  `StatusShowsHolder`, `OffboardingFrees` and `ImplementsCustody` are claimed without it.
* `Faults` (custody, sessions): may a handler end half-way? In the other modules it always may.

Where a race or a failure has one definite way in, the property is an action property that says so
and is checked with the race and the failure allowed: `SecondHolderByRace`, `SecondRequestByRace`,
`SettledAgainByRace`, `StatusFollowsTable`, `StatusShowsHolder`, `OffboardingFrees`, `NoOrphans`,
`HeldHasNoAlert`, `OneTokenPerLogin`, `OneResetLink`, `LinkSetsOnePassword`, `SessionsMatchAccount`,
`AssignedByRight`, `ChangesRecorded`, `ReceiptStands`, `RepairStands`, `CountsLost` and `WebhookKept` each have
the form "this comes to be wrong only in a step of that kind". They fix how far the damage of a known race
can reach. The first, the second and the fourth of the custody properties have two halves. What a handler has found out is
a predicate of its request and the tables (`SeesOpen`, `SeesQuiet`, `SeesStatus`): one half says that a write breaks the
promise only when that predicate is false, the other that it becomes false only by a write of *another*
handler that has finished or moved meanwhile. A handler that checks nothing, checks the wrong rows or
forgets to close breaks the one or the other with a single request in flight.

## 4. Runs

| Run | Bounds | Shows |
| --- | --- | --- |
| `PlatformContended` | 1 device, 1 employee, 2 requests, 2 assignments, 2 approvals; contention, faults | `ApprovalTakesEffect`: an approval turns approved in the step that carries it out. `AssignmentHistory`: rows are appended and returned, nothing else. `OperatorsOnlyRequest`: no step of an operator's own request hands over, retires or offboards. `SecondHolderByRace`, `SecondRequestByRace`, `SettledAgainByRace`: two open rows, two pending requests, an approval settled twice each need a handler that was overtaken. `StatusFollowsTable`: so does a status outside VALID_TRANSITIONS, but for `/unassign` |
| `PlatformApart` | 1 device, 2 employees, 2 requests, 2 assignments, 2 approvals; no contention, faults | `ImplementsCustody`; `StatusShowsHolder`, `OffboardingFrees`: status, employment and assignments come apart only when a handler dies between its two statements |
| `Images` | 2 requests, limit 2, 5 files; faults | `NoDeadLinks`; `NoOrphans`: files leak only through a failed request or deletion; `BoundedExcess`: past the limit only by what was in flight |
| `Alerts` | 2 devices, 1 failure, fair schedule | `OneOpenAlert` against every route; `HeldHasNoAlert`: a held device is alerted as unassigned only from a list read before, or when `/assign` fails after its transaction; `DueDevicesAlerted` |
| `SessionsAny` | 2 requests, 2 refresh tokens, 2 reset tokens, 2 changes, lock after 2; faults | `OneResetLink`, `LockHolds`; `LinkSetsOnePassword`: a link is used up by the password it sets, and when dead sets none unless a request found it good before |
| `SessionsKept` | 2 requests, 3 refresh tokens, no reset link, 1 change, no lock (`MaxFailed` > `MaxAttempts`); no faults | `RevokedForGood`: a sign-in with neither a live token nor a refresh that read one never has one again; `OneTokenPerLogin`; `SessionsMatchAccount`: a session outlives a change of the account in the named ways only; `ImplementsSignIns` |
| `Units` | 2 departments, 1 location, 2 devices, 1 employee, 2 requests; faults | `LinksLive`: nothing points at a deleted unit; `DevicesFollow`: a unit goes in the step that moves its devices, and only those; `NeverStranded`: merging two departments into each other leaves nobody without one |
| `Intake` | 2 serials, 1 department, 2 webhooks, 2 requests, files of 2 rows; faults | `NeverOverstated`, `CountsLost`: the entries speak of exactly the devices that were created, but for a request that dies; `WebhookKept`: the settings change only as asked, or back to what an overtaken request had read |
| `Records` | 2 users, 2 requests, 2 assignments, 1 repair; faults | `AssignedByRight`, `ChangesRecorded`, `ReceiptStands`, `RepairStands` |

`SessionsKept` leaves out the faults because a handler that dies before it revokes and one that forgets to cannot
be told apart with them: its mutant that forgets would pass for the exception. The same properties hold, and
are checked in a minute more, with `Faults`; the theorems of section 5 have them.

In `PlatformApart` two requests may still meet in one row: an offboarding of an employee and a
decommission of the device the employee holds have no asset in common as far as their URLs go.

### What the code does not keep

Each of these runs checks one property that a comment or document of the repository states, and ends
in a counterexample. The text of the finding in `PROJECT.json` quotes the line.

| Run | What happens |
| --- | --- |
| `FindReactivate` | `/unassign` brings a decommissioned device back for an operator (devices.ts:439 says only admins can) |
| `FindTwoHolders` | two overlapping `/assign` leave two open assignments (devices.ts:656) |
| `FindTrend` | on a day that some month lacks, as on 29 January 2026, the chart of the last twelve months has one month twice and another not at all (analytics.ts:10) |

The models show more of the same kind when the switches allow them, or as the exception a property
names; no run is kept for each:

* a rejection overlaps the approval and settles it again (approvals.ts:193; the exception of
  `SettledAgainByRace`); two operators' requests both pass the pending check (of `SecondRequestByRace`);
  two PATCHes leave the table of transitions (of `StatusFollowsTable`);
* with faults, `/offboard` stops between its two statements and who left still holds devices
  (employees.ts:293; the exception of `OffboardingFrees`);
* a sign-in that read the account before a change opens a session after it, and a refresh that read its token
  before a revocation, a logout or its expiry (auth.service.ts:174) still exchanges it for a live one (line 187);
  an admin's PATCH revokes before it updates, so that a session opened in between stays
  (users.ts:112): the exceptions of `SessionsMatchAccount`, for which `RevokedForGood` counts such a
  refresh as the session;
* a refresh token used twice at once leaves two live tokens, two forgot-password requests two usable links,
  a reset link used twice at once sets two passwords (auth.service.ts:284), overlapping wrong passwords
  are counted once (auth.service.ts:109);
* two uploads exceed MAX_IMAGES (devices.ts:756); a device assigned during the job is alerted and keeps
  its alert;
* a receipt is confirmed after the device was returned, a repair is closed twice (by two requests that had
  both read it open);
* the entry of an assignment is lost by a crash, or overtaken by that of the next one, and GET
  `/devices/:id` names the wrong author for it or for those after it (devices.ts:396);
* `/unassign` of a device nobody holds changes its status, answers 409 and writes no entry (devices.ts:729);
* two PATCHes of the settings overlap and the older webhook comes back (org.ts:42).

Three things follow from single steps and need no interleaving. The devices of an employee who is offboarded
stay `assigned` with nobody holding them (employees.ts:288, approvals.ts:299), and the job of unassigned
devices, which asks for `in_stock`, never alerts them, against README.md:19 ("Devices sitting unassigned past
threshold"): `DueDevicesAlerted` is about devices in stock only. PATCH lets a device go from `in_stock` to
`assigned` with nobody holding it, after which `/assign` refuses it (the table of transitions says so in as
many words, schema.prisma:36 says otherwise; `Custody` has the step), and an address that exists in two organisations
always signs in to the older account (auth.service.ts:93).

### Why the bounds are enough

All interference is between two requests about one thing, so two requests, on one device or account,
show it. In `PlatformApart` two employees are the two ends of a hand-over, two assignments something to close and
something to insert, two approvals a conflict; the races of
`PlatformContended` are about one device and need no second employee to hand it to. The handlers treat each row alike, so that a second
device adds rows, not cases. Three refresh tokens are a sign-in and two rotations of its token; two
are enough where no two rotations need to be told apart. One change is one boundary between passwords;
a second one and reset links add orders of the same revocation (`SessionsKept` passes with two changes as well). For images, limit 2 leaves room for one
and for two parts and 5 files let both requests run into the limit. Two departments can be merged into each
other; one location shows that the two tables do not mix; of the two devices one moves while the other is
moved. Two rows of a file are a duplicate of each other or one each side of a deletion; two assignments are
the two entries that can be swapped. A request that may insert a row is
accepted only while there is room for its insert and for those in flight, so a bound never blocks a
handler half-way. `MaxAttempts` bounds the failure counter, which the code does not bound;
MAX_FAILED_ATTEMPTS is 2 rather than 5, MAX_IMAGES 2, a file 2 rows rather
than 500. `MaxOutages` bounds how often jobs and handlers throw. `FindTrend` looks at the days of three years,
a leap year among them. Deadlock is checked in every run but that one, whose calendar ends.

### Fairness

Only `AlertJobs` has a liveness property. `Fairness` is weak fairness of a run's start (the cron
schedule of scheduler.ts:28 and 34 comes again every day), of the next insert and of the end of the
mail (both are awaits that return or throw). Nothing is assumed of users, of time or of the mails'
success; runs that throw are bounded by `MaxOutages`. With a mail server that always fails, and
a user who resolves each day the alert that was inserted before the mail failed, the devices behind it
on the list would starve: this is the limit of what can be claimed.
The other parts promise nothing that must happen: a request may die, and no one repeats it.

## 5. Proofs

| Module | Theorems | For instances of every size |
| --- | --- | --- |
| `PlatformProofs` | `TypeCorrect`, `HistoryKept`, `ApprovedInEffect`, `OperatorsAsk` | `TypeOK`, `AssignmentHistory`, `ApprovalTakesEffect`, `OperatorsOnlyRequest`, with contention and faults |
| | `SecondHolder`, `SecondRequest`, `SettledAgain`, `TableFollowed` | `SecondHolderByRace`, `SecondRequestByRace`, `SettledAgainByRace`, `StatusFollowsTable`, with contention and faults |
| `CustodyProofs` | `HolderShownElse`, `LeaversFreedElse` | `StatusShowsHolder`, `OffboardingFrees` without contention, with faults |
| | `Implementation` | `ImplementsCustody` without contention, with faults |
| `DeviceImagesProofs` | `TypeCorrect`, `LinksAlive`, `ExcessBounded`, `OrphansExplained` | `TypeOK`, `NoDeadLinks`, `BoundedExcess`, `NoOrphans` |
| `AlertJobsProofs` | `TypeCorrect`, `AlertedOnce`, `StaleListOnly` | `TypeOK`, `OneOpenAlert`, `HeldHasNoAlert` |
| `SessionsProofs` | `TypeCorrect`, `EndedForGood`, `OneTokenElse`, `OneLinkElse`, `OnePasswordPerLink`, `LockKept` | `TypeOK`, `RevokedForGood`, `OneTokenPerLogin`, `OneResetLink`, `LinkSetsOnePassword`, `LockHolds`, with faults |
| | `AccountMatched`, `SignInsImplemented` | `SessionsMatchAccount`, `ImplementsSignIns`, with faults and whatever overlaps |
| `UnitsProofs` | `TypeCorrect`, `UnitsLive`, `DevicesGoAlong`, `NobodyStranded` | `TypeOK`, `LinksLive`, `DevicesFollow`, `NeverStranded` |
| `IntakeProofs` | `TypeCorrect`, `AuditNeverOverstated`, `AuditLosesOnlyTheDead`, `WebhookChanges` | `TypeOK`, `NeverOverstated`, `CountsLost`, `WebhookKept` |
| `DeviceRecordsProofs` | `TypeCorrect`, `AuthorsRight`, `ChangesLogged`, `ReceiptsStand`, `RepairsStand` | `TypeOK`, `AssignedByRight`, `ChangesRecorded`, `ReceiptStands`, `RepairStands` |

They use the assumptions of the modules only: `None` is no row, bounds are natural numbers, switches are
Booleans, the ids of different tables differ, and, where something is counted over the requests in flight
(`ProcAssumption` of `Intake`, `DeviceImages` and `Sessions`), these are finitely many.

**Overtaken.** A step is described once: `StepFacts` collects, for every handler, what a step writes (`Effect`),
where (`Footprint`), what it files (`Filing`) and what it leaves in `req` (`Snapshots`). `Subjects`, inductive under any
interleaving, says that requests and pending approvals name the assets they write. The own steps of a handler
leave true what it found out (`OwnFinds`), so only another one can falsify `SeesOpen`, `SeesQuiet` or
`SeesStatus`, and `Effect`, `Filing` and `StatusSet` say by which write. Conversely a commit whose snapshot is
still complete leaves one open row (`SecondHolder`), a request filed by who still sees quiet has no rival
(`SecondRequest`), and an update whose check still holds follows the table (`TableFollowed`). For
`SettledAgain` a handler takes an approval in hand only while it is pending (`HandKept`), and gives it up as it settles it.

**One holder at a time.** Without contention nobody is overtaken: `CustodyInv` makes `SnapshotComplete` (every handler
`SeesOpen`) and `AtMostOneOpen` invariants, because nobody else in flight is about the device (`Exclusive`,
kept by `Accept`). `AtMostOneOpen` alone is not inductive, since a transaction that commits must close *every*
open row of its device. The refinement of `Custody`, which speaks of *the* holder, rests on this.

**What was read stays true.** The invariant of `CustodyProofs` says of each handler what it has read and will
act on (`Knows`: `SeesQuiet`, the approval it settles still pending, `SeesStatus`, the employment it
checked, what it found open). `OwnStep` shows a handler keeps that of itself, `OtherStep` that
no other handler disturbs it, since without contention the other one writes other rows. `InvParts` says that
this is `UnbrokenInv` and `StillRead` together, the invariants of `PlatformInvariant` and `PlatformCustody`.

**The refinement of `Custody`.** The proof adds that the rows a transaction has chosen are those of its device or
employee (`Chosen`). For each statement it shows the mapped move of `Custody` or a stutter. `HolderIs` lifts
"at most one open row" to the holder; `AskedMore` and `AskedLess` say that filing and settling an approval
adds and removes one request, which needs that no two pending ones have the same subject (`OnePending`).

**History and roles.** These need less: rows are only closed or inserted where there
was none (`Effect`, for `HistoryKept`), and a handler's stage says of which kind and by which role the
request is (`Grounds`, for `ApprovedInEffect` and `OperatorsAsk`).

**Live links.** `FilesInv`: keys given out are at most `issued`, a row's file and the files saved by an
upload are stored and are not being dropped, and no two requests or rows share a file unless
both delete it. A fresh key is therefore in nobody's hands, and `DropFile` removes what no row names.
`OrphansExplained` needs besides that only an upload has files saved (`SavedInv`).

**The excess of images.** How many rows there are follows from no bound on a single step: an upload compares
its room with the rows it counted when it began. `Accounts` puts each row on the account of the request that
made it: the rows on an account, the files its upload has saved and the room left to that upload are together
within the limit. A request that begins an upload computes its room from all rows, its own among them; one
that commits moves what it saved to its account. `Cover` is the pigeonhole: n accounts, each of at most
the limit, cover at most n times the limit.

**One alert.** `AlertInv`: a device on the list of a run has no open alert of its type. `JobCreate`
takes it off the list as it opens one, and no route opens any. `StaleListOnly` goes through the actions with
`TypeOK` alone.

**Sessions.** `LoginKnown` (the sign-in of a token has issued one, and a refresh is about a token that was there)
with the shape of the rows is inductive; `Ageing` and `Issued` say what any step does to the tokens, `LinkStep`
what it does to the links. Two live tokens of a sign-in need one that is new: a fresh sign-in has no other,
so it comes from a rotation, and the rotated token was not live or would have been the second before.
A sign-in that is over stays over (`OverStays`): a live token of it would be new, so issued by a rotation that was
in flight and hence counted (`Busy`), and nobody takes one up again (`RefreshKnown`: who refreshes has found a live one).
`SessionsMatchAccount` takes the steps apart by what they change: one that neither issues a token nor touches the account
can only uncover a session by ending the revocation that was due, which is a death (`CalmAstray`); one that
issues a token does so for a password or a token read before (`IssueAstray`); one that updates the account meets
only what its revocation spared (`UpdateAstray`), by `SparedOver`: what an admin's handler has not spared is over, which
`OverStays` preserves until it updates.

**Room for passwords.** The bound of `TypeOK` is kept by no single row: `PasswordRoom` admits a request while
the passwords set and those that requests in flight may set leave room. `Owing` is the set of requests that
will set one; `Room`, that the current number and their count stay within the bound, is inductive, because
a request that sets one leaves `Owing` as the number grows (`RoomUsed`).

**The refinement of `SignIns`.** Its invariant is `SignInv`: `Inv` and `SparedOver`, which no interleaving and
no dying handler breaks. A step that issues no token leaves every sign-in as it was (`SilentKeeps`). `LeavingRefines` is a
refresh that ends in any way: its session goes on or is over, `Used`. `IssueRefines` is the first token of a
sign-in, `SignIn`; `RotationRefines` a rotation, the same session before and after; `TokenEndRefines` a logout,
an expiry or a clean-up, `Quit` or nothing. `RevocationEnds` shows that `updateMany` ends what can be reached
and nothing else, `QuitAll`, for an owner's revocation as for an admin's; `UpdateRefines` that the admin's update finds open
only what one of the ends in `ready` spared.

**Units.** `Fitting`: a column holds a unit of its table, and a request knows units of one table. A row that
is written is checked by the foreign key in that step; a deletion nulls or moves what points at the unit in its own.

**Records.** `EntriesOnce`: an assignment has at most one entry, written or to come. The n-th entry is of
row r. If r > n, one of the first n rows has no entry, since n - 1 entries cannot name them all
(`Missed`); if r < n, one of the n - 1 distinct entries is of a row after r (`Spread`); both are pigeonholes.
`RowStep` and `RepairStep` say that tables only grow and who may write a row again; `Went`, what a handler read.

**Intake.** `Typed` and `NeverOverstated` are inductive together. The sum over the requests is a fold of the
community modules: `SumIs` gives its recursive function, which exists by an induction over the size of the set, done by
a least counterexample (`LeastSet`) since the induction theorems of the library cannot be instantiated here.
`SumStep` and `SumChange` are all the proofs use: changing one request changes the sum by as much. A create
adds a device and one to what its request has made, an entry moves a count from the request to the log, and
`CountsLost` follows since only a request that ends with a count takes any away.

TLC checked each invariant before it was proved.

**Only model-checked:** `DueDevicesAlerted` (liveness under fairness is beyond the proof system).
`TrendHasEveryMonth`, `OnlyAdminReactivates` and `AtMostOneOpen` are false, as their runs show. The theorems of
`CustodyProofs` assume `~Contention` and say nothing of requests that overlap on one device; for these, the
theorems of `PlatformProofs` say what can go wrong, and that nothing else can.

## 6. Not modelled, and what could follow

Left out for good: signing and verification of JWTs, rate limits, validation of bodies, wording of mails and
of the pages, pagination, filters, exports and the other reads (`routes/reports.ts`, the lists, the warranty
chart), the storage providers' own protocols, start-up, and `stale-device.job.ts`, a stub. They keep no state,
or what they show is what the modelled tables hold.

Left out of modelled parts: the names of departments, locations, organisations, employees and users with the
addresses (PATCH `/auth/me`, POST `/users`, the PATCH of a name): a unique index decides about them in one
statement, and nothing else depends on them; the role of a user, which PATCH `/users/:id` changes and the next
token carries; several organisations, between which no query of the handlers reaches except sign-in by address
(section 4).

What could follow: the composition of `Platform` with `DeviceRecords` (a holder's receipt and the author of
an assignment over the full handlers); `Sessions` with the role in the token, so that a demoted admin's
access token is compared with what `Platform` takes for granted; a theorem about the months of `Calendar`.
