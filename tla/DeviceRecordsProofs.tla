------------------------ MODULE DeviceRecordsProofs -------------------------
(* Proofs about the records of a device, for any number of users, requests,   *)
(* assignments and repairs.                                                   *)
EXTENDS DeviceRecords, FiniteSetTheorems, SequenceTheorems, TLAPS

-----------------------------------------------------------------------------
(* Two facts about a list of numbers                                          *)

LEMMA UpTo ==
  ASSUME NEW n \in Nat
  PROVE  IsFiniteSet(1 .. n) /\ Cardinality(1 .. n) = n
<1>1. IsFiniteSet(1 .. n) /\ Cardinality(1 .. n) = IF 1 > n THEN 0 ELSE n - 1 + 1
  BY FS_Interval
<1> QED BY <1>1

\* A list misses one of the numbers up to its length plus one.
LEMMA Missed ==
  ASSUME NEW e \in Seq(Nat)
  PROVE  \E j \in 1 .. Len(e) + 1 : j \notin Range(e)
<1> DEFINE S == 1 .. Len(e) + 1
           T == 1 .. Len(e)
<1> SUFFICES ASSUME S \subseteq Range(e) PROVE FALSE
  OBVIOUS
<1>1. Len(e) \in Nat /\ DOMAIN e = T
  BY LenProperties
<1>2. \A j \in S : \E x \in T : e[x] = j
  BY <1>1 DEF Range
<1> DEFINE g == [j \in S |-> CHOOSE x \in T : e[x] = j]
<1>3. g \in [S -> T] /\ \A j \in S : e[g[j]] = j
  BY <1>2
<1>4. /\ IsFiniteSet(S) /\ Cardinality(S) = Len(e) + 1
      /\ IsFiniteSet(T) /\ Cardinality(T) = Len(e)
  <2>1. Len(e) + 1 \in Nat
    BY <1>1
  <2> QED BY <1>1, <2>1, UpTo
<1>5. Cardinality(T) < Cardinality(S)
  BY <1>1, <1>4
<1> HIDE DEF S, T, g
<1>6. \E x, y \in S : x # y /\ g[x] = g[y]
  BY <1>3, <1>4, <1>5, FS_PigeonHole
<1> QED BY <1>3, <1>6

\* A list without repetitions that misses a number up to its length has a
\* greater one.
LEMMA Spread ==
  ASSUME NEW e \in Seq(Nat \ {0}), IsInjective(e),
         NEW r \in 1 .. Len(e), r \notin Range(e)
  PROVE  \E k \in Range(e) : r < k
<1> DEFINE S == 1 .. Len(e)
           T == 1 .. r - 1
<1> SUFFICES ASSUME \A k \in Range(e) : ~(r < k) PROVE FALSE
  OBVIOUS
<1>1. Len(e) \in Nat /\ DOMAIN e = S /\ e \in [S -> Nat \ {0}]
  BY LenProperties
<1>2. ASSUME NEW x \in S PROVE e[x] \in T
  <2>1. e[x] \in Range(e) /\ e[x] \in Nat \ {0}
    BY <1>1 DEF Range
  <2> QED BY <2>1
<1>3. e \in [S -> T]
  BY <1>1, <1>2
<1>4. /\ IsFiniteSet(S) /\ Cardinality(S) = Len(e)
      /\ IsFiniteSet(T) /\ Cardinality(T) = r - 1
  <2>1. r - 1 \in Nat
    BY <1>1
  <2> QED BY <1>1, <2>1, UpTo
<1>5. Cardinality(T) < Cardinality(S)
  BY <1>1, <1>4
<1>6. \A x, y \in S : e[x] = e[y] => x = y
  BY <1>1 DEF IsInjective
<1> HIDE DEF S, T
<1>7. \E x, y \in S : x # y /\ e[x] = e[y]
  BY <1>3, <1>4, <1>5, FS_PigeonHole
<1> QED BY <1>6, <1>7

-----------------------------------------------------------------------------
(* The invariant                                                              *)

Stage == {"idle", "assign", "log_assigned", "close", "log", "confirm", "close_repair"}

Request == [pc : Stage, row : Nat, repair : Nat]

\* An assignment is recorded once: it has its entry, or one request that has
\* yet to write it, or neither.
EntriesOnce ==
  /\ IsInjective(entry)
  /\ \A p \in Proc : At(p, "log_assigned") =>
       req[p].row \in DOMAIN row /\ req[p].row \notin Range(entry)
  /\ \A p, q \in Proc :
       At(p, "log_assigned") /\ At(q, "log_assigned") /\ p # q => req[p].row # req[q].row

Inv == TypeOK /\ req \in [Proc -> Request] /\ EntriesOnce

LEMMA Lengths ==
  ASSUME TypeOK
  PROVE  /\ Len(row) \in Nat /\ DOMAIN row = 1 .. Len(row)
         /\ Len(entry) \in Nat /\ DOMAIN entry = 1 .. Len(entry)
         /\ Len(repair) \in Nat /\ DOMAIN repair = 1 .. Len(repair)
         /\ \A i \in DOMAIN row : row[i] \in Assignment
         /\ \A i \in DOMAIN entry : entry[i] \in DOMAIN row
         /\ \A i \in DOMAIN repair : repair[i] \in 0 .. 2
  BY LenProperties, ElementOfSeq DEF TypeOK

LEMMA ClosedIs ==
  ASSUME TypeOK
  PROVE  /\ Closed \in Seq(Assignment) /\ Len(Closed) = Len(row)
         /\ DOMAIN Closed = DOMAIN row
         /\ \A i \in DOMAIN row : /\ Closed[i].by = row[i].by
                                  /\ Closed[i].open = FALSE
                                  /\ Closed[i].expired = row[i].expired
                                  /\ Closed[i].confirmed = row[i].confirmed
<1> DEFINE e(i) == [row[i] EXCEPT !.open = FALSE]
<1>1. \A i \in 1 .. Len(row) : e(i) \in Assignment
  BY Lengths, ZenonT(30) DEF Assignment
<1>2. Closed = [i \in 1 .. Len(row) |-> e(i)]
  BY Lengths DEF Closed
<1>3. Closed \in Seq(Assignment)
  <2>1. Closed \in [1 .. Len(row) -> Assignment] /\ Len(row) \in Nat
    BY <1>1, <1>2, Lengths
  <2> QED BY <2>1
<1>4. DOMAIN Closed = 1 .. Len(row)
  BY <1>2
<1>5. Len(Closed) = Len(row)
  BY <1>3, <1>4, Lengths, LenProperties
<1> QED BY <1>2, <1>3, <1>4, <1>5, Lengths DEF Assignment

\* The handlers, by what they do to the request.
Act(p) ==
  \/ AssignReceive(p) \/ AssignCommit(p) \/ LogAssigned(p)
  \/ Unassign(p) \/ PatchUpdate(p) \/ PatchClose(p)
  \/ Retire(p) \/ Offboard(p) \/ Log(p)
  \/ ConfirmRead(p) \/ ConfirmUpdate(p)
  \/ RepairLog(p) \/ RepairCloseRead(p) \/ RepairClose(p)
  \/ Fail(p)

LEMMA NextIs == Next <=> Expire \/ \E p \in Proc : Act(p)
  BY DEF Next, Act

-----------------------------------------------------------------------------
(* What a step does to the tables                                             *)

New(u) == [by |-> u, open |-> TRUE, expired |-> FALSE, confirmed |-> 0]

\* The tables only grow; a row changes by a return, an expiry, or the
\* confirmation of a request that has read it.
RowKept(i) ==
  /\ i \in DOMAIN row'
  /\ row'[i].by = row[i].by
  /\ row'[i].open => row[i].open
  /\ row[i].expired => row'[i].expired
  /\ \/ row'[i].confirmed = row[i].confirmed
     \/ Confirming(i) /\ row'[i].confirmed > 0

LEMMA AppendIs ==
  ASSUME NEW S, NEW s \in Seq(S), NEW x \in S
  PROVE  /\ Append(s, x) \in Seq(S) /\ Len(Append(s, x)) = Len(s) + 1
         /\ DOMAIN Append(s, x) = 1 .. Len(s) + 1
         /\ \A i \in 1 .. Len(s) : Append(s, x)[i] = s[i]
         /\ Append(s, x)[Len(s) + 1] = x
<1>1. Len(s) \in Nat /\ DOMAIN s = 1 .. Len(s)
  BY LenProperties
<1>2. Append(s, x) \in Seq(S) /\ Len(Append(s, x)) = Len(s) + 1
  OBVIOUS
<1>3. DOMAIN Append(s, x) = 1 .. Len(s) + 1
  BY <1>2, LenProperties
<1> QED BY <1>1, <1>2, <1>3

LEMMA RowAssign ==
  ASSUME TypeOK, NEW u \in User, row' = Append(Closed, New(u))
  PROVE  /\ row' \in Seq(Assignment) /\ DOMAIN row' = 1 .. Len(row) + 1
         /\ \A i \in DOMAIN row : RowKept(i)
<1>1. New(u) \in Assignment
  BY DEF New, Assignment
<1>2. /\ row' \in Seq(Assignment) /\ DOMAIN row' = 1 .. Len(row) + 1
      /\ \A i \in 1 .. Len(row) : row'[i] = Closed[i]
  BY <1>1, ClosedIs, AppendIs
<1>3. \A i \in DOMAIN row : i \in DOMAIN row' /\ row'[i] = Closed[i]
  BY <1>2, Lengths
<1>4. \A i \in DOMAIN row : RowKept(i)
  BY <1>3, ClosedIs DEF RowKept
<1> QED BY <1>2, <1>4

LEMMA RowClosed ==
  ASSUME TypeOK, row' = Closed
  PROVE  /\ row' \in Seq(Assignment) /\ DOMAIN row' = DOMAIN row
         /\ \A i \in DOMAIN row : RowKept(i)
  BY ClosedIs DEF RowKept

LEMMA RowConfirm ==
  ASSUME Inv, NEW p \in Proc, ConfirmUpdate(p)
  PROVE  /\ row' \in Seq(Assignment) /\ DOMAIN row' = DOMAIN row
         /\ \A i \in DOMAIN row : RowKept(i) /\ row'[i].open = row[i].open
<1> DEFINE r == req[p].row
           n == IF row[r].confirmed < 2 THEN row[r].confirmed + 1 ELSE 2
           new == [row[r] EXCEPT !.confirmed = n]
<1>1. row' = [row EXCEPT ![r] = new]
  BY DEF ConfirmUpdate
<1>2. CASE r \notin DOMAIN row
  <2> HIDE DEF new
  <2>1. row \in [1 .. Len(row) -> Assignment]
    BY LenProperties DEF Inv, TypeOK
  <2>2. row' = row
    BY <1>1, <1>2, <2>1
  <2> QED BY <2>2 DEF RowKept, Inv, TypeOK
<1>3. CASE r \in DOMAIN row
  <2>1. row[r] \in Assignment
    BY <1>3, Lengths DEF Inv
  <2>2. n \in 0 .. 2 /\ n > 0
    BY <2>1 DEF Assignment
  <2>3. /\ new \in Assignment
        /\ new.by = row[r].by /\ new.open = row[r].open
        /\ new.expired = row[r].expired /\ new.confirmed = n
    BY <2>1, <2>2 DEF Assignment
  <2> HIDE DEF new, n
  <2>4. r \in 1 .. Len(row) /\ row \in Seq(Assignment)
    BY <1>3, Lengths DEF Inv, TypeOK
  <2>5. /\ row' \in Seq(Assignment) /\ Len(row') = Len(row)
        /\ \A i \in 1 .. Len(row) : row'[i] = IF i = r THEN new ELSE row[i]
    BY <1>1, <2>3, <2>4, ExceptSeq
  <2>6. DOMAIN row' = DOMAIN row
    BY <2>5, Lengths, LenProperties DEF Inv
  <2>7. Confirming(r)
    BY DEF Confirming, ConfirmUpdate
  <2> QED BY <2>2, <2>3, <2>5, <2>6, <2>7, Lengths DEF RowKept, Inv
<1> QED BY <1>2, <1>3

LEMMA RowExpire ==
  ASSUME TypeOK, Expire
  PROVE  /\ row' \in Seq(Assignment) /\ DOMAIN row' = DOMAIN row
         /\ \A i \in DOMAIN row : RowKept(i) /\ row'[i].open = row[i].open
<1>1. PICK r \in DOMAIN row : row' = [row EXCEPT ![r].expired = TRUE]
  BY DEF Expire
<1> DEFINE new == [row[r] EXCEPT !.expired = TRUE]
<1>2. row[r] \in Assignment
  BY Lengths
<1>3. /\ new \in Assignment
      /\ new.by = row[r].by /\ new.open = row[r].open
      /\ new.expired = TRUE /\ new.confirmed = row[r].confirmed
  BY <1>2 DEF Assignment
<1>4. row' = [row EXCEPT ![r] = new]
  BY <1>1
<1> HIDE DEF new
<1>5. r \in 1 .. Len(row) /\ row \in Seq(Assignment)
  BY Lengths DEF TypeOK
<1>6. /\ row' \in Seq(Assignment) /\ Len(row') = Len(row)
      /\ \A i \in 1 .. Len(row) : row'[i] = IF i = r THEN new ELSE row[i]
  BY <1>3, <1>4, <1>5, ExceptSeq
<1>7. DOMAIN row' = DOMAIN row
  BY <1>6, Lengths, LenProperties
<1> QED BY <1>3, <1>6, <1>7, Lengths DEF RowKept

LEMMA RowStep ==
  ASSUME Inv, Next
  PROVE  /\ row' \in Seq(Assignment)
         /\ \A i \in DOMAIN row : RowKept(i)
<1>1. CASE row' = row
  BY <1>1 DEF RowKept, Inv, TypeOK
<1>2. CASE row' = Closed
  BY <1>2, RowClosed DEF Inv
<1>3. ASSUME NEW p \in Proc, Act(p), ~AssignCommit(p), ~ConfirmUpdate(p)
      PROVE  row' = row \/ row' = Closed
  BY <1>3 DEF Act, AssignReceive, LogAssigned, Unassign, PatchUpdate, PatchClose,
     Retire, Offboard, Log, ConfirmRead, RepairLog, RepairCloseRead, RepairClose,
     Fail, tables
<1>4. ASSUME NEW p \in Proc, AssignCommit(p)
      PROVE  \E u \in User : row' = Append(Closed, New(u))
  BY <1>4 DEF AssignCommit, New
<1> QED BY <1>1, <1>2, <1>3, <1>4, RowAssign, RowConfirm, RowExpire, NextIs DEF Inv

\* A repair changes only by a close that has read it open.
RepairKept(i) ==
  /\ i \in DOMAIN repair'
  /\ repair'[i] = repair[i] \/ ClosingRepair(i)

LEMMA RepairStep ==
  ASSUME Inv, Next
  PROVE  /\ repair' \in Seq(0 .. 2)
         /\ \A i \in DOMAIN repair : RepairKept(i)
<1>0. repair \in Seq(0 .. 2) /\ Len(repair) \in Nat /\ DOMAIN repair = 1 .. Len(repair)
  BY Lengths DEF Inv, TypeOK
<1>1. CASE repair' = repair
  BY <1>0, <1>1 DEF RepairKept
<1>2. CASE repair' = Append(repair, 0)
  <2>1. /\ repair' \in Seq(0 .. 2) /\ DOMAIN repair' = 1 .. Len(repair) + 1
        /\ \A i \in 1 .. Len(repair) : repair'[i] = repair[i]
    BY <1>0, <1>2, AppendIs
  <2> QED BY <1>0, <2>1 DEF RepairKept
<1>3. ASSUME NEW p \in Proc, RepairClose(p)
      PROVE  /\ repair' \in Seq(0 .. 2)
             /\ \A i \in DOMAIN repair : RepairKept(i)
  <2> DEFINE r == req[p].repair
             n == IF repair[r] < 2 THEN repair[r] + 1 ELSE 2
  <2>1. repair' = [repair EXCEPT ![r] = n]
    BY <1>3 DEF RepairClose
  <2>2. CASE r \notin DOMAIN repair
    <3>1. repair' = repair
      BY <1>0, <2>1, <2>2
    <3> QED BY <1>1, <3>1
  <2>3. CASE r \in DOMAIN repair
    <3>1. n \in 0 .. 2
      BY <2>3, Lengths DEF Inv
    <3> HIDE DEF n
    <3>2. /\ repair' \in Seq(0 .. 2) /\ Len(repair') = Len(repair)
          /\ \A i \in 1 .. Len(repair) : repair'[i] = IF i = r THEN n ELSE repair[i]
      BY <1>0, <2>1, <2>3, <3>1, ExceptSeq
    <3>3. DOMAIN repair' = DOMAIN repair
      BY <1>0, <3>2, LenProperties
    <3>4. ClosingRepair(r)
      BY <1>3 DEF ClosingRepair, RepairClose
    <3> QED BY <1>0, <3>2, <3>3, <3>4 DEF RepairKept
  <2> QED BY <2>2, <2>3
<1>4. ASSUME NEW p \in Proc, Act(p), ~RepairClose(p)
      PROVE  repair' = repair \/ repair' = Append(repair, 0)
  BY <1>4 DEF Act, AssignReceive, AssignCommit, LogAssigned, Unassign, PatchUpdate,
     PatchClose, Retire, Offboard, Log, ConfirmRead, ConfirmUpdate, RepairLog,
     RepairCloseRead, Fail, tables
<1>5. Expire => repair' = repair
  BY DEF Expire
<1> QED BY <1>1, <1>2, <1>3, <1>4, <1>5, NextIs

-----------------------------------------------------------------------------
(* What a step does to the requests                                           *)

Went(p) ==
  /\ \A q \in Proc \ {p} : req'[q] = req[q]
  /\ req'[p] \in Request
  /\ req'[p].pc = "confirm" => req'[p].row \in DOMAIN row /\ ~Dead(req'[p].row)
  /\ req'[p].pc = "close_repair" =>
       req'[p].repair \in DOMAIN repair /\ repair[req'[p].repair] = 0
  /\ req'[p].pc = "log_assigned" => AssignCommit(p) /\ req'[p].row = Len(row) + 1
  /\ \/ req'[p].row \in DOMAIN row \cup {0}
     \/ AssignCommit(p) /\ req'[p].row = Len(row) + 1
  /\ req'[p].repair \in DOMAIN repair \cup {0}

LEMMA Set ==
  ASSUME Inv, NEW p \in Proc, NEW r, req' = [req EXCEPT ![p] = r]
  PROVE  req'[p] = r /\ \A q \in Proc \ {p} : req'[q] = req[q]
  BY DEF Inv

LEMMA ToLog ==
  ASSUME NEW x \in Request, NEW n \in Nat
  PROVE  LET r == [x EXCEPT !.pc = "log_assigned", !.row = n] IN
         r \in Request /\ r.pc = "log_assigned" /\ r.row = n /\ r.repair = x.repair
<1> DEFINE r == [x EXCEPT !.pc = "log_assigned", !.row = n]
<1>1. r.pc = "log_assigned" /\ r.row = n /\ r.repair = x.repair
  BY DEF Request
<1>2. r \in Request
  BY DEF Request, Stage
<1> QED BY <1>1, <1>2

LEMMA ReqStep ==
  ASSUME Inv, NEW p \in Proc, Act(p)
  PROVE  Went(p)
<1>0. /\ req[p] \in Request /\ Len(row) \in Nat
      /\ DOMAIN row = 1 .. Len(row) /\ DOMAIN repair = 1 .. Len(repair)
      /\ req[p].row \in DOMAIN row \cup {0} /\ req[p].repair \in DOMAIN repair \cup {0}
  BY Lengths DEF Inv, TypeOK
<1>1. CASE Reply(p)
  <2>1. req'[p] = Idle /\ \A q \in Proc \ {p} : req'[q] = req[q]
    BY <1>1, Set DEF Reply
  <2> QED BY <2>1 DEF Went, Idle, Request, Stage
<1>2. ASSUME NEW pc \in {"log", "close"}, Go(p, pc) PROVE Went(p)
  <2> DEFINE r == [req[p] EXCEPT !.pc = pc]
  <2>1. req' = [req EXCEPT ![p] = r]
    BY <1>2 DEF Go
  <2>2. r \in Request /\ r.pc = pc /\ r.row = req[p].row /\ r.repair = req[p].repair
    BY <1>0 DEF Request, Stage
  <2> HIDE DEF r
  <2>3. req'[p] = r /\ \A q \in Proc \ {p} : req'[q] = req[q]
    BY <2>1, Set
  <2> QED BY <1>0, <2>2, <2>3 DEF Went
<1>3. ASSUME UNCHANGED req, At(p, "idle") PROVE Went(p)
  BY <1>0, <1>3 DEF Went, At, Inv
<1>4. CASE AssignReceive(p)
  <2>1. req'[p] = [Idle EXCEPT !.pc = "assign"] /\ \A q \in Proc \ {p} : req'[q] = req[q]
    BY <1>4, Set DEF AssignReceive, Accept
  <2> QED BY <2>1 DEF Went, Idle, Request, Stage
<1>5. CASE AssignCommit(p)
  <2> DEFINE r == [req[p] EXCEPT !.pc = "log_assigned", !.row = Len(row) + 1]
  <2>1. req' = [req EXCEPT ![p] = r]
    BY <1>5 DEF AssignCommit
  <2>2. r \in Request /\ r.pc = "log_assigned" /\ r.row = Len(row) + 1 /\ r.repair = req[p].repair
    <3>1. Len(row) + 1 \in Nat
      BY <1>0
    <3> QED BY <1>0, <3>1, ToLog
  <2> HIDE DEF r
  <2>3. req'[p] = r /\ \A q \in Proc \ {p} : req'[q] = req[q]
    BY <2>1, Set
  <2> QED BY <1>0, <1>5, <2>2, <2>3 DEF Went
<1>6. CASE ConfirmRead(p)
  <2>1. PICK i \in Open : /\ ~row[i].expired /\ row[i].confirmed = 0
                          /\ req' = [req EXCEPT ![p] = [Idle EXCEPT !.pc = "confirm", !.row = i]]
    BY <1>6 DEF ConfirmRead, Accept
  <2>2. /\ req'[p] = [Idle EXCEPT !.pc = "confirm", !.row = i]
        /\ \A q \in Proc \ {p} : req'[q] = req[q]
    BY <2>1, Set
  <2>3. i \in DOMAIN row /\ i \in Nat /\ ~Dead(i)
    BY <1>0, <2>1 DEF Open, Dead
  <2>4. /\ req'[p] \in Request /\ req'[p].pc = "confirm" /\ req'[p].row = i
        /\ req'[p].repair = 0
    <3>1. req'[p] = [pc |-> "confirm", row |-> i, repair |-> 0]
      BY <2>2 DEF Idle
    <3> QED BY <2>3, <3>1 DEF Request, Stage
  <2> QED BY <2>2, <2>3, <2>4 DEF Went
<1>7. CASE RepairCloseRead(p)
  <2>1. PICK i \in DOMAIN repair :
          /\ repair[i] = 0
          /\ req' = [req EXCEPT ![p] = [Idle EXCEPT !.pc = "close_repair", !.repair = i]]
    BY <1>7 DEF RepairCloseRead, Accept
  <2>2. /\ req'[p] = [Idle EXCEPT !.pc = "close_repair", !.repair = i]
        /\ \A q \in Proc \ {p} : req'[q] = req[q]
    BY <2>1, Set
  <2>3. i \in Nat
    BY Lengths, <2>1 DEF Inv
  <2>4. /\ req'[p] \in Request /\ req'[p].pc = "close_repair" /\ req'[p].repair = i
        /\ req'[p].row = 0
    <3>1. req'[p] = [pc |-> "close_repair", row |-> 0, repair |-> i]
      BY <2>2 DEF Idle
    <3> QED BY <2>3, <3>1 DEF Request, Stage
  <2> QED BY <2>1, <2>2, <2>4 DEF Went
<1>8. CASE LogAssigned(p) \/ Log(p) \/ ConfirmUpdate(p) \/ Fail(p)
  BY <1>1, <1>8 DEF LogAssigned, Log, ConfirmUpdate, Fail
<1>9. CASE \/ Unassign(p) \/ PatchUpdate(p) \/ PatchClose(p) \/ Retire(p) \/ Offboard(p)
           \/ RepairLog(p) \/ RepairClose(p)
  BY <1>2, <1>3, <1>9 DEF Unassign, PatchUpdate, PatchClose, Retire, Offboard,
     RepairLog, RepairClose
<1> QED BY <1>4, <1>5, <1>6, <1>7, <1>8, <1>9 DEF Act

-----------------------------------------------------------------------------
(* The invariant is kept                                                      *)

LEMMA EntryStep ==
  ASSUME Inv, Next
  PROVE  \/ entry' = entry
         \/ \E p \in Proc : /\ LogAssigned(p) /\ UNCHANGED row
                            /\ entry' = Append(entry, req[p].row)
  BY NextIs DEF Act, Expire, AssignReceive, AssignCommit, LogAssigned, Unassign,
     PatchUpdate, PatchClose, Retire, Offboard, Log, ConfirmRead, ConfirmUpdate,
     RepairLog, RepairCloseRead, RepairClose, Fail, tables

LEMMA StatusStep ==
  ASSUME Inv, Next
  PROVE  status' \in Status
<1>1. CASE Expire
  BY <1>1 DEF Expire, Inv, TypeOK
<1>2. ASSUME NEW p \in Proc, Act(p) PROVE status' \in Status
  BY <1>2 DEF Act, AssignReceive, AssignCommit, LogAssigned, Unassign,
     PatchUpdate, PatchClose, Retire, Offboard, Log, ConfirmRead, ConfirmUpdate,
     RepairLog, RepairCloseRead, RepairClose, Fail, tables, Inv, TypeOK, Status
<1> QED BY <1>1, <1>2, NextIs

\* The entry a request writes is of an assignment that has none.
LEMMA EntryIs ==
  ASSUME Inv, NEW p \in Proc, LogAssigned(p)
  PROVE  LET r == req[p].row IN
         /\ r \in DOMAIN row /\ r \notin Range(entry)
         /\ Append(entry, r) \in Seq(DOMAIN row)
         /\ DOMAIN Append(entry, r) = 1 .. Len(entry) + 1
         /\ \A i \in DOMAIN entry : Append(entry, r)[i] = entry[i]
         /\ Append(entry, r)[Len(entry) + 1] = r
         /\ Range(Append(entry, r)) = Range(entry) \cup {r}
         /\ IsInjective(Append(entry, r))
<1> DEFINE r == req[p].row
           new == Append(entry, r)
<1>1. r \in DOMAIN row /\ r \notin Range(entry) /\ IsInjective(entry)
  BY DEF LogAssigned, Inv, EntriesOnce
<1>2. /\ entry \in Seq(DOMAIN row) /\ Len(entry) \in Nat
      /\ DOMAIN entry = 1 .. Len(entry)
  BY Lengths DEF Inv, TypeOK
<1> HIDE DEF r
<1>3. /\ new \in Seq(DOMAIN row) /\ DOMAIN new = 1 .. Len(entry) + 1
      /\ \A i \in 1 .. Len(entry) : new[i] = entry[i]
      /\ new[Len(entry) + 1] = r
  BY <1>1, <1>2, AppendIs
<1> HIDE DEF new
<1>4. DOMAIN new = DOMAIN entry \cup {Len(entry) + 1}
  BY <1>2, <1>3
<1>5. Range(new) = Range(entry) \cup {r}
  BY <1>2, <1>3, <1>4 DEF Range
<1>6. IsInjective(new)
  <2> SUFFICES ASSUME NEW a \in DOMAIN new, NEW b \in DOMAIN new, new[a] = new[b]
               PROVE  a = b
    BY DEF IsInjective
  <2>1. \A i \in DOMAIN entry : entry[i] # r
    BY <1>1 DEF Range
  <2>2. CASE a \in DOMAIN entry /\ b \in DOMAIN entry
    BY <1>1, <1>2, <1>3, <2>2 DEF IsInjective
  <2> QED BY <1>2, <1>3, <1>4, <2>1, <2>2
<1> QED BY <1>1, <1>2, <1>3, <1>5, <1>6 DEF r, new

LEMMA InvInit == Init => Inv
<1> SUFFICES ASSUME Init PROVE Inv
  OBVIOUS
<1>1. row = <<>> /\ entry = <<>> /\ repair = <<>> /\ \A p \in Proc : req[p] = Idle
  BY DEF Init
<1>2. row \in Seq(Assignment) /\ entry \in Seq(DOMAIN row) /\ repair \in Seq(0 .. 2)
  BY <1>1
<1>3. TypeOK
  BY <1>1, <1>2 DEF Init, TypeOK, Status, Idle
<1>4. Idle \in Request
  BY DEF Idle, Request, Stage
<1>5. EntriesOnce
  <2>1. DOMAIN entry = {}
    BY <1>1
  <2> QED BY <1>1, <2>1 DEF EntriesOnce, IsInjective, At, Idle
<1> QED BY <1>3, <1>4, <1>5 DEF Inv, Init

LEMMA InvNext == Inv /\ [Next]_vars => Inv'
<1> SUFFICES ASSUME Inv, [Next]_vars PROVE Inv'
  OBVIOUS
<1>1. CASE UNCHANGED vars
  BY <1>1 DEF vars, Inv, TypeOK, EntriesOnce, At
<1>2. CASE Next
  <2>1. row' \in Seq(Assignment) /\ DOMAIN row \subseteq DOMAIN row'
    BY <1>2, RowStep DEF RowKept
  <2>2. repair' \in Seq(0 .. 2) /\ DOMAIN repair \subseteq DOMAIN repair'
    BY <1>2, RepairStep DEF RepairKept
  <2>3. /\ entry' \in Seq(DOMAIN row) /\ IsInjective(entry')
        /\ Range(entry) \subseteq Range(entry')
    <3>1. CASE entry' = entry
      BY <3>1 DEF Inv, TypeOK, EntriesOnce
    <3>2. ASSUME NEW p \in Proc, LogAssigned(p), entry' = Append(entry, req[p].row)
          PROVE  /\ entry' \in Seq(DOMAIN row) /\ IsInjective(entry')
                 /\ Range(entry) \subseteq Range(entry')
      BY <3>2, EntryIs
    <3> QED BY <1>2, <3>1, <3>2, EntryStep
  <2>4. entry' \in Seq(DOMAIN row')
    BY <2>1, <2>3, SeqMonotonic
  <2>5. status' \in Status
    BY <1>2, StatusStep
  <2>6. CASE Expire
    <3>1. UNCHANGED <<entry, repair, req>>
      BY <2>6 DEF Expire
    <3>2. TypeOK'
      BY <2>1, <2>2, <2>4, <2>5, <3>1 DEF Inv, TypeOK
    <3>3. EntriesOnce'
      BY <2>1, <3>1 DEF Inv, EntriesOnce, At
    <3> QED BY <3>1, <3>2, <3>3 DEF Inv
  <2>7. ASSUME NEW p \in Proc, Act(p) PROVE Inv'
    <3>1. Went(p)
      BY <2>7, ReqStep
    <3>2. req' \in [Proc -> Request]
      <4>1. DOMAIN req' = Proc /\ req' = [q \in Proc |-> req'[q]]
        BY <2>7 DEF Act, AssignReceive, AssignCommit, LogAssigned, Unassign,
           PatchUpdate, PatchClose, Retire, Offboard, Log, ConfirmRead, ConfirmUpdate,
           RepairLog, RepairCloseRead, RepairClose, Fail, Accept, Go, Reply, Inv
      <4> QED BY <3>1, <4>1 DEF Went, Inv
    <3>3. AssignCommit(p) => Len(row) + 1 \in DOMAIN row'
      <4> SUFFICES ASSUME AssignCommit(p) PROVE Len(row) + 1 \in DOMAIN row'
        OBVIOUS
      <4>1. PICK u \in User : row' = Append(Closed, New(u))
        BY DEF AssignCommit, New
      <4>2. DOMAIN row' = 1 .. Len(row) + 1
        BY <4>1, RowAssign DEF Inv
      <4> QED BY <4>2, Lengths DEF Inv
    <3>4. TypeOK'
      <4>1. ASSUME NEW q \in Proc
            PROVE  /\ req'[q].pc \in Stage
                   /\ req'[q].row \in DOMAIN row' \cup {0}
                   /\ req'[q].repair \in DOMAIN repair' \cup {0}
        BY <2>1, <2>2, <3>1, <3>2, <3>3 DEF Went, Inv, TypeOK, Request
      <4> QED BY <2>1, <2>2, <2>4, <2>5, <4>1 DEF TypeOK, Stage
    <3>5. ASSUME NEW q \in Proc, At(q, "log_assigned")'
          PROVE  \/ /\ q = p /\ AssignCommit(p) /\ req'[q].row = Len(row) + 1
                 \/ q # p /\ At(q, "log_assigned") /\ req'[q] = req[q]
      BY <3>1, <3>5 DEF Went, At
    <3>6. AssignCommit(p) => entry' = entry /\ Len(row) + 1 \notin DOMAIN row
      BY Lengths DEF AssignCommit, Inv
    <3>7. Range(entry) \subseteq DOMAIN row
      BY Lengths DEF Inv, Range
    <3>8. ASSUME NEW q \in Proc, At(q, "log_assigned"), q # p
          PROVE  req[q].row \notin Range(entry')
      <4>1. req[q].row \notin Range(entry)
        BY <3>8 DEF Inv, EntriesOnce
      <4>2. CASE entry' = entry
        BY <4>1, <4>2
      <4>3. CASE LogAssigned(p) /\ entry' = Append(entry, req[p].row)
        <5>1. Range(entry') = Range(entry) \cup {req[p].row}
          BY <4>3, EntryIs
        <5>2. req[q].row # req[p].row
          BY <3>8, <4>3 DEF LogAssigned, Inv, EntriesOnce
        <5> QED BY <4>1, <5>1, <5>2
      <4>4. LogAssigned(p) => entry' = Append(entry, req[p].row)
        BY DEF LogAssigned
      <4>5. ~LogAssigned(p) => entry' = entry
        BY <2>7 DEF Act, AssignReceive, AssignCommit, Unassign,
           PatchUpdate, PatchClose, Retire, Offboard, Log, ConfirmRead, ConfirmUpdate,
           RepairLog, RepairCloseRead, RepairClose, Fail, tables
      <4> QED BY <4>2, <4>3, <4>4, <4>5
    <3>9. ASSUME NEW q \in Proc, At(q, "log_assigned")'
          PROVE  req'[q].row \in DOMAIN row' /\ req'[q].row \notin Range(entry')
      BY <2>1, <3>3, <3>5, <3>6, <3>7, <3>8, <3>9 DEF Inv, EntriesOnce
    <3>10. ASSUME NEW q \in Proc, NEW o \in Proc, q # o,
                  At(q, "log_assigned")', At(o, "log_assigned")'
           PROVE  req'[q].row # req'[o].row
      BY <3>5, <3>6, <3>10 DEF Inv, EntriesOnce
    <3>11. EntriesOnce'
      BY <2>3, <3>9, <3>10 DEF EntriesOnce
    <3> QED BY <3>2, <3>4, <3>11 DEF Inv
  <2> QED BY <1>2, <2>6, <2>7, NextIs
<1> QED BY <1>1, <1>2

(* The rows, the entries and the requests keep their types: an entry and a    *)
(* request name rows that exist.                                              *)
THEOREM TypeCorrect == Spec => []TypeOK
<1>1. Inv => TypeOK
  BY DEF Inv
<1> QED BY <1>1, InvInit, InvNext, PTL DEF Spec

-----------------------------------------------------------------------------
(* The properties                                                             *)

(* A receipt that was confirmed, or whose device was returned or link has     *)
(* expired, stays as it is, unless a confirmation read it before.             *)
THEOREM ReceiptsStand == Spec => ReceiptStands
<1> DEFINE Stands(i) ==
      Dead(i) /\ ~Confirming(i) =>
       Dead(i)' /\ ~Confirming(i)' /\ row'[i].confirmed = row[i].confirmed
<1>1. Inv /\ [Next]_vars => [\A i \in DOMAIN row : Stands(i)]_vars
  <2> SUFFICES ASSUME Inv, Next, NEW i \in DOMAIN row, Dead(i), ~Confirming(i)
               PROVE  Dead(i)' /\ ~Confirming(i)' /\ row'[i].confirmed = row[i].confirmed
    OBVIOUS
  <2>1. /\ row'[i].open => row[i].open
        /\ row[i].expired => row'[i].expired
        /\ row'[i].confirmed = row[i].confirmed
    BY RowStep DEF RowKept
  <2>2. ASSUME NEW p \in Proc, Act(p) PROVE ~Confirming(i)'
    BY <2>2, ReqStep DEF Went, Confirming, At
  <2>3. ASSUME Expire PROVE ~Confirming(i)'
    BY <2>3 DEF Expire, Confirming, At
  <2> QED BY <2>1, <2>2, <2>3, NextIs DEF Dead
<1> QED BY <1>1, InvInit, InvNext, PTL DEF Spec, ReceiptStands

(* The dates of a closed repair stand, unless another close read it before.   *)
THEOREM RepairsStand == Spec => RepairStands
<1> DEFINE Stands(i) ==
      repair[i] > 0 /\ ~ClosingRepair(i) =>
       repair'[i] = repair[i] /\ ~ClosingRepair(i)'
<1>1. Inv /\ [Next]_vars => [\A i \in DOMAIN repair : Stands(i)]_vars
  <2> SUFFICES ASSUME Inv, Next, NEW i \in DOMAIN repair, repair[i] > 0, ~ClosingRepair(i)
               PROVE  repair'[i] = repair[i] /\ ~ClosingRepair(i)'
    OBVIOUS
  <2>1. repair'[i] = repair[i]
    BY RepairStep DEF RepairKept
  <2>2. ASSUME NEW p \in Proc, Act(p) PROVE ~ClosingRepair(i)'
    BY <2>2, ReqStep DEF Went, ClosingRepair, At
  <2>3. ASSUME Expire PROVE ~ClosingRepair(i)'
    BY <2>3 DEF Expire, ClosingRepair, At
  <2> QED BY <2>1, <2>2, <2>3, NextIs
<1> QED BY <1>1, InvInit, InvNext, PTL DEF Spec, RepairStands

(* A change of the device, its holder or its repairs leaves a handler that    *)
(* has yet to write the entry, except that /unassign changes the status of a  *)
(* device nobody holds.                                                       *)
THEOREM ChangesLogged == Spec => ChangesRecorded
<1> DEFINE Logged ==
      (status' # status \/ Open' # Open \/ repair' # repair) =>
       \/ \E p \in Proc : /\ req'[p] # req[p]
                          /\ req'[p].pc \in {"log_assigned", "close", "log"}
       \/ Open = {} /\ status' = "in_stock"
<1>1. Inv /\ [Next]_vars => [Logged]_vars
  <2> SUFFICES ASSUME Inv, Next PROVE Logged
    OBVIOUS
  <2>1. CASE UNCHANGED <<status, row, repair>>
    BY <2>1 DEF Open
  <2>2. ASSUME NEW p \in Proc, NEW pc \in {"close", "log"}, Go(p, pc), ~At(p, pc)
        PROVE  Logged
    <3>1. req'[p] = [req[p] EXCEPT !.pc = pc]
      BY <2>2, Set DEF Go
    <3>2. req'[p].pc = pc
      BY <3>1 DEF Inv, Request
    <3> QED BY <2>2, <3>2 DEF At
  <2>3. ASSUME NEW p \in Proc, AssignCommit(p) PROVE Logged
    <3>1. req'[p] = [req[p] EXCEPT !.pc = "log_assigned", !.row = Len(row) + 1]
      BY <2>3, Set DEF AssignCommit
    <3>2. req'[p].pc = "log_assigned"
      BY <3>1 DEF Inv, Request
    <3> QED BY <2>3, <3>2 DEF AssignCommit, At
  <2>4. ASSUME NEW p \in Proc, Unassign(p) PROVE Logged
    <3>1. CASE Open = {}
      <4>1. Open' = {}
        BY <2>4, <3>1, ClosedIs DEF Unassign, Open, Inv
      <4> QED BY <2>4, <3>1, <4>1 DEF Unassign
    <3>2. CASE Open # {}
      BY <2>2, <2>4, <3>2 DEF Unassign, At
    <3> QED BY <3>1, <3>2
  <2>5. ASSUME NEW p \in Proc,
               PatchUpdate(p) \/ PatchClose(p) \/ Retire(p) \/ Offboard(p)
                 \/ RepairLog(p) \/ RepairClose(p)
        PROVE  Logged
    BY <2>2, <2>5 DEF PatchUpdate, PatchClose, Retire, Offboard, RepairLog,
       RepairClose, At
  <2>6. ASSUME NEW p \in Proc, ConfirmUpdate(p) PROVE Logged
    BY <2>6, RowConfirm DEF ConfirmUpdate, Open
  <2>7. CASE Expire
    BY <2>7, RowExpire DEF Expire, Open, Inv
  <2>8. ASSUME NEW p \in Proc,
               AssignReceive(p) \/ LogAssigned(p) \/ Log(p) \/ ConfirmRead(p)
                 \/ RepairCloseRead(p) \/ Fail(p)
        PROVE  Logged
    BY <2>1, <2>8 DEF AssignReceive, LogAssigned, Log, ConfirmRead,
       RepairCloseRead, Fail, tables
  <2> QED BY <2>3, <2>4, <2>5, <2>6, <2>7, <2>8, NextIs DEF Act
<1> QED BY <1>1, InvInit, InvNext, PTL DEF Spec, ChangesRecorded

(* An assignment comes to be shown with the wrong author only when the entry  *)
(* of an older one has been overtaken, or was never written: the new entry is *)
(* the i-th of the log and about row r.  If r is after i, then one of the     *)
(* rows up to i has no entry; if r is before i, some entry is of a row after  *)
(* r.                                                                         *)
THEOREM AuthorsRight == Spec => AssignedByRight
<1> DEFINE Right(i) ==
      Misattributed(i)' /\ ~Misattributed(i) =>
       \E j, k \in DOMAIN row : /\ j < k
                                /\ j \notin Range(entry) /\ k \in Range(entry')
<1>1. Inv /\ [Next]_vars => [\A i \in DOMAIN row : Right(i)]_vars
  <2> SUFFICES ASSUME Inv, Next, NEW i \in DOMAIN row,
                      Misattributed(i)', ~Misattributed(i)
               PROVE  \E j, k \in DOMAIN row :
                        j < k /\ j \notin Range(entry) /\ k \in Range(entry')
    OBVIOUS
  <2>1. \A n \in DOMAIN row : row'[n].by = row[n].by
    BY RowStep DEF RowKept
  <2>2. \A n \in DOMAIN entry : entry[n] \in DOMAIN row
    BY Lengths DEF Inv
  <2>3. entry' # entry
    BY <2>1, <2>2 DEF Misattributed, AssignedBy
  <2>4. PICK p \in Proc : LogAssigned(p) /\ entry' = Append(entry, req[p].row)
    BY <2>3, EntryStep
  <2> DEFINE r == req[p].row
             n == Len(entry) + 1
  <2>5. /\ r \in DOMAIN row /\ r \notin Range(entry)
        /\ DOMAIN entry' = 1 .. n /\ entry'[n] = r
        /\ \A m \in DOMAIN entry : entry'[m] = entry[m]
        /\ Range(entry') = Range(entry) \cup {r}
    BY <2>4, EntryIs
  <2>6. /\ DOMAIN row = 1 .. Len(row) /\ Len(row) \in Nat
        /\ DOMAIN entry = 1 .. Len(entry) /\ Len(entry) \in Nat
        /\ entry \in Seq(DOMAIN row)
    BY Lengths DEF Inv, TypeOK
  <2>7. i \in DOMAIN entry'
    BY DEF Misattributed, AssignedBy
  <2>8. i \notin DOMAIN entry
    BY <2>1, <2>2, <2>5, <2>7 DEF Misattributed, AssignedBy
  <2>9. i = n
    BY <2>5, <2>6, <2>7, <2>8
  <2>10. r # i
    BY <2>1, <2>5, <2>7, <2>9 DEF Misattributed, AssignedBy
  <2>11. CASE i < r
    <3>1. entry \in Seq(Nat)
      BY <2>6, SeqMonotonic
    <3>2. PICK j \in 1 .. n : j \notin Range(entry)
      BY <3>1, Missed
    <3>3. j \in DOMAIN row /\ j < r
      BY <2>5, <2>6, <2>9, <2>11, <3>2
    <3> QED BY <2>5, <3>2, <3>3
  <2>12. CASE r < i
    <3>1. entry \in Seq(Nat \ {0})
      <4>1. DOMAIN row \subseteq Nat \ {0}
        BY <2>6
      <4> QED BY <2>6, <4>1, SeqMonotonic
    <3>2. r \in 1 .. Len(entry) /\ IsInjective(entry)
      BY <2>5, <2>6, <2>9, <2>12 DEF Inv, EntriesOnce
    <3>3. PICK k \in Range(entry) : r < k
      BY <2>5, <3>1, <3>2, Spread
    <3>4. k \in DOMAIN row
      BY <2>2 DEF Range
    <3> QED BY <2>5, <3>3, <3>4
  <2> QED BY <2>5, <2>6, <2>9, <2>10, <2>11, <2>12
<1> QED BY <1>1, InvInit, InvNext, PTL DEF Spec, AssignedByRight
=============================================================================
