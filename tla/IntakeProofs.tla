---------------------------- MODULE IntakeProofs -----------------------------
(* Proofs about the register of devices: what the audit log says of the       *)
(* devices that entered it, and the settings of the organisation, for any     *)
(* files, requests, departments and webhooks.                                 *)
EXTENDS Intake, Integers, FiniteSetTheorems, WellFoundedInduction, TLAPS

-----------------------------------------------------------------------------
(* What MapThenSumSet computes.  The library's induction takes a predicate as *)
(* a parameter; here a counterexample is a member of a set, and a least one   *)
(* is a contradiction.                                                        *)

LEMMA LeastNat ==
  ASSUME NEW T \in SUBSET Nat, T # {}
  PROVE  \E n \in T : \A m \in T : n <= m
<1> DEFINE Less == {r \in Nat \X Nat : r[1] < r[2]}
<1>1. IsWellFoundedOn(Less, Nat)
  BY NatLessThanWellFounded DEF OpToRel
<1>2. \E n \in T : \A m \in T : ~(<<m, n>> \in Less)
  <2> HIDE DEF Less
  <2> QED BY <1>1, WFMin
<1>3. \A m, n \in Nat : m < n => <<m, n>> \in Less
  OBVIOUS
<1>4. PICK n \in T : \A m \in T : ~(<<m, n>> \in Less)
  BY <1>2
<1> HIDE DEF Less
<1>5. \A m \in T : m \in Nat /\ n \in Nat /\ ~(m < n)
  BY <1>3, <1>4
<1> QED BY <1>5

LEMMA LeastSet ==
  ASSUME NEW S, IsFiniteSet(S), NEW T \in SUBSET (SUBSET S), T # {}
  PROVE  \E s \in T : \A t \in T : ~(t \subseteq s /\ t # s)
<1>1. IsWellFoundedOn(StrictSubsetOrdering(S), FiniteSubsetsOf(S))
  BY FS_StrictSubsetOrderingWellFounded
<1>2. T \subseteq FiniteSubsetsOf(S)
  BY FS_FiniteSubsetsOfFinite
<1>3. \E s \in T : \A t \in T : ~(<<t, s>> \in StrictSubsetOrdering(S))
  BY <1>1, <1>2, WFMin
<1> QED BY <1>3, FS_FiniteSubsetsOfFinite DEF StrictSubsetOrdering

\* The member MapThenSumSet takes out of s.
Pick(s) == CHOOSE x \in s : TRUE
\* The equation of the sum of the fields "made" of f, at the set s.
SumAt(f, it, s) ==
  it[s] = IF s = {} THEN 0 ELSE f[Pick(s)].made + it[s \ {Pick(s)}]
\* The recursive function behind the sum, and the one the library chooses.
Summing(f, S, it) == it = [s \in SUBSET S |->
    IF s = {} THEN 0 ELSE f[Pick(s)].made + it[s \ {Pick(s)}]]
Sum(f, S) == CHOOSE it : Summing(f, S, it)

LEMMA SumIs ==
  ASSUME NEW f, NEW S
  PROVE  MapThenSumSet(LAMBDA p : f[p].made, S) = Sum(f, S)[S]
  BY DEF MapThenSumSet, MapThenFoldSet, Sum, Summing, Pick

LEMMA SumExists ==
  ASSUME NEW S, IsFiniteSet(S), NEW f, \A p \in S : f[p].made \in Nat
  PROVE  \E it : Summing(f, S, it)
<1> DEFINE Good(n) == \E it \in [SUBSET S -> Nat] :
             \A s \in SUBSET S : Cardinality(s) <= n => SumAt(f, it, s)
<1>1. \A s \in SUBSET S : IsFiniteSet(s) /\ Cardinality(s) \in Nat
  BY FS_Subset, FS_CardinalityType
<1>2. \A s \in SUBSET S : s # {} =>
        /\ Pick(s) \in S /\ s \ {Pick(s)} \in SUBSET S
        /\ Cardinality(s \ {Pick(s)}) = Cardinality(s) - 1
  BY <1>1, FS_RemoveElement DEF Pick
<1>3. \A n \in Nat : Good(n)
  <2> SUFFICES ASSUME {n \in Nat : ~Good(n)} # {} PROVE FALSE
    OBVIOUS
  <2> HIDE DEF Good
  <2>1. PICK n \in Nat : ~Good(n) /\ \A m \in Nat : ~Good(m) => n <= m
    <3>1. \E n \in {k \in Nat : ~Good(k)} : \A m \in {k \in Nat : ~Good(k)} : n <= m
      BY LeastNat
    <3> QED BY <3>1
  <2>2. CASE n = 0
    <3> DEFINE it == [s \in SUBSET S |-> 0]
    <3>1. \A s \in SUBSET S : Cardinality(s) <= 0 => s = {}
      BY <1>1, FS_EmptySet
    <3>2. it \in [SUBSET S -> Nat] /\ \A s \in SUBSET S : Cardinality(s) <= 0 => SumAt(f, it, s)
      BY <3>1 DEF SumAt
    <3> QED BY <2>1, <2>2, <3>2 DEF Good
  <2>3. CASE n # 0
    <3>1. Good(n - 1)
      BY <2>1, <2>3
    <3>2. PICK it \in [SUBSET S -> Nat] :
            \A s \in SUBSET S : Cardinality(s) <= n - 1 => SumAt(f, it, s)
      BY <3>1 DEF Good
    <3> DEFINE up == [s \in SUBSET S |->
                       IF s = {} THEN 0 ELSE f[Pick(s)].made + it[s \ {Pick(s)}]]
    <3>3. up \in [SUBSET S -> Nat]
      BY <1>2
    <3>4. ASSUME NEW s \in SUBSET S, Cardinality(s) <= n PROVE SumAt(f, up, s)
      <4>1. CASE s = {}
        BY <4>1 DEF SumAt
      <4>2. CASE s # {}
        <5>1. up[s] = f[Pick(s)].made + it[s \ {Pick(s)}]
          BY <4>2
        <5>2. /\ s \ {Pick(s)} \in SUBSET S
              /\ Cardinality(s \ {Pick(s)}) <= n - 1
          BY <1>1, <1>2, <2>1, <3>4, <4>2
        <5>3. it[s \ {Pick(s)}] = up[s \ {Pick(s)}]
          BY <3>2, <5>2 DEF SumAt
        <5> QED BY <4>2, <5>1, <5>3 DEF SumAt
      <4> QED BY <4>1, <4>2
    <3> QED BY <2>1, <3>3, <3>4 DEF Good
  <2> QED BY <2>2, <2>3
<1>4. Cardinality(S) \in Nat /\ \A s \in SUBSET S : Cardinality(s) <= Cardinality(S)
  BY FS_CardinalityType, FS_Subset
<1>5. PICK it \in [SUBSET S -> Nat] : \A s \in SUBSET S : SumAt(f, it, s)
  BY <1>3, <1>4
<1>6. it = [s \in SUBSET S |->
         IF s = {} THEN 0 ELSE f[Pick(s)].made + it[s \ {Pick(s)}]]
  BY <1>5 DEF SumAt
<1> QED BY <1>6 DEF Summing

LEMMA SumStep ==
  ASSUME NEW S, IsFiniteSet(S), NEW f, \A p \in S : f[p].made \in Nat
  PROVE  \A s \in SUBSET S : SumAt(f, Sum(f, S), s)
<1>1. Summing(f, S, Sum(f, S))
  BY SumExists DEF Sum
<1> DEFINE it == Sum(f, S)
<1> HIDE DEF it
<1>2. it = [s \in SUBSET S |->
         IF s = {} THEN 0 ELSE f[Pick(s)].made + it[s \ {Pick(s)}]]
  BY <1>1 DEF Summing, it
<1>3. \A s \in SUBSET S : it[s] = IF s = {} THEN 0 ELSE f[Pick(s)].made + it[s \ {Pick(s)}]
  BY <1>2
<1> QED BY <1>3 DEF SumAt, it

LEMMA SumType ==
  ASSUME NEW S, IsFiniteSet(S), NEW f, \A p \in S : f[p].made \in Nat
  PROVE  \A s \in SUBSET S : Sum(f, S)[s] \in Nat
<1> DEFINE it == Sum(f, S)
           Bad == {s \in SUBSET S : it[s] \notin Nat}
<1>1. \A s \in SUBSET S : SumAt(f, it, s)
  BY SumStep
<1> HIDE DEF it
<1> SUFFICES ASSUME Bad # {} PROVE FALSE
  BY DEF it
<1>2. PICK s \in Bad : \A t \in Bad : ~(t \subseteq s /\ t # s)
  <2>1. Bad \in SUBSET (SUBSET S)
    OBVIOUS
  <2> HIDE DEF Bad
  <2> QED BY <2>1, LeastSet
<1>3. CASE s = {}
  <2>1. it[{}] = 0
    BY <1>1, {} \in SUBSET S DEF SumAt
  <2> QED BY <1>2, <1>3, <2>1
<1>4. CASE s # {}
  <2>1. Pick(s) \in s /\ s \ {Pick(s)} \in SUBSET S /\ s \ {Pick(s)} # s
    BY <1>4 DEF Pick
  <2>2. it[s \ {Pick(s)}] \in Nat
    BY <1>2, <2>1
  <2>3. it[s] = f[Pick(s)].made + it[s \ {Pick(s)}]
    BY <1>1, <1>4 DEF SumAt
  <2> QED BY <2>1, <2>2, <2>3
<1> QED BY <1>3, <1>4

LEMMA SumChange ==
  ASSUME NEW S, IsFiniteSet(S), NEW q \in S,
         NEW f, \A p \in S : f[p].made \in Nat,
         NEW g, \A p \in S : g[p].made \in Nat,
         \A p \in S \ {q} : g[p].made = f[p].made
  PROVE  Sum(g, S)[S] = Sum(f, S)[S] + g[q].made - f[q].made
<1> DEFINE itf == Sum(f, S)
           itg == Sum(g, S)
           gain(s) == IF q \in s THEN g[q].made - f[q].made ELSE 0
           Bad == {s \in SUBSET S : itg[s] # itf[s] + gain(s)}
<1>1. \A s \in SUBSET S : /\ SumAt(f, itf, s) /\ itf[s] \in Nat
                          /\ SumAt(g, itg, s) /\ itg[s] \in Nat
  BY SumStep, SumType
<1> HIDE DEF itf, itg
<1>2. Bad = {}
  <2> SUFFICES ASSUME Bad # {} PROVE FALSE
    OBVIOUS
  <2>1. PICK s \in Bad : \A t \in Bad : ~(t \subseteq s /\ t # s)
    <3>1. Bad \in SUBSET (SUBSET S)
      OBVIOUS
    <3> HIDE DEF Bad
    <3> QED BY <3>1, LeastSet
  <2>2. CASE s = {}
    <3>1. itf[{}] = 0 /\ itg[{}] = 0
      BY <1>1, {} \in SUBSET S DEF SumAt
    <3> QED BY <2>1, <2>2, <3>1
  <2>3. CASE s # {}
    <3>1. Pick(s) \in s /\ s \ {Pick(s)} \in SUBSET S /\ s \ {Pick(s)} # s
      BY <2>3 DEF Pick
    <3>2. itg[s \ {Pick(s)}] = itf[s \ {Pick(s)}] + gain(s \ {Pick(s)})
      BY <2>1, <3>1
    <3>3. /\ itf[s] = f[Pick(s)].made + itf[s \ {Pick(s)}]
          /\ itg[s] = g[Pick(s)].made + itg[s \ {Pick(s)}]
      BY <1>1, <2>3 DEF SumAt
    <3>4. g[Pick(s)].made + gain(s \ {Pick(s)}) = f[Pick(s)].made + gain(s)
      <4>1. CASE Pick(s) = q
        BY <3>1, <4>1
      <4>2. CASE Pick(s) # q
        BY <3>1, <4>2
      <4> QED BY <4>1, <4>2
    <3>5. /\ itf[s \ {Pick(s)}] \in Nat /\ f[Pick(s)].made \in Nat
          /\ g[Pick(s)].made \in Nat /\ gain(s \ {Pick(s)}) \in Int /\ gain(s) \in Int
      BY <1>1, <3>1
    <3> HIDE DEF gain
    <3>6. itg[s] = itf[s] + gain(s)
      BY <3>2, <3>3, <3>4, <3>5
    <3> QED BY <2>1, <3>6
  <2> QED BY <2>2, <2>3
<1>3. itg[S] = itf[S] + gain(S)
  BY <1>2
<1> QED BY <1>1, <1>3 DEF itf, itg

LEMMA SumOfNone ==
  ASSUME NEW S, IsFiniteSet(S), NEW f, \A p \in S : f[p].made = 0
  PROVE  Sum(f, S)[S] = 0
<1> DEFINE it == Sum(f, S)
           Bad == {s \in SUBSET S : it[s] # 0}
<1>1. \A s \in SUBSET S : SumAt(f, it, s)
  BY SumStep
<1> HIDE DEF it
<1>2. Bad = {}
  <2> SUFFICES ASSUME Bad # {} PROVE FALSE
    OBVIOUS
  <2>1. PICK s \in Bad : \A t \in Bad : ~(t \subseteq s /\ t # s)
    <3>1. Bad \in SUBSET (SUBSET S)
      OBVIOUS
    <3> HIDE DEF Bad
    <3> QED BY <3>1, LeastSet
  <2>2. s # {}
    BY <1>1, <2>1 DEF SumAt
  <2>3. Pick(s) \in s /\ s \ {Pick(s)} \in SUBSET S /\ s \ {Pick(s)} # s
    BY <2>2 DEF Pick
  <2>4. it[s \ {Pick(s)}] = 0
    BY <2>1, <2>3
  <2>5. it[s] = f[Pick(s)].made + it[s \ {Pick(s)}]
    BY <1>1, <2>2 DEF SumAt
  <2>6. f[Pick(s)].made = 0
    BY <2>3
  <2> QED BY <2>1, <2>4, <2>5, <2>6
<1> QED BY <1>2 DEF it

-----------------------------------------------------------------------------
(* Types.  A request counts what it made from its first device to its entry,  *)
(* an import that still runs has rows to do.                                  *)

Request ==
  [pc : {"idle", "check", "create", "log", "merge"}, todo : Seq(Row), made : Nat,
   seen : Hook \cup {None}, want : Wish]

Typed ==
  /\ live \in SUBSET Department
  /\ Registered \in SUBSET Serial
  /\ IsFiniteSet(Registered)
  /\ \A s \in Registered : device[s] \in live \cup {None}
  /\ recorded \in Nat
  /\ webhook \in Hook \cup {None}
  /\ req \in [Proc -> Request]
  /\ \A p \in Proc : /\ req[p].pc \in {"check", "create"} => req[p].todo # <<>>
                     /\ req[p].pc \in {"idle", "merge"} => req[p].made = 0

LEMMA IdleType == Idle \in Request
  BY DEF Idle, Request, Wish

LEMMA Setting ==
  ASSUME Typed, NEW p \in Proc, NEW r \in Request, req' = [req EXCEPT ![p] = r],
         r.pc \in {"check", "create"} => r.todo # <<>>,
         r.pc \in {"idle", "merge"} => r.made = 0
  PROVE  /\ req' \in [Proc -> Request]
         /\ req'[p] = r
         /\ \A q \in Proc \ {p} : req'[q] = req[q]
         /\ \A q \in Proc : /\ req'[q].pc \in {"check", "create"} => req'[q].todo # <<>>
                            /\ req'[q].pc \in {"idle", "merge"} => req'[q].made = 0
<1>1. /\ req' \in [Proc -> Request]
      /\ req'[p] = r
      /\ \A q \in Proc \ {p} : req'[q] = req[q]
  BY DEF Typed
<1> QED BY <1>1 DEF Typed

LEMMA ReplySets ==
  ASSUME Typed, NEW p \in Proc, Reply(p)
  PROVE  /\ req' \in [Proc -> Request]
         /\ req'[p] = Idle
         /\ \A q \in Proc \ {p} : req'[q] = req[q]
         /\ \A q \in Proc : /\ req'[q].pc \in {"check", "create"} => req'[q].todo # <<>>
                            /\ req'[q].pc \in {"idle", "merge"} => req'[q].made = 0
<1>1. Idle.pc = "idle" /\ Idle.made = 0
  BY DEF Idle
<1> QED BY <1>1, IdleType, Setting DEF Reply

\* A request moves on to its next row, or to its audit entry.
LEMMA NextRowType ==
  ASSUME NEW r \in Request, r.todo # <<>>
  PROVE  /\ NextRow(r) \in Request
         /\ NextRow(r).made = r.made
         /\ NextRow(r).pc \in {"check", "create"} => NextRow(r).todo # <<>>
         /\ NextRow(r).pc \in {"check", "log"}
<1>1. /\ r.todo \in Seq(Row) /\ Len(r.todo) \in Nat /\ Len(r.todo) # 0
      /\ Tail(r.todo) \in Seq(Row) /\ Len(Tail(r.todo)) = Len(r.todo) - 1
  BY DEF Request
<1>2. Len(r.todo) # 1 => Tail(r.todo) # <<>>
  <2> SUFFICES ASSUME Tail(r.todo) = <<>> PROVE Len(r.todo) = 1
    OBVIOUS
  <2>1. Len(<<>>) = 0
    OBVIOUS
  <2>2. Len(Tail(r.todo)) = 0
    BY <2>1
  <2> QED BY <1>1, <2>2
<1>3. /\ NextRow(r).todo = Tail(r.todo) /\ NextRow(r).made = r.made
      /\ NextRow(r).pc = IF Len(r.todo) = 1 THEN "log" ELSE "check"
  BY DEF NextRow, Request
<1>4. NextRow(r) \in Request
  BY <1>1 DEF NextRow, Request
<1> QED BY <1>2, <1>3, <1>4

\* A device enters the register.
LEMMA Enters ==
  ASSUME Typed, NEW row \in Row, CanCreate(row), device' = Created(row), UNCHANGED live
  PROVE  /\ Registered' \in SUBSET Serial /\ IsFiniteSet(Registered')
         /\ Cardinality(Registered') = Cardinality(Registered) + 1
         /\ \A s \in Registered' : device'[s] \in live' \cup {None}
<1>1. /\ row.serial \in Serial /\ row.serial \notin Registered
      /\ row.department \in live \cup {None}
  BY DEF CanCreate, Row
<1>2. Registered' = Registered \cup {row.serial}
  BY DEF Created, Registered
<1>3. \A s \in Registered' :
        device'[s] = IF s = row.serial THEN row.department ELSE device[s]
  BY <1>2 DEF Created
<1>4. /\ IsFiniteSet(Registered')
      /\ Cardinality(Registered') = Cardinality(Registered) + 1
  BY <1>1, <1>2, FS_AddElement DEF Typed
<1> QED BY <1>1, <1>2, <1>3, <1>4 DEF Typed

Unmoved == UNCHANGED <<live, device>>

LEMMA Stays ==
  ASSUME Typed, Unmoved
  PROVE  /\ Registered' = Registered /\ live' \in SUBSET Department
         /\ \A s \in Registered' : device'[s] \in live' \cup {None}
  BY DEF Typed, Unmoved, Registered

\* What a step of p enters in the register, and in the audit log or in the
\* count it will be written from.
Counts(p, n) ==
  /\ Cardinality(Registered') = Cardinality(Registered) + n
  /\ recorded' + req'[p].made = recorded + req[p].made + n

Loses(p) == UNCHANGED tables /\ req'[p] = Idle

Others(p) == \A q \in Proc \ {p} : req'[q] = req[q]

\* What the requests do, one lemma for each handler.
Outcome(p) ==
  /\ Typed' /\ Others(p)
  /\ (\E n \in {0, 1} : Counts(p, n)) \/ Loses(p)

LEMMA RecordedIs ==
  ASSUME Typed, NEW p \in Proc
  PROVE  /\ recorded \in Nat /\ req[p].made \in Nat /\ Cardinality(Registered) \in Nat
         /\ req[p] \in Request
  BY FS_CardinalityType DEF Typed, Request

LEMMA CreateOutcome ==
  ASSUME Typed, NEW p \in Proc, CreateDevice(p)
  PROVE  Outcome(p)
<1>1. PICK row \in Row :
        /\ CanCreate(row)
        /\ Accept(p, [Idle EXCEPT !.pc = "log", !.made = 1])
        /\ device' = Created(row)
        /\ UNCHANGED <<live, recorded, webhook>>
  BY DEF CreateDevice
<1> DEFINE r == [Idle EXCEPT !.pc = "log", !.made = 1]
<1>2. r \in Request /\ r.pc = "log" /\ r.made = 1
  BY IdleType DEF Idle, Request
<1>3. req[p].pc = "idle" /\ req' = [req EXCEPT ![p] = r]
  BY <1>1 DEF Accept
<1> HIDE DEF r
<1>4. /\ req' \in [Proc -> Request] /\ req'[p] = r /\ Others(p)
      /\ \A q \in Proc : /\ req'[q].pc \in {"check", "create"} => req'[q].todo # <<>>
                         /\ req'[q].pc \in {"idle", "merge"} => req'[q].made = 0
  BY <1>2, <1>3, Setting DEF Others
<1>5. Typed'
  BY <1>1, <1>4, Enters DEF Typed
<1>6. Counts(p, 1)
  BY <1>1, <1>2, <1>3, <1>4, Enters, RecordedIs DEF Counts, Typed
<1> QED BY <1>4, <1>5, <1>6 DEF Outcome

LEMMA ReceiveOutcome ==
  ASSUME Typed, NEW p \in Proc, ImportReceive(p)
  PROVE  Outcome(p)
<1>1. PICK n \in 1 .. MaxRows : \E file \in [1 .. n -> Row] :
        /\ Accept(p, [Idle EXCEPT !.pc = "check", !.todo = file])
        /\ UNCHANGED tables
  BY DEF ImportReceive
<1>2. PICK file \in [1 .. n -> Row] :
        /\ Accept(p, [Idle EXCEPT !.pc = "check", !.todo = file])
        /\ UNCHANGED tables
  BY <1>1
<1> DEFINE r == [Idle EXCEPT !.pc = "check", !.todo = file]
<1>3. file \in Seq(Row) /\ file # <<>>
  <2>1. n \in Nat /\ n # 0
    BY RowsAssumption
  <2>2. file \in Seq(Row) /\ Len(file) = n
    BY <2>1
  <2>3. Len(<<>>) = 0
    OBVIOUS
  <2> QED BY <2>1, <2>2, <2>3
<1>4. r \in Request /\ r.pc = "check" /\ r.made = 0 /\ r.todo = file
  BY <1>3, IdleType DEF Idle, Request
<1>5. req[p].pc = "idle" /\ req' = [req EXCEPT ![p] = r]
  BY <1>2 DEF Accept
<1> HIDE DEF r
<1>6. /\ req' \in [Proc -> Request] /\ req'[p] = r /\ Others(p)
      /\ \A q \in Proc : /\ req'[q].pc \in {"check", "create"} => req'[q].todo # <<>>
                         /\ req'[q].pc \in {"idle", "merge"} => req'[q].made = 0
  BY <1>3, <1>4, <1>5, Setting DEF Others
<1>7. Unmoved /\ UNCHANGED <<recorded, webhook>>
  BY <1>2 DEF Unmoved, tables
<1>8. Typed'
  BY <1>6, <1>7, Stays DEF Typed
<1>9. Counts(p, 0)
  BY <1>4, <1>5, <1>6, <1>7, Stays, RecordedIs DEF Counts, Typed
<1> QED BY <1>6, <1>8, <1>9 DEF Outcome

LEMMA CheckOutcome ==
  ASSUME Typed, NEW p \in Proc, ImportCheck(p)
  PROVE  Outcome(p)
<1>1. /\ req[p].pc = "check" /\ req[p] \in Request /\ req[p].todo # <<>>
      /\ Unmoved /\ UNCHANGED <<recorded, webhook>>
  BY RecordedIs DEF ImportCheck, Typed, Unmoved, tables
<1>2. \E r \in Request :
        /\ req' = [req EXCEPT ![p] = r] /\ r.made = req[p].made
        /\ r.pc \in {"check", "create"} => r.todo # <<>>
        /\ r.pc \in {"check", "create", "log"}
  <2>1. CASE req' = [req EXCEPT ![p].pc = "create"]
    <3> DEFINE r == [req[p] EXCEPT !.pc = "create"]
    <3>1. /\ r \in Request /\ r.made = req[p].made /\ r.pc = "create"
          /\ r.todo = req[p].todo
      BY <1>1 DEF Request
    <3>2. req' = [req EXCEPT ![p] = r]
      BY <2>1
    <3> HIDE DEF r
    <3> QED BY <1>1, <3>1, <3>2
  <2>2. CASE req' = [req EXCEPT ![p] = NextRow(@)]
    BY <1>1, <2>2, NextRowType
  <2> QED BY <2>1, <2>2 DEF ImportCheck
<1>3. PICK r \in Request :
        /\ req' = [req EXCEPT ![p] = r] /\ r.made = req[p].made
        /\ r.pc \in {"check", "create"} => r.todo # <<>>
        /\ r.pc \in {"check", "create", "log"}
  BY <1>2
<1>4. /\ req' \in [Proc -> Request] /\ req'[p] = r /\ Others(p)
      /\ \A q \in Proc : /\ req'[q].pc \in {"check", "create"} => req'[q].todo # <<>>
                         /\ req'[q].pc \in {"idle", "merge"} => req'[q].made = 0
  BY <1>3, Setting DEF Others
<1>5. Typed'
  BY <1>1, <1>4, Stays DEF Typed
<1>6. Counts(p, 0)
  BY <1>1, <1>3, <1>4, Stays, RecordedIs DEF Counts
<1> QED BY <1>4, <1>5, <1>6 DEF Outcome

LEMMA ImportOutcome ==
  ASSUME Typed, NEW p \in Proc, ImportCreate(p)
  PROVE  Outcome(p)
<1>1. /\ req[p].pc = "create" /\ req[p] \in Request /\ req[p].todo # <<>>
      /\ UNCHANGED <<live, recorded, webhook>>
  BY RecordedIs DEF ImportCreate, Typed
<1> DEFINE row == Head(req[p].todo)
<1>2. row \in Row
  BY <1>1 DEF Request
<1> HIDE DEF row
<1>3. CASE CanCreate(row)
  <2> DEFINE more == [req[p] EXCEPT !.made = @ + 1]
  <2>1. /\ more \in Request /\ more.todo # <<>> /\ more.made = req[p].made + 1
    BY <1>1 DEF Request
  <2>2. /\ device' = Created(row)
        /\ req' = [req EXCEPT ![p] = NextRow(more)]
    <3>1. IF CanCreate(Head(req[p].todo))
          THEN /\ device' = Created(Head(req[p].todo))
               /\ req' = [req EXCEPT ![p] =
                            NextRow([req[p] EXCEPT !.made = req[p].made + 1])]
          ELSE /\ req' = [req EXCEPT ![p] = NextRow(req[p])]
               /\ UNCHANGED device
      BY DEF ImportCreate
    <3>2. more = [req[p] EXCEPT !.made = req[p].made + 1] /\ row = Head(req[p].todo)
      BY DEF row
    <3> HIDE DEF more
    <3> QED BY <1>3, <3>1, <3>2
  <2> HIDE DEF more
  <2>3. /\ NextRow(more) \in Request /\ NextRow(more).made = req[p].made + 1
        /\ NextRow(more).pc \in {"check", "create"} => NextRow(more).todo # <<>>
        /\ NextRow(more).pc \in {"check", "log"}
    BY <2>1, NextRowType
  <2>4. /\ req' \in [Proc -> Request] /\ req'[p] = NextRow(more) /\ Others(p)
        /\ \A q \in Proc : /\ req'[q].pc \in {"check", "create"} => req'[q].todo # <<>>
                           /\ req'[q].pc \in {"idle", "merge"} => req'[q].made = 0
    BY <2>2, <2>3, Setting DEF Others
  <2>5. Typed'
    BY <1>1, <1>2, <1>3, <2>2, <2>4, Enters DEF Typed
  <2>6. Counts(p, 1)
    BY <1>1, <1>2, <1>3, <2>2, <2>3, <2>4, Enters, RecordedIs DEF Counts
  <2> QED BY <2>4, <2>5, <2>6 DEF Outcome
<1>4. CASE ~CanCreate(row)
  <2>1. Unmoved /\ req' = [req EXCEPT ![p] = NextRow(req[p])]
    BY <1>1, <1>4 DEF ImportCreate, row, Unmoved
  <2>2. /\ NextRow(req[p]) \in Request /\ NextRow(req[p]).made = req[p].made
        /\ NextRow(req[p]).pc \in {"check", "create"} => NextRow(req[p]).todo # <<>>
        /\ NextRow(req[p]).pc \in {"check", "log"}
    BY <1>1, NextRowType
  <2>3. /\ req' \in [Proc -> Request] /\ req'[p] = NextRow(req[p]) /\ Others(p)
        /\ \A q \in Proc : /\ req'[q].pc \in {"check", "create"} => req'[q].todo # <<>>
                           /\ req'[q].pc \in {"idle", "merge"} => req'[q].made = 0
    BY <2>1, <2>2, Setting DEF Others
  <2>4. Typed'
    BY <1>1, <2>1, <2>3, Stays DEF Typed
  <2>5. Counts(p, 0)
    BY <1>1, <2>1, <2>2, <2>3, Stays, RecordedIs DEF Counts
  <2> QED BY <2>3, <2>4, <2>5 DEF Outcome
<1> QED BY <1>3, <1>4

LEMMA LogOutcome ==
  ASSUME Typed, NEW p \in Proc, Log(p)
  PROVE  Outcome(p)
<1>1. /\ recorded' = recorded + req[p].made
      /\ Unmoved /\ webhook' = webhook /\ Reply(p)
  BY DEF Log, Unmoved
<1>2. /\ req' \in [Proc -> Request] /\ req'[p] = Idle /\ Others(p)
      /\ \A q \in Proc : /\ req'[q].pc \in {"check", "create"} => req'[q].todo # <<>>
                         /\ req'[q].pc \in {"idle", "merge"} => req'[q].made = 0
  BY <1>1, ReplySets DEF Others
<1>3. Typed'
  BY <1>1, <1>2, Stays, RecordedIs DEF Typed
<1>4. Idle.made = 0
  BY DEF Idle
<1>5. Counts(p, 0)
  BY <1>1, <1>2, <1>4, Stays, RecordedIs DEF Counts
<1> QED BY <1>2, <1>3, <1>5 DEF Outcome

LEMMA SettingsReceiveOutcome ==
  ASSUME Typed, NEW p \in Proc, SettingsReceive(p)
  PROVE  Outcome(p)
<1>1. PICK want \in Wish :
        /\ Accept(p, [Idle EXCEPT !.pc = "merge", !.want = want, !.seen = webhook])
        /\ UNCHANGED tables
  BY DEF SettingsReceive
<1> DEFINE r == [Idle EXCEPT !.pc = "merge", !.want = want, !.seen = webhook]
<1>2. r \in Request /\ r.pc = "merge" /\ r.made = 0
  BY IdleType DEF Idle, Request, Typed
<1>3. req[p].pc = "idle" /\ req' = [req EXCEPT ![p] = r]
  BY <1>1 DEF Accept
<1> HIDE DEF r
<1>4. /\ req' \in [Proc -> Request] /\ req'[p] = r /\ Others(p)
      /\ \A q \in Proc : /\ req'[q].pc \in {"check", "create"} => req'[q].todo # <<>>
                         /\ req'[q].pc \in {"idle", "merge"} => req'[q].made = 0
  BY <1>2, <1>3, Setting DEF Others
<1>5. Unmoved /\ UNCHANGED <<recorded, webhook>>
  BY <1>1 DEF Unmoved, tables
<1>6. Typed'
  BY <1>4, <1>5, Stays DEF Typed
<1>7. Counts(p, 0)
  <2>1. req[p].made = 0
    BY <1>3 DEF Typed
  <2> QED BY <1>2, <1>4, <1>5, <2>1, Stays, RecordedIs DEF Counts
<1> QED BY <1>4, <1>6, <1>7 DEF Outcome

LEMMA SettingsUpdateOutcome ==
  ASSUME Typed, NEW p \in Proc, SettingsUpdate(p)
  PROVE  Outcome(p)
<1>1. /\ req[p].pc = "merge" /\ Unmoved /\ recorded' = recorded
      /\ webhook' = Merged(req[p])
      /\ req' = [req EXCEPT ![p] = [Idle EXCEPT !.pc = "log"]]
  BY DEF SettingsUpdate, Unmoved
<1> DEFINE r == [Idle EXCEPT !.pc = "log"]
<1>2. r \in Request /\ r.pc = "log" /\ r.made = 0
  BY IdleType DEF Idle, Request
<1>3. webhook' \in Hook \cup {None}
  BY <1>1, RecordedIs DEF Merged, Request, Wish
<1>4. req' = [req EXCEPT ![p] = r]
  BY <1>1
<1> HIDE DEF r
<1>5. /\ req' \in [Proc -> Request] /\ req'[p] = r /\ Others(p)
      /\ \A q \in Proc : /\ req'[q].pc \in {"check", "create"} => req'[q].todo # <<>>
                         /\ req'[q].pc \in {"idle", "merge"} => req'[q].made = 0
  BY <1>2, <1>4, Setting DEF Others
<1>6. Typed'
  BY <1>1, <1>3, <1>5, Stays DEF Typed
<1>7. Counts(p, 0)
  <2>1. req[p].made = 0
    BY <1>1 DEF Typed
  <2>2. Registered' = Registered /\ recorded' = recorded
    BY <1>1, Stays
  <2> QED BY <1>2, <1>5, <2>1, <2>2, RecordedIs DEF Counts
<1> QED BY <1>5, <1>6, <1>7 DEF Outcome

LEMMA FailOutcome ==
  ASSUME Typed, NEW p \in Proc, Fail(p)
  PROVE  Outcome(p) /\ Loses(p)
<1>1. Reply(p) /\ UNCHANGED tables
  BY DEF Fail
<1>2. /\ req' \in [Proc -> Request] /\ req'[p] = Idle /\ Others(p)
      /\ \A q \in Proc : /\ req'[q].pc \in {"check", "create"} => req'[q].todo # <<>>
                         /\ req'[q].pc \in {"idle", "merge"} => req'[q].made = 0
  BY <1>1, ReplySets DEF Others
<1>3. Unmoved /\ UNCHANGED <<recorded, webhook>>
  BY <1>1 DEF tables, Unmoved
<1>4. Typed'
  BY <1>2, <1>3, Stays DEF Typed
<1> QED BY <1>1, <1>2, <1>4 DEF Outcome, Loses

LEMMA DepartmentOutcome ==
  ASSUME Typed, DeleteDepartment
  PROVE  Typed' /\ Registered' = Registered /\ UNCHANGED <<recorded, webhook, req>>
<1>1. PICK d \in live, to \in Department \cup {None} :
        /\ to \in (live \ {d}) \cup {None}
        /\ live' = live \ {d}
        /\ device' = [s \in Registered |-> IF device[s] = d THEN to ELSE device[s]]
  BY DEF DeleteDepartment
<1>2. UNCHANGED <<recorded, webhook, req>>
  BY DEF DeleteDepartment
<1>3. Registered' = Registered
  BY <1>1 DEF Registered
<1>4. \A s \in Registered' : device'[s] \in live' \cup {None}
  BY <1>1, <1>3 DEF Typed
<1> QED BY <1>1, <1>2, <1>3, <1>4 DEF Typed

\* A step is of one request, or of a department, or none.
LEMMA StepOutcome ==
  ASSUME Typed, [Next]_vars
  PROVE  /\ Typed'
         /\ \/ \E p \in Proc : Outcome(p)
            \/ Registered' = Registered /\ UNCHANGED <<recorded, req>>
<1>1. CASE DeleteDepartment
  BY <1>1, DepartmentOutcome
<1>2. ASSUME NEW p \in Proc,
             \/ CreateDevice(p)
             \/ ImportReceive(p) \/ ImportCheck(p) \/ ImportCreate(p) \/ Log(p)
             \/ SettingsReceive(p) \/ SettingsUpdate(p)
             \/ Fail(p)
      PROVE  Outcome(p)
  BY <1>2, CreateOutcome, ReceiveOutcome, CheckOutcome, ImportOutcome, LogOutcome,
     SettingsReceiveOutcome, SettingsUpdateOutcome, FailOutcome
<1>3. CASE UNCHANGED vars
  BY <1>3 DEF vars, Typed, Registered
<1> QED BY <1>1, <1>2, <1>3 DEF Next, Outcome

LEMMA AccountedIs ==
  Accounted = recorded + Sum(req, Proc)[Proc]
<1>1. MapThenSumSet(LAMBDA p : req[p].made, Proc) = Sum(req, Proc)[Proc]
  BY SumIs
<1> QED BY <1>1 DEF Accounted

LEMMA AccountedChange ==
  ASSUME Typed, Typed', NEW p \in Proc, Others(p)
  PROVE  Accounted' = Accounted + (recorded' + req'[p].made) - (recorded + req[p].made)
<1>1. /\ \A q \in Proc : req[q].made \in Nat
      /\ \A q \in Proc : req'[q].made \in Nat
      /\ recorded \in Nat /\ recorded' \in Nat
  BY RecordedIs DEF Typed, Request
<1>2. \A q \in Proc \ {p} : req'[q].made = req[q].made
  BY DEF Others
<1>3. Sum(req', Proc)[Proc] = Sum(req, Proc)[Proc] + req'[p].made - req[p].made
  BY <1>1, <1>2, ProcAssumption, SumChange
<1>4. Sum(req, Proc)[Proc] \in Nat
  BY <1>1, ProcAssumption, SumType
<1>5. (Accounted = recorded + Sum(req, Proc)[Proc])'
  BY AccountedIs, PTL
<1>6. Accounted' = recorded' + Sum(req', Proc)[Proc]
  BY <1>5
<1> QED BY <1>1, <1>3, <1>4, <1>6, AccountedIs

-----------------------------------------------------------------------------
(* The invariants                                                             *)

LEMMA InitTyped ==
  ASSUME Init
  PROVE  Typed /\ NeverOverstated
<1>1. Registered = {} /\ IsFiniteSet(Registered) /\ Cardinality(Registered) = 0
  BY FS_EmptySet DEF Init, Registered
<1>2. /\ req \in [Proc -> Request]
      /\ \A p \in Proc : req[p].pc = "idle" /\ req[p].made = 0
  BY IdleType DEF Init, Idle
<1>3. Sum(req, Proc)[Proc] = 0
  BY <1>2, ProcAssumption, SumOfNone
<1>4. Typed
  BY <1>1, <1>2 DEF Init, Typed
<1>5. Accounted = 0
  BY <1>3, AccountedIs DEF Init
<1> QED BY <1>1, <1>4, <1>5 DEF NeverOverstated

LEMMA NextKeeps ==
  ASSUME Typed, NeverOverstated, [Next]_vars
  PROVE  Typed' /\ NeverOverstated'
<1>1. Typed'
  BY StepOutcome
<1>2. Accounted \in Nat
  BY ProcAssumption, SumType, AccountedIs, RecordedIs DEF Typed
<1>3. Cardinality(Registered) \in Nat
  BY FS_CardinalityType DEF Typed
<1>4. ASSUME NEW p \in Proc, Outcome(p) PROVE NeverOverstated'
  <2>1. /\ recorded \in Nat /\ req[p].made \in Nat
        /\ recorded' \in Nat /\ req'[p].made \in Nat
    BY <1>1, RecordedIs DEF Typed, Request
  <2>2. Accounted' = Accounted + (recorded' + req'[p].made) - (recorded + req[p].made)
    BY <1>1, <1>4, AccountedChange DEF Outcome
  <2>3. CASE \E n \in {0, 1} : Counts(p, n)
    BY <1>2, <1>3, <2>1, <2>2, <2>3 DEF Counts, NeverOverstated
  <2>4. CASE Loses(p)
    <3>1. recorded' = recorded /\ Registered' = Registered /\ req'[p].made = 0
      BY <2>4 DEF Loses, tables, Registered, Idle
    <3> QED BY <1>2, <1>3, <2>1, <2>2, <3>1 DEF NeverOverstated
  <2> QED BY <1>4, <2>3, <2>4 DEF Outcome
<1>5. ASSUME Registered' = Registered, UNCHANGED <<recorded, req>>
      PROVE  NeverOverstated'
  <2>1. (Accounted = recorded + Sum(req, Proc)[Proc])'
    BY AccountedIs, PTL
  <2>2. Accounted' = Accounted
    BY <1>5, <2>1, AccountedIs
  <2> QED BY <1>5, <2>2 DEF NeverOverstated
<1> QED BY <1>1, <1>4, <1>5, StepOutcome

THEOREM Kept == Spec => [](Typed /\ NeverOverstated)
<1>1. Init => Typed /\ NeverOverstated
  BY InitTyped
<1>2. (Typed /\ NeverOverstated) /\ [Next]_vars => (Typed /\ NeverOverstated)'
  BY NextKeeps
<1> QED BY <1>1, <1>2, PTL DEF Spec

(* Every table and every request keeps its type: in particular no device is   *)
(* in a department that was deleted, whether while it was imported or since.  *)
THEOREM TypeCorrect == Spec => []TypeOK
<1>1. Typed => TypeOK
  BY DEF Typed, TypeOK, Request
<1> QED BY <1>1, Kept, PTL

(* However many imports of one file run at once, the audit entries of         *)
(* creation never count a device twice: the total of the entries written and  *)
(* of those to be written is at most the number of devices.                   *)
THEOREM AuditNeverOverstated == Spec => []NeverOverstated
  BY Kept, PTL

(* An entry falls short of the devices only when a request dies after it      *)
(* registered some and before it wrote its entry.                             *)
THEOREM AuditLosesOnlyTheDead == Spec => CountsLost
<1>1. ASSUME Typed, [Next]_vars
      PROVE  [Unrecorded' > Unrecorded =>
                \E p \in Proc : /\ req[p].made > 0 /\ req'[p] = Idle
                                /\ UNCHANGED tables]_vars
  <2>1. Typed'
    BY <1>1, StepOutcome
  <2> SUFFICES ASSUME Unrecorded' > Unrecorded
               PROVE  \E p \in Proc : /\ req[p].made > 0 /\ req'[p] = Idle
                                      /\ UNCHANGED tables
    OBVIOUS
  <2>2. Accounted \in Nat /\ Cardinality(Registered) \in Nat
    BY <1>1, ProcAssumption, SumType, AccountedIs, RecordedIs, FS_CardinalityType DEF Typed
  <2>3. CASE Registered' = Registered /\ UNCHANGED <<recorded, req>>
    <3>1. (Accounted = recorded + Sum(req, Proc)[Proc])'
      BY AccountedIs, PTL
    <3> QED BY <2>2, <2>3, <3>1, AccountedIs DEF Unrecorded
  <2>4. ASSUME NEW p \in Proc, Outcome(p)
        PROVE  /\ req[p].made > 0 /\ req'[p] = Idle
               /\ UNCHANGED tables
    <3>1. /\ recorded \in Nat /\ req[p].made \in Nat
          /\ recorded' \in Nat /\ req'[p].made \in Nat
      BY <1>1, <2>1, RecordedIs DEF Typed, Request
    <3>2. Accounted' = Accounted + (recorded' + req'[p].made) - (recorded + req[p].made)
      BY <1>1, <2>1, <2>4, AccountedChange DEF Outcome
    <3>3. CASE \E n \in {0, 1} : Counts(p, n)
      BY <2>2, <3>1, <3>2, <3>3 DEF Counts, Unrecorded
    <3>4. CASE Loses(p)
      <4>1. recorded' = recorded /\ Registered' = Registered /\ req'[p].made = 0
        BY <3>4 DEF Loses, tables, Registered, Idle
      <4> QED BY <2>2, <3>1, <3>2, <3>4, <4>1 DEF Unrecorded, Loses
    <3> QED BY <2>4, <3>3, <3>4 DEF Outcome
  <2> QED BY <1>1, <2>3, <2>4, StepOutcome
<1> QED BY <1>1, Kept, PTL DEF Spec, CountsLost

(* A PATCH of the settings that is about something else can put back a        *)
(* webhook that was replaced since it read it, and nothing else can change    *)
(* the webhook but a PATCH that asks for it.                                  *)
THEOREM WebhookChanges == Spec => WebhookKept
<1>1. ASSUME Typed, [Next]_vars
      PROVE  [webhook' # webhook =>
                \E p \in Proc :
                  /\ req[p].pc = "merge" /\ req'[p].pc = "log"
                  /\ \/ req[p].want = webhook'
                     \/ /\ req[p].want = "keep" /\ req[p].seen = webhook'
                        /\ req[p].seen # webhook]_vars
  <2> SUFFICES ASSUME webhook' # webhook
               PROVE  \E p \in Proc :
                        /\ req[p].pc = "merge" /\ req'[p].pc = "log"
                        /\ \/ req[p].want = webhook'
                           \/ /\ req[p].want = "keep" /\ req[p].seen = webhook'
                              /\ req[p].seen # webhook
    OBVIOUS
  <2>1. PICK p \in Proc : SettingsUpdate(p)
    BY <1>1 DEF Next, vars, tables, DeleteDepartment, CreateDevice, ImportReceive,
       ImportCheck, ImportCreate, Log, SettingsReceive, Fail
  <2>2. req[p].pc = "merge" /\ webhook' = Merged(req[p])
    BY <2>1 DEF SettingsUpdate
  <2>3. req'[p].pc = "log"
    BY <1>1, <2>1 DEF SettingsUpdate, Typed, Idle
  <2> QED BY <2>2, <2>3 DEF Merged
<1> QED BY <1>1, Kept, PTL DEF Spec, WebhookKept
=============================================================================
