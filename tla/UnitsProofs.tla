----------------------------- MODULE UnitsProofs -----------------------------
(* Proofs about departments and locations, for any number of units, devices,  *)
(* employees and requests in flight.                                          *)
EXTENDS Units, TLAPS

Links == [department : Department \cup {None}, location : Location \cup {None}]

\* A request moves units of one table, and syncs devices to departments.
Fitting ==
  \A p \in Proc :
    /\ req[p].pc \in {"target", "move", "remove"} =>
         /\ req[p].unit \in UnitsOf(req[p].kind)
         /\ req[p].to \in UnitsOf(req[p].kind) \cup {None}
    /\ req[p].pc = "sync" => req[p].device \in Device /\ req[p].to \in Department

-----------------------------------------------------------------------------
(* Rows of the column pair                                                    *)

LEMMA LinkColumns ==
  ASSUME TypeOK, NEW o \in Owner, NEW k \in Kind
  PROVE  link[o][k] \in UnitsOf(k) \cup {None}
  BY DEF TypeOK, Kind, UnitsOf

LEMMA KindsApart ==
  ASSUME NEW j \in Kind, NEW k \in Kind, j # k
  PROVE  UnitsOf(j) \cap UnitsOf(k) = {}
  BY KindAssumption DEF Kind, UnitsOf

\* One column of one row is written.
Written(o, k, u) == [link EXCEPT ![o][k] = u]

LEMMA ColumnWritten ==
  ASSUME TypeOK, NEW o \in Owner, NEW k \in Kind, NEW u \in UnitsOf(k) \cup {None},
         link' = Written(o, k, u)
  PROVE  /\ link' \in [Owner -> Links]
         /\ link'[o][k] = u
         /\ \A j \in Kind \ {k} : link'[o][j] = link[o][j]
         /\ \A r \in Owner \ {o} : link'[r] = link[r]
<1>1. CASE k = "department"
  BY <1>1 DEF Written, TypeOK, Links, Kind, UnitsOf
<1>2. CASE k = "location"
  BY <1>2 DEF Written, TypeOK, Links, Kind, UnitsOf
<1> QED BY <1>1, <1>2 DEF Kind

LEMMA MovedColumns ==
  ASSUME TypeOK, NEW p \in Proc, Fitting, req[p].pc = "remove"
  PROVE  /\ Moved(req[p]) \in [Owner -> Links]
         /\ \A o \in Owner : \A k \in Kind \ {req[p].kind} :
              Moved(req[p])[o][k] = link[o][k]
         /\ \A o \in Owner :
              Moved(req[p])[o][req[p].kind] =
                IF link[o][req[p].kind] # req[p].unit THEN link[o][req[p].kind]
                ELSE IF o \in Employee THEN None
                ELSE IF o \in req[p].found THEN req[p].to ELSE req[p].unit
         /\ \A o \in Owner : link[o][req[p].kind] # req[p].unit =>
              Moved(req[p])[o] = link[o]
<1> DEFINE r == req[p]
<1>1. r.kind \in Kind /\ r.unit \in UnitsOf(r.kind) /\ r.to \in UnitsOf(r.kind) \cup {None}
  BY DEF Fitting, TypeOK, Request
<1>2. CASE r.kind = "department"
  BY <1>1, <1>2 DEF Moved, TypeOK, Links, Kind, UnitsOf
<1>3. CASE r.kind = "location"
  BY <1>1, <1>3 DEF Moved, TypeOK, Links, Kind, UnitsOf
<1> QED BY <1>1, <1>2, <1>3 DEF Kind

-----------------------------------------------------------------------------
(* Types, and what the requests are about                                     *)

LEMMA IdleType == Idle \in Request
  BY DEF Idle, Request, Kind

LEMMA RequestType ==
  ASSUME TypeOK, NEW p \in Proc
  PROVE  /\ \A pc \in {"target", "move", "remove", "sync"} :
              Go(p, pc) => req' \in [Proc -> Request]
         /\ Reply(p) => req' \in [Proc -> Request]
         /\ \A r \in Request : Accept(p, r) => req' \in [Proc -> Request]
<1>1. \A pc \in {"target", "move", "remove", "sync"} : [req[p] EXCEPT !.pc = pc] \in Request
  BY DEF TypeOK, Request
<1> QED BY <1>1, IdleType DEF TypeOK, Go, Reply, Accept

\* A step that ends or leaves alone every request keeps them fitting.
LEMMA FittingKept ==
  ASSUME Fitting, \A p \in Proc : req'[p] = req[p] \/ req'[p] = Idle
  PROVE  Fitting'
  BY DEF Fitting, Idle

LEMMA Ended ==
  ASSUME TypeOK, Fitting, NEW p \in Proc, Reply(p)
  PROVE  req' \in [Proc -> Request] /\ Fitting'
<1>1. \A q \in Proc : req'[q] = req[q] \/ req'[q] = Idle
  BY DEF TypeOK, Reply
<1> QED BY <1>1, RequestType, FittingKept

Inv == TypeOK /\ Fitting /\ LinksLive

LEMMA InvInit == Init => Inv
<1> SUFFICES ASSUME Init PROVE Inv
  OBVIOUS
<1>1. link \in [Owner -> Links] /\ \A o \in Owner, k \in Kind : link[o][k] = None
  BY DEF Init, Links, Kind
<1>2. Fitting
  BY DEF Init, Fitting, Idle
<1> QED BY <1>1, <1>2, IdleType DEF Init, Inv, TypeOK, LinksLive, Links

\* Links that stay, or become links to units that are there, are live.
LEMMA LiveKept ==
  ASSUME Inv, unit' = unit,
         \A o \in Owner, k \in Kind :
           link'[o][k] = link[o][k] \/ ForeignKey(link'[o][k])
  PROVE  LinksLive'
  BY DEF Inv, LinksLive, ForeignKey

LEMMA CreateStep ==
  ASSUME Inv, NEW k \in Kind, Create(k)
  PROVE  Inv'
<1>1. UnitsOf(k) \subseteq Unit
  BY DEF UnitsOf, Unit
<1>2. PICK u \in Unit : unit[u] = "unused" /\ unit' = [unit EXCEPT ![u] = "live"]
  BY <1>1 DEF Create
<1>3. TypeOK'
  BY <1>2 DEF Create, Inv, TypeOK
<1>4. \A o \in Owner, j \in Kind : link[o][j] # None => link[o][j] \in Unit
  BY LinkColumns DEF Inv, UnitsOf, Unit
<1>5. LinksLive'
  BY <1>2, <1>4 DEF Create, Inv, TypeOK, LinksLive
<1> QED BY <1>3, <1>5 DEF Create, Inv, Fitting

LEMMA RegisterStep ==
  ASSUME Inv, NEW o \in Owner, Register(o)
  PROVE  Inv'
<1>1. PICK dept \in Department \cup {None}, loc \in Location \cup {None} :
        /\ ForeignKey(dept) /\ ForeignKey(loc)
        /\ link' = [link EXCEPT ![o] = [department |-> dept, location |-> loc]]
  BY DEF Register
<1>2. TypeOK'
  BY <1>1 DEF Register, Inv, TypeOK
<1>3. \A r \in Owner, k \in Kind :
        link'[r][k] = link[r][k] \/ ForeignKey(link'[r][k])
  BY <1>1 DEF Inv, TypeOK, Kind
<1> QED BY <1>2, <1>3, LiveKept DEF Register, Inv, Fitting

LEMMA RelinkStep ==
  ASSUME Inv, NEW o \in Owner, Relink(o)
  PROVE  Inv'
<1>1. PICK k \in Kind : \E u \in UnitsOf(k) \cup {None} :
        ForeignKey(u) /\ link' = [link EXCEPT ![o][k] = u]
  BY DEF Relink
<1>2. PICK u \in UnitsOf(k) \cup {None} :
        ForeignKey(u) /\ link' = Written(o, k, u)
  BY <1>1 DEF Written
<1>3. /\ link' \in [Owner -> Links] /\ link'[o][k] = u
      /\ \A j \in Kind \ {k} : link'[o][j] = link[o][j]
      /\ \A r \in Owner \ {o} : link'[r] = link[r]
  BY <1>2, ColumnWritten DEF Inv
<1>4. \A r \in Owner, j \in Kind : link'[r][j] = link[r][j] \/ ForeignKey(link'[r][j])
  BY <1>2, <1>3
<1> QED BY <1>3, <1>4, LiveKept DEF Relink, Inv, TypeOK, Links, Fitting

LEMMA SyncReadStep ==
  ASSUME Inv, NEW p \in Proc, SyncRead(p)
  PROVE  Inv'
<1>1. PICK d \in Device \cap rows, e \in Employee \cap rows :
        /\ link[e]["department"] # None
        /\ Accept(p, [Idle EXCEPT !.pc = "sync", !.device = d,
                                  !.to = link[e]["department"]])
  BY DEF SyncRead
<1> DEFINE r == [Idle EXCEPT !.pc = "sync", !.device = d, !.to = link[e]["department"]]
<1>2. link[e]["department"] \in Department
  BY <1>1 DEF Inv, TypeOK, Owner
<1>3. r \in Request /\ r.pc = "sync" /\ r.device = d /\ r.to = link[e]["department"]
  BY <1>1, <1>2 DEF Idle, Request, Kind, Unit
<1>4. req' \in [Proc -> Request] /\ req' = [req EXCEPT ![p] = r]
  BY <1>1, <1>3, RequestType DEF Inv, Accept
<1>5. \A q \in Proc : req'[q] = IF q = p THEN r ELSE req[q]
  BY <1>4 DEF Inv, TypeOK
<1>6. Fitting'
  BY <1>1, <1>2, <1>3, <1>5 DEF Inv, Fitting
<1> QED BY <1>4, <1>6 DEF SyncRead, tables, Inv, TypeOK, LinksLive

LEMMA SyncCommitStep ==
  ASSUME Inv, NEW p \in Proc, SyncCommit(p)
  PROVE  Inv'
<1>1. /\ req[p].device \in Device /\ req[p].to \in Department
      /\ req' \in [Proc -> Request] /\ Fitting'
  BY Ended DEF SyncCommit, Inv, Fitting
<1>2. CASE ForeignKey(req[p].to)
  <2>1. link' = Written(req[p].device, "department", req[p].to)
    BY <1>2 DEF SyncCommit, Written
  <2>2. req[p].device \in Owner /\ "department" \in Kind
        /\ req[p].to \in UnitsOf("department") \cup {None}
    BY <1>1 DEF Owner, Kind, UnitsOf
  <2>3. /\ link' \in [Owner -> Links]
        /\ link'[req[p].device]["department"] = req[p].to
        /\ \A j \in Kind \ {"department"} :
             link'[req[p].device][j] = link[req[p].device][j]
        /\ \A r \in Owner \ {req[p].device} : link'[r] = link[r]
    BY <2>1, <2>2, ColumnWritten DEF Inv
  <2>4. \A r \in Owner, j \in Kind :
          link'[r][j] = link[r][j] \/ ForeignKey(link'[r][j])
    BY <1>2, <2>3
  <2> QED BY <1>1, <2>3, <2>4, LiveKept DEF SyncCommit, Inv, TypeOK, Links
<1>3. CASE ~ForeignKey(req[p].to)
  BY <1>1, <1>3 DEF SyncCommit, Inv, TypeOK, LinksLive
<1> QED BY <1>2, <1>3

LEMMA DeleteReceiveStep ==
  ASSUME Inv, NEW p \in Proc, NEW k \in Kind, DeleteReceive(p, k)
  PROVE  Inv'
<1>1. PICK u \in UnitsOf(k), to \in UnitsOf(k) \cup {None} :
        Accept(p, [Idle EXCEPT !.pc = IF to = None THEN "move" ELSE "target",
                               !.kind = k, !.unit = u, !.to = to])
  BY DEF DeleteReceive
<1> DEFINE r == [Idle EXCEPT !.pc = IF to = None THEN "move" ELSE "target",
                             !.kind = k, !.unit = u, !.to = to]
<1>2. /\ r \in Request /\ r.pc \in {"move", "target"}
      /\ r.kind = k /\ r.unit = u /\ r.to = to
  BY DEF Idle, Request, Unit, UnitsOf
<1>3. req' \in [Proc -> Request] /\ req' = [req EXCEPT ![p] = r]
  BY <1>1, <1>2, RequestType DEF Inv, Accept
<1>4. \A q \in Proc : req'[q] = IF q = p THEN r ELSE req[q]
  BY <1>3 DEF Inv, TypeOK
<1>5. Fitting'
  BY <1>2, <1>4 DEF Inv, Fitting
<1> QED BY <1>3, <1>5 DEF DeleteReceive, tables, Inv, TypeOK, LinksLive

LEMMA DeleteTargetStep ==
  ASSUME Inv, NEW p \in Proc, DeleteTarget(p)
  PROVE  Inv'
<1>1. CASE Reply(p)
  BY <1>1, Ended DEF DeleteTarget, tables, Inv, TypeOK, LinksLive
<1>2. CASE Go(p, "move")
  <2>1. req' \in [Proc -> Request]
    BY <1>2, RequestType DEF Inv
  <2>2. \A q \in Proc : req'[q] = IF q = p THEN [req[p] EXCEPT !.pc = "move"] ELSE req[q]
    BY <1>2 DEF Go, Inv, TypeOK
  <2>3. Fitting'
    <3>1. [req[p] EXCEPT !.pc = "move"].kind = req[p].kind
          /\ [req[p] EXCEPT !.pc = "move"].unit = req[p].unit
          /\ [req[p] EXCEPT !.pc = "move"].to = req[p].to
          /\ [req[p] EXCEPT !.pc = "move"].pc = "move"
      BY DEF Inv, TypeOK, Request
    <3> QED BY <2>2, <3>1, ZenonT(30) DEF DeleteTarget, Inv, Fitting
  <2> QED BY <2>1, <2>3 DEF DeleteTarget, tables, Inv, TypeOK, LinksLive
<1> QED BY <1>1, <1>2 DEF DeleteTarget

LEMMA DeleteMoveStep ==
  ASSUME Inv, NEW p \in Proc, DeleteMove(p)
  PROVE  Inv'
<1>1. In(req[p].unit, req[p].kind) \in SUBSET Device
  BY DEF In
<1>2. req' \in [Proc -> Request]
  BY <1>1, ZenonT(30) DEF DeleteMove, Inv, TypeOK, Request
<1>3. /\ \A q \in Proc \ {p} : req'[q] = req[q]
      /\ req'[p].pc = "remove" /\ req'[p].kind = req[p].kind
      /\ req'[p].unit = req[p].unit /\ req'[p].to = req[p].to
  BY DEF DeleteMove, Inv, TypeOK, Request
<1>4. Fitting'
  BY <1>3 DEF DeleteMove, Inv, Fitting
<1> QED BY <1>2, <1>4 DEF DeleteMove, tables, Inv, TypeOK, LinksLive

LEMMA DeleteRemoveStep ==
  ASSUME Inv, NEW p \in Proc, DeleteRemove(p)
  PROVE  Inv'
<1> DEFINE r == req[p]
<1>1. req' \in [Proc -> Request] /\ Fitting'
  BY Ended DEF DeleteRemove, Inv
<1>2. CASE ~Commits(r)
  BY <1>1, <1>2 DEF DeleteRemove, Inv, TypeOK, LinksLive
<1>3. CASE Commits(r)
  <2>1. unit' = [unit EXCEPT ![r.unit] = "gone"] /\ link' = Moved(r)
    BY <1>3 DEF DeleteRemove
  <2>2. /\ r.kind \in Kind /\ r.unit \in UnitsOf(r.kind) /\ r.unit \in Unit
        /\ r.to \in UnitsOf(r.kind) \cup {None}
    BY DEF DeleteRemove, Inv, Fitting, TypeOK, Request, UnitsOf, Unit
  <2>3. /\ link' \in [Owner -> Links]
        /\ \A o \in Owner : \A k \in Kind \ {r.kind} : link'[o][k] = link[o][k]
        /\ \A o \in Owner :
              link'[o][r.kind] =
                IF link[o][r.kind] # r.unit THEN link[o][r.kind]
                ELSE IF o \in Employee THEN None
                ELSE IF o \in r.found THEN r.to ELSE r.unit
    BY <2>1, MovedColumns DEF DeleteRemove, Inv
  <2>4. TypeOK'
    BY <1>1, <2>1, <2>3 DEF DeleteRemove, Inv, TypeOK, Links
  <2>5. ASSUME NEW o \in Owner, NEW k \in Kind \ {r.kind}, link'[o][k] # None
        PROVE  unit'[link'[o][k]] = "live"
    <3>1. link'[o][k] = link[o][k] /\ link[o][k] \in UnitsOf(k)
      BY <2>3, <2>5, LinkColumns DEF Inv
    <3>2. link[o][k] # r.unit
      BY <2>2, <3>1, KindsApart
    <3> QED BY <2>1, <2>5, <3>1, <3>2 DEF Inv, TypeOK, LinksLive, UnitsOf, Unit
  <2>6. ASSUME NEW o \in Owner, link'[o][r.kind] # None
        PROVE  unit'[link'[o][r.kind]] = "live"
    <3>1. link'[o][r.kind] # r.unit
      <4>1. CASE o \in Device
        BY <1>3, <2>1, <4>1 DEF Commits
      <4>2. CASE o \in Employee
        BY <2>3, <4>2, <2>6, <2>2, NoneAssumption
      <4> QED BY <4>1, <4>2 DEF Owner
    <3>2. unit[link'[o][r.kind]] = "live"
      <4>1. CASE link[o][r.kind] # r.unit
        BY <2>2, <2>3, <2>6, <4>1 DEF Inv, LinksLive
      <4>2. CASE link[o][r.kind] = r.unit
        <5>1. o \in Device /\ o \in r.found /\ link'[o][r.kind] = r.to
          BY <2>3, <2>6, <3>1, <4>2 DEF Owner
        <5> QED BY <1>3, <2>6, <4>2, <5>1 DEF Commits, ForeignKey
      <4> QED BY <4>1, <4>2
    <3>3. link'[o][r.kind] \in Unit
      BY <2>2, <2>3, <2>6 DEF Links, Kind, Unit
    <3> QED BY <2>1, <3>1, <3>2, <3>3 DEF Inv, TypeOK
  <2>7. LinksLive'
    BY <2>5, <2>6 DEF LinksLive
  <2> QED BY <1>1, <2>4, <2>7 DEF Inv
<1> QED BY <1>2, <1>3

LEMMA InvNext == Inv /\ [Next]_vars => Inv'
<1> SUFFICES ASSUME Inv, [Next]_vars PROVE Inv'
  OBVIOUS
<1>0. Device \subseteq Owner /\ Employee \subseteq Owner
  BY DEF Owner
<1>1. CASE CreateDepartment \/ CreateLocation
  BY <1>1, CreateStep DEF CreateDepartment, CreateLocation, Kind
<1>2. CASE RegisterDevice \/ RegisterEmployee
  BY <1>0, <1>2, RegisterStep DEF RegisterDevice, RegisterEmployee
<1>3. CASE PatchDevice \/ PatchEmployee
  BY <1>0, <1>3, RelinkStep DEF PatchDevice, PatchEmployee
<1>4. ASSUME NEW p \in Proc, SyncRead(p) \/ SyncCommit(p) PROVE Inv'
  BY <1>4, SyncReadStep, SyncCommitStep
<1>5. ASSUME NEW p \in Proc, DeleteDepartment(p) \/ DeleteLocation(p) PROVE Inv'
  BY <1>5, DeleteReceiveStep DEF DeleteDepartment, DeleteLocation, Kind
<1>6. ASSUME NEW p \in Proc, DeleteTarget(p) \/ DeleteMove(p) \/ DeleteRemove(p)
      PROVE  Inv'
  BY <1>6, DeleteTargetStep, DeleteMoveStep, DeleteRemoveStep
<1>7. ASSUME NEW p \in Proc, Fail(p) PROVE Inv'
  BY <1>7, Ended DEF Fail, tables, Inv, TypeOK, LinksLive
<1>8. CASE UNCHANGED vars
  BY <1>8 DEF vars, Inv, TypeOK, Fitting, LinksLive
<1> QED BY <1>1, <1>2, <1>3, <1>4, <1>5, <1>6, <1>7, <1>8 DEF Next

(* Every column and every request keeps its type.                             *)
THEOREM TypeCorrect == Spec => []TypeOK
<1>1. Inv => TypeOK
  BY DEF Inv
<1> QED BY <1>1, InvInit, InvNext, PTL DEF Spec

(* No device and no employee ever has a unit that was deleted.                *)
THEOREM UnitsLive == Spec => []LinksLive
<1>1. Inv => LinksLive
  BY DEF Inv
<1> QED BY <1>1, InvInit, InvNext, PTL DEF Spec

-----------------------------------------------------------------------------
(* Which way the devices of a unit go                                         *)

\* The delete of a unit that commits moves its devices, and no other ones.
LEMMA RemoveMoves ==
  ASSUME Inv, NEW p \in Proc, DeleteRemove(p), Commits(req[p])
  PROVE  \A d \in Device :
           /\ link[d][req[p].kind] = req[p].unit => link'[d][req[p].kind] = req[p].to
           /\ link[d][req[p].kind] # req[p].unit => link'[d] = link[d]
<1>1. link' = Moved(req[p])
  BY DEF DeleteRemove
<1>2. /\ \A o \in Owner :
           link'[o][req[p].kind] =
             IF link[o][req[p].kind] # req[p].unit THEN link[o][req[p].kind]
             ELSE IF o \in Employee THEN None
             ELSE IF o \in req[p].found THEN req[p].to ELSE req[p].unit
      /\ \A o \in Owner : link[o][req[p].kind] # req[p].unit => link'[o] = link[o]
  BY <1>1, MovedColumns DEF DeleteRemove, Inv
<1>3. \A d \in Device : link'[d][req[p].kind] # req[p].unit
  BY <1>1 DEF Commits
<1> QED BY <1>2, <1>3, OwnerAssumption DEF Owner

(* A unit goes in the step that moves all its devices, and only those, to     *)
(* where the request said.                                                    *)
THEOREM DevicesGoAlong == Spec => DevicesFollow
<1> DEFINE Follows(u) == unit[u] = "live" /\ unit'[u] # "live" =>
       \E p \in Proc :
         /\ req[p].pc = "remove" /\ req[p].unit = u
         /\ \A d \in Device :
              /\ link[d][req[p].kind] = u => link'[d][req[p].kind] = req[p].to
              /\ link[d][req[p].kind] # u => link'[d] = link[d]
<1>1. Inv /\ [Next]_vars => [\A u \in Unit : Follows(u)]_vars
  <2> SUFFICES ASSUME Inv, Next, NEW u \in Unit, unit[u] = "live", unit'[u] # "live"
               PROVE  Follows(u)
    OBVIOUS
  <2>1. ~CreateDepartment /\ ~CreateLocation
    BY DEF CreateDepartment, CreateLocation, Create, Inv, TypeOK
  <2>2. unit' # unit
    OBVIOUS
  <2>3. PICK p \in Proc : DeleteRemove(p)
    BY <2>1, <2>2 DEF Next, RegisterDevice, RegisterEmployee, Register, PatchDevice,
         PatchEmployee, Relink, SyncRead, SyncCommit, DeleteDepartment,
         DeleteLocation, DeleteReceive, DeleteTarget, DeleteMove, Fail, tables
  <2>4. Commits(req[p]) /\ unit' = [unit EXCEPT ![req[p].unit] = "gone"]
    BY <2>2, <2>3 DEF DeleteRemove
  <2>5. req[p].unit = u /\ req[p].pc = "remove"
    BY <2>3, <2>4 DEF DeleteRemove, Inv, TypeOK
  <2> QED BY <2>3, <2>4, <2>5, RemoveMoves
<1> QED BY <1>1, InvInit, InvNext, PTL DEF Spec, DevicesFollow

(* No request but a delete that names no other unit leaves a device without   *)
(* one.                                                                       *)
THEOREM NobodyStranded == Spec => NeverStranded
<1> DEFINE Lost(d, k) == link[d][k] # None /\ link'[d][k] = None /\ req' # req =>
         \E p \in Proc : /\ req[p].pc = "remove" /\ req'[p].pc = "idle"
                         /\ req[p].unit = link[d][k] /\ req[p].to = None
<1>1. Inv /\ [Next]_vars => [\A d \in Device, k \in Kind : Lost(d, k)]_vars
  <2> SUFFICES ASSUME Inv, Next, NEW d \in Device, NEW k \in Kind,
                      link[d][k] # None, link'[d][k] = None, req' # req
               PROVE  Lost(d, k)
    OBVIOUS
  <2>0. d \in Owner
    BY DEF Owner
  <2>1. link' # link
    OBVIOUS
  <2>2. PICK p \in Proc : SyncCommit(p) \/ DeleteRemove(p)
    BY <2>1 DEF Next, CreateDepartment, CreateLocation, Create, RegisterDevice,
         RegisterEmployee, Register, PatchDevice, PatchEmployee, Relink, SyncRead,
         DeleteDepartment, DeleteLocation, DeleteReceive, DeleteTarget, DeleteMove,
         Fail, tables
  <2>3. CASE SyncCommit(p)
    <3>1. req[p].device \in Device /\ req[p].to \in Department
      BY <2>3 DEF SyncCommit, Inv, Fitting
    <3>2. link' = Written(req[p].device, "department", req[p].to)
      BY <2>1, <2>3 DEF SyncCommit, Written
    <3>3. req[p].device \in Owner /\ "department" \in Kind
          /\ req[p].to \in UnitsOf("department") \cup {None}
      BY <3>1 DEF Owner, Kind, UnitsOf
    <3>4. /\ link'[req[p].device]["department"] = req[p].to
          /\ \A j \in Kind \ {"department"} :
               link'[req[p].device][j] = link[req[p].device][j]
          /\ \A r \in Owner \ {req[p].device} : link'[r] = link[r]
      BY <3>2, <3>3, ColumnWritten DEF Inv
    <3> QED BY <2>0, <3>1, <3>4, NoneAssumption
  <2>4. CASE DeleteRemove(p)
    <3>1. Commits(req[p]) /\ link' = Moved(req[p])
      BY <2>1, <2>4 DEF DeleteRemove
    <3>2. k = req[p].kind
      BY <2>0, <2>4, <3>1, MovedColumns DEF DeleteRemove, Inv
    <3>3. req[p].unit = link[d][k] /\ req[p].to = None
      BY <2>4, <3>1, <3>2, RemoveMoves
    <3>4. req'[p].pc = "idle"
      BY <2>4 DEF DeleteRemove, Reply, Idle, Inv, TypeOK
    <3> QED BY <2>4, <3>3, <3>4 DEF DeleteRemove
  <2> QED BY <2>2, <2>3, <2>4
<1> QED BY <1>1, InvInit, InvNext, PTL DEF Spec, NeverStranded
=============================================================================
