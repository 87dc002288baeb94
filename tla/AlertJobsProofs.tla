-------------------------- MODULE AlertJobsProofs ---------------------------
(* Type correctness of AlertJobs, and that no device has two open alerts of   *)
(* one type.                                                                  *)
EXTENDS AlertJobs, TLAPS

(* Every variable keeps its type: a count of alerts never goes below zero.    *)
THEOREM TypeCorrect == Spec => []TypeOK
<1>1. Init => TypeOK
  BY OutageAssumption DEF Init, TypeOK, Idle, Place
<1>2. TypeOK /\ [Next]_vars => TypeOK'
  <2> SUFFICES ASSUME TypeOK, [Next]_vars PROVE TypeOK'
    OBVIOUS
  <2>1. ASSUME NEW t \in AlertType, JobStart(t) PROVE TypeOK'
    <3>1. Candidates(t) \in SUBSET Device
      BY DEF Candidates, Eligible, TypeOK
    <3> QED BY <2>1, <3>1 DEF JobStart, TypeOK
  <2>2. ASSUME NEW t \in AlertType, JobCreate(t) PROVE TypeOK'
    <3>1. PICK d \in job[t].todo :
            /\ open' = [open EXCEPT ![t][d] = @ + 1]
            /\ job' = [job EXCEPT ![t] = [pc |-> "notify", todo |-> @.todo \ {d}]]
      BY <2>2 DEF JobCreate
    <3>2. open' \in [AlertType -> [Device -> Nat]]
      BY <3>1 DEF TypeOK
    <3> QED BY <2>2, <3>1, <3>2 DEF JobCreate, TypeOK
  <2>3. ASSUME NEW t \in AlertType, JobNotify(t) PROVE TypeOK'
    <3>1. job' \in [AlertType -> [pc : {"idle", "create", "notify"}, todo : SUBSET Device]]
      BY <2>3 DEF JobNotify, Idle, TypeOK
    <3> QED BY <2>3, <3>1 DEF JobNotify, TypeOK
  <2>4. ASSUME NEW t \in AlertType, JobThrows(t) PROVE TypeOK'
    BY <2>4, OutageAssumption DEF JobThrows, Idle, TypeOK
  <2>5. ASSUME NEW d \in Device, AssignCommit(d) PROVE TypeOK'
    BY <2>5 DEF AssignCommit, Hand, Place, TypeOK
  <2>6. ASSUME NEW d \in Device, AssignResolve(d) PROVE TypeOK'
    BY <2>6 DEF AssignResolve, TypeOK
  <2>7. ASSUME NEW d \in Device, AssignThrows(d) PROVE TypeOK'
    BY <2>7, OutageAssumption DEF AssignThrows, TypeOK
  <2>8. ASSUME NEW d \in Device, ApproveAssign(d) PROVE TypeOK'
    BY <2>8 DEF ApproveAssign, Hand, Place, TypeOK
  <2>9. ASSUME NEW d \in Device,
               Unassign(d) \/ Offboard(d) \/ \E to \in Place : Patch(d, to)
        PROVE  TypeOK'
    BY <2>9 DEF Unassign, Offboard, Patch, Move, Place, TypeOK
  <2>10. ASSUME NEW d \in Device, Renew(d) PROVE TypeOK'
    BY <2>10 DEF Renew, TypeOK
  <2>11. ASSUME NEW t \in AlertType, NEW d \in Device, Resolve(t, d) PROVE TypeOK'
    <3>1. open[t][d] - 1 \in Nat
      BY <2>11 DEF Resolve, TypeOK
    <3>2. open' \in [AlertType -> [Device -> Nat]]
      BY <2>11, <3>1 DEF Resolve, TypeOK
    <3> QED BY <2>11, <3>2 DEF Resolve, TypeOK
  <2>12. ASSUME NEW t \in AlertType, NEW d \in Device, Elapses(t, d) PROVE TypeOK'
    BY <2>12 DEF Elapses, TypeOK
  <2>13. CASE UNCHANGED vars
    BY <2>13 DEF vars, TypeOK
  <2>14. CASE SetThreshold
    <3>1. PICK S \in SUBSET Device : due' = [due EXCEPT !["unassigned_device"] = S]
      BY <2>14 DEF SetThreshold
    <3>2. due' \in [AlertType -> SUBSET Device]
      BY <3>1 DEF TypeOK
    <3> QED BY <2>14, <3>2 DEF SetThreshold, TypeOK
  <2> QED BY <2>1, <2>2, <2>3, <2>4, <2>5, <2>6, <2>7, <2>8, <2>9, <2>10,
             <2>11, <2>12, <2>13, <2>14 DEF Next
<1> QED BY <1>1, <1>2, PTL DEF Spec

-----------------------------------------------------------------------------
(* Nothing but the run of that type raises an alert, so the devices it has    *)
(* left still have none when their turn comes, however old its list is.       *)
AlertInv ==
  /\ OneOpenAlert
  /\ \A t \in AlertType : \A d \in job[t].todo : open[t][d] = 0

(* No device ever has two open alerts of one type.                            *)
THEOREM AlertedOnce == Spec => []OneOpenAlert
<1>1. Init => AlertInv
  BY DEF Init, AlertInv, OneOpenAlert, Idle
<1>2. TypeOK /\ AlertInv /\ [Next]_vars => AlertInv'
  <2> SUFFICES ASSUME TypeOK, AlertInv, [Next]_vars PROVE AlertInv'
    OBVIOUS
  <2>0. ASSUME job' = job,
               \A u \in AlertType, c \in Device : open'[u][c] = open[u][c] \/ open'[u][c] = 0
        PROVE  AlertInv'
    <3>1. OneOpenAlert'
      BY <2>0 DEF AlertInv, OneOpenAlert
    <3>2. \A u \in AlertType : \A c \in job[u].todo : c \in Device
      BY DEF TypeOK
    <3>3. \A u \in AlertType : \A c \in job'[u].todo : open'[u][c] = 0
      BY <2>0, <3>2 DEF AlertInv
    <3> QED BY <3>1, <3>3 DEF AlertInv
  <2>1. ASSUME NEW t \in AlertType, JobStart(t) PROVE AlertInv'
    BY <2>1 DEF JobStart, Candidates, TypeOK, AlertInv, OneOpenAlert
  <2>2. ASSUME NEW t \in AlertType, JobCreate(t) PROVE AlertInv'
    <3>1. PICK d \in job[t].todo :
            /\ open' = [open EXCEPT ![t][d] = @ + 1]
            /\ job' = [job EXCEPT ![t] = [pc |-> "notify", todo |-> @.todo \ {d}]]
      BY <2>2 DEF JobCreate
    <3>2. d \in Device /\ open[t][d] = 0
      BY DEF TypeOK, AlertInv
    <3>3. open'[t][d] = 1
      BY <3>1, <3>2 DEF TypeOK
    <3>4. \A u \in AlertType, c \in Device : ~(u = t /\ c = d) => open'[u][c] = open[u][c]
      BY <3>1, <3>2 DEF TypeOK
    <3>5. OneOpenAlert'
      BY <3>3, <3>4 DEF AlertInv, OneOpenAlert
    <3>6. /\ job'[t].todo = job[t].todo \ {d}
          /\ \A u \in AlertType \ {t} : job'[u] = job[u]
      BY <3>1 DEF TypeOK
    <3>7. \A u \in AlertType : \A c \in job'[u].todo :
            c \in Device /\ c \in job[u].todo /\ ~(u = t /\ c = d)
      BY <3>6 DEF TypeOK
    <3> QED BY <3>4, <3>5, <3>7 DEF AlertInv
  <2>3. ASSUME NEW t \in AlertType, JobNotify(t) \/ JobThrows(t) PROVE AlertInv'
    <3>1. open' = open
      BY <2>3 DEF JobNotify, JobThrows
    <3>2. \A u \in AlertType \ {t} : job'[u] = job[u]
      BY <2>3 DEF JobNotify, JobThrows, TypeOK
    <3>3. job'[t].todo \subseteq job[t].todo
      <4>1. job'[t].todo = {} \/ job'[t] = [job[t] EXCEPT !.pc = "create"]
        <5>1. CASE JobNotify(t)
          BY <5>1 DEF JobNotify, Idle, TypeOK
        <5>2. CASE JobThrows(t)
          BY <5>2 DEF JobThrows, Idle, TypeOK
        <5> QED BY <2>3, <5>1, <5>2
      <4> QED BY <4>1 DEF TypeOK
    <3> QED BY <3>1, <3>2, <3>3 DEF AlertInv, OneOpenAlert
  <2>4. ASSUME NEW d \in Device, AssignResolve(d) \/ ApproveAssign(d) PROVE AlertInv'
    <3>1. job' = job /\ open' = [open EXCEPT !["unassigned_device"][d] = 0]
      BY <2>4 DEF AssignResolve, ApproveAssign
    <3>2. \A u \in AlertType, c \in Device : open'[u][c] = open[u][c] \/ open'[u][c] = 0
      BY <3>1 DEF TypeOK
    <3> QED BY <2>0, <3>1, <3>2
  <2>5. ASSUME NEW t \in AlertType, NEW d \in Device, Resolve(t, d) PROVE AlertInv'
    <3>1. open[t][d] = 1 /\ job' = job
      BY <2>5 DEF Resolve, TypeOK, AlertInv, OneOpenAlert
    <3>2. \A u \in AlertType, c \in Device : open'[u][c] = open[u][c] \/ open'[u][c] = 0
      BY <2>5, <3>1 DEF Resolve, TypeOK
    <3> QED BY <2>0, <3>1, <3>2
  <2>6. ASSUME open' = open, job' = job PROVE AlertInv'
    BY <2>6 DEF AlertInv, OneOpenAlert
  <2>7. ASSUME NEW d \in Device,
               \/ AssignCommit(d) \/ AssignThrows(d)
               \/ Unassign(d) \/ Offboard(d) \/ Renew(d)
               \/ \E to \in Place : Patch(d, to)
        PROVE  AlertInv'
    BY <2>6, <2>7 DEF AssignCommit, AssignThrows, Unassign, Offboard, Patch, Move, Renew
  <2>8. ASSUME NEW t \in AlertType, NEW d \in Device, Elapses(t, d) PROVE AlertInv'
    BY <2>6, <2>8 DEF Elapses
  <2>9. CASE UNCHANGED vars
    BY <2>6, <2>9 DEF vars
  <2>10. CASE SetThreshold
    BY <2>6, <2>10 DEF SetThreshold
  <2> QED BY <2>1, <2>2, <2>3, <2>4, <2>5, <2>7, <2>8, <2>9, <2>10 DEF Next
<1>3. AlertInv => OneOpenAlert
  BY DEF AlertInv
<1> QED BY <1>1, <1>2, <1>3, TypeCorrect, PTL DEF Spec
-----------------------------------------------------------------------------
(* A held device comes to have an unassigned alert only through a stale list  *)
(* of a run, or an assign request that fails before it resolves the alert.    *)
THEOREM StaleListOnly == Spec => HeldHasNoAlert
<1> DEFINE Blamed(d) == WronglyAlerted(d)' /\ ~WronglyAlerted(d) =>
      \/ d \in job["unassigned_device"].todo
      \/ d \in resolving /\ outages' # outages
<1>1. TypeOK /\ [Next]_vars => [\A d \in Device : Blamed(d)]_vars
  <2> SUFFICES ASSUME TypeOK, Next, NEW c \in Device PROVE Blamed(c)
    OBVIOUS
  <2>1. ASSUME place' = place, resolving' = resolving,
               \A d \in Device : open'["unassigned_device"][d] > 0
                                  => open["unassigned_device"][d] > 0
        PROVE  Blamed(c)
    BY <2>1 DEF WronglyAlerted
  <2>2. ASSUME NEW t \in AlertType,
               JobStart(t) \/ JobNotify(t) \/ JobThrows(t)
        PROVE  Blamed(c)
    BY <2>1, <2>2 DEF JobStart, JobNotify, JobThrows
  <2>3. ASSUME NEW t \in AlertType, JobCreate(t) PROVE Blamed(c)
    <3>1. PICK d \in job[t].todo : open' = [open EXCEPT ![t][d] = @ + 1]
      BY <2>3 DEF JobCreate
    <3>2. CASE t = "unassigned_device" /\ d = c
      BY <3>2
    <3>3. CASE ~(t = "unassigned_device" /\ d = c)
      <4>1. open'["unassigned_device"][c] = open["unassigned_device"][c]
        BY <3>1, <3>3 DEF TypeOK, AlertType
      <4> QED BY <2>3, <4>1 DEF JobCreate, WronglyAlerted
    <3> QED BY <3>2, <3>3
  <2>4. ASSUME NEW d \in Device, AssignCommit(d) PROVE Blamed(c)
    BY <2>4 DEF AssignCommit, Hand, WronglyAlerted, TypeOK
  <2>5. ASSUME NEW d \in Device, AssignResolve(d) PROVE Blamed(c)
    <3>1. CASE d = c
      <4>1. open'["unassigned_device"][c] = 0
        BY <2>5, <3>1 DEF AssignResolve, TypeOK, AlertType
      <4> QED BY <4>1 DEF WronglyAlerted
    <3>2. CASE d # c
      BY <2>5, <3>2 DEF AssignResolve, WronglyAlerted, TypeOK, AlertType
    <3> QED BY <3>1, <3>2
  <2>6. ASSUME NEW d \in Device, AssignThrows(d) PROVE Blamed(c)
    BY <2>6, OutageAssumption DEF AssignThrows, WronglyAlerted, TypeOK
  <2>7. ASSUME NEW d \in Device, ApproveAssign(d) PROVE Blamed(c)
    <3>1. CASE d = c
      <4>1. open'["unassigned_device"][c] = 0
        BY <2>7, <3>1 DEF ApproveAssign, TypeOK, AlertType
      <4> QED BY <4>1 DEF WronglyAlerted
    <3>2. CASE d # c
      BY <2>7, <3>2 DEF ApproveAssign, Hand, WronglyAlerted, TypeOK, AlertType
    <3> QED BY <3>1, <3>2
  <2>8. ASSUME NEW d \in Device,
               Unassign(d) \/ Offboard(d) \/ \E to \in Place : Patch(d, to)
        PROVE  Blamed(c)
    BY <2>8 DEF Unassign, Offboard, Patch, Move, WronglyAlerted, TypeOK
  <2>9. ASSUME NEW d \in Device, Renew(d) PROVE Blamed(c)
    BY <2>1, <2>9 DEF Renew
  <2>10. ASSUME NEW t \in AlertType, NEW d \in Device, Resolve(t, d) PROVE Blamed(c)
    <3>1. \A b \in Device : open'["unassigned_device"][b] > 0
                              => open["unassigned_device"][b] > 0
      BY <2>10 DEF Resolve, TypeOK, AlertType
    <3> QED BY <2>1, <2>10, <3>1 DEF Resolve
  <2>11. ASSUME NEW t \in AlertType, NEW d \in Device, Elapses(t, d) PROVE Blamed(c)
    BY <2>1, <2>11 DEF Elapses
  <2>12. CASE SetThreshold
    BY <2>1, <2>12 DEF SetThreshold
  <2> QED BY <2>2, <2>3, <2>4, <2>5, <2>6, <2>7, <2>8, <2>9, <2>10, <2>11,
             <2>12 DEF Next
<1> QED BY <1>1, TypeCorrect, PTL DEF Spec, HeldHasNoAlert
=============================================================================
