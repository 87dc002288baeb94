--------------------------- MODULE SessionsProofs ----------------------------
(* Proofs about accounts and sessions, for any number of requests in flight,  *)
(* tokens, passwords and failures.                                            *)
EXTENDS SessionsSignIns, FiniteSetTheorems, TLAPS

-----------------------------------------------------------------------------
(* The shape of the rows and of the requests: TypeOK without the bounds on    *)
(* passwords and failures, which no property below depends on.                *)

AccountShape == [active : BOOLEAN, password : Nat, attempts : Nat, locked : BOOLEAN]

TokenShape ==
  [state : {"absent", "live", "revoked", "expired", "deleted"},
   login : TokenId \cup {0}, password : Nat]

RequestShape ==
  [pc : PC, password : Nat, attempts : Nat,
   token : TokenId \cup {0}, reset : ResetId \cup {0}, rows : SUBSET ResetId,
   renew : BOOLEAN, set : SUBSET BOOLEAN, spared : SUBSET TokenId]

ShapeOK ==
  /\ account \in AccountShape
  /\ token \in [TokenId -> TokenShape]
  /\ reset \in [ResetId -> ResetState]
  /\ req \in [Proc -> RequestShape]

\* A token belongs to a sign-in that has issued one, and so does the token a
\* refresh is about.
LoginKnown ==
  /\ \A t \in TokenId : token[t].state # "absent" =>
       token[t].login \in TokenId /\ Started(token[t].login)
  /\ \A p \in Proc : req[p].pc \in {"refresh_user", "refresh_rotate"} =>
       req[p].token \in TokenId /\ token[req[p].token].state # "absent"
  /\ \A p \in Proc : req[p].pc = "reset_commit" => req[p].reset \in ResetId

Inv == ShapeOK /\ LoginKnown

LEMMA Replied ==
  ASSUME ShapeOK, NEW p \in Proc, Reply(p)
  PROVE  req'[p] = Idle /\ \A q \in Proc \ {p} : req'[q] = req[q]
  BY DEF ShapeOK, Reply

LEMMA Gone ==
  ASSUME ShapeOK, NEW p \in Proc, NEW pc, Go(p, pc)
  PROVE  /\ req'[p] = [req[p] EXCEPT !.pc = pc]
         /\ \A q \in Proc \ {p} : req'[q] = req[q]
  BY DEF ShapeOK, Go

LEMMA Accepted ==
  ASSUME ShapeOK, NEW p \in Proc, NEW r, Accept(p, r)
  PROVE  /\ req[p].pc = "idle" /\ req'[p] = r
         /\ \A q \in Proc \ {p} : req'[q] = req[q]
  BY DEF ShapeOK, Accept

\* What the handler p does, and what happens without one.
Login(p) == LoginReceive(p) \/ LoginFail(p) \/ LoginPass(p) \/ LoginIssue(p)
Refresh(p) == RefreshReceive(p) \/ RefreshUser(p) \/ RefreshRotate(p)
Forgot(p) == ForgotReceive(p) \/ ForgotSnapshot(p) \/ ForgotCommit(p)
Change(p) == \/ ResetReceive(p) \/ ResetCommit(p) \/ Revoke(p)
             \/ ChangeReceive(p) \/ ChangeCommit(p)
             \/ AdminReceive(p) \/ AdminRevoke(p) \/ AdminUpdate(p)
Step(p) == Login(p) \/ Refresh(p) \/ Forgot(p) \/ Change(p) \/ Fail(p)
Aside == \/ Logout \/ Unlock \/ CleanUp
         \/ \E t \in TokenId : Expire(t)
         \/ \E r \in ResetId : Lapse(r)

LEMMA NextIs == Next <=> (\E p \in Proc : Step(p)) \/ Aside
  BY DEF Next, Step, Login, Refresh, Forgot, Change, Aside

-----------------------------------------------------------------------------
(* The shape is kept *)

LEMMA IdleShape == Idle \in RequestShape
  BY DEF Idle, RequestShape, PC

LEMMA Keeping ==
  ASSUME ShapeOK, NEW p \in Proc,
         \/ Reply(p)
         \/ \E pc \in PC : Go(p, pc)
         \/ \E r \in RequestShape : Accept(p, r)
  PROVE  req' \in [Proc -> RequestShape]
  BY IdleShape DEF ShapeOK, RequestShape, Reply, Go, Accept

LEMMA TokenNew ==
  ASSUME ShapeOK, NEW n \in TokenId, NEW l \in TokenId, NEW w \in Nat
  PROVE  [token EXCEPT ![n] = [state |-> "live", login |-> l, password |-> w]]
           \in [TokenId -> TokenShape]
  BY DEF ShapeOK, TokenShape

LEMMA RotatedIs ==
  ASSUME ShapeOK, NEW t \in TokenId, NEW n \in TokenId, token[t].state # "absent",
         token[n].state = "absent"
  PROVE  /\ Rotated(t, n) \in [TokenId -> TokenShape]
         /\ Rotated(t, n)[t] = Ended(token[t])
         /\ Rotated(t, n)[n] = [state |-> "live", login |-> token[t].login,
                                password |-> token[t].password]
         /\ \A u \in TokenId \ {t, n} : Rotated(t, n)[u] = token[u]
<1>1. [state |-> "live", login |-> token[t].login, password |-> token[t].password]
        \in TokenShape
  BY DEF ShapeOK, TokenShape
<1>2. Ended(token[t]) \in TokenShape
  BY DEF Ended, ShapeOK, TokenShape
<1> QED BY <1>1, <1>2 DEF Rotated, ShapeOK

\* A rotation that writes has found both its tokens.
LEMMA RotatesTo ==
  ASSUME Inv, NEW p \in Proc, RefreshRotate(p), ~UNCHANGED token
  PROVE  /\ req[p].token \in TokenId /\ token[req[p].token].state # "absent"
         /\ \E n \in TokenId : /\ token[n].state = "absent"
                               /\ token' = Rotated(req[p].token, n)
  BY DEF RefreshRotate, NextToken, Inv, LoginKnown, At

LEMMA RevokedIs ==
  ASSUME ShapeOK
  PROVE  /\ AllRevoked \in [TokenId -> TokenShape]
         /\ \A t \in TokenId : /\ AllRevoked[t].state # "live"
                               /\ AllRevoked[t].state = "absent" <=> token[t].state = "absent"
                               /\ AllRevoked[t].login = token[t].login
                               /\ AllRevoked[t].password = token[t].password
                               /\ token[t].state # "live" => AllRevoked[t] = token[t]
  BY DEF AllRevoked, Ended, ShapeOK, TokenShape

LEMMA LoginShape ==
  ASSUME ShapeOK, NEW p \in Proc, Login(p)
  PROVE  ShapeOK'
<1> USE DEF ShapeOK
<1>1. CASE LoginReceive(p)
  <2>1. [Idle EXCEPT !.pc = "login_compare", !.password = account.password,
                     !.attempts = account.attempts] \in RequestShape
    BY IdleShape DEF RequestShape, AccountShape, PC, Issuing
  <2> QED BY <1>1, <2>1, Keeping DEF LoginReceive
<1>2. CASE LoginFail(p)
  <2>1. req[p].attempts + 1 \in Nat
    BY DEF RequestShape
  <2>2. account' \in AccountShape
    BY <1>2, <2>1, BoundAssumption DEF LoginFail, AccountShape
  <2> QED BY <1>2, <2>2, Keeping DEF LoginFail
<1>3. CASE LoginPass(p)
  <2>1. account' \in AccountShape
    BY <1>3 DEF LoginPass, AccountShape
  <2> QED BY <1>3, <2>1, Keeping DEF LoginPass, PC, Issuing
<1>4. CASE LoginIssue(p)
  <2>1. req[p].password \in Nat
    BY DEF RequestShape
  <2> QED BY <1>4, <2>1, TokenNew, Keeping DEF LoginIssue, NextToken
<1> QED BY <1>1, <1>2, <1>3, <1>4 DEF Login

LEMMA RefreshShape ==
  ASSUME Inv, NEW p \in Proc, Refresh(p)
  PROVE  ShapeOK'
<1> USE DEF Inv, ShapeOK
<1>1. CASE RefreshReceive(p)
  <2>1. \A t \in TokenId :
          [Idle EXCEPT !.pc = "refresh_user", !.token = t] \in RequestShape
    BY IdleShape DEF RequestShape, PC, Issuing
  <2> QED BY <1>1, <2>1, Keeping DEF RefreshReceive
<1>2. CASE RefreshUser(p)
  BY <1>2, Keeping DEF RefreshUser, PC, Issuing
<1>3. CASE RefreshRotate(p)
  <2>1. CASE UNCHANGED token
    BY <1>3, <2>1, Keeping DEF RefreshRotate
  <2>2. CASE ~UNCHANGED token
    <3>1. PICK n \in TokenId : token[n].state = "absent" /\ token' = Rotated(req[p].token, n)
      BY <1>3, <2>2, RotatesTo
    <3>2. req[p].token \in TokenId /\ token[req[p].token].state # "absent"
      BY <1>3, <2>2, RotatesTo
    <3>3. Rotated(req[p].token, n) \in [TokenId -> TokenShape]
      BY <3>1, <3>2, RotatedIs
    <3> QED BY <1>3, <3>1, <3>3, Keeping DEF RefreshRotate
  <2> QED BY <2>1, <2>2
<1> QED BY <1>1, <1>2, <1>3 DEF Refresh

LEMMA ForgotShape ==
  ASSUME ShapeOK, NEW p \in Proc, Forgot(p)
  PROVE  ShapeOK'
<1> USE DEF ShapeOK
<1>1. CASE ForgotReceive(p)
  <2>1. [Idle EXCEPT !.pc = "forgot_snapshot"] \in RequestShape
    BY IdleShape DEF RequestShape, PC
  <2> QED BY <1>1, <2>1, Keeping DEF ForgotReceive
<1>2. CASE ForgotSnapshot(p)
  <2>1. Outstanding \in SUBSET ResetId
    BY DEF Outstanding
  <2>2. "forgot_commit" \in PC /\ req[p] \in RequestShape
    BY DEF PC
  <2>3. [req[p] EXCEPT !.rows = Outstanding, !.pc = "forgot_commit"] \in RequestShape
    BY <2>1, <2>2 DEF RequestShape
  <2> QED BY <1>2, <2>3 DEF ForgotSnapshot
<1>3. CASE ForgotCommit(p)
  <2>1. reset' \in [ResetId -> ResetState]
    BY <1>3 DEF ForgotCommit, ResetState
  <2> QED BY <1>3, <2>1, Keeping DEF ForgotCommit
<1> QED BY <1>1, <1>2, <1>3 DEF Forgot

\* Where a revocation of an admin leads.
LEMMA AdminMoves ==
  ASSUME ShapeOK, NEW p \in Proc, AdminRevoke(p)
  PROVE  /\ req' \in [Proc -> RequestShape]
         /\ req[p].pc \in {"admin_revoke", "admin_end"}
         /\ req'[p].pc \in {"admin_end", "admin_update"}
         /\ req'[p].spared = Spared
         /\ req'[p].renew = req[p].renew /\ req'[p].set = req[p].set
         /\ req'[p].password = req[p].password /\ req'[p].attempts = req[p].attempts
         /\ \A q \in Proc \ {p} : req'[q] = req[q]
<1>1. PICK pc \in {"admin_end", "admin_update"} :
        req' = [req EXCEPT ![p] = [req[p] EXCEPT !.pc = pc, !.spared = Spared]]
  BY DEF AdminRevoke
<1>2. Spared \in SUBSET TokenId /\ pc \in PC
  BY DEF Spared, PC, Changing
<1>3. [req[p] EXCEPT !.pc = pc, !.spared = Spared] \in RequestShape
  <2>1. \A r \in RequestShape, c \in PC, S \in SUBSET TokenId :
          [r EXCEPT !.pc = c, !.spared = S] \in RequestShape
    BY DEF RequestShape
  <2>2. req[p] \in RequestShape
    BY DEF ShapeOK
  <2> QED BY <1>2, <2>1, <2>2
<1>4. /\ req'[p] = [req[p] EXCEPT !.pc = pc, !.spared = Spared]
      /\ \A q \in Proc \ {p} : req'[q] = req[q]
  BY <1>1 DEF ShapeOK
<1>5. /\ req'[p].pc = pc /\ req'[p].spared = Spared
      /\ req'[p].renew = req[p].renew /\ req'[p].set = req[p].set
      /\ req'[p].password = req[p].password /\ req'[p].attempts = req[p].attempts
  BY <1>4 DEF ShapeOK, RequestShape
<1>6. req[p].pc \in {"admin_revoke", "admin_end"}
  BY DEF AdminRevoke, At
<1> QED BY <1>1, <1>3, <1>4, <1>5, <1>6 DEF ShapeOK

LEMMA ChangeShape ==
  ASSUME ShapeOK, NEW p \in Proc, Change(p)
  PROVE  ShapeOK'
<1> USE DEF ShapeOK
<1>1. CASE ResetReceive(p)
  <2>1. \A r \in ResetId :
          [Idle EXCEPT !.pc = "reset_commit", !.reset = r] \in RequestShape
    BY IdleShape DEF RequestShape, PC, Changing
  <2> QED BY <1>1, <2>1, Keeping DEF ResetReceive
<1>2. NewPassword \in AccountShape
  BY DEF NewPassword, AccountShape
<1>3. CASE ResetCommit(p)
  <2>1. reset' \in [ResetId -> ResetState]
    BY <1>3 DEF ResetCommit, ResetState
  <2> QED BY <1>2, <1>3, <2>1, Keeping DEF ResetCommit, PC, Changing
<1>4. CASE Revoke(p)
  BY <1>4, RevokedIs, Keeping DEF Revoke
<1>5. CASE ChangeReceive(p)
  <2>1. [Idle EXCEPT !.pc = "change_commit"] \in RequestShape
    BY IdleShape DEF RequestShape, PC, Changing
  <2> QED BY <1>5, <2>1, Keeping DEF ChangeReceive
<1>6. CASE ChangeCommit(p)
  BY <1>2, <1>6, Keeping DEF ChangeCommit, PC, Changing
<1>7. CASE AdminReceive(p)
  <2>1. \A renew \in BOOLEAN, set \in {{}, {FALSE}, {TRUE}} :
          AdminFirst(renew, set) \in PC
    BY DEF AdminFirst, PC, Changing
  <2>2. \A renew \in BOOLEAN, set \in {{}, {FALSE}, {TRUE}} :
          [Idle EXCEPT !.pc = AdminFirst(renew, set),
                       !.renew = renew, !.set = set] \in RequestShape
    BY <2>1, IdleShape DEF RequestShape
  <2> QED BY <1>7, <2>2, Keeping DEF AdminReceive
<1>8. CASE AdminRevoke(p)
  BY <1>8, RevokedIs, AdminMoves DEF AdminRevoke
<1>9. CASE AdminUpdate(p)
  <2>1. (IF req[p].set = {} THEN account.active ELSE TRUE \in req[p].set) \in BOOLEAN
    <3>1. account.active \in BOOLEAN
      BY DEF AccountShape
    <3>2. (TRUE \in req[p].set) \in BOOLEAN
      OBVIOUS
    <3> QED BY <3>1, <3>2, Zenon
  <2>2. account.password + (IF req[p].renew THEN 1 ELSE 0) \in Nat
    BY DEF AccountShape
  <2>3. account.attempts \in Nat /\ account.locked \in BOOLEAN
    BY DEF AccountShape
  <2>4. account' \in AccountShape
    BY <1>9, <2>1, <2>2, <2>3 DEF AdminUpdate, AccountShape
  <2> QED BY <1>9, <2>4, Keeping DEF AdminUpdate
<1> QED BY <1>1, <1>3, <1>4, <1>5, <1>6, <1>7, <1>8, <1>9 DEF Change

LEMMA AsideShape ==
  ASSUME ShapeOK, Aside
  PROVE  ShapeOK'
<1> USE DEF ShapeOK
<1>1. CASE Logout \/ CleanUp \/ \E t \in TokenId : Expire(t)
  <2>1. token' \in [TokenId -> TokenShape]
    BY <1>1 DEF Logout, CleanUp, Expire, Ended, TokenShape
  <2> QED BY <1>1, <2>1 DEF Logout, CleanUp, Expire
<1>2. CASE Unlock
  BY <1>2 DEF Unlock, AccountShape
<1>3. CASE \E r \in ResetId : Lapse(r)
  BY <1>3 DEF Lapse, ResetState
<1> QED BY <1>1, <1>2, <1>3 DEF Aside

LEMMA ShapeStep ==
  ASSUME Inv, NEW p \in Proc, Step(p)
  PROVE  ShapeOK'
<1>1. CASE Fail(p)
  BY <1>1, Keeping DEF Fail, Inv, ShapeOK
<1> QED BY <1>1, LoginShape, RefreshShape, ForgotShape, ChangeShape DEF Step, Inv

-----------------------------------------------------------------------------
(* What a step does to the tokens *)

\* Nothing is absent again or gets another sign-in or password; a token that
\* has ended does not come back.
Ageing ==
  \A t \in TokenId : token[t].state # "absent" =>
    /\ token'[t].state # "absent"
    /\ token'[t].login = token[t].login
    /\ token'[t].password = token[t].password
    /\ token[t].state # "live" => token'[t].state # "live"

\* A token that was not there is issued by a sign-in or by a rotation.
Issued(p, n) ==
  /\ token[n].state = "absent"
  /\ \/ /\ LoginIssue(p)
        /\ token' = [token EXCEPT ![n] = [state |-> "live", login |-> n,
                                          password |-> req[p].password]]
     \/ /\ RefreshRotate(p)
        /\ req[p].token \in TokenId /\ token[req[p].token].state # "absent"
        /\ token' = Rotated(req[p].token, n)

Issues == \E p \in Proc : \E n \in TokenId : Issued(p, n)

\* No token is issued.
Silent == \A t \in TokenId : token[t].state = "absent" => token'[t] = token[t]

LEMMA TokenStep ==
  ASSUME Inv, Next
  PROVE  Ageing /\ (Issues \/ Silent)
<1> USE DEF Inv
<1>1. CASE UNCHANGED token
  BY <1>1 DEF Ageing, Silent
<1>2. ASSUME NEW p \in Proc, LoginIssue(p) PROVE Ageing /\ Issues
  BY <1>2 DEF LoginIssue, NextToken, Ageing, Issues, Issued, ShapeOK
<1>3. ASSUME NEW p \in Proc, RefreshRotate(p), ~UNCHANGED token PROVE Ageing /\ Issues
  <2>1. PICK n \in TokenId : token[n].state = "absent" /\ token' = Rotated(req[p].token, n)
    BY <1>3, RotatesTo
  <2>2. req[p].token \in TokenId /\ token[req[p].token].state # "absent"
    BY <1>3, RotatesTo
  <2>a. /\ Rotated(req[p].token, n)[req[p].token] = Ended(token[req[p].token])
        /\ \A u \in TokenId \ {req[p].token, n} : Rotated(req[p].token, n)[u] = token[u]
    BY <2>1, <2>2, RotatedIs
  <2>3. Issues
    BY <1>3, <2>1, <2>2 DEF Issues, Issued
  <2>4. ASSUME NEW t \in TokenId, token[t].state # "absent"
        PROVE  /\ token'[t].state # "absent"
               /\ token'[t].login = token[t].login
               /\ token'[t].password = token[t].password
               /\ token[t].state # "live" => token'[t].state # "live"
    <3>1. CASE t = req[p].token
      <4>1. token'[t] = Ended(token[t])
        BY <2>1, <2>a, <3>1
      <4> QED BY <2>4, <4>1 DEF Ended, ShapeOK, TokenShape
    <3>2. CASE t # req[p].token
      <4>1. token'[t] = token[t]
        <5>1. t \in TokenId \ {req[p].token, n}
          BY <2>1, <2>4, <3>2
        <5> QED BY <2>1, <2>a, <5>1
      <4> QED BY <2>4, <4>1
    <3> QED BY <3>1, <3>2
  <2>5. Ageing
    BY <2>4 DEF Ageing
  <2> QED BY <2>3, <2>5
<1>4. CASE token' = AllRevoked
  BY <1>4, RevokedIs DEF Ageing, Silent
<1>5. CASE Logout \/ CleanUp \/ \E t \in TokenId : Expire(t)
  BY <1>5 DEF Logout, CleanUp, Expire, Ended, Ageing, Silent, ShapeOK, TokenShape
<1>6. ASSUME NEW p \in Proc, Step(p), ~LoginIssue(p), ~RefreshRotate(p)
      PROVE  UNCHANGED token \/ token' = AllRevoked
  <2>1. CASE Login(p)
    BY <1>6, <2>1 DEF Login, LoginReceive, LoginFail, LoginPass
  <2>2. CASE Refresh(p)
    BY <1>6, <2>2 DEF Refresh, RefreshReceive, RefreshUser
  <2>3. CASE Forgot(p)
    BY <2>3 DEF Forgot, ForgotReceive, ForgotSnapshot, ForgotCommit
  <2>4. CASE Change(p)
    BY <2>4 DEF Change, ResetReceive, ResetCommit, Revoke, ChangeReceive,
       ChangeCommit, AdminReceive, AdminRevoke, AdminUpdate
  <2> QED BY <1>6, <2>1, <2>2, <2>3, <2>4 DEF Step, Fail
<1>7. Unlock \/ (\E r \in ResetId : Lapse(r)) => UNCHANGED token
  BY DEF Unlock, Lapse
<1> QED BY <1>1, <1>2, <1>3, <1>4, <1>5, <1>6, <1>7, NextIs DEF Aside

-----------------------------------------------------------------------------
(* The invariant *)

\* The token a rotation issues, and those it does not touch.
LEMMA IssuedIs ==
  ASSUME Inv, NEW p \in Proc, NEW n \in TokenId, Issued(p, n)
  PROVE  /\ \/ LoginIssue(p) /\ token'[n].login = n
            \/ /\ RefreshRotate(p)
               /\ req[p].token \in TokenId /\ token[req[p].token].state # "absent"
               /\ token'[n].login = token[req[p].token].login
               /\ token'[n].password = token[req[p].token].password
               /\ token'[req[p].token].state # "live"
         /\ token'[n].state = "live"
         /\ \A t \in TokenId : t # n /\ token[t].state = "absent" => token'[t] = token[t]
         /\ \A t \in TokenId : t # n /\ token'[t].state = "live" => token[t] = token'[t]
<1>1. CASE LoginIssue(p) /\ token' = [token EXCEPT ![n] =
             [state |-> "live", login |-> n, password |-> req[p].password]]
  BY <1>1 DEF Inv, ShapeOK
<1>2. CASE /\ RefreshRotate(p)
           /\ req[p].token \in TokenId /\ token[req[p].token].state # "absent"
           /\ token' = Rotated(req[p].token, n)
  <2>1. /\ token'[req[p].token] = Ended(token[req[p].token])
        /\ token'[n] = [state |-> "live", login |-> token[req[p].token].login,
                        password |-> token[req[p].token].password]
        /\ \A u \in TokenId \ {req[p].token, n} : token'[u] = token[u]
    BY <1>2, RotatedIs DEF Issued, Inv
  <2>2. token'[req[p].token].state # "live"
    BY <1>2, <2>1 DEF Ended, Inv, ShapeOK, TokenShape
  <2> QED BY <1>2, <2>1, <2>2
<1> QED BY <1>1, <1>2 DEF Issued

LEMMA KnownLogins ==
  ASSUME Inv, Next
  PROVE  /\ \A l \in TokenId : Started(l) => Started(l)'
         /\ \A t \in TokenId : token'[t].state # "absent" =>
              \E l \in TokenId : token'[t].login = l /\ Started(l)'
<1>1. \A l \in TokenId : Started(l) => Started(l)'
  BY TokenStep DEF Ageing, Started
<1>2. ASSUME NEW t \in TokenId, token[t].state # "absent"
      PROVE  \E l \in TokenId : token[t].login = l /\ token'[t].login = l /\ Started(l)'
  <2>1. token[t].login \in TokenId /\ Started(token[t].login)
    BY <1>2 DEF Inv, LoginKnown
  <2>2. token'[t].login = token[t].login
    BY <1>2, TokenStep DEF Ageing
  <2>3. PICK l \in TokenId : l = token[t].login
    BY <2>1
  <2>4. Started(l)'
    BY <1>1, <2>1, <2>3
  <2> QED BY <2>2, <2>3, <2>4
<1>3. ASSUME NEW p \in Proc, NEW n \in TokenId, Issued(p, n)
      PROVE  \E l \in TokenId : token'[n].login = l /\ Started(l)'
  <2>1. CASE token'[n].login = n
    BY <1>3, <2>1, IssuedIs DEF Started
  <2>2. CASE /\ req[p].token \in TokenId /\ token[req[p].token].state # "absent"
             /\ token'[n].login = token[req[p].token].login
    BY <1>2, <2>2
  <2> QED BY <1>3, <2>1, <2>2, IssuedIs
<1>4. ASSUME NEW t \in TokenId, token'[t].state # "absent"
      PROVE  \E l \in TokenId : token'[t].login = l /\ Started(l)'
  <2>1. CASE token[t].state # "absent"
    BY <1>2, <2>1
  <2>2. CASE token[t].state = "absent"
    <3>1. Issues
      BY <1>4, <2>2, TokenStep DEF Silent
    <3>2. PICK p \in Proc, n \in TokenId : Issued(p, n)
      BY <3>1 DEF Issues
    <3>3. t = n
      BY <1>4, <2>2, <3>2, IssuedIs
    <3> QED BY <1>3, <3>2, <3>3
  <2> QED BY <2>1, <2>2
<1> QED BY <1>1, <1>4

LEMMA KnownRequests ==
  ASSUME Inv, NEW p \in Proc, Step(p)
  PROVE  /\ \A q \in Proc \ {p} : req'[q] = req[q]
         /\ req'[p].pc \in {"refresh_user", "refresh_rotate"} =>
              req'[p].token \in TokenId /\ token[req'[p].token].state # "absent"
         /\ req'[p].pc = "reset_commit" =>
              req'[p].reset \in ResetId /\ reset[req'[p].reset] = "usable"
<1> DEFINE Goal == /\ \A q \in Proc \ {p} : req'[q] = req[q]
                   /\ req'[p].pc \in {"refresh_user", "refresh_rotate"} =>
                        req'[p].token \in TokenId /\ token[req'[p].token].state # "absent"
                   /\ req'[p].pc = "reset_commit" =>
                        req'[p].reset \in ResetId /\ reset[req'[p].reset] = "usable"
<1>1. CASE Reply(p)
  BY <1>1, Replied DEF Inv, Idle
<1>2. ASSUME NEW pc, pc \notin {"refresh_user", "refresh_rotate", "reset_commit"}, Go(p, pc)
      PROVE  Goal
  <2>1. /\ req'[p] = [req[p] EXCEPT !.pc = pc]
        /\ \A q \in Proc \ {p} : req'[q] = req[q]
    BY <1>2, Gone DEF Inv
  <2>2. req'[p].pc = pc
    BY <2>1 DEF Inv, ShapeOK, RequestShape
  <2> QED BY <1>2, <2>1, <2>2
<1>3. ASSUME NEW r, Accept(p, r),
             r.pc \notin {"refresh_user", "refresh_rotate", "reset_commit"}
      PROVE  Goal
  <2>1. req'[p] = r /\ \A q \in Proc \ {p} : req'[q] = req[q]
    BY <1>3, Accepted DEF Inv
  <2>2. req'[p].pc \notin {"refresh_user", "refresh_rotate", "reset_commit"}
    BY <1>3, <2>1
  <2> QED BY <2>1, <2>2
<1>4. CASE RefreshReceive(p)
  <2>1. PICK t \in TokenId :
          /\ token[t].state = "live"
          /\ Accept(p, [Idle EXCEPT !.pc = "refresh_user", !.token = t])
    BY <1>4 DEF RefreshReceive
  <2>2. /\ req'[p] = [Idle EXCEPT !.pc = "refresh_user", !.token = t]
        /\ \A q \in Proc \ {p} : req'[q] = req[q]
    BY <2>1, Accepted DEF Inv
  <2>3. req'[p].pc = "refresh_user" /\ req'[p].token = t
    BY <2>2 DEF Idle
  <2> QED BY <2>1, <2>2, <2>3
<1>5. CASE ResetReceive(p)
  <2>1. PICK r \in ResetId :
          /\ reset[r] = "usable"
          /\ Accept(p, [Idle EXCEPT !.pc = "reset_commit", !.reset = r])
    BY <1>5 DEF ResetReceive
  <2>2. /\ req'[p] = [Idle EXCEPT !.pc = "reset_commit", !.reset = r]
        /\ \A q \in Proc \ {p} : req'[q] = req[q]
    BY <2>1, Accepted DEF Inv
  <2>3. req'[p].pc = "reset_commit" /\ req'[p].reset = r
    BY <2>2 DEF Idle
  <2> QED BY <2>1, <2>2, <2>3
<1>6. CASE RefreshUser(p)
  <2>1. req[p].token \in TokenId /\ token[req[p].token].state # "absent"
    BY <1>6 DEF RefreshUser, At, Inv, LoginKnown
  <2>2. ASSUME Go(p, "refresh_rotate") PROVE Goal
    <3>1. /\ req'[p] = [req[p] EXCEPT !.pc = "refresh_rotate"]
          /\ \A q \in Proc \ {p} : req'[q] = req[q]
      BY <2>2, Gone DEF Inv
    <3>2. req'[p].pc = "refresh_rotate" /\ req'[p].token = req[p].token
      BY <3>1 DEF Inv, ShapeOK, RequestShape
    <3> QED BY <2>1, <3>1, <3>2
  <2> QED BY <1>1, <1>6, <2>2 DEF RefreshUser
<1>7. CASE Login(p)
  BY <1>1, <1>2, <1>3, <1>7 DEF Login, LoginReceive, LoginFail, LoginPass, LoginIssue, Idle
<1>8. CASE ForgotSnapshot(p)
  BY <1>8 DEF ForgotSnapshot, Inv, ShapeOK, RequestShape
<1>9. CASE Forgot(p)
  BY <1>1, <1>3, <1>8, <1>9 DEF Forgot, ForgotReceive, ForgotCommit, Idle
<1>10. CASE AdminReceive(p)
  <2>1. PICK renew \in BOOLEAN, set \in {{}, {FALSE}, {TRUE}} :
          Accept(p, [Idle EXCEPT !.pc = AdminFirst(renew, set),
                                 !.renew = renew, !.set = set])
    BY <1>10 DEF AdminReceive
  <2>2. AdminFirst(renew, set) \notin {"refresh_user", "refresh_rotate", "reset_commit"}
    BY DEF AdminFirst
  <2>3. [Idle EXCEPT !.pc = AdminFirst(renew, set), !.renew = renew, !.set = set].pc
          = AdminFirst(renew, set)
    BY DEF Idle
  <2> QED BY <1>3, <2>1, <2>2, <2>3
<1>11. CASE ResetCommit(p) \/ Revoke(p) \/ ChangeCommit(p) \/ AdminUpdate(p)
  BY <1>1, <1>2, <1>11 DEF ResetCommit, Revoke, ChangeCommit, AdminUpdate
<1>14. CASE AdminRevoke(p)
  BY <1>14, AdminMoves DEF Inv
<1>12. CASE ChangeReceive(p)
  BY <1>3, <1>12 DEF ChangeReceive, Idle
<1>13. CASE RefreshRotate(p) \/ Fail(p)
  BY <1>1, <1>13 DEF RefreshRotate, Fail
<1> QED BY <1>4, <1>5, <1>6, <1>7, <1>9, <1>10, <1>11, <1>12, <1>13, <1>14
        DEF Step, Refresh, Change

LEMMA InvInit == Init => Inv
<1> SUFFICES ASSUME Init PROVE Inv
  OBVIOUS
<1>1. ShapeOK
  BY IdleShape DEF Init, ShapeOK, AccountShape, TokenShape, ResetState
<1>2. LoginKnown
  BY DEF Init, LoginKnown, Idle
<1> QED BY <1>1, <1>2 DEF Inv

LEMMA InvNext == Inv /\ [Next]_vars => Inv'
<1> SUFFICES ASSUME Inv, [Next]_vars PROVE Inv'
  OBVIOUS
<1>1. CASE UNCHANGED vars
  BY <1>1 DEF vars, Inv, ShapeOK, LoginKnown, Started
<1>2. ASSUME NEW p \in Proc, Step(p), Next PROVE Inv'
  <2>1. ShapeOK'
    BY <1>2, ShapeStep
  <2>2. LoginKnown'
    BY <1>2, KnownLogins, KnownRequests, TokenStep DEF LoginKnown, Ageing, Inv, Started
  <2> QED BY <2>1, <2>2 DEF Inv
<1>3. ASSUME Aside, Next PROVE Inv'
  <2>1. ShapeOK'
    BY <1>3, AsideShape DEF Inv
  <2>2. req' = req
    BY <1>3 DEF Aside, Logout, Unlock, CleanUp, Expire, Lapse
  <2>3. LoginKnown'
    BY <1>3, <2>2, KnownLogins, TokenStep DEF LoginKnown, Ageing, Inv, Started
  <2> QED BY <2>1, <2>3 DEF Inv
<1> QED BY <1>1, <1>2, <1>3, NextIs

\* Where a request goes and what it takes with it.
LEMMA GoneTo ==
  ASSUME Inv, NEW p \in Proc, NEW pc, Go(p, pc)
  PROVE  /\ req'[p].pc = pc /\ req'[p].renew = req[p].renew
         /\ req'[p].password = req[p].password /\ req'[p].attempts = req[p].attempts
         /\ req'[p].token = req[p].token
         /\ \A q \in Proc \ {p} : req'[q] = req[q]
<1>1. /\ req'[p] = [req[p] EXCEPT !.pc = pc]
      /\ \A q \in Proc \ {p} : req'[q] = req[q]
  BY Gone DEF Inv
<1> QED BY <1>1 DEF Inv, ShapeOK, RequestShape

\* Where a step may lead that says nothing of what was read.
Elsewhere(pc) ==
  pc \notin {"login_compare", "login_issue", "refresh_user", "refresh_rotate",
             "admin_update"}

\* The steps after which a handler has read something.
LEMMA MoverElse ==
  ASSUME Inv, NEW p \in Proc, Step(p)
  PROVE  \/ Elsewhere(req'[p].pc)
         \/ LoginReceive(p) /\ req'[p].pc = "login_compare"
         \/ LoginPass(p) /\ req'[p].pc = "login_issue"
         \/ RefreshReceive(p) /\ req'[p].pc = "refresh_user"
         \/ /\ RefreshUser(p) /\ req'[p].pc = "refresh_rotate"
            /\ account.active /\ req'[p].token = req[p].token
         \/ /\ AdminReceive(p) /\ req'[p].pc = "admin_update"
            /\ ~req'[p].renew /\ FALSE \notin req'[p].set
         \/ AdminRevoke(p)
<1>1. ASSUME NEW pc, Elsewhere(pc), Go(p, pc) PROVE Elsewhere(req'[p].pc)
  BY <1>1, GoneTo
<1>2. ASSUME NEW r, Elsewhere(r.pc), Accept(p, r) PROVE Elsewhere(req'[p].pc)
  BY <1>2, Accepted DEF Inv
<1>3. CASE Reply(p)
  <2>1. req'[p].pc = "idle"
    BY <1>3, Replied DEF Inv, Idle
  <2> QED BY <2>1 DEF Elsewhere
<1>4. CASE ForgotSnapshot(p)
  <2>1. req'[p].pc = "forgot_commit"
    BY <1>4 DEF ForgotSnapshot, Inv, ShapeOK, RequestShape
  <2> QED BY <2>1 DEF Elsewhere
<1>5. Step(p) /\ ~Login(p) /\ ~Refresh(p) /\ ~Forgot(p) /\ ~Change(p) => Reply(p)
  BY DEF Step, Fail
<1>6. CASE Login(p)
  <2>1. CASE LoginReceive(p)
    <3>1. req'[p] = [Idle EXCEPT !.pc = "login_compare", !.password = account.password,
                                 !.attempts = account.attempts]
      BY <2>1, Accepted DEF LoginReceive, Inv
    <3> QED BY <2>1, <3>1 DEF Idle
  <2>2. CASE LoginPass(p)
    BY <2>2, GoneTo DEF LoginPass
  <2> QED BY <1>3, <1>6, <2>1, <2>2 DEF Login, LoginFail, LoginIssue
<1>7. CASE Refresh(p)
  <2>1. CASE RefreshRotate(p)
    BY <1>3, <2>1 DEF RefreshRotate
  <2>2. CASE RefreshUser(p) /\ ~account.active
    BY <1>3, <2>2 DEF RefreshUser
  <2>3. CASE RefreshUser(p) /\ account.active
    BY <2>3, GoneTo DEF RefreshUser
  <2>4. CASE RefreshReceive(p)
    <3>1. PICK t \in TokenId : Accept(p, [Idle EXCEPT !.pc = "refresh_user", !.token = t])
      BY <2>4 DEF RefreshReceive
    <3>2. req'[p] = [Idle EXCEPT !.pc = "refresh_user", !.token = t]
      BY <3>1, Accepted DEF Inv
    <3> QED BY <2>4, <3>2 DEF Idle
  <2> QED BY <1>7, <2>1, <2>2, <2>3, <2>4 DEF Refresh
<1>8. CASE Forgot(p)
  BY <1>2, <1>3, <1>4, <1>8 DEF Forgot, ForgotReceive, ForgotCommit, Idle, Elsewhere
<1>9. CASE ResetReceive(p)
  <2>1. PICK r \in ResetId : Accept(p, [Idle EXCEPT !.pc = "reset_commit", !.reset = r])
    BY <1>9 DEF ResetReceive
  <2>2. [Idle EXCEPT !.pc = "reset_commit", !.reset = r].pc = "reset_commit"
    BY DEF Idle
  <2> QED BY <1>2, <2>1, <2>2 DEF Elsewhere
<1>10. CASE ChangeReceive(p)
  <2>1. [Idle EXCEPT !.pc = "change_commit"].pc = "change_commit"
    BY DEF Idle
  <2> QED BY <1>2, <1>10, <2>1 DEF ChangeReceive, Elsewhere
<1>11. CASE ResetCommit(p) \/ ChangeCommit(p) \/ Revoke(p) \/ AdminUpdate(p)
  BY <1>1, <1>3, <1>11 DEF ResetCommit, ChangeCommit, Revoke, AdminUpdate, Elsewhere
<1>12. CASE AdminReceive(p)
  <2>1. PICK renew \in BOOLEAN, set \in {{}, {FALSE}, {TRUE}} :
          Accept(p, [Idle EXCEPT !.pc = AdminFirst(renew, set),
                                 !.renew = renew, !.set = set])
    BY <1>12 DEF AdminReceive
  <2>2. /\ req'[p].pc = AdminFirst(renew, set)
        /\ req'[p].renew = renew /\ req'[p].set = set
    <3>1. req'[p] = [Idle EXCEPT !.pc = AdminFirst(renew, set),
                                 !.renew = renew, !.set = set]
      BY <2>1, Accepted DEF Inv
    <3> QED BY <3>1 DEF Idle
  <2>3. CASE renew \/ FALSE \in set
    BY <2>2, <2>3 DEF AdminFirst, Elsewhere
  <2>4. CASE ~renew /\ FALSE \notin set
    BY <1>12, <2>2, <2>4 DEF AdminFirst
  <2> QED BY <2>3, <2>4
<1> QED BY <1>3, <1>5, <1>6, <1>7, <1>8, <1>9, <1>10, <1>11, <1>12 DEF Change

\* Who refreshes a token has it from a request that found it live.
LEMMA RefreshKnown ==
  ASSUME Inv, Next, NEW q \in Proc, Refreshing(q)'
  PROVE  \/ /\ Refreshing(q) /\ req'[q].token = req[q].token
            /\ req[q].token \in TokenId
            /\ token'[req[q].token].login = token[req[q].token].login
         \/ \E t \in TokenId : /\ RefreshReceive(q) /\ req'[q].token = t
                               /\ token[t].state = "live" /\ UNCHANGED token
<1>1. CASE req'[q] = req[q]
  <2>1. Refreshing(q)
    BY <1>1 DEF Refreshing
  <2>2. req[q].token \in TokenId /\ token[req[q].token].state # "absent"
    BY <2>1 DEF Refreshing, Inv, LoginKnown
  <2> QED BY <1>1, <2>1, <2>2, TokenStep DEF Ageing
<1>2. CASE Step(q)
  <2>1. CASE RefreshReceive(q)
    <3>1. PICK t \in TokenId :
            /\ token[t].state = "live"
            /\ Accept(q, [Idle EXCEPT !.pc = "refresh_user", !.token = t])
      BY <2>1 DEF RefreshReceive
    <3>2. req'[q] = [Idle EXCEPT !.pc = "refresh_user", !.token = t]
      BY <3>1, Accepted DEF Inv
    <3>3. req'[q].token = t
      BY <3>2 DEF Idle
    <3> QED BY <2>1, <3>1, <3>3 DEF RefreshReceive
  <2>2. CASE RefreshUser(q) /\ req'[q].token = req[q].token
    <3>1. req[q].pc = "refresh_user" /\ UNCHANGED token
      BY <2>2 DEF RefreshUser, At
    <3> QED BY <2>2, <3>1 DEF Refreshing, Inv, LoginKnown
  <2>3. CASE ~RefreshReceive(q) /\ ~(RefreshUser(q) /\ req'[q].token = req[q].token)
    BY <1>2, <2>3, MoverElse, AdminMoves DEF Elsewhere, Refreshing, Inv
  <2> QED BY <2>1, <2>2, <2>3
<1>3. Step(q) \/ req'[q] = req[q]
  <2>1. ASSUME NEW p \in Proc, Step(p), p # q PROVE req'[q] = req[q]
    BY <2>1, KnownRequests
  <2>2. Aside => req' = req
    BY DEF Aside, Logout, Unlock, CleanUp, Expire, Lapse
  <2> QED BY <2>1, <2>2, NextIs
<1> QED BY <1>1, <1>2, <1>3

\* Nobody can take up a sign-in that is over.
LEMMA OverStays ==
  ASSUME Inv, Next, NEW l \in TokenId, Over(l)
  PROVE  Over(l)'
<1>1. Started(l)'
  BY KnownLogins DEF Over
<1>2. ASSUME NEW t \in TokenId, token'[t].state = "live", token'[t].login = l PROVE FALSE
  <2>1. token[t].state = "absent"
    BY <1>2, TokenStep DEF Ageing, Over, Held
  <2>2. PICK p \in Proc, n \in TokenId : Issued(p, n)
    BY <1>2, <2>1, TokenStep DEF Issues, Silent
  <2>3. t = n
    BY <1>2, <2>1, <2>2, IssuedIs
  <2>4. n # l
    BY <2>1, <2>3 DEF Over, Started
  <2>5. RefreshRotate(p) /\ token[req[p].token].login = l
    BY <1>2, <2>2, <2>3, <2>4, IssuedIs
  <2>6. Busy(l)
    BY <2>5 DEF RefreshRotate, At, Busy, Refreshing
  <2> QED BY <2>6 DEF Over, Held
<1>3. ASSUME NEW q \in Proc, Refreshing(q)', token'[req'[q].token].login = l PROVE FALSE
  BY <1>3, RefreshKnown DEF Over, Held, Busy
<1> QED BY <1>1, <1>2, <1>3 DEF Over, Held, Busy

(* A refresh token that has ended is not made good again, and a sign-in with  *)
(* no live token and no refresh in flight that found one gets none any more.  *)
THEOREM EndedForGood == Spec => RevokedForGood
<1> DEFINE Ends(t) ==
      token[t].state \in {"revoked", "expired", "deleted"} =>
            token'[t].state \in {"revoked", "expired", "deleted"}
<1>1. Inv /\ [Next]_vars =>
        [/\ \A t \in TokenId : Ends(t)
         /\ \A l \in TokenId : Over(l) => Over(l)']_vars
  <2> SUFFICES ASSUME Inv, Next
               PROVE  /\ \A t \in TokenId : Ends(t)
                      /\ \A l \in TokenId : Over(l) => Over(l)'
    OBVIOUS
  <2>1. ASSUME NEW t \in TokenId PROVE Ends(t)
    <3>1. token'[t] \in TokenShape
      BY InvNext DEF Inv, ShapeOK
    <3> QED BY <3>1, TokenStep DEF Ageing, TokenShape
  <2> QED BY <2>1, OverStays
<1> QED BY <1>1, InvInit, InvNext, PTL DEF Spec, RevokedForGood

-----------------------------------------------------------------------------
(* One live token per sign-in *)

(* A sign-in comes to have two live tokens only by a rotation of a token that *)
(* was live when it was read and no longer is when it is replaced.            *)
THEOREM OneTokenElse == Spec => OneTokenPerLogin
<1> DEFINE Once(l) ==
      TwoTokens(l)' /\ ~TwoTokens(l) =>
       \E p \in Proc : /\ At(p, "refresh_rotate")
                       /\ token[req[p].token].state # "live"
<1>1. Inv /\ [Next]_vars => [\A l \in TokenId : Once(l)]_vars
  <2> SUFFICES ASSUME Inv, Next, NEW l \in TokenId, TwoTokens(l)', ~TwoTokens(l)
               PROVE  \E p \in Proc : /\ At(p, "refresh_rotate")
                                      /\ token[req[p].token].state # "live"
    OBVIOUS
  <2>1. PICK t \in TokenId, u \in TokenId :
          /\ t # u
          /\ token'[t].state = "live" /\ token'[t].login = l
          /\ token'[u].state = "live" /\ token'[u].login = l
    BY DEF TwoTokens
  <2>2. ASSUME NEW v \in TokenId, token'[v].state = "live", token[v].state # "absent"
        PROVE  token[v].state = "live" /\ token[v].login = token'[v].login
    BY <2>2, TokenStep DEF Ageing
  <2>3. token[t].state = "absent" \/ token[u].state = "absent"
    BY <2>1, <2>2 DEF TwoTokens
  <2>4. ASSUME NEW n \in TokenId, NEW o \in TokenId, n # o, token[n].state = "absent",
               token'[n].state = "live", token'[o].state = "live",
               token'[n].login = l, token'[o].login = l
        PROVE  \E p \in Proc : /\ At(p, "refresh_rotate")
                               /\ token[req[p].token].state # "live"
    <3>1. PICK p \in Proc, m \in TokenId : Issued(p, m)
      BY <2>4, TokenStep DEF Issues, Silent
    <3>2. m = n /\ token[o].state = "live" /\ token[o].login = l
      BY <2>4, <3>1, IssuedIs
    <3>3. CASE token'[n].login = n
      <4>1. token[token[o].login].state # "absent"
        BY <3>2 DEF Inv, LoginKnown, Started
      <4> QED BY <2>4, <3>2, <3>3, <4>1
    <3>4. CASE /\ RefreshRotate(p)
               /\ req[p].token \in TokenId /\ token[req[p].token].state # "absent"
               /\ token'[n].login = token[req[p].token].login
               /\ token'[req[p].token].state # "live"
      <4>1. At(p, "refresh_rotate") /\ req[p].token # o
        BY <2>4, <3>4 DEF RefreshRotate
      <4>2. token[req[p].token].state # "live"
        BY <2>4, <3>2, <3>4, <4>1 DEF TwoTokens
      <4> QED BY <4>1, <4>2
    <3> QED BY <3>1, <3>2, <3>3, <3>4, IssuedIs
  <2> QED BY <2>1, <2>3, <2>4
<1> QED BY <1>1, InvInit, InvNext, PTL DEF Spec, OneTokenPerLogin

-----------------------------------------------------------------------------
(* Reset links *)

\* What a step does to the links.
LEMMA LinkStep ==
  ASSUME Inv, Next
  PROVE  \/ UNCHANGED reset
         \/ \E p \in Proc, n \in ResetId :
              /\ At(p, "forgot_commit") /\ reset[n] = "absent" /\ UNCHANGED account
              /\ reset' = [r \in ResetId |->
                   IF r = n THEN "usable"
                   ELSE IF r \in req[p].rows \cap Outstanding THEN "deleted"
                   ELSE reset[r]]
         \/ \E p \in Proc :
              /\ At(p, "reset_commit") /\ account' = NewPassword
              /\ reset' = [reset EXCEPT ![req[p].reset] = "used"]
         \/ \E r \in ResetId :
              reset[r] = "usable" /\ reset' = [reset EXCEPT ![r] = "lapsed"]
<1>1. ASSUME NEW p \in Proc, ForgotCommit(p)
      PROVE  \E n \in ResetId :
              /\ At(p, "forgot_commit") /\ reset[n] = "absent" /\ UNCHANGED account
              /\ reset' = [r \in ResetId |->
                   IF r = n THEN "usable"
                   ELSE IF r \in req[p].rows \cap Outstanding THEN "deleted"
                   ELSE reset[r]]
  BY <1>1 DEF ForgotCommit, NextReset
<1>2. ASSUME NEW p \in Proc, ResetCommit(p), ~UNCHANGED reset
      PROVE  /\ At(p, "reset_commit") /\ account' = NewPassword
             /\ reset' = [reset EXCEPT ![req[p].reset] = "used"]
  BY <1>2 DEF ResetCommit
<1>3. ASSUME NEW p \in Proc, Step(p), ~ForgotCommit(p), ~ResetCommit(p)
      PROVE  UNCHANGED reset
  <2>1. CASE Login(p)
    BY <2>1 DEF Login, LoginReceive, LoginFail, LoginPass, LoginIssue
  <2>2. CASE Refresh(p)
    BY <2>2 DEF Refresh, RefreshReceive, RefreshUser, RefreshRotate
  <2>3. CASE Forgot(p)
    BY <1>3, <2>3 DEF Forgot, ForgotReceive, ForgotSnapshot
  <2>4. CASE Change(p)
    BY <1>3, <2>4 DEF Change, ResetReceive, Revoke, ChangeReceive,
       ChangeCommit, AdminReceive, AdminRevoke, AdminUpdate
  <2> QED BY <1>3, <2>1, <2>2, <2>3, <2>4 DEF Step, Fail
<1>4. CASE Logout \/ Unlock \/ CleanUp \/ \E t \in TokenId : Expire(t)
  BY <1>4 DEF Logout, Unlock, CleanUp, Expire
<1>5. CASE \E r \in ResetId : Lapse(r)
  BY <1>5 DEF Lapse
<1> QED BY <1>1, <1>2, <1>3, <1>4, <1>5, NextIs DEF Aside

(* Two reset links are usable only after a transaction that committed when    *)
(* another had chosen what to delete.                                         *)
THEOREM OneLinkElse == Spec => OneResetLink
<1> DEFINE Once ==
      TwoLinks' /\ ~TwoLinks =>
       \E p \in Proc : At(p, "forgot_commit") /\ ~(Outstanding \subseteq req[p].rows)
<1>1. Inv /\ [Next]_vars => [Once]_vars
  <2> SUFFICES ASSUME Inv, Next, TwoLinks', ~TwoLinks
               PROVE  \E p \in Proc : /\ At(p, "forgot_commit")
                                      /\ ~(Outstanding \subseteq req[p].rows)
    OBVIOUS
  <2>1. PICK r \in ResetId, s \in ResetId :
          r # s /\ reset'[r] = "usable" /\ reset'[s] = "usable"
    BY DEF TwoLinks
  <2>2. reset[r] # "usable" \/ reset[s] # "usable"
    BY <2>1 DEF TwoLinks
  <2>3. PICK p \in Proc, n \in ResetId :
          /\ At(p, "forgot_commit") /\ reset[n] = "absent"
          /\ reset' = [q \in ResetId |->
               IF q = n THEN "usable"
               ELSE IF q \in req[p].rows \cap Outstanding THEN "deleted"
               ELSE reset[q]]
    BY <2>1, <2>2, LinkStep DEF Inv, ShapeOK
  <2>4. \E q \in ResetId : reset[q] = "usable" /\ q \notin req[p].rows \cap Outstanding
    BY <2>1, <2>3
  <2> QED BY <2>3, <2>4 DEF Outstanding
<1> QED BY <1>1, InvInit, InvNext, PTL DEF Spec, OneResetLink

(* A reset link that was used, replaced or has run out is good for nothing    *)
(* any more, unless a request has found it good before.                       *)
THEOREM DeadForGood == Spec => DeadLinkStaysDead
<1> DEFINE Dead(r) ==
      reset[r] \in {"used", "deleted", "lapsed"} /\ ~Resetting(r) =>
       reset'[r] \in {"used", "deleted", "lapsed"} /\ ~Resetting(r)'
<1>1. Inv /\ [Next]_vars => [\A r \in ResetId : Dead(r)]_vars
  <2> SUFFICES ASSUME Inv, Next, NEW r \in ResetId,
                      reset[r] \in {"used", "deleted", "lapsed"}, ~Resetting(r)
               PROVE  reset'[r] \in {"used", "deleted", "lapsed"} /\ ~Resetting(r)'
    OBVIOUS
  <2>1. reset'[r] \in {"used", "deleted", "lapsed"}
    BY LinkStep DEF Inv, ShapeOK
  <2>2. ASSUME NEW p \in Proc, Step(p) PROVE ~Resetting(r)'
    BY <2>2, KnownRequests DEF Resetting, At
  <2>3. ASSUME Aside PROVE ~Resetting(r)'
    <3>1. req' = req
      BY <2>3 DEF Aside, Logout, Unlock, CleanUp, Expire, Lapse
    <3> QED BY <3>1 DEF Resetting, At
  <2> QED BY <2>1, <2>2, <2>3, NextIs
<1> QED BY <1>1, InvInit, InvNext, PTL DEF Spec, DeadLinkStaysDead

(* A password reset uses up its token in the step that sets the password, and *)
(* sets none when the token was deleted meanwhile.                            *)
THEOREM ResetAtOnce == Spec => ResetUsesToken
<1> DEFINE Uses(p) ==
      At(p, "reset_commit") /\ req'[p] # req[p] =>
       LET r == req[p].reset IN
       /\ account'.password # account.password => reset'[r] = "used"
       /\ reset'[r] # reset[r] => account'.password # account.password
<1>1. Inv /\ [Next]_vars => [\A p \in Proc : Uses(p)]_vars
  <2> SUFFICES ASSUME Inv, Next, NEW p \in Proc, At(p, "reset_commit"), req'[p] # req[p]
               PROVE  Uses(p)
    OBVIOUS
  <2>1. Step(p)
    <3>1. ~Aside
      BY DEF Aside, Logout, Unlock, CleanUp, Expire, Lapse
    <3> QED BY <3>1, NextIs, KnownRequests
  <2>2. ResetCommit(p) \/ Fail(p)
    BY <2>1 DEF At, Step, Login, LoginReceive, LoginFail, LoginPass, LoginIssue,
       Refresh, RefreshReceive, RefreshUser, RefreshRotate, Forgot, ForgotReceive,
       ForgotSnapshot, ForgotCommit, Change, ResetReceive, Revoke, ChangeReceive,
       ChangeCommit, AdminReceive, AdminRevoke, AdminUpdate, Accept
  <2>3. req[p].reset \in ResetId
    BY DEF Inv, LoginKnown, At
  <2>4. account.password \in Nat /\ reset \in [ResetId -> ResetState]
    BY DEF Inv, ShapeOK, AccountShape
  <2>5. CASE UNCHANGED <<account, reset>>
    BY <2>5
  <2>6. CASE /\ account' = NewPassword
             /\ reset' = [reset EXCEPT ![req[p].reset] = "used"]
    <3>1. account'.password = account.password + 1
      BY <2>6 DEF NewPassword, Inv, ShapeOK, AccountShape
    <3> QED BY <2>3, <2>4, <2>6, <3>1
  <2> QED BY <2>2, <2>5, <2>6 DEF ResetCommit, Fail
<1> QED BY <1>1, InvInit, InvNext, PTL DEF Spec, ResetUsesToken

(* A reset link sets one password, but for two requests in flight with it.    *)
THEOREM OnePasswordPerLink == Spec => LinkSetsOnePassword
  BY ResetAtOnce, DeadForGood DEF LinkSetsOnePassword

-----------------------------------------------------------------------------
(* The lock *)

(* A lock ends with its time or with the right password, never by a failure   *)
(* counted from a number read before the lock.                                *)
THEOREM LockKept == Spec => LockHolds
<1> DEFINE Holds ==
      account.locked /\ ~account'.locked =>
       Unlock \/ \E p \in Proc : At(p, "login_compare") /\ At(p, "login_issue")'
<1>1. Inv /\ [Next]_vars => [Holds]_vars
  <2> SUFFICES ASSUME Inv, Next, account.locked, ~account'.locked, ~Unlock
               PROVE  \E p \in Proc : At(p, "login_compare") /\ At(p, "login_issue")'
    OBVIOUS
  <2>1. ~Aside
    BY DEF Aside, Logout, CleanUp, Expire, Lapse
  <2>2. PICK p \in Proc : Step(p)
    BY <2>1, NextIs
  <2>3. ~LoginFail(p)
    BY DEF LoginFail, Inv, ShapeOK, AccountShape
  <2>4. NewPassword.locked = account.locked
    BY DEF NewPassword, Inv, ShapeOK, AccountShape
  <2>a. AdminUpdate(p) => account'.locked = account.locked
    BY DEF AdminUpdate
  <2>b. ~Refresh(p)
    BY DEF Refresh, RefreshReceive, RefreshUser, RefreshRotate
  <2>c. ~Forgot(p)
    BY DEF Forgot, ForgotReceive, ForgotSnapshot, ForgotCommit
  <2>d. ~Change(p)
    BY <2>4, <2>a DEF Change, ResetReceive, ResetCommit, Revoke, ChangeReceive,
       ChangeCommit, AdminReceive, AdminRevoke
  <2>e. ~Fail(p)
    BY DEF Fail
  <2>5. LoginPass(p)
    BY <2>2, <2>3, <2>b, <2>c, <2>d, <2>e DEF Step, Login, LoginReceive, LoginIssue
  <2>6. req'[p] = [req[p] EXCEPT !.pc = "login_issue"]
    BY <2>5, Gone DEF LoginPass, Inv
  <2>7. req'[p].pc = "login_issue"
    BY <2>6 DEF Inv, ShapeOK, RequestShape
  <2> QED BY <2>5, <2>7 DEF LoginPass, At
<1> QED BY <1>1, InvInit, InvNext, PTL DEF Spec, LockHolds

-----------------------------------------------------------------------------
(* Sessions and accounts *)

\* No account and no token changes, but for tokens that end.
Calm ==
  /\ account'.active = account.active /\ account'.password = account.password
  /\ \A t \in TokenId : /\ token'[t].password = token[t].password
                        /\ token'[t].state = "live" => token[t].state = "live"

LEMMA CalmStep ==
  ASSUME Inv, NEW p \in Proc, Step(p), ~LoginIssue(p), ~RefreshRotate(p),
         ~ResetCommit(p), ~ChangeCommit(p), ~AdminUpdate(p)
  PROVE  Calm
<1>1. CASE UNCHANGED <<account, token>>
  BY <1>1 DEF Calm
<1>2. CASE LoginFail(p) \/ LoginPass(p)
  BY <1>2 DEF LoginFail, LoginPass, Calm, Inv, ShapeOK, AccountShape
<1>3. CASE token' = AllRevoked /\ UNCHANGED account
  BY <1>3, RevokedIs DEF Calm, Inv
<1>4. CASE Login(p)
  BY <1>1, <1>2, <1>4 DEF Login, LoginReceive
<1>5. CASE Refresh(p)
  BY <1>1, <1>5 DEF Refresh, RefreshReceive, RefreshUser
<1>6. CASE Forgot(p)
  BY <1>1, <1>6 DEF Forgot, ForgotReceive, ForgotSnapshot, ForgotCommit
<1>7. CASE Change(p)
  BY <1>1, <1>3, <1>7 DEF Change, ResetReceive, Revoke, ChangeReceive, AdminReceive,
     AdminRevoke
<1> QED BY <1>1, <1>4, <1>5, <1>6, <1>7 DEF Step, Fail

LEMMA CalmAside ==
  ASSUME Inv, Aside
  PROVE  Calm /\ req' = req
<1>1. req' = req
  BY DEF Aside, Logout, Unlock, CleanUp, Expire, Lapse
<1>2. CASE Unlock \/ \E r \in ResetId : Lapse(r)
  BY <1>2 DEF Unlock, Lapse, Calm, Inv, ShapeOK, AccountShape
<1>3. CASE Logout \/ CleanUp \/ \E t \in TokenId : Expire(t)
  BY <1>3 DEF Logout, CleanUp, Expire, Ended, Calm, Inv, ShapeOK, TokenShape
<1> QED BY <1>1, <1>2, <1>3 DEF Aside

\* What an admin has not spared before a new password or a deactivation is over.
SparedOver ==
  \A p \in Proc : Harsh(p) =>
    \A l \in TokenId : l \notin req[p].spared => Over(l)

SignInv == Inv /\ SparedOver

LEMMA SparedStep ==
  ASSUME SignInv, Next, NEW q \in Proc, Harsh(q)', NEW l \in TokenId, l \notin req'[q].spared
  PROVE  Over(l)'
<1> USE DEF SignInv
<1>1. CASE req'[q] = req[q]
  BY <1>1, OverStays DEF SparedOver, Harsh, At
<1>2. CASE AdminRevoke(q)
  <2>1. /\ req[q].pc \in {"admin_revoke", "admin_end"}
        /\ req'[q].pc \in {"admin_end", "admin_update"} /\ req'[q].spared = Spared
        /\ \A p \in Proc \ {q} : req'[p] = req[p]
    BY <1>2, AdminMoves DEF Inv
  <2>2. Started(l) /\ ~Busy(l)
    BY <2>1 DEF Spared
  <2>3. token' = AllRevoked
    BY <1>2 DEF AdminRevoke
  <2>4. Started(l)'
    BY <2>2, KnownLogins
  <2>5. \A t \in TokenId : token'[t].state # "live" /\ token'[t].login = token[t].login
    BY <2>3, RevokedIs DEF Inv
  <2>6. ~Busy(l)'
    BY <2>1, <2>2, <2>5 DEF Busy, Refreshing, Inv, LoginKnown
  <2> QED BY <2>4, <2>5, <2>6 DEF Over, Held
<1>3. CASE Step(q) /\ ~AdminRevoke(q)
  BY <1>3, MoverElse DEF Harsh, At, Elsewhere
<1>4. Step(q) \/ req'[q] = req[q]
  <2>1. ASSUME NEW p \in Proc, Step(p), p # q PROVE req'[q] = req[q]
    BY <2>1, KnownRequests
  <2>2. Aside => req' = req
    BY DEF Aside, Logout, Unlock, CleanUp, Expire, Lapse
  <2> QED BY <2>1, <2>2, NextIs
<1> QED BY <1>1, <1>2, <1>3, <1>4

LEMMA SignInvInit == Init => SignInv
<1> SUFFICES ASSUME Init PROVE SignInv
  OBVIOUS
<1>1. SparedOver
  BY DEF Init, SparedOver, Harsh, At, Idle
<1> QED BY <1>1, InvInit DEF SignInv

LEMMA SignInvNext == SignInv /\ [Next]_vars => SignInv'
<1> SUFFICES ASSUME SignInv, [Next]_vars PROVE SignInv'
  OBVIOUS
<1>1. CASE UNCHANGED vars
  <2>1. req' = req /\ token' = token
    BY <1>1 DEF vars
  <2>2. \A l \in TokenId : Over(l) => Over(l)'
    BY <2>1 DEF Over, Started, Held, Busy, Refreshing
  <2>3. SparedOver'
    BY <2>1, <2>2 DEF SignInv, SparedOver, Harsh, At
  <2> QED BY <2>3, InvNext DEF SignInv
<1>2. CASE Next
  <2>1. SparedOver'
    BY <1>2, SparedStep DEF SparedOver
  <2> QED BY <2>1, InvNext DEF SignInv
<1> QED BY <1>1, <1>2

\* A handler that is to revoke does so, or dies.
LEMMA RevokesOrDies ==
  ASSUME NEW p \in Proc, Step(p), req[p].pc = "revoke"
  PROVE  Revoke(p) \/ Fail(p)
  BY DEF Step, Login, LoginReceive, LoginFail, LoginPass, LoginIssue, Refresh,
     RefreshReceive, RefreshUser, RefreshRotate, Forgot, ForgotReceive,
     ForgotSnapshot, ForgotCommit, Change, ResetReceive, ResetCommit, ChangeReceive,
     ChangeCommit, AdminReceive, AdminRevoke, AdminUpdate, Accept, At

\* A step that neither issues a token nor changes the account.
LEMMA CalmAstray ==
  ASSUME Inv, Next, NEW p \in Proc, Step(p), Calm, NEW l \in TokenId,
         Astray(l)', ~Astray(l)
  PROVE  req[p].pc = "revoke" /\ Faults /\ req'[p] # req[p]
<1>1. PICK t \in TokenId : /\ token'[t].state = "live" /\ token'[t].login = l
                          /\ ~(account'.active /\ token'[t].password = account'.password)
  BY DEF Astray, Current
<1>2. /\ token[t].state = "live" /\ token[t].login = l
      /\ ~Current(token[t].password)
  <2>1. token[t].state = "live" /\ token'[t].password = token[t].password
    BY <1>1 DEF Calm
  <2>2. token[t].login = l
    BY <1>1, <2>1, TokenStep DEF Ageing
  <2> QED BY <1>1, <2>1, <2>2 DEF Calm, Current
<1>3. PICK q \in Proc : req[q].pc = "revoke"
  BY <1>2 DEF Astray, InFlight
<1>4. req'[q].pc # "revoke"
  BY <1>3 DEF Astray, InFlight
<1>5. q = p
  BY <1>3, <1>4, KnownRequests
<1>6. ~Revoke(p)
  BY <1>1, RevokedIs DEF Revoke, Inv
<1> QED BY <1>3, <1>4, <1>5, <1>6, RevokesOrDies DEF Fail

\* A step of a handler that has not to revoke, and is not about to.
LEMMA SameRevoking ==
  ASSUME Inv, NEW p \in Proc, Step(p), req[p].pc # "revoke"
  PROVE  InFlight({"revoke"})' = {} => InFlight({"revoke"}) = {}
  BY KnownRequests DEF InFlight

LEMMA IssueAstray ==
  ASSUME Inv, Next, NEW p \in Proc, Step(p), LoginIssue(p) \/ RefreshRotate(p),
         NEW l \in TokenId, Astray(l)', ~Astray(l)
  PROVE  /\ req'[p] # req[p]
         /\ \/ At(p, "login_issue") /\ ~Current(req[p].password)
            \/ At(p, "refresh_rotate") /\ token[req[p].token].state # "live"
<1>1. PICK t \in TokenId : /\ token'[t].state = "live" /\ token'[t].login = l
                          /\ ~(account'.active /\ token'[t].password = account'.password)
  BY DEF Astray, Current
<1>2. UNCHANGED account /\ req[p].pc \in {"login_issue", "refresh_rotate"}
      /\ req'[p].pc = "idle"
  BY Replied DEF LoginIssue, RefreshRotate, At, Inv, Idle
<1>3. InFlight({"revoke"}) = {}
  BY <1>2, SameRevoking DEF Astray
<1>4. ~Current(token'[t].password)
  BY <1>1, <1>2 DEF Current
<1>5. ASSUME NEW u \in TokenId, token[u].state = "live", token[u].login = l
      PROVE  Current(token[u].password)
  BY <1>3, <1>5 DEF Astray
<1>6. token[t].state = "absent"
  BY <1>1, <1>4, <1>5, TokenStep DEF Ageing
<1>7. CASE LoginIssue(p)
  <2>1. PICK n \in TokenId :
          token' = [token EXCEPT ![n] = [state |-> "live", login |-> n,
                                         password |-> req[p].password]]
    BY <1>7 DEF LoginIssue
  <2>2. t = n /\ token'[t].password = req[p].password
    BY <1>1, <1>6, <2>1 DEF Inv, ShapeOK
  <2> QED BY <1>2, <1>4, <1>7, <2>2 DEF LoginIssue
<1>8. CASE RefreshRotate(p)
  <2>1. PICK n \in TokenId : Issued(p, n)
    BY <1>1, <1>6, <1>8, RotatesTo DEF Issued
  <2>2. t = n /\ ~LoginIssue(p)
    BY <1>1, <1>6, <1>8, <2>1, IssuedIs DEF LoginIssue, RefreshRotate, At
  <2>3. /\ req[p].token \in TokenId
        /\ token'[t].login = token[req[p].token].login
        /\ token'[t].password = token[req[p].token].password
    BY <2>1, <2>2, IssuedIs
  <2>4. token[req[p].token].state # "live"
    BY <1>1, <1>4, <1>5, <2>3
  <2> QED BY <1>2, <1>8, <2>4 DEF RefreshRotate
<1> QED BY <1>7, <1>8

LEMMA UpdateAstray ==
  ASSUME SignInv, Next, NEW p \in Proc, Step(p), AdminUpdate(p),
         NEW l \in TokenId, Astray(l)', ~Astray(l)
  PROVE  req'[p] # req[p] /\ At(p, "admin_update") /\ l \in req[p].spared
<1> USE DEF SignInv
<1>1. PICK t \in TokenId : /\ token'[t].state = "live" /\ token'[t].login = l
                          /\ ~(account'.active /\ token'[t].password = account'.password)
  BY DEF Astray, Current
<1>2. UNCHANGED token /\ req[p].pc = "admin_update" /\ req'[p].pc = "idle"
  BY Replied DEF AdminUpdate, At, Inv, Idle
<1>3. token[t].state = "live" /\ token[t].login = l /\ ~(account'.active /\ token[t].password = account'.password)
  BY <1>1, <1>2 DEF Current
<1>4. CASE Harsh(p)
  BY <1>2, <1>3, <1>4 DEF SparedOver, Over, Held, At
<1>5. CASE ~Harsh(p)
  <2>1. ~req[p].renew /\ FALSE \notin req[p].set
    BY <1>2, <1>5 DEF Harsh, At
  <2>2. account.password \in Nat /\ req[p].set \subseteq BOOLEAN
    BY DEF Inv, ShapeOK, AccountShape, RequestShape
  <2>3. account'.password = account.password
    BY <2>1, <2>2 DEF AdminUpdate
  <2>4. account.active => account'.active
    <3>1. req[p].set = {} \/ TRUE \in req[p].set
      BY <2>1, <2>2
    <3>2. account'.active = IF req[p].set = {} THEN account.active ELSE TRUE \in req[p].set
      BY DEF AdminUpdate
    <3> QED BY <3>1, <3>2
  <2>5. ~Current(token[t].password)
    BY <1>3, <2>3, <2>4 DEF Current
  <2>6. InFlight({"revoke"}) = {}
    BY <1>2, SameRevoking DEF Astray
  <2> QED BY <1>3, <2>5, <2>6 DEF Astray
<1> QED BY <1>4, <1>5

(* A session goes on beyond a new password or a deactivation only through a   *)
(* sign-in or a refresh that had read before, an admin's request that revoked *)
(* before the session began, or a handler that died: however many requests    *)
(* are in flight, whatever they read, wherever they die.                      *)
THEOREM AccountMatched == Spec => SessionsMatchAccount
<1> DEFINE Excused(l) == Astray(l)' /\ ~Astray(l) =>
      \E p \in Proc : req'[p] # req[p] /\
        \/ At(p, "login_issue") /\ ~Current(req[p].password)
        \/ At(p, "refresh_rotate") /\ token[req[p].token].state # "live"
        \/ At(p, "admin_update") /\ l \in req[p].spared
        \/ At(p, "revoke") /\ Faults
<1>1. SignInv /\ [Next]_vars => [\A l \in TokenId : Excused(l)]_vars
  <2> SUFFICES ASSUME SignInv, Next, NEW l \in TokenId, Astray(l)', ~Astray(l)
               PROVE  Excused(l)
    OBVIOUS
  <2> USE DEF SignInv
  <2>1. CASE Aside
    <3>1. Calm /\ req' = req
      BY <2>1, CalmAside
    <3>2. \A t \in TokenId : token'[t].state = "live" => token'[t].login = token[t].login
      BY <3>1, TokenStep DEF Calm, Ageing
    <3> QED BY <3>1, <3>2 DEF Calm, Astray, InFlight, Current
  <2>2. ASSUME NEW p \in Proc, Step(p) PROVE Excused(l)
    <3>1. CASE LoginIssue(p) \/ RefreshRotate(p)
      BY <2>2, <3>1, IssueAstray
    <3>2. CASE AdminUpdate(p)
      BY <2>2, <3>2, UpdateAstray
    <3>3. CASE Calm
      BY <2>2, <3>3, CalmAstray DEF At
    <3>4. CASE ResetCommit(p) \/ ChangeCommit(p)
      <4>1. Go(p, "revoke") => req'[p].pc = "revoke"
        BY GoneTo
      <4>2. ~Go(p, "revoke")
        BY <4>1 DEF Astray, InFlight
      <4>3. UNCHANGED <<account, token>>
        BY <3>4, <4>2 DEF ResetCommit, ChangeCommit
      <4> QED BY <3>3, <4>3 DEF Calm
    <3> QED BY <2>2, <3>1, <3>2, <3>3, <3>4, CalmStep
  <2> QED BY <2>1, <2>2, NextIs
<1> QED BY <1>1, SignInvInit, SignInvNext, PTL DEF Spec, SessionsMatchAccount

-----------------------------------------------------------------------------
(* The bounds on passwords and failures.  A request is accepted while there   *)
(* is room for the password it may set and for those of the requests in       *)
(* flight, so what is set and what is owed stay within MaxPasswords.          *)

Owes(r) == \/ r.pc \in {"reset_commit", "change_commit"}
           \/ r.pc \in {"admin_revoke", "admin_end", "admin_update"} /\ r.renew

Owing == {p \in Proc : Owes(req[p])}

Room == account.password + Cardinality(Owing) <= MaxPasswords

Small(r) ==
  /\ r.password <= MaxPasswords /\ r.attempts <= MaxAttempts
  /\ r.pc = "login_compare" => r.attempts < MaxAttempts

Capped ==
  /\ account.attempts <= MaxAttempts
  /\ \A p \in Proc : Small(req[p])
  /\ \A t \in TokenId : token[t].password <= MaxPasswords
  /\ Room

LEMMA OwingFinite ==
  /\ IsFiniteSet(Owing) /\ Cardinality(Owing) \in Nat
  /\ IsFiniteSet(Owing') /\ Cardinality(Owing') \in Nat
  BY ProcAssumption, FS_Subset, FS_CardinalityType DEF Owing

LEMMA NowSmall ==
  ASSUME Inv, Room
  PROVE  account.password \in Nat /\ account.password <= MaxPasswords
  BY OwingFinite, BoundAssumption DEF Room, Inv, ShapeOK, AccountShape

LEMMA RoomKept ==
  ASSUME Inv, Room, NEW p \in Proc, \A q \in Proc \ {p} : req'[q] = req[q],
         account'.password = account.password, Owes(req'[p]) => Owes(req[p])
  PROVE  Room'
<1>1. Owing' \subseteq Owing
  BY DEF Owing
<1>2. Cardinality(Owing') <= Cardinality(Owing)
  BY <1>1, OwingFinite, FS_Subset
<1> QED BY <1>2, OwingFinite, NowSmall, BoundAssumption DEF Room

LEMMA RoomUsed ==
  ASSUME Inv, Room, NEW p \in Proc, \A q \in Proc \ {p} : req'[q] = req[q],
         account'.password = account.password + 1, Owes(req[p]), ~Owes(req'[p])
  PROVE  Room'
<1>1. Owing' = Owing \ {p} /\ p \in Owing
  BY DEF Owing
<1>2. Cardinality(Owing') = Cardinality(Owing) - 1
  BY <1>1, OwingFinite, FS_RemoveElement
<1> QED BY <1>2, OwingFinite, NowSmall, BoundAssumption DEF Room

LEMMA RoomTaken ==
  ASSUME Inv, PasswordRoom, NEW p \in Proc, \A q \in Proc \ {p} : req'[q] = req[q],
         account'.password = account.password
  PROVE  Room'
<1>1. Owing \subseteq InFlight(Changing) /\ IsFiniteSet(InFlight(Changing))
  BY ProcAssumption, FS_Subset DEF Owing, Owes, InFlight, Changing
<1>2. Cardinality(Owing) <= Cardinality(InFlight(Changing))
      /\ Cardinality(InFlight(Changing)) \in Nat
  BY <1>1, FS_Subset, FS_CardinalityType
<1>3. Owing' \subseteq Owing \cup {p}
  BY DEF Owing
<1>4. /\ IsFiniteSet(Owing \cup {p})
      /\ Cardinality(Owing \cup {p}) <= Cardinality(Owing) + 1
      /\ Cardinality(Owing \cup {p}) \in Nat
  <2>1. /\ IsFiniteSet(Owing \cup {p})
        /\ Cardinality(Owing \cup {p}) =
             IF p \in Owing THEN Cardinality(Owing) ELSE Cardinality(Owing) + 1
    BY OwingFinite, FS_AddElement
  <2> QED BY <2>1, OwingFinite
<1>5. Cardinality(Owing') <= Cardinality(Owing \cup {p})
  BY <1>3, <1>4, FS_Subset
<1>6. account.password \in Nat
  BY DEF Inv, ShapeOK, AccountShape
<1> QED BY <1>2, <1>4, <1>5, <1>6, OwingFinite, BoundAssumption DEF Room, PasswordRoom

LEMMA SmallIdle == Small(Idle) /\ ~Owes(Idle)
  BY BoundAssumption DEF Small, Owes, Idle

LEMMA TokensSmall ==
  ASSUME Inv, Capped, Next, NEW t \in TokenId
  PROVE  token'[t].password <= MaxPasswords
<1>1. CASE token[t].state # "absent"
  BY <1>1, TokenStep DEF Ageing, Capped
<1>2. CASE token[t].state = "absent" /\ Silent
  BY <1>2 DEF Silent, Capped
<1>3. ASSUME token[t].state = "absent", NEW p \in Proc, NEW n \in TokenId, Issued(p, n)
      PROVE  token'[t].password <= MaxPasswords
  <2>1. CASE t # n
    BY <1>3, <2>1, IssuedIs DEF Capped
  <2>2. CASE t = n
    <3>1. CASE LoginIssue(p) /\ token' = [token EXCEPT ![n] =
                 [state |-> "live", login |-> n, password |-> req[p].password]]
      BY <2>2, <3>1 DEF Inv, ShapeOK, Capped, Small
    <3>2. CASE /\ RefreshRotate(p)
               /\ req[p].token \in TokenId /\ token[req[p].token].state # "absent"
      <4>1. ~LoginIssue(p)
        BY <3>2 DEF LoginIssue, RefreshRotate, At
      <4> QED BY <1>3, <2>2, <3>2, <4>1, IssuedIs DEF Capped
    <3> QED BY <1>3, <3>1, <3>2 DEF Issued
  <2> QED BY <2>1, <2>2
<1> QED BY <1>1, <1>2, <1>3, TokenStep DEF Issues

LEMMA OwnSmall ==
  ASSUME Inv, Capped, NEW p \in Proc, Step(p)
  PROVE  Small(req'[p])
<1>1. CASE Reply(p)
  BY <1>1, Replied, SmallIdle DEF Inv
<1>2. ASSUME NEW pc, pc # "login_compare", Go(p, pc) PROVE Small(req'[p])
  BY <1>2, GoneTo DEF Capped, Small
<1>3. ASSUME NEW r, Accept(p, r), r.pc # "login_compare", r.password = 0, r.attempts = 0
      PROVE  Small(req'[p])
  BY <1>3, Accepted, BoundAssumption DEF Inv, Small
<1>4. CASE LoginReceive(p)
  <2> DEFINE r == [Idle EXCEPT !.pc = "login_compare", !.password = account.password,
                               !.attempts = account.attempts]
  <2>1. /\ Accept(p, r) /\ account.attempts < MaxAttempts
        /\ r.password = account.password /\ r.attempts = account.attempts
    BY <1>4 DEF LoginReceive, Idle
  <2>2. Small(r)
    BY <2>1, NowSmall, BoundAssumption DEF Capped, Small, Inv, ShapeOK, AccountShape
  <2> HIDE DEF r
  <2> QED BY <2>1, <2>2, Accepted DEF Inv
<1>5. CASE ForgotSnapshot(p)
  <2> DEFINE r == [req[p] EXCEPT !.rows = Outstanding, !.pc = "forgot_commit"]
  <2>1. /\ r.pc = "forgot_commit"
        /\ r.password = req[p].password /\ r.attempts = req[p].attempts
    BY DEF Inv, ShapeOK, RequestShape
  <2>2. req'[p] = r
    BY <1>5 DEF ForgotSnapshot, Inv, ShapeOK
  <2> HIDE DEF r
  <2> QED BY <2>1, <2>2 DEF Capped, Small
<1>6. CASE Login(p)
  BY <1>1, <1>2, <1>4, <1>6 DEF Login, LoginFail, LoginPass, LoginIssue
<1>7. CASE Refresh(p)
  BY <1>1, <1>2, <1>3, <1>7 DEF Refresh, RefreshReceive, RefreshUser, RefreshRotate, Idle
<1>8. CASE Forgot(p)
  BY <1>1, <1>3, <1>5, <1>8 DEF Forgot, ForgotReceive, ForgotCommit, Idle
<1>9. CASE ResetReceive(p) \/ ChangeReceive(p)
  BY <1>3, <1>9 DEF ResetReceive, ChangeReceive, Idle
<1>10. CASE AdminReceive(p)
  BY <1>3, <1>10 DEF AdminReceive, AdminFirst, Idle
<1>11. CASE AdminRevoke(p)
  BY <1>11, AdminMoves DEF Capped, Small, Inv
<1>12. CASE Change(p)
  BY <1>1, <1>2, <1>9, <1>10, <1>11, <1>12 DEF Change, ResetCommit, Revoke,
     ChangeCommit, AdminUpdate
<1> QED BY <1>1, <1>6, <1>7, <1>8, <1>12 DEF Step, Fail

LEMMA RoomStep ==
  ASSUME Inv, Capped, NEW p \in Proc, Step(p)
  PROVE  Room'
<1>0. Room /\ \A q \in Proc \ {p} : req'[q] = req[q]
  BY KnownRequests DEF Capped
<1>1. ASSUME account'.password = account.password, Owes(req'[p]) => Owes(req[p])
      PROVE  Room'
  BY <1>0, <1>1, RoomKept
<1>2. ASSUME Reply(p), account'.password = account.password PROVE Room'
  <2>1. ~Owes(req'[p])
    BY <1>2, Replied, SmallIdle DEF Inv
  <2> QED BY <1>1, <1>2, <2>1
<1>3. ASSUME NEW pc, Go(p, pc), account'.password = account.password,
             pc \in {"login_issue", "refresh_rotate", "revoke"}
      PROVE  Room'
  <2>1. ~Owes(req'[p])
    BY <1>3, GoneTo DEF Owes
  <2> QED BY <1>1, <1>3, <2>1
<1>4. ASSUME NEW r, Accept(p, r), account'.password = account.password,
             Owes(r) => PasswordRoom
      PROVE  Room'
  <2>1. req'[p] = r
    BY <1>4, Accepted DEF Inv
  <2>2. CASE Owes(r)
    BY <1>0, <1>4, <2>2, RoomTaken
  <2>3. CASE ~Owes(r)
    BY <1>1, <1>4, <2>1, <2>3
  <2> QED BY <2>2, <2>3
<1>5. CASE Login(p)
  <2>1. LoginFail(p) \/ LoginPass(p) => account'.password = account.password
    BY DEF LoginFail, LoginPass, Inv, ShapeOK, AccountShape
  <2>2. CASE LoginReceive(p)
    <3> DEFINE r == [Idle EXCEPT !.pc = "login_compare", !.password = account.password,
                                 !.attempts = account.attempts]
    <3>1. Accept(p, r) /\ ~Owes(r) /\ UNCHANGED account
      BY <2>2 DEF LoginReceive, Owes, Idle
    <3> HIDE DEF r
    <3> QED BY <1>4, <3>1
  <2> QED BY <1>2, <1>3, <1>5, <2>1, <2>2 DEF Login, LoginFail, LoginPass, LoginIssue
<1>6. CASE Refresh(p)
  <2>1. CASE RefreshReceive(p)
    <3>1. PICK t \in TokenId : Accept(p, [Idle EXCEPT !.pc = "refresh_user", !.token = t])
      BY <2>1 DEF RefreshReceive
    <3>2. ~Owes([Idle EXCEPT !.pc = "refresh_user", !.token = t])
      BY DEF Owes, Idle
    <3> QED BY <1>4, <2>1, <3>1, <3>2 DEF RefreshReceive
  <2> QED BY <1>2, <1>3, <1>6, <2>1 DEF Refresh, RefreshUser, RefreshRotate
<1>7. CASE Forgot(p)
  <2>1. CASE ForgotReceive(p)
    <3>1. ~Owes([Idle EXCEPT !.pc = "forgot_snapshot"])
      BY DEF Owes, Idle
    <3> QED BY <1>4, <2>1, <3>1 DEF ForgotReceive
  <2>2. CASE ForgotSnapshot(p)
    <3>1. req'[p].pc = "forgot_commit"
      BY <2>2 DEF ForgotSnapshot, Inv, ShapeOK, RequestShape
    <3>2. ~Owes(req'[p])
      BY <3>1 DEF Owes
    <3> QED BY <1>1, <2>2, <3>2 DEF ForgotSnapshot
  <2> QED BY <1>2, <1>7, <2>1, <2>2 DEF Forgot, ForgotCommit
<1>8. account'.password = account.password + 1 /\ Go(p, "revoke")
      /\ req[p].pc \in {"reset_commit", "change_commit"} => Room'
  <2> SUFFICES ASSUME account'.password = account.password + 1, Go(p, "revoke"),
                      req[p].pc \in {"reset_commit", "change_commit"}
               PROVE  Room'
    OBVIOUS
  <2>1. Owes(req[p]) /\ ~Owes(req'[p])
    BY GoneTo DEF Owes
  <2> QED BY <1>0, <2>1, RoomUsed
<1>9. NewPassword.password = account.password + 1
  BY DEF NewPassword, Inv, ShapeOK, AccountShape
<1>10. CASE ResetCommit(p) \/ ChangeCommit(p)
  BY <1>2, <1>8, <1>9, <1>10 DEF ResetCommit, ChangeCommit, At
<1>11. CASE ResetReceive(p) \/ ChangeReceive(p)
  BY <1>4, <1>11 DEF ResetReceive, ChangeReceive
<1>12. CASE AdminReceive(p)
  <2>1. PICK renew \in BOOLEAN, set \in {{}, {FALSE}, {TRUE}} :
          /\ renew => PasswordRoom
          /\ Accept(p, [Idle EXCEPT !.pc = AdminFirst(renew, set),
                                    !.renew = renew, !.set = set])
    BY <1>12 DEF AdminReceive
  <2>2. Owes([Idle EXCEPT !.pc = AdminFirst(renew, set), !.renew = renew, !.set = set])
          => renew
    BY DEF Owes, Idle, AdminFirst
  <2> QED BY <1>4, <1>12, <2>1, <2>2 DEF AdminReceive
<1>13. CASE AdminRevoke(p)
  <2>1. /\ req[p].pc \in {"admin_revoke", "admin_end"} /\ UNCHANGED account
        /\ req'[p].pc \in {"admin_end", "admin_update"} /\ req'[p].renew = req[p].renew
    BY <1>13, AdminMoves DEF AdminRevoke, Inv
  <2>2. Owes(req'[p]) => Owes(req[p])
    BY <2>1 DEF Owes
  <2> QED BY <1>1, <2>1, <2>2
<1>14. CASE AdminUpdate(p)
  <2>1. /\ req[p].pc = "admin_update" /\ Reply(p)
        /\ account'.password = account.password + (IF req[p].renew THEN 1 ELSE 0)
    BY <1>14 DEF AdminUpdate, At
  <2>2. ~Owes(req'[p])
    BY <2>1, Replied, SmallIdle DEF Inv
  <2>3. CASE req[p].renew
    BY <1>0, <2>1, <2>2, <2>3, RoomUsed DEF Owes
  <2>4. CASE ~req[p].renew
    <3>1. account'.password = account.password
      BY <2>1, <2>4 DEF Inv, ShapeOK, AccountShape
    <3> QED BY <1>2, <2>1, <3>1
  <2> QED BY <2>3, <2>4
<1>15. CASE Change(p)
  BY <1>2, <1>10, <1>11, <1>12, <1>13, <1>14, <1>15 DEF Change, Revoke
<1> QED BY <1>2, <1>5, <1>6, <1>7, <1>15 DEF Step, Fail

LEMMA AttemptsStep ==
  ASSUME Inv, Capped, Next
  PROVE  account'.attempts <= MaxAttempts
<1>1. CASE account'.attempts = account.attempts
  BY <1>1 DEF Capped
<1>2. ASSUME NEW p \in Proc, LoginFail(p) \/ LoginPass(p)
      PROVE  account'.attempts <= MaxAttempts
  <2>1. account'.attempts \in {0, req[p].attempts + 1} /\ req[p].pc = "login_compare"
    BY <1>2 DEF LoginFail, LoginPass, At, Inv, ShapeOK, AccountShape
  <2>2. req[p].attempts \in Nat
    BY DEF Inv, ShapeOK, RequestShape
  <2> QED BY <2>1, <2>2, BoundAssumption DEF Capped, Small
<1>3. CASE \/ UNCHANGED account \/ account' = NewPassword \/ Unlock
           \/ \E p \in Proc : AdminUpdate(p)
  <2>1. /\ NewPassword.attempts = account.attempts
        /\ [account EXCEPT !.locked = FALSE].attempts = account.attempts
    BY DEF NewPassword, Inv, ShapeOK, AccountShape
  <2>2. Unlock => account'.attempts = account.attempts
    BY <2>1 DEF Unlock
  <2>3. (\E p \in Proc : AdminUpdate(p)) => account'.attempts = account.attempts
    BY DEF AdminUpdate
  <2> QED BY <1>1, <1>3, <2>1, <2>2, <2>3
<1>4. ASSUME NEW p \in Proc, Step(p)
      PROVE  \/ UNCHANGED account \/ account' = NewPassword
             \/ AdminUpdate(p) \/ LoginFail(p) \/ LoginPass(p)
  BY <1>4 DEF Step, Login, LoginReceive, LoginIssue, Refresh, RefreshReceive,
     RefreshUser, RefreshRotate, Forgot, ForgotReceive, ForgotSnapshot, ForgotCommit,
     Change, ResetReceive, ResetCommit, Revoke, ChangeReceive, ChangeCommit,
     AdminReceive, AdminRevoke, Fail
<1>5. Aside => UNCHANGED account \/ Unlock
  BY DEF Aside, Logout, CleanUp, Expire, Lapse
<1> QED BY <1>2, <1>3, <1>4, <1>5, NextIs

LEMMA CappedNext == Inv /\ Capped /\ [Next]_vars => Capped'
<1> SUFFICES ASSUME Inv, Capped, [Next]_vars PROVE Capped'
  OBVIOUS
<1>1. CASE UNCHANGED vars
  <2>1. UNCHANGED <<account, token, req>>
    BY <1>1 DEF vars
  <2>2. Owing' = Owing
    BY <2>1 DEF Owing
  <2> QED BY <2>1, <2>2 DEF Capped, Room
<1>2. ASSUME Next, Aside PROVE Capped'
  <2>1. account'.password = account.password /\ req' = req
    BY <1>2, CalmAside DEF Calm
  <2>2. Owing' = Owing
    BY <2>1 DEF Owing
  <2>3. Room'
    BY <2>1, <2>2 DEF Capped, Room
  <2> QED BY <1>2, <2>1, <2>3, TokensSmall, AttemptsStep DEF Capped
<1>3. ASSUME Next, NEW p \in Proc, Step(p) PROVE Capped'
  <2>1. \A q \in Proc \ {p} : req'[q] = req[q]
    BY <1>3, KnownRequests
  <2>2. \A q \in Proc : Small(req'[q])
    BY <1>3, <2>1, OwnSmall DEF Capped
  <2> QED BY <1>3, <2>2, RoomStep, TokensSmall, AttemptsStep DEF Capped, Small
<1> QED BY <1>1, <1>2, <1>3, NextIs

LEMMA CappedInit == Init => Capped
<1> SUFFICES ASSUME Init PROVE Capped
  OBVIOUS
<1>1. \A p \in Proc : Small(req[p]) /\ ~Owes(req[p])
  BY SmallIdle DEF Init
<1>2. Cardinality(Owing) = 0
  <2>1. Owing = {}
    BY <1>1 DEF Owing
  <2> QED BY <2>1, FS_EmptySet
<1>3. \A t \in TokenId : token[t].password = 0
  BY DEF Init
<1> QED BY <1>1, <1>2, <1>3, BoundAssumption DEF Init, Capped, Room

(* Rows and requests keep their types.  What bounds the model are guards of   *)
(* the actions that accept a request; whatever is in flight together, no      *)
(* statement after them leaves the bounds.                                    *)
THEOREM TypeCorrect == Spec => []TypeOK
<1>1. Inv /\ Capped => TypeOK
  <2> SUFFICES ASSUME Inv, Capped PROVE TypeOK
    OBVIOUS
  <2>1. account \in AccountRow
    BY NowSmall, BoundAssumption
       DEF AccountRow, Password, Capped, Inv, ShapeOK, AccountShape
  <2>2. \A t \in TokenId : token[t] \in TokenRow
    BY BoundAssumption DEF TokenRow, Password, Capped, Inv, ShapeOK, TokenShape
  <2>3. \A p \in Proc : req[p] \in Request
    <3> SUFFICES ASSUME NEW p \in Proc PROVE req[p] \in Request
      OBVIOUS
    <3>1. /\ req[p] \in RequestShape
          /\ req[p].password \in Password /\ req[p].attempts \in 0 .. MaxAttempts
      BY BoundAssumption DEF Password, Capped, Small, Inv, ShapeOK, RequestShape
    <3> QED BY <3>1 DEF RequestShape, Request
  <2>4. /\ token = [t \in TokenId |-> token[t]]
        /\ req = [p \in Proc |-> req[p]]
    BY DEF Inv, ShapeOK
  <2> QED BY <2>1, <2>2, <2>3, <2>4 DEF TypeOK, Inv, ShapeOK
<1> QED BY <1>1, InvInit, InvNext, CappedInit, CappedNext, PTL DEF Spec

-----------------------------------------------------------------------------
(* The refinement of SignIns: what a step does to each part of the abstract   *)
(* state.                                                                     *)

\* Every sign-in that has issued a token keeps it, and its password.
SignInsKept ==
  \A l \in TokenId : /\ Started(l)' <=> Started(l)
                     /\ Started(l) => token'[l].password = token[l].password

LEMMA KeyKept == SignInsKept => Key' = Key
  BY DEF SignInsKept, Key, Started

LEMMA SessionIs ==
  /\ Session = [l \in TokenId |-> Session[l]]
  /\ Session' = [l \in TokenId |-> Session'[l]]
  BY DEF Session

LEMMA SessionKept ==
  ASSUME SignInsKept, \A l \in TokenId : Started(l) => (Held(l)' <=> Held(l))
  PROVE  Session' = Session
<1>1. \A l \in TokenId : Session'[l] = Session[l]
  BY DEF SignInsKept, Session
<1> QED BY <1>1, SessionIs

\* No sign-in begins where no token is issued.
LEMMA SilentKeeps ==
  ASSUME Inv, Next, ~Issues
  PROVE  SignInsKept
  BY TokenStep DEF Ageing, Silent, SignInsKept, Started

LEMMA Unissued ==
  ASSUME Inv, UNCHANGED token
  PROVE  ~Issues
  BY IssuedIs DEF Issues, Issued

\* A rotation issues a token of a sign-in that has begun, and never the first.
LEMMA RotationKeeps ==
  ASSUME Inv, Next, NEW p \in Proc, NEW n \in TokenId, Issued(p, n), ~LoginIssue(p)
  PROVE  SignInsKept
<1>1. /\ req[p].token \in TokenId /\ token[req[p].token].state # "absent"
      /\ token'[n].login = token[req[p].token].login
      /\ \A t \in TokenId : t # n /\ token[t].state = "absent" => token'[t] = token[t]
  BY IssuedIs
<1>2. token[n].state = "absent"
  BY DEF Issued
<1>3. token'[n].login # n
  BY <1>1, <1>2 DEF Inv, LoginKnown, Started
<1> QED BY <1>1, <1>2, <1>3, TokenStep DEF Ageing, SignInsKept, Started

Signing(p) == req[p].pc \in {"login_compare", "login_issue"}

LEMMA Members ==
  /\ \A w : w \in Trying <=> \E q \in Proc : Signing(q) /\ w = req[q].password
  /\ \A w : w \in Trying' <=> \E q \in Proc : Signing(q)' /\ w = req'[q].password
  /\ \A S : S \in Ready <=> \E q \in Proc : Harsh(q) /\ S = req[q].spared
  /\ \A S : S \in Ready' <=> \E q \in Proc : Harsh(q)' /\ S = req'[q].spared
  BY DEF Trying, Ready, InFlight, Signing

LEMMA TryingKept ==
  ASSUME Inv, NEW p \in Proc, Step(p), Signing(p)' <=> Signing(p),
         Signing(p) => req'[p].password = req[p].password
  PROVE  Trying' = Trying
<1>1. \A q \in Proc : /\ Signing(q)' <=> Signing(q)
                      /\ Signing(q) => req'[q].password = req[q].password
  BY KnownRequests DEF Signing
<1>2. \A w : w \in Trying' <=> w \in Trying
  BY <1>1, Members
<1> QED BY <1>2 DEF Trying

LEMMA TryingEnds ==
  ASSUME Inv, NEW p \in Proc, Step(p), ~Signing(p)'
  PROVE  Trying' \in {Trying, Trying \ {req[p].password}}
<1>1. \A q \in Proc \ {p} : /\ Signing(q)' <=> Signing(q)
                            /\ req'[q].password = req[q].password
  BY KnownRequests DEF Signing
<1>2. \A w : w \in Trying' <=> \E q \in Proc \ {p} : Signing(q) /\ w = req[q].password
  BY <1>1, Members
<1>3. \A w : w # req[p].password => (w \in Trying' <=> w \in Trying)
  BY <1>2, Members
<1>4. \A w : w \in Trying' => w \in Trying
  BY <1>2, Members
<1>5. CASE req[p].password \in Trying'
  <2>1. \A w : w \in Trying' <=> w \in Trying
    BY <1>3, <1>4, <1>5
  <2>2. Trying' = Trying
    BY <2>1 DEF Trying
  <2> QED BY <2>2
<1>6. CASE req[p].password \notin Trying'
  <2>1. \A w : w \in Trying' <=> w \in Trying \ {req[p].password}
    BY <1>3, <1>4, <1>6
  <2>2. Trying' = Trying \ {req[p].password}
    BY <2>1 DEF Trying
  <2> QED BY <2>2
<1> QED BY <1>5, <1>6

LEMMA ReadyKept ==
  ASSUME Inv, NEW p \in Proc, Step(p), ~Harsh(p), ~Harsh(p)'
  PROVE  Ready' = Ready
<1>1. \A q \in Proc : /\ Harsh(q)' <=> Harsh(q)
                      /\ Harsh(q) => req'[q].spared = req[q].spared
  BY KnownRequests DEF Harsh, At
<1>2. \A S : S \in Ready' <=> S \in Ready
  BY <1>1, Members
<1> QED BY <1>2 DEF Ready

LEMMA ReadyEnds ==
  ASSUME Inv, NEW p \in Proc, Step(p), ~Harsh(p)'
  PROVE  Ready' \subseteq Ready
<1>1. \A q \in Proc : Harsh(q)' => Harsh(q) /\ req'[q].spared = req[q].spared
  BY KnownRequests DEF Harsh, At
<1> QED BY <1>1, Members

LEMMA DueKept ==
  ASSUME Inv, NEW p \in Proc, Step(p), req[p].pc = "revoke" <=> req'[p].pc = "revoke"
  PROVE  Due' = Due
<1>1. \A q \in Proc : req'[q].pc = "revoke" <=> req[q].pc = "revoke"
  BY KnownRequests
<1> QED BY <1>1 DEF Due, InFlight

\* A handler that neither begins nor stops to refresh.
LEMMA BusyKept ==
  ASSUME Inv, Next, NEW p \in Proc, Step(p), Refreshing(p)' <=> Refreshing(p),
         Refreshing(p) => req'[p].token = req[p].token
  PROVE  (\A l \in TokenId : Busy(l)' <=> Busy(l)) /\ InUse' = InUse
<1>1. \A q \in Proc : /\ Refreshing(q)' <=> Refreshing(q)
                      /\ Refreshing(q) => req'[q].token = req[q].token
  BY KnownRequests DEF Refreshing
<1>2. \A q \in Proc : Refreshing(q) =>
        token'[req[q].token].login = token[req[q].token].login
  BY TokenStep DEF Ageing, Refreshing, Inv, LoginKnown
<1>3. \A l \in TokenId : Busy(l)' <=> Busy(l)
  BY <1>1, <1>2 DEF Busy
<1> QED BY <1>3 DEF InUse

\* The sessions stay when no token does anything and nobody comes or goes.
LEMMA SessionSame ==
  ASSUME Inv, Next, UNCHANGED token, \A l \in TokenId : Busy(l)' <=> Busy(l)
  PROVE  Session' = Session /\ Key' = Key
<1>1. SignInsKept
  BY Unissued, SilentKeeps
<1>2. \A l \in TokenId : Held(l)' <=> Held(l)
  BY DEF Held
<1> QED BY <1>1, <1>2, SessionKept, KeyKept

\* What the owner can tell of the account.
AccountKept == account'.active = account.active /\ account'.password = account.password

\* A handler that touches no token, and whose place says nothing to the owner.
Telling(p) ==
  Signing(p) \/ Refreshing(p) \/ Harsh(p) \/ req[p].pc = "revoke"

LEMMA PlainRefines ==
  ASSUME Inv, Next, NEW p \in Proc, Step(p), ~Telling(p), ~Telling(p)',
         AccountKept, UNCHANGED token
  PROVE  UNCHANGED Abstract!state
<1>1. Trying' = Trying /\ Ready' = Ready /\ Due' = Due
  BY TryingKept, ReadyKept, DueKept DEF Telling
<1>2. (\A l \in TokenId : Busy(l)' <=> Busy(l)) /\ InUse' = InUse
  BY BusyKept DEF Telling
<1>3. Session' = Session /\ Key' = Key
  BY <1>2, SessionSame
<1> QED BY <1>1, <1>2, <1>3 DEF Abstract!state, AccountKept

LEMMA IdlePlain ==
  ASSUME Inv, NEW p \in Proc, Reply(p)
  PROVE  ~Telling(p)' /\ req'[p].pc = "idle"
<1>1. req'[p].pc = "idle"
  BY Replied DEF Inv, Idle
<1> QED BY <1>1 DEF Telling, Signing, Refreshing, Harsh, At

LiveOf(l) == \E t \in TokenId : token[t].state = "live" /\ token[t].login = l

LEMMA HeldIs ==
  ASSUME NEW l
  PROVE  (Held(l) <=> LiveOf(l) \/ Busy(l)) /\ (Held(l)' <=> LiveOf(l)' \/ Busy(l)')
  BY DEF Held, LiveOf

\* A refresh comes to its end: whatever it did to the tokens, it did to those of
\* its own sign-in k.
LEMMA LeavingRefines ==
  ASSUME Inv, Next, NEW p \in Proc, Step(p), Refreshing(p), Reply(p),
         AccountKept, SignInsKept,
         NEW k \in TokenId, token[req[p].token].login = k,
         \A l \in TokenId \ {k} : LiveOf(l)' <=> LiveOf(l),
         LiveOf(k) => LiveOf(k)'
  PROVE  Abstract!Next \/ UNCHANGED Abstract!state
<1>1. ~Telling(p)' /\ req'[p].pc = "idle"
  BY IdlePlain
<1>2. /\ ~Signing(p) /\ ~Harsh(p) /\ req[p].pc # "revoke"
  BY DEF Refreshing, Signing, Harsh, At
<1>3. Trying' = Trying /\ Ready' = Ready /\ Due' = Due /\ Key' = Key
  BY <1>1, <1>2, TryingKept, ReadyKept, DueKept, KeyKept DEF Telling
<1>4. Busy(k) /\ Started(k)
  <2>1. req[p].token \in TokenId /\ token[req[p].token].state # "absent"
    BY DEF Inv, LoginKnown, Refreshing
  <2> QED BY <2>1 DEF Busy, Inv, LoginKnown
<1>5. /\ \A l \in TokenId \ {k} : Busy(l)' <=> Busy(l)
      /\ \A l \in TokenId : Busy(l)' => Busy(l)
  <2>1. \A q \in Proc \ {p} : req'[q] = req[q]
    BY KnownRequests
  <2>2. \A q \in Proc : Refreshing(q) =>
          token'[req[q].token].login = token[req[q].token].login
    BY TokenStep DEF Ageing, Refreshing, Inv, LoginKnown
  <2>3. ~Refreshing(p)'
    BY <1>1 DEF Telling
  <2> QED BY <2>1, <2>2, <2>3 DEF Busy, Refreshing
<1>6. \A l \in TokenId \ {k} : Session'[l] = Session[l]
  BY <1>5, HeldIs DEF Session, SignInsKept
<1>7. Session[k] = "open" /\ Session'[k] = IF Held(k)' THEN "open" ELSE "over"
  BY <1>4, HeldIs DEF Session, SignInsKept
<1>8. CASE Busy(k)'
  <2>1. \A l \in TokenId : Busy(l)' <=> Busy(l)
    BY <1>4, <1>5, <1>8
  <2>2. InUse' = InUse
    BY <2>1 DEF InUse
  <2>3. Session' = Session
    <3>1. Session'[k] = Session[k]
      BY <1>7, <1>8, HeldIs
    <3> QED BY <1>6, <3>1, SessionIs
  <2> QED BY <1>3, <2>2, <2>3 DEF Abstract!state, AccountKept
<1>9. CASE ~Busy(k)'
  <2>1. k \in InUse /\ InUse' = InUse \ {k}
    BY <1>4, <1>5, <1>9 DEF InUse
  <2>2. Session' \in {Session, [Session EXCEPT ![k] = "over"]}
    <3>1. CASE Held(k)'
      <4>1. Session'[k] = Session[k]
        BY <1>7, <3>1
      <4>2. Session' = Session
        BY <1>6, <4>1, SessionIs
      <4> QED BY <4>2
    <3>2. CASE ~Held(k)'
      <4>1. Session' = [Session EXCEPT ![k] = "over"]
        BY <1>6, <1>7, <3>2, SessionIs
      <4> QED BY <4>1
    <3> QED BY <3>1, <3>2
  <2>3. Abstract!Used(k)
    BY <1>3, <2>1, <2>2 DEF Abstract!Used, AccountKept
  <2> QED BY <2>3 DEF Abstract!Next
<1> QED BY <1>8, <1>9

\* The end of a handler that has written nothing.
LEMMA ReplyRefines ==
  ASSUME Inv, Next, NEW p \in Proc, Step(p), Reply(p), Faults \/ req[p].pc # "revoke",
         AccountKept, UNCHANGED token
  PROVE  Abstract!Next \/ UNCHANGED Abstract!state
<1>1. ~Telling(p)' /\ req'[p].pc = "idle"
  BY IdlePlain
<1>2. CASE Refreshing(p)
  <2>1. SignInsKept
    BY Unissued, SilentKeeps
  <2>2. token[req[p].token].login \in TokenId
    BY <1>2 DEF Refreshing, Inv, LoginKnown
  <2>3. \A l \in TokenId : LiveOf(l)' <=> LiveOf(l)
    BY DEF LiveOf
  <2> QED BY <1>2, <2>1, <2>2, <2>3, LeavingRefines
<1>3. CASE ~Refreshing(p)
  <2>1. (\A l \in TokenId : Busy(l)' <=> Busy(l)) /\ InUse' = InUse
    BY <1>1, <1>3, BusyKept DEF Telling
  <2>2. Session' = Session /\ Key' = Key
    BY <2>1, SessionSame
  <2>3. CASE req[p].pc = "revoke"
    <3>1. Trying' = Trying /\ Ready' = Ready
      BY <1>1, <2>3, TryingKept, ReadyKept DEF Telling, Signing, Harsh, At
    <3>2. Due
      BY <2>3 DEF Due, InFlight
    <3>3. CASE Due'
      BY <2>1, <2>2, <3>1, <3>2, <3>3 DEF Abstract!state, AccountKept, Due
    <3>4. CASE ~Due'
      <4>1. Due' = FALSE
        BY <3>4 DEF Due
      <4>2. Abstract!Forget
        BY <2>1, <2>2, <2>3, <3>1, <4>1 DEF Abstract!Forget, AccountKept
      <4> QED BY <4>2 DEF Abstract!Next
    <3> QED BY <3>3, <3>4
  <2>4. CASE req[p].pc # "revoke"
    <3>1. Due' = Due
      BY <1>1, <2>4, DueKept
    <3>2. Trying' \subseteq Trying /\ Ready' \subseteq Ready
      BY <1>1, TryingEnds, ReadyEnds DEF Telling
    <3>3. Abstract!GiveUp
      BY <2>1, <2>2, <3>1, <3>2 DEF Abstract!GiveUp, AccountKept
    <3> QED BY <3>3 DEF Abstract!Next
  <2> QED BY <2>3, <2>4
<1> QED BY <1>2, <1>3

\* What a step leaves alone unless it is about a refresh or a revocation.
LEMMA UntoldKept ==
  ASSUME Inv, Next, NEW p \in Proc, Step(p), ~Refreshing(p), ~Refreshing(p)',
         ~Harsh(p), ~Harsh(p)', req[p].pc # "revoke", req'[p].pc # "revoke"
  PROVE  /\ Ready' = Ready /\ Due' = Due /\ InUse' = InUse
         /\ \A l \in TokenId : Busy(l)' <=> Busy(l)
  BY ReadyKept, DueKept, BusyKept

\* A sign-in opens one session, with a password that was right when it began.
LEMMA IssueRefines ==
  ASSUME Inv, Next, NEW p \in Proc, Step(p), LoginIssue(p)
  PROVE  Abstract!Next
<1>1. PICK n \in TokenId :
        /\ token[n].state = "absent"
        /\ token' = [token EXCEPT ![n] = [state |-> "live", login |-> n,
                                          password |-> req[p].password]]
  BY DEF LoginIssue, NextToken
<1>2. /\ token'[n] = [state |-> "live", login |-> n, password |-> req[p].password]
      /\ \A t \in TokenId \ {n} : token'[t] = token[t]
  BY <1>1 DEF Inv, ShapeOK
<1>3. req[p].pc = "login_issue" /\ UNCHANGED account
  BY DEF LoginIssue, At
<1>4. ~Telling(p)' /\ req'[p].pc = "idle"
  BY IdlePlain DEF LoginIssue
<1>5. Ready' = Ready /\ Due' = Due /\ InUse' = InUse
  BY <1>3, <1>4, UntoldKept DEF Telling, Refreshing, Harsh, At
<1>6. \A l \in TokenId : Busy(l)' <=> Busy(l)
  BY <1>3, <1>4, UntoldKept DEF Telling, Refreshing, Harsh, At
<1>7. /\ req[p].password \in Trying
      /\ Trying' \in {Trying, Trying \ {req[p].password}}
  BY <1>3, <1>4, Members, TryingEnds DEF Telling, Signing
<1>8. ~Started(n) /\ Started(n)' /\ Held(n)'
  BY <1>1, <1>2 DEF Started, Held
<1>9. \A l \in TokenId \ {n} : (Started(l)' <=> Started(l)) /\ token'[l] = token[l]
  BY <1>2 DEF Started
<1>10. \A l \in TokenId \ {n} : Held(l)' <=> Held(l)
  <2>1. \A t \in TokenId, l \in TokenId \ {n} :
          /\ token'[t].state = "live" /\ token'[t].login = l
          <=> token[t].state = "live" /\ token[t].login = l
    BY <1>1, <1>2
  <2> QED BY <1>6, <2>1 DEF Held
<1>11. Session[n] = "none" /\ Session' = [Session EXCEPT ![n] = "open"]
  <2>1. \A l \in TokenId \ {n} : Session'[l] = Session[l]
    BY <1>9, <1>10 DEF Session
  <2>2. Session[n] = "none" /\ Session'[n] = "open"
    BY <1>8 DEF Session
  <2> QED BY <2>1, <2>2, SessionIs
<1>12. Key' = [Key EXCEPT ![n] = req[p].password]
  <2>1. \A l \in TokenId \ {n} : Key'[l] = Key[l]
    BY <1>9 DEF Key
  <2>2. Key'[n] = req[p].password
    BY <1>2, <1>8 DEF Key
  <2>3. /\ Key = [l \in TokenId |-> Key[l]]
        /\ Key' = [l \in TokenId |-> Key'[l]]
    BY DEF Key
  <2> QED BY <2>1, <2>2, <2>3
<1>13. Abstract!SignIn(n)
  BY <1>3, <1>5, <1>7, <1>11, <1>12 DEF Abstract!SignIn
<1> QED BY <1>13 DEF Abstract!Next

LEMMA LoginRefines ==
  ASSUME Inv, Next, NEW p \in Proc, Step(p), Login(p)
  PROVE  Abstract!Next \/ UNCHANGED Abstract!state
<1>1. CASE LoginReceive(p)
  <2>1. /\ req[p].pc = "idle"
        /\ req'[p] = [Idle EXCEPT !.pc = "login_compare", !.password = account.password,
                                  !.attempts = account.attempts]
        /\ \A q \in Proc \ {p} : req'[q] = req[q]
    BY <1>1, Accepted DEF LoginReceive, Inv
  <2>2. req'[p].pc = "login_compare" /\ req'[p].password = account.password
    BY <2>1 DEF Idle
  <2>3. account.active /\ UNCHANGED <<account, token>>
    BY <1>1 DEF LoginReceive
  <2>4. Ready' = Ready /\ Due' = Due /\ InUse' = InUse
    BY <2>1, <2>2, UntoldKept DEF Refreshing, Harsh, At
  <2>5. \A l \in TokenId : Busy(l)' <=> Busy(l)
    BY <2>1, <2>2, UntoldKept DEF Refreshing, Harsh, At
  <2>6. Session' = Session /\ Key' = Key
    BY <2>3, <2>5, SessionSame
  <2>7. Trying' = Trying \cup {account.password}
    <3>1. ~Signing(p) /\ Signing(p)'
      BY <2>1, <2>2 DEF Signing
    <3>2. \A q \in Proc \ {p} : /\ Signing(q)' <=> Signing(q)
                                /\ req'[q].password = req[q].password
      BY <2>1 DEF Signing
    <3>3. \A w : w \in Trying' <=> w \in Trying \/ w = account.password
      BY <2>2, <3>1, <3>2, Members
    <3> QED BY <3>3
  <2>8. Abstract!Try
    BY <2>3, <2>4, <2>6, <2>7 DEF Abstract!Try
  <2> QED BY <2>8 DEF Abstract!Next
<1>2. CASE LoginFail(p)
  <2>1. AccountKept
    BY <1>2 DEF LoginFail, Inv, ShapeOK, AccountShape, AccountKept
  <2> QED BY <1>2, <2>1, ReplyRefines DEF LoginFail, At
<1>3. CASE LoginPass(p)
  <2>1. AccountKept /\ UNCHANGED token
    BY <1>3 DEF LoginPass, Inv, ShapeOK, AccountShape, AccountKept
  <2>2. /\ req'[p].pc = "login_issue" /\ req[p].pc = "login_compare"
        /\ req'[p].password = req[p].password
    BY <1>3, GoneTo DEF LoginPass, At
  <2>3. Trying' = Trying
    BY <2>2, TryingKept DEF Signing
  <2>4. Ready' = Ready /\ Due' = Due /\ InUse' = InUse
    BY <2>2, UntoldKept DEF Refreshing, Harsh, At
  <2>5. \A l \in TokenId : Busy(l)' <=> Busy(l)
    BY <2>2, UntoldKept DEF Refreshing, Harsh, At
  <2>6. Session' = Session /\ Key' = Key
    BY <2>1, <2>5, SessionSame
  <2> QED BY <2>1, <2>3, <2>4, <2>6 DEF Abstract!state, AccountKept
<1>4. CASE LoginIssue(p)
  BY <1>4, IssueRefines
<1> QED BY <1>1, <1>2, <1>3, <1>4 DEF Login

\* A rotation that writes touches the tokens of one sign-in only.
LEMMA RotationRefines ==
  ASSUME Inv, Next, NEW p \in Proc, Step(p), RefreshRotate(p), ~UNCHANGED token
  PROVE  Abstract!Next \/ UNCHANGED Abstract!state
<1>1. PICK n \in TokenId : Issued(p, n)
  BY RotatesTo DEF Issued
<1>2. Refreshing(p) /\ Reply(p) /\ UNCHANGED account /\ ~LoginIssue(p)
  BY DEF RefreshRotate, LoginIssue, At, Refreshing
<1>3. SignInsKept
  BY <1>1, <1>2, RotationKeeps
<1>4. PICK t \in TokenId : t = req[p].token /\ token[t].state # "absent"
  BY <1>1, <1>2 DEF Issued
<1>5. PICK k \in TokenId : k = token[t].login
  BY <1>4 DEF Inv, LoginKnown
<1>6. /\ token[n].state = "absent" /\ token'[n].state = "live" /\ token'[n].login = k
      /\ token'[t].login = k
      /\ \A u \in TokenId \ {t, n} : token'[u] = token[u]
  <2>1. token[n].state = "absent" /\ token' = Rotated(t, n)
    BY <1>1, <1>2, <1>4 DEF Issued
  <2>2. token'[t].login = token[t].login
    BY <1>4, TokenStep DEF Ageing
  <2>3. \A u \in TokenId \ {t, n} : token'[u] = token[u]
    <3>1. \A u \in TokenId \ {t, n} : Rotated(t, n)[u] = token[u]
      BY <1>4, <2>1, RotatedIs DEF Inv
    <3> QED BY <2>1, <3>1
  <2>4. token'[n].state = "live" /\ token'[n].login = token[t].login
    BY <1>1, <1>2, <1>4, IssuedIs
  <2> QED BY <1>5, <2>1, <2>2, <2>3, <2>4
<1>7. LiveOf(k)'
  BY <1>6 DEF LiveOf
<1>8. \A l \in TokenId \ {k} : LiveOf(l)' <=> LiveOf(l)
  <2>1. \A u \in TokenId, l \in TokenId \ {k} :
          /\ token'[u].state = "live" /\ token'[u].login = l
          <=> token[u].state = "live" /\ token[u].login = l
    BY <1>5, <1>6
  <2> QED BY <2>1 DEF LiveOf
<1> QED BY <1>2, <1>3, <1>4, <1>5, <1>7, <1>8, LeavingRefines DEF AccountKept

LEMMA RefreshRefines ==
  ASSUME Inv, Next, NEW p \in Proc, Step(p), Refresh(p)
  PROVE  Abstract!Next \/ UNCHANGED Abstract!state
<1>1. CASE RefreshReceive(p)
  <2>1. PICK t \in TokenId :
          /\ token[t].state = "live"
          /\ Accept(p, [Idle EXCEPT !.pc = "refresh_user", !.token = t])
    BY <1>1 DEF RefreshReceive
  <2>2. /\ req[p].pc = "idle"
        /\ req'[p] = [Idle EXCEPT !.pc = "refresh_user", !.token = t]
        /\ \A q \in Proc \ {p} : req'[q] = req[q]
    BY <2>1, Accepted DEF Inv
  <2>3. req'[p].pc = "refresh_user" /\ req'[p].token = t
    BY <2>2 DEF Idle
  <2>4. UNCHANGED <<account, token>>
    BY <1>1 DEF RefreshReceive
  <2>5. PICK k \in TokenId : k = token[t].login /\ Started(k)
    BY <2>1 DEF Inv, LoginKnown
  <2>6. (\A l \in TokenId \ {k} : Busy(l)' <=> Busy(l)) /\ Busy(k)'
    <3>1. \A q \in Proc, l \in TokenId \ {k} :
            Refreshing(q)' /\ token'[req'[q].token].login = l
            <=> Refreshing(q) /\ token[req[q].token].login = l
      <4>1. ~Refreshing(p) /\ Refreshing(p)' /\ token'[req'[p].token].login = k
        BY <2>2, <2>3, <2>4, <2>5 DEF Refreshing
      <4> QED BY <2>2, <2>4, <4>1 DEF Refreshing
    <3>2. Refreshing(p)' /\ token'[req'[p].token].login = k
      BY <2>3, <2>4, <2>5 DEF Refreshing
    <3> QED BY <3>1, <3>2 DEF Busy
  <2>7. InUse' = InUse \cup {k}
    BY <2>6 DEF InUse
  <2>8. LiveOf(k) /\ \A l : LiveOf(l)' <=> LiveOf(l)
    BY <2>1, <2>4, <2>5 DEF LiveOf
  <2>9. SignInsKept
    BY <2>4, Unissued, SilentKeeps
  <2>10. \A l \in TokenId : Held(l)' <=> Held(l)
    BY <2>6, <2>8, HeldIs
  <2>11. Session' = Session /\ Key' = Key
    BY <2>9, <2>10, SessionKept, KeyKept
  <2>12. Session[k] = "open"
    BY <2>5, <2>8, HeldIs DEF Session
  <2>13. Trying' = Trying /\ Ready' = Ready /\ Due' = Due
    BY <2>2, <2>3, TryingKept, ReadyKept, DueKept DEF Signing, Harsh, At
  <2>14. Abstract!Use(k)
    BY <2>4, <2>7, <2>11, <2>12, <2>13 DEF Abstract!Use
  <2> QED BY <2>14 DEF Abstract!Next
<1>2. CASE RefreshUser(p) /\ ~account.active
  BY <1>2, ReplyRefines DEF RefreshUser, At, AccountKept
<1>3. CASE RefreshUser(p) /\ account.active
  <2>1. req[p].pc = "refresh_user" /\ UNCHANGED <<account, token>>
    BY <1>3 DEF RefreshUser, At
  <2>2. req'[p].pc = "refresh_rotate" /\ req'[p].token = req[p].token
    BY <1>3, GoneTo DEF RefreshUser
  <2>3. Trying' = Trying /\ Ready' = Ready /\ Due' = Due
    BY <2>1, <2>2, TryingKept, ReadyKept, DueKept DEF Signing, Harsh, At
  <2>4. (\A l \in TokenId : Busy(l)' <=> Busy(l)) /\ InUse' = InUse
    BY <2>1, <2>2, BusyKept DEF Refreshing
  <2>5. Session' = Session /\ Key' = Key
    BY <2>1, <2>4, SessionSame
  <2> QED BY <2>1, <2>3, <2>4, <2>5 DEF Abstract!state
<1>4. CASE RefreshRotate(p) /\ UNCHANGED token
  BY <1>4, ReplyRefines DEF RefreshRotate, At, AccountKept
<1>5. CASE RefreshRotate(p) /\ ~UNCHANGED token
  BY <1>5, RotationRefines
<1> QED BY <1>1, <1>2, <1>3, <1>4, <1>5 DEF Refresh

\* A request is accepted that says nothing to the owner yet.
LEMMA AcceptRefines ==
  ASSUME Inv, Next, NEW p \in Proc, Step(p), req[p].pc = "idle",
         \/ Elsewhere(req'[p].pc) /\ req'[p].pc # "revoke"
         \/ /\ req'[p].pc = "admin_update"
            /\ ~req'[p].renew /\ FALSE \notin req'[p].set,
         UNCHANGED <<account, token>>
  PROVE  UNCHANGED Abstract!state
<1>1. ~Telling(p) /\ ~Telling(p)'
  BY DEF Telling, Signing, Refreshing, Harsh, At, Elsewhere
<1> QED BY <1>1, PlainRefines DEF AccountKept

LEMMA ForgotRefines ==
  ASSUME Inv, Next, NEW p \in Proc, Step(p), Forgot(p)
  PROVE  Abstract!Next \/ UNCHANGED Abstract!state
<1>1. CASE ForgotReceive(p)
  <2>1. req[p].pc = "idle" /\ req'[p] = [Idle EXCEPT !.pc = "forgot_snapshot"]
    BY <1>1, Accepted DEF ForgotReceive, Inv
  <2>2. req'[p].pc = "forgot_snapshot"
    BY <2>1 DEF Idle
  <2> QED BY <1>1, <2>1, <2>2, AcceptRefines DEF ForgotReceive, Elsewhere
<1>2. CASE ForgotSnapshot(p)
  <2>1. req[p].pc = "forgot_snapshot" /\ req'[p].pc = "forgot_commit"
    BY <1>2 DEF ForgotSnapshot, At, Inv, ShapeOK, RequestShape
  <2>2. ~Telling(p) /\ ~Telling(p)'
    BY <2>1 DEF Telling, Signing, Refreshing, Harsh, At
  <2> QED BY <1>2, <2>2, PlainRefines DEF ForgotSnapshot, AccountKept
<1>3. CASE ForgotCommit(p)
  BY <1>3, ReplyRefines DEF ForgotCommit, At, AccountKept
<1> QED BY <1>1, <1>2, <1>3 DEF Forgot

\* The owner's own change: the password, then the sessions.
LEMMA CommitRefines ==
  ASSUME Inv, Next, NEW p \in Proc, Step(p), account' = NewPassword, UNCHANGED token,
         req[p].pc \in {"reset_commit", "change_commit"}, Go(p, "revoke")
  PROVE  Abstract!Next
<1>1. req'[p].pc = "revoke"
  BY GoneTo
<1>2. ~Telling(p) /\ ~Signing(p)' /\ ~Refreshing(p)' /\ ~Harsh(p)'
  BY <1>1 DEF Telling, Signing, Refreshing, Harsh, At
<1>3. Trying' = Trying /\ Ready' = Ready
  BY <1>2, TryingKept, ReadyKept DEF Telling
<1>4. (\A l \in TokenId : Busy(l)' <=> Busy(l)) /\ InUse' = InUse
  BY <1>2, BusyKept DEF Telling
<1>5. Session' = Session /\ Key' = Key
  BY <1>4, SessionSame
<1>6. Due' = TRUE
  BY <1>1 DEF Due, InFlight
<1>7. account'.active = account.active /\ account'.password = account.password + 1
  BY DEF NewPassword, Inv, ShapeOK, AccountShape
<1>8. Abstract!Change
  BY <1>3, <1>4, <1>5, <1>6, <1>7 DEF Abstract!Change
<1> QED BY <1>8 DEF Abstract!Next

\* What revokeAllUserTokens does to the sessions: all end that no refresh holds.
LEMMA RevocationEnds ==
  ASSUME Inv, Next, NEW p \in Proc, Step(p), token' = AllRevoked,
         ~Refreshing(p), ~Refreshing(p)'
  PROVE  /\ Session' = [l \in TokenId |-> IF Abstract!Reached(l) THEN "over"
                                                                 ELSE Session[l]]
         /\ Key' = Key /\ InUse' = InUse
         /\ \A l \in TokenId : Session'[l] # "over" <=> l \in Spared
<1>1. (\A l \in TokenId : Busy(l)' <=> Busy(l)) /\ InUse' = InUse
  BY BusyKept
<1>2. ~Issues
  BY RevokedIs, IssuedIs DEF Issues, Inv
<1>3. SignInsKept
  BY <1>2, SilentKeeps
<1>4. \A l \in TokenId : Held(l)' <=> Busy(l)
  <2>1. \A l \in TokenId : ~LiveOf(l)'
    BY RevokedIs DEF LiveOf, Inv
  <2> QED BY <1>1, <2>1, HeldIs
<1>5. \A l \in TokenId : Abstract!Reached(l) <=> Session[l] = "open" /\ ~Busy(l)
  BY DEF Abstract!Reached, InUse
<1>6. \A l \in TokenId : Busy(l) => Started(l) /\ Held(l)
  BY HeldIs DEF Busy, Refreshing, Inv, LoginKnown
<1>7. \A l \in TokenId : Session'[l] = IF Abstract!Reached(l) THEN "over" ELSE Session[l]
  <2> SUFFICES ASSUME NEW l \in TokenId
               PROVE  Session'[l] = IF Abstract!Reached(l) THEN "over" ELSE Session[l]
    OBVIOUS
  <2>1. Started(l)' <=> Started(l)
    BY <1>3 DEF SignInsKept
  <2> QED BY <1>4, <1>5, <1>6, <2>1 DEF Session
<1>8. \A l \in TokenId : Session'[l] # "over" <=> l \in Spared
  BY <1>3, <1>4 DEF Session, SignInsKept, Spared
<1>9. Session' = [l \in TokenId |-> IF Abstract!Reached(l) THEN "over" ELSE Session[l]]
  BY <1>7, SessionIs
<1> QED BY <1>1, <1>3, <1>8, <1>9, KeyKept

LEMMA RevokeRefines ==
  ASSUME Inv, Next, NEW p \in Proc, Step(p), Revoke(p)
  PROVE  Abstract!Next
<1>1. req[p].pc = "revoke" /\ token' = AllRevoked /\ UNCHANGED account
  BY DEF Revoke, At
<1>2. ~Telling(p)' /\ req'[p].pc = "idle"
  BY IdlePlain DEF Revoke
<1>3. ~Signing(p) /\ ~Refreshing(p) /\ ~Harsh(p)
  BY <1>1 DEF Signing, Refreshing, Harsh, At
<1>4. Trying' = Trying /\ Ready' = Ready
  BY <1>2, <1>3, TryingKept, ReadyKept DEF Telling
<1>5. /\ Session' = [l \in TokenId |-> IF Abstract!Reached(l) THEN "over" ELSE Session[l]]
      /\ Key' = Key /\ InUse' = InUse
  BY <1>1, <1>2, <1>3, RevocationEnds DEF Telling
<1>6. Due' \in {Due, FALSE}
  <2>1. Due
    BY <1>1 DEF Due, InFlight
  <2>2. Due \in BOOLEAN /\ Due' \in BOOLEAN
    BY DEF Due
  <2> QED BY <2>1, <2>2
<1>7. Abstract!QuitAll
  BY <1>1, <1>4, <1>5, <1>6 DEF Abstract!QuitAll
<1> QED BY <1>7 DEF Abstract!Next

\* An admin ends the sessions: whom that spared is what the change waits for.
LEMMA AdminRevokeRefines ==
  ASSUME Inv, Next, NEW p \in Proc, Step(p), AdminRevoke(p)
  PROVE  Abstract!Next
<1>1. /\ req[p].pc \in {"admin_revoke", "admin_end"}
      /\ req'[p].pc \in {"admin_end", "admin_update"} /\ req'[p].spared = Spared
      /\ \A q \in Proc \ {p} : req'[q] = req[q]
  BY AdminMoves DEF Inv
<1>2. token' = AllRevoked /\ UNCHANGED account
  BY DEF AdminRevoke
<1>3. /\ ~Signing(p) /\ ~Signing(p)' /\ ~Refreshing(p) /\ ~Refreshing(p)' /\ ~Harsh(p)
  BY <1>1 DEF Signing, Refreshing, Harsh, At
<1>4. Trying' = Trying /\ Due' = Due
  BY <1>1, <1>3, TryingKept, DueKept
<1>5. /\ Session' = [l \in TokenId |-> IF Abstract!Reached(l) THEN "over" ELSE Session[l]]
      /\ Key' = Key /\ InUse' = InUse
      /\ \A l \in TokenId : Session'[l] # "over" <=> l \in Spared
  BY <1>2, <1>3, RevocationEnds
<1>6. Spared = {l \in TokenId : Session'[l] # "over"}
  BY <1>5 DEF Spared
<1>7. CASE Harsh(p)'
  <2>1. \A q \in Proc \ {p} : /\ Harsh(q)' <=> Harsh(q)
                              /\ req'[q].spared = req[q].spared
    BY <1>1 DEF Harsh, At
  <2>2. \A S : S \in Ready' <=> S \in Ready \/ S = Spared
    BY <1>1, <1>3, <1>7, <2>1, Members
  <2>3. Ready' = Ready \cup {Spared}
    BY <2>2
  <2>4. Ready' = Ready \cup {{l \in TokenId : Session'[l] # "over"}}
    BY <1>6, <2>3
  <2>5. Abstract!QuitAll
    BY <1>2, <1>4, <1>5, <2>4 DEF Abstract!QuitAll
  <2> QED BY <2>5 DEF Abstract!Next
<1>8. CASE ~Harsh(p)'
  <2>1. Ready' = Ready
    BY <1>3, <1>8, ReadyKept
  <2>2. Abstract!QuitAll
    BY <1>2, <1>4, <1>5, <2>1 DEF Abstract!QuitAll
  <2> QED BY <2>2 DEF Abstract!Next
<1> QED BY <1>7, <1>8

\* An admin's change finds no session open that was not spared, but for a mere
\* reactivation.
LEMMA UpdateRefines ==
  ASSUME SignInv, Next, NEW p \in Proc, Step(p), AdminUpdate(p)
  PROVE  Abstract!Next \/ UNCHANGED Abstract!state
<1> USE DEF SignInv
<1>1. req[p].pc = "admin_update" /\ UNCHANGED token
  BY DEF AdminUpdate, At
<1>2. ~Telling(p)' /\ req'[p].pc = "idle"
  BY IdlePlain DEF AdminUpdate
<1>3. ~Signing(p) /\ ~Refreshing(p)
  BY <1>1 DEF Signing, Refreshing
<1>4. (\A l \in TokenId : Busy(l)' <=> Busy(l)) /\ InUse' = InUse
  BY <1>2, <1>3, BusyKept DEF Telling
<1>5. Session' = Session /\ Key' = Key
  BY <1>1, <1>4, SessionSame
<1>6. Trying' = Trying /\ Due' = Due /\ Ready' \subseteq Ready
  BY <1>1, <1>2, <1>3, TryingKept, DueKept, ReadyEnds DEF Telling
<1>7. /\ account'.active = IF req[p].set = {} THEN account.active ELSE TRUE \in req[p].set
      /\ account'.password = account.password + (IF req[p].renew THEN 1 ELSE 0)
  BY DEF AdminUpdate
<1>8. account.active \in BOOLEAN /\ account.password \in Nat
  BY DEF Inv, ShapeOK, AccountShape
<1>9. account'.password \in {account.password, account.password + 1}
  BY <1>7, <1>8
<1>10. account'.active \in BOOLEAN
  <2>1. (TRUE \in req[p].set) \in BOOLEAN
    OBVIOUS
  <2>2. CASE req[p].set = {}
    BY <1>7, <1>8, <2>2
  <2>3. CASE req[p].set # {}
    <3>1. account'.active = (TRUE \in req[p].set)
      BY <1>7, <2>3
    <3> QED BY <2>1, <3>1
  <2> QED BY <2>2, <2>3
<1>11. CASE req[p].renew \/ FALSE \in req[p].set
  <2>1. Harsh(p)
    BY <1>1, <1>11 DEF Harsh, At
  <2>2. req[p].spared \in Ready
    BY <2>1, Members
  <2>3. \A l \in TokenId : Session[l] = "open" => l \in req[p].spared
    BY <2>1 DEF SparedOver, Over, Session
  <2>4. Abstract!Administer
    BY <1>4, <1>5, <1>6, <1>9, <1>10, <2>2, <2>3 DEF Abstract!Administer
  <2> QED BY <2>4 DEF Abstract!Next
<1>12. CASE ~req[p].renew /\ FALSE \notin req[p].set
  <2>1. account'.password = account.password
    BY <1>7, <1>8, <1>12
  <2>2. account'.active = account.active \/ account'.active = TRUE
    <3>1. CASE req[p].set = {}
      BY <1>7, <3>1
    <3>2. CASE req[p].set # {}
      <4>1. PICK b \in req[p].set : TRUE
        BY <3>2
      <4>2. b = TRUE \/ b = FALSE
        BY DEF Inv, ShapeOK, RequestShape
      <4>3. TRUE \in req[p].set
        BY <1>12, <4>1, <4>2
      <4> QED BY <1>7, <3>2, <4>3
    <3> QED BY <3>1, <3>2
  <2>3. ~(account.active /\ ~account'.active)
    BY <2>2
  <2>4. Abstract!Administer
    BY <1>4, <1>5, <1>6, <1>9, <1>10, <2>1, <2>3 DEF Abstract!Administer
  <2> QED BY <2>4 DEF Abstract!Next
<1> QED BY <1>11, <1>12

LEMMA ChangeRefines ==
  ASSUME SignInv, Next, NEW p \in Proc, Step(p), Change(p)
  PROVE  Abstract!Next \/ UNCHANGED Abstract!state
<1> USE DEF SignInv
<1>1. CASE ResetReceive(p)
  <2>1. PICK r \in ResetId : Accept(p, [Idle EXCEPT !.pc = "reset_commit", !.reset = r])
    BY <1>1 DEF ResetReceive
  <2>2. req[p].pc = "idle" /\ req'[p] = [Idle EXCEPT !.pc = "reset_commit", !.reset = r]
    BY <2>1, Accepted DEF Inv
  <2>3. req'[p].pc = "reset_commit"
    BY <2>2 DEF Idle
  <2> QED BY <1>1, <2>2, <2>3, AcceptRefines DEF ResetReceive, Elsewhere
<1>2. CASE ChangeReceive(p)
  <2>1. req[p].pc = "idle" /\ req'[p] = [Idle EXCEPT !.pc = "change_commit"]
    BY <1>2, Accepted DEF ChangeReceive, Inv
  <2>2. req'[p].pc = "change_commit"
    BY <2>1 DEF Idle
  <2> QED BY <1>2, <2>1, <2>2, AcceptRefines DEF ChangeReceive, Elsewhere
<1>3. CASE AdminReceive(p)
  <2>1. PICK renew \in BOOLEAN, set \in {{}, {FALSE}, {TRUE}} :
          Accept(p, [Idle EXCEPT !.pc = AdminFirst(renew, set),
                                 !.renew = renew, !.set = set])
    BY <1>3 DEF AdminReceive
  <2>2. /\ req[p].pc = "idle"
        /\ req'[p] = [Idle EXCEPT !.pc = AdminFirst(renew, set),
                                  !.renew = renew, !.set = set]
    BY <2>1, Accepted DEF Inv
  <2>3. /\ req'[p].pc = AdminFirst(renew, set)
        /\ req'[p].renew = renew /\ req'[p].set = set
    BY <2>2 DEF Idle
  <2>4. \/ Elsewhere(req'[p].pc) /\ req'[p].pc # "revoke"
        \/ /\ req'[p].pc = "admin_update"
           /\ ~req'[p].renew /\ FALSE \notin req'[p].set
    BY <2>3 DEF AdminFirst, Elsewhere
  <2> QED BY <1>3, <2>2, <2>4, AcceptRefines DEF AdminReceive
<1>4. CASE ResetCommit(p)
  <2>1. CASE reset[req[p].reset] = "deleted"
    BY <1>4, <2>1, ReplyRefines DEF ResetCommit, At, AccountKept
  <2>2. CASE reset[req[p].reset] # "deleted"
    BY <1>4, <2>2, CommitRefines DEF ResetCommit, At
  <2> QED BY <2>1, <2>2
<1>5. CASE ChangeCommit(p)
  BY <1>5, CommitRefines DEF ChangeCommit, At
<1>6. CASE Revoke(p) \/ AdminRevoke(p)
  BY <1>6, RevokeRefines, AdminRevokeRefines
<1>7. CASE AdminUpdate(p)
  BY <1>7, UpdateRefines
<1> QED BY <1>1, <1>2, <1>3, <1>4, <1>5, <1>6, <1>7 DEF Change

\* A token that ends by itself or by a logout ends its sign-in or leaves it.
LEMMA TokenEndRefines ==
  ASSUME Inv, Next, NEW u \in TokenId, token[u].state # "absent",
         token'[u].state # "live", \A t \in TokenId \ {u} : token'[t] = token[t],
         UNCHANGED <<account, req>>, ~Issues
  PROVE  Abstract!Next \/ UNCHANGED Abstract!state
<1>1. PICK k \in TokenId : k = token[u].login /\ Started(k)
  BY DEF Inv, LoginKnown
<1>2. /\ Trying' = Trying /\ Ready' = Ready /\ Due' = Due
      /\ \A l \in TokenId : Busy(l)' <=> Busy(l)
  <2>1. \A q \in Proc : Refreshing(q) =>
          token'[req[q].token].login = token[req[q].token].login
    BY TokenStep DEF Ageing, Refreshing, Inv, LoginKnown
  <2> QED BY <2>1 DEF Trying, Ready, Due, Harsh, At, InFlight, Busy, Refreshing
<1>3. InUse' = InUse
  BY <1>2 DEF InUse
<1>4. SignInsKept
  BY SilentKeeps
<1>5. \A t \in TokenId, l \in TokenId \ {k} :
        /\ token'[t].state = "live" /\ token'[t].login = l
        <=> token[t].state = "live" /\ token[t].login = l
  <2>1. token'[u].login = k
    BY <1>1, TokenStep DEF Ageing
  <2> QED BY <1>1, <2>1
<1>6. \A l \in TokenId \ {k} : Held(l)' <=> Held(l)
  BY <1>2, <1>5 DEF Held
<1>7. Held(k)' => Held(k)
  <2>1. LiveOf(k)' => LiveOf(k)
    BY TokenStep DEF LiveOf
  <2> QED BY <1>2, <2>1, HeldIs
<1>8. CASE Held(k)' <=> Held(k)
  <2>1. Session' = Session
    BY <1>4, <1>6, <1>8, SessionKept
  <2> QED BY <1>2, <1>3, <1>4, <2>1, KeyKept DEF Abstract!state
<1>9. CASE Held(k) /\ ~Held(k)'
  <2>1. Session[k] = "open" /\ k \notin InUse
    BY <1>1, <1>2, <1>9, HeldIs DEF Session, InUse
  <2>2. \A l \in TokenId \ {k} : Session'[l] = Session[l]
    BY <1>4, <1>6 DEF Session, SignInsKept
  <2>3. Session'[k] = "over"
    BY <1>1, <1>4, <1>9 DEF Session, SignInsKept
  <2>4. Session' = [Session EXCEPT ![k] = "over"]
    BY <2>2, <2>3, SessionIs
  <2>5. Abstract!Quit(k)
    BY <1>2, <1>3, <1>4, <2>1, <2>4, KeyKept DEF Abstract!Quit
  <2> QED BY <2>5 DEF Abstract!Next
<1> QED BY <1>7, <1>8, <1>9

LEMMA AsideRefines ==
  ASSUME Inv, Next, Aside
  PROVE  Abstract!Next \/ UNCHANGED Abstract!state
<1>1. Calm /\ req' = req
  BY CalmAside
<1>2. ~Issues
  BY <1>1, IssuedIs DEF Issues, Issued, Calm
<1>3. CASE Logout
  <2>1. PICK u \in TokenId : token[u].state = "live"
                             /\ token' = [token EXCEPT ![u] = Ended(token[u])]
    BY <1>3 DEF Logout
  <2>2. /\ token'[u].state # "live"
        /\ \A t \in TokenId \ {u} : token'[t] = token[t]
    BY <2>1 DEF Inv, ShapeOK, TokenShape, Ended
  <2> QED BY <1>2, <1>3, <2>1, <2>2, TokenEndRefines DEF Logout
<1>4. CASE \E u \in TokenId : Expire(u)
  <2>1. PICK u \in TokenId : Expire(u)
    BY <1>4
  <2>2. /\ token[u].state # "absent" /\ token'[u].state # "live"
        /\ \A t \in TokenId \ {u} : token'[t] = token[t]
    BY <2>1 DEF Expire, Inv, ShapeOK, TokenShape
  <2> QED BY <1>2, <2>1, <2>2, TokenEndRefines DEF Expire
<1>5. CASE Unlock \/ CleanUp \/ \E r \in ResetId : Lapse(r)
  <2>1. \A t \in TokenId : token'[t].state = "live" <=> token[t].state = "live"
    <3>1. CASE CleanUp
      <4>1. \A t \in TokenId : token'[t].state = IF token[t].state = "expired"
                                               THEN "deleted" ELSE token[t].state
        BY <3>1 DEF CleanUp, Inv, ShapeOK, TokenShape
      <4> QED BY <4>1
    <3>2. CASE UNCHANGED token
      BY <3>2
    <3> QED BY <1>5, <3>1, <3>2 DEF Unlock, Lapse
  <2>2. \A t \in TokenId : token[t].state # "absent" => token'[t].login = token[t].login
    BY TokenStep DEF Ageing
  <2>3. \A l \in TokenId : Busy(l)' <=> Busy(l)
    BY <1>1, <2>2 DEF Busy, Refreshing, Inv, LoginKnown
  <2>4. \A l \in TokenId : Held(l)' <=> Held(l)
    BY <2>1, <2>2, <2>3 DEF Held
  <2>5. Session' = Session /\ Key' = Key
    BY <1>2, <2>4, SilentKeeps, SessionKept, KeyKept
  <2>6. Trying' = Trying /\ Ready' = Ready /\ Due' = Due /\ InUse' = InUse
    BY <1>1, <2>3 DEF Trying, Ready, Due, InUse, Harsh, At, InFlight
  <2> QED BY <1>1, <2>5, <2>6 DEF Abstract!state, Calm
<1> QED BY <1>3, <1>4, <1>5 DEF Aside

LEMMA SignInsInit == Init => Abstract!Init
<1> SUFFICES ASSUME Init PROVE Abstract!Init
  OBVIOUS
<1>1. (\A l \in TokenId : ~Started(l)) /\ \A p \in Proc : req[p].pc = "idle"
  BY DEF Init, Started, Idle
<1>2. Session = [l \in TokenId |-> "none"] /\ Key = [l \in TokenId |-> 0]
  BY <1>1 DEF Session, Key
<1>3. Due = FALSE /\ Trying = {} /\ InUse = {} /\ Ready = {}
  BY <1>1 DEF Due, Trying, InUse, Ready, InFlight, Busy, Refreshing, Harsh, At
<1>4. account.active = TRUE /\ account.password = 0
  BY DEF Init
<1> QED BY <1>2, <1>3, <1>4 DEF Abstract!Init

(* Whatever sign-ins, refreshes, logouts, expiries, resets and changes are in *)
(* flight, and wherever they die, the owner sees nothing but the moves of     *)
(* SignIns: a session lives through its rotations and ends once, and a new    *)
(* password or a deactivation by an admin finds none open but those that were *)
(* being opened or refreshed when the admin's revocation ran.                 *)
THEOREM SignInsImplemented == Spec => ImplementsSignIns
<1>1. SignInv /\ [Next]_vars => [Abstract!Next]_Abstract!state
  <2> SUFFICES ASSUME SignInv, [Next]_vars
               PROVE  Abstract!Next \/ UNCHANGED Abstract!state
    OBVIOUS
  <2>1. CASE UNCHANGED vars
    BY <2>1 DEF vars, Abstract!state, Session, Key, Trying, InUse, Due, Ready, Harsh, At,
       Started, Held, Busy, Refreshing, InFlight
  <2>2. ASSUME Next, NEW p \in Proc, Step(p)
        PROVE  Abstract!Next \/ UNCHANGED Abstract!state
    <3>1. CASE Fail(p)
      BY <2>2, <3>1, ReplyRefines DEF Fail, SignInv, AccountKept
    <3> QED BY <2>2, <3>1, LoginRefines, RefreshRefines, ForgotRefines, ChangeRefines
            DEF Step, SignInv
  <2> QED BY <2>1, <2>2, AsideRefines, NextIs DEF SignInv
<1> QED BY <1>1, SignInvInit, SignInvNext, SignInsInit, PTL
        DEF Spec, ImplementsSignIns, Abstract!Spec
=============================================================================
