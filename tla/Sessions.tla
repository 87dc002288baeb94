------------------------------ MODULE Sessions ------------------------------
(* One user account and its sessions: sign-in with lockout, refresh tokens    *)
(* and their rotation, password reset and change, deactivation by an admin    *)
(* (services/auth.service.ts, routes/auth.ts, routes/users.ts).  Accounts do  *)
(* not interact: every statement below names one user.  As in AssetStore, a   *)
(* handler is one action per awaited statement.                               *)
EXTENDS Naturals, FiniteSets

CONSTANTS
  Proc,            \* the requests that can be in flight together
  MaxFailed,       \* MAX_FAILED_ATTEMPTS
  MaxTokens,       \* bound: refresh tokens ever issued
  MaxResets,       \* bound: reset tokens ever issued
  MaxPasswords,    \* bound: passwords ever set
  MaxAttempts,     \* bound: failures counted, past the lockout too
  Faults           \* may a handler die between two statements?

ASSUME BoundAssumption ==
  /\ MaxFailed \in Nat /\ MaxTokens \in Nat /\ MaxResets \in Nat
  /\ MaxPasswords \in Nat /\ MaxAttempts \in Nat
ASSUME SwitchAssumption == Faults \in BOOLEAN
ASSUME ProcAssumption == IsFiniteSet(Proc)

TokenId == 1 .. MaxTokens
ResetId == 1 .. MaxResets
Password == 0 .. MaxPasswords

VARIABLES
  account,  \* the users row; a password hash is told apart by its number
  token,    \* refresh_tokens, with the sign-in each descends from
  reset,    \* password_reset_tokens
  req       \* the handlers in flight

vars == <<account, token, reset, req>>

AccountRow ==
  [active : BOOLEAN, password : Password, attempts : 0 .. MaxAttempts,
   locked : BOOLEAN]

TokenRow ==
  [state : {"absent", "live", "revoked", "expired", "deleted"},
   login : TokenId \cup {0}, password : Password]

ResetState == {"absent", "usable", "lapsed", "used", "deleted"}

Issuing == {"login_compare", "login_issue", "refresh_user", "refresh_rotate"}
Changing == {"reset_commit", "change_commit", "revoke",
             "admin_revoke", "admin_end", "admin_update"}
PC == {"idle", "forgot_snapshot", "forgot_commit"} \cup Issuing \cup Changing

Request ==
  [pc : PC, password : Password, attempts : 0 .. MaxAttempts,
   token : TokenId \cup {0}, reset : ResetId \cup {0}, rows : SUBSET ResetId,
   renew : BOOLEAN, set : SUBSET BOOLEAN, spared : SUBSET TokenId]

Idle == [pc |-> "idle", password |-> 0, attempts |-> 0, token |-> 0, reset |-> 0,
         rows |-> {}, renew |-> FALSE, set |-> {}, spared |-> {}]

Init ==
  /\ account = [active |-> TRUE, password |-> 0, attempts |-> 0, locked |-> FALSE]
  /\ token = [t \in TokenId |-> [state |-> "absent", login |-> 0, password |-> 0]]
  /\ reset = [r \in ResetId |-> "absent"]
  /\ req = [p \in Proc |-> Idle]

-----------------------------------------------------------------------------
(* Requests *)

InFlight(pcs) == {q \in Proc : req[q].pc \in pcs}

\* The bounds: a request that may insert is accepted while there is room for
\* it and for those in flight.
TokenRoom ==
  Cardinality({t \in TokenId : token[t].state = "absent"}) > Cardinality(InFlight(Issuing))
ResetRoom ==
  Cardinality({r \in ResetId : reset[r] = "absent"})
    > Cardinality(InFlight({"forgot_snapshot", "forgot_commit"}))
PasswordRoom ==
  MaxPasswords > account.password + Cardinality(InFlight(Changing))

Accept(p, r) ==
  /\ req[p].pc = "idle"
  /\ req' = [req EXCEPT ![p] = r]

At(p, pc) == req[p].pc = pc
Go(p, pc) == req' = [req EXCEPT ![p].pc = pc]
Reply(p) == req' = [req EXCEPT ![p] = Idle]

NextToken(t) ==
  /\ t \in TokenId
  /\ token[t].state = "absent"
  /\ \A u \in TokenId : token[u].state = "absent" => t <= u

NextReset(r) ==
  /\ r \in ResetId
  /\ reset[r] = "absent"
  /\ \A s \in ResetId : reset[s] = "absent" => r <= s

-----------------------------------------------------------------------------
(* A sign-in is known by the refresh token it issued first.  It lasts while a *)
(* token that descends from it is live, or a refresh has found one that was.  *)

Started(l) == token[l].state # "absent" /\ token[l].login = l

Refreshing(p) == req[p].pc \in {"refresh_user", "refresh_rotate"}

Busy(l) == \E p \in Proc : Refreshing(p) /\ token[req[p].token].login = l

Held(l) ==
  \/ \E t \in TokenId : token[t].state = "live" /\ token[t].login = l
  \/ Busy(l)

-----------------------------------------------------------------------------
(* Statements *)

\* Mutant of Ended: the column of the other token table.
EndedAsUsed(row) == IF row.state = "live" THEN [row EXCEPT !.state = "used"] ELSE row

Ended(row) == IF row.state = "live" THEN [row EXCEPT !.state = "revoked"] ELSE row

\* revokeAllUserTokens
AllRevoked == [t \in TokenId |-> Ended(token[t])]

-----------------------------------------------------------------------------
(* POST /auth/login *)

LoginReceive(p) ==
  /\ account.active /\ ~account.locked
  /\ TokenRoom
  /\ account.attempts < MaxAttempts
  /\ Accept(p, [Idle EXCEPT !.pc = "login_compare", !.password = account.password,
                            !.attempts = account.attempts])
  /\ UNCHANGED <<account, token, reset>>

\* Mutant of LoginFail: lockedUntil is written whether or not it locks.
LoginFailUnlocks(p) ==
  /\ At(p, "login_compare")
  /\ LET n == req[p].attempts + 1 IN
     account' = [account EXCEPT !.attempts = n, !.locked = n >= MaxFailed]
  /\ Reply(p)
  /\ UNCHANGED <<token, reset>>

\* A wrong password: the count is the one read before bcrypt ran, plus one.
LoginFail(p) ==
  /\ At(p, "login_compare")
  /\ LET n == req[p].attempts + 1 IN
     account' = [account EXCEPT !.attempts = n,
                                !.locked = account.locked \/ n >= MaxFailed]
  /\ Reply(p)
  /\ UNCHANGED <<token, reset>>

LoginPass(p) ==
  /\ At(p, "login_compare")
  /\ account' = [account EXCEPT !.attempts = 0, !.locked = FALSE]
  /\ Go(p, "login_issue")
  /\ UNCHANGED <<token, reset>>

LoginIssue(p) ==
  /\ At(p, "login_issue")
  /\ \E t \in TokenId :
       /\ NextToken(t)
       /\ token' = [token EXCEPT ![t] = [state |-> "live", login |-> t,
                                         password |-> req[p].password]]
  /\ Reply(p)
  /\ UNCHANGED <<account, reset>>

-----------------------------------------------------------------------------
(* POST /auth/refresh, POST /auth/logout *)

\* Mutant of RefreshReceive: revokedAt is not looked at.
RefreshReceiveRevoked(p) ==
  /\ TokenRoom
  /\ \E t \in TokenId :
       /\ token[t].state \in {"live", "revoked"}
       /\ Accept(p, [Idle EXCEPT !.pc = "refresh_user", !.token = t])
  /\ UNCHANGED <<account, token, reset>>

RefreshReceive(p) ==
  /\ TokenRoom
  /\ \E t \in TokenId :
       /\ token[t].state = "live"
       /\ Accept(p, [Idle EXCEPT !.pc = "refresh_user", !.token = t])
  /\ UNCHANGED <<account, token, reset>>

RefreshUser(p) ==
  /\ At(p, "refresh_user")
  /\ IF account.active THEN Go(p, "refresh_rotate") ELSE Reply(p)
  /\ UNCHANGED <<account, token, reset>>

\* Mutant of Rotated: the old token stays.
RotatedBoth(t, n) ==
  [token EXCEPT ![n] = [state |-> "live", login |-> token[t].login,
                        password |-> token[t].password]]

\* The transaction of the rotation: the update of the old token is by id,
\* whatever became of the token since it was read.
Rotated(t, n) ==
  [token EXCEPT ![t] = Ended(@),
                ![n] = [state |-> "live", login |-> token[t].login,
                        password |-> token[t].password]]

RefreshRotate(p) ==
  /\ At(p, "refresh_rotate")
  /\ IF token[req[p].token].state = "deleted"
     THEN UNCHANGED token
     ELSE \E n \in TokenId : NextToken(n) /\ token' = Rotated(req[p].token, n)
  /\ Reply(p)
  /\ UNCHANGED <<account, reset>>

\* A single statement, of a request that needs nothing else.
Logout ==
  /\ \E t \in TokenId :
       /\ token[t].state = "live"
       /\ token' = [token EXCEPT ![t] = Ended(@)]
  /\ UNCHANGED <<account, reset, req>>

-----------------------------------------------------------------------------
(* POST /auth/forgot-password, POST /auth/reset-password *)

ForgotReceive(p) ==
  /\ account.active
  /\ ResetRoom
  /\ Accept(p, [Idle EXCEPT !.pc = "forgot_snapshot"])
  /\ UNCHANGED <<account, token, reset>>

\* Mutant of Outstanding: an unused link is left alone.
OutstandingNone == {}

\* usedAt IS NULL
Outstanding == {r \in ResetId : reset[r] \in {"usable", "lapsed"}}

ForgotSnapshot(p) ==
  /\ At(p, "forgot_snapshot")
  /\ req' = [req EXCEPT ![p] = [@ EXCEPT !.rows = Outstanding, !.pc = "forgot_commit"]]
  /\ UNCHANGED <<account, token, reset>>

ForgotCommit(p) ==
  /\ At(p, "forgot_commit")
  /\ \E n \in ResetId :
       /\ NextReset(n)
       /\ reset' = [r \in ResetId |->
            IF r = n THEN "usable"
            ELSE IF r \in req[p].rows \cap Outstanding THEN "deleted" ELSE reset[r]]
  /\ Reply(p)
  /\ UNCHANGED <<account, token>>

\* Mutant of ResetReceive: a used link is found too.
ResetReceiveUsed(p) ==
  /\ PasswordRoom
  /\ \E r \in ResetId :
       /\ reset[r] \in {"usable", "used"}
       /\ Accept(p, [Idle EXCEPT !.pc = "reset_commit", !.reset = r])
  /\ UNCHANGED <<account, token, reset>>

ResetReceive(p) ==
  /\ PasswordRoom
  /\ \E r \in ResetId :
       /\ reset[r] = "usable"
       /\ Accept(p, [Idle EXCEPT !.pc = "reset_commit", !.reset = r])
  /\ UNCHANGED <<account, token, reset>>

NewPassword == [account EXCEPT !.password = @ + 1]

\* The transaction: when the row of the reset token is gone it rolls back.
ResetCommit(p) ==
  /\ At(p, "reset_commit")
  /\ IF reset[req[p].reset] = "deleted"
     THEN UNCHANGED <<account, reset>> /\ Reply(p)
     ELSE /\ account' = NewPassword
          /\ reset' = [reset EXCEPT ![req[p].reset] = "used"]
          /\ Go(p, "revoke")
  /\ UNCHANGED token

\* Mutant of Revoke: the call is forgotten.
RevokeForgotten(p) ==
  /\ At(p, "revoke")
  /\ Reply(p)
  /\ UNCHANGED <<account, token, reset>>

\* The last statement of a reset and of a change.
Revoke(p) ==
  /\ At(p, "revoke")
  /\ token' = AllRevoked
  /\ Reply(p)
  /\ UNCHANGED <<account, reset>>

-----------------------------------------------------------------------------
(* POST /auth/change-password, PATCH /users/:id *)

\* The access token of the caller was issued with some refresh token.
ChangeReceive(p) ==
  /\ PasswordRoom
  /\ \E t \in TokenId : token[t].state # "absent"
  /\ Accept(p, [Idle EXCEPT !.pc = "change_commit"])
  /\ UNCHANGED <<account, token, reset>>

ChangeCommit(p) ==
  /\ At(p, "change_commit")
  /\ account' = NewPassword
  /\ Go(p, "revoke")
  /\ UNCHANGED <<token, reset>>

\* Mutant of AdminFirst: only a new password ends the sessions.
AdminFirstPassword(renew, set) == IF renew THEN "admin_revoke" ELSE "admin_update"

\* The sessions end before the row is updated: for a new password, and for a
\* deactivation.
AdminFirst(renew, set) ==
  IF renew THEN "admin_revoke" ELSE IF FALSE \in set THEN "admin_end" ELSE "admin_update"

\* A body may carry a password ("renew") and isActive: "set" holds its value.
AdminReceive(p) ==
  /\ \E renew \in BOOLEAN, set \in {{}, {FALSE}, {TRUE}} :
       /\ renew => PasswordRoom
       /\ Accept(p, [Idle EXCEPT !.pc = AdminFirst(renew, set),
                                 !.renew = renew, !.set = set])
  /\ UNCHANGED <<account, token, reset>>

\* What a revocation cannot reach: sign-ins not begun, and those a refresh in
\* flight will prolong.
Spared == {l \in TokenId : Started(l) => Busy(l)}

\* Both in one body: the sessions are revoked twice.  "spared" is a ghost: no
\* statement reads it.
AdminRevoke(p) ==
  /\ At(p, "admin_revoke") \/ At(p, "admin_end")
  /\ token' = AllRevoked
  /\ LET next == IF At(p, "admin_revoke") /\ FALSE \in req[p].set
                 THEN "admin_end" ELSE "admin_update" IN
     req' = [req EXCEPT ![p] = [@ EXCEPT !.pc = next, !.spared = Spared]]
  /\ UNCHANGED <<account, reset>>

AdminUpdate(p) ==
  /\ At(p, "admin_update")
  /\ account' = [active |-> IF req[p].set = {} THEN account.active
                                               ELSE TRUE \in req[p].set,
                 password |-> account.password + (IF req[p].renew THEN 1 ELSE 0),
                 attempts |-> account.attempts, locked |-> account.locked]
  /\ Reply(p)
  /\ UNCHANGED <<token, reset>>

-----------------------------------------------------------------------------
(* Time, and the weekly clean-up of jobs/scheduler.ts *)

Unlock ==
  /\ account.locked
  /\ account' = [account EXCEPT !.locked = FALSE]
  /\ UNCHANGED <<token, reset, req>>

Expire(t) ==
  /\ token[t].state \in {"live", "revoked"}
  /\ token' = [token EXCEPT ![t].state = "expired"]
  /\ UNCHANGED <<account, reset, req>>

Lapse(r) ==
  /\ reset[r] = "usable"
  /\ reset' = [reset EXCEPT ![r] = "lapsed"]
  /\ UNCHANGED <<account, token, req>>

CleanUp ==
  /\ \E t \in TokenId : token[t].state = "expired"
  /\ token' = [t \in TokenId |-> IF token[t].state = "expired"
                                 THEN [token[t] EXCEPT !.state = "deleted"]
                                 ELSE token[t]]
  /\ UNCHANGED <<account, reset, req>>

\* The process stops or a statement throws; what was committed stays.
Fail(p) ==
  /\ Faults
  /\ req[p].pc # "idle"
  /\ Reply(p)
  /\ UNCHANGED <<account, token, reset>>

Next ==
  \/ \E p \in Proc :
       \/ LoginReceive(p) \/ LoginFail(p) \/ LoginPass(p) \/ LoginIssue(p)
       \/ RefreshReceive(p) \/ RefreshUser(p) \/ RefreshRotate(p)
       \/ ForgotReceive(p) \/ ForgotSnapshot(p) \/ ForgotCommit(p)
       \/ ResetReceive(p) \/ ResetCommit(p) \/ Revoke(p)
       \/ ChangeReceive(p) \/ ChangeCommit(p)
       \/ AdminReceive(p) \/ AdminRevoke(p) \/ AdminUpdate(p) \/ Fail(p)
  \/ Logout \/ Unlock \/ CleanUp
  \/ \E t \in TokenId : Expire(t)
  \/ \E r \in ResetId : Lapse(r)

Spec == Init /\ [][Next]_vars

-----------------------------------------------------------------------------
(* Rows and requests keep their types.                                        *)
TypeOK ==
  /\ account \in AccountRow
  /\ token \in [TokenId -> TokenRow]
  /\ reset \in [ResetId -> ResetState]
  /\ req \in [Proc -> Request]

\* What is left of a sign-in: no live token, no refresh that found one.
Over(l) == Started(l) /\ ~Held(l)

(* A refresh token that was revoked, ran out or was deleted is not made good  *)
(* again, and a sign-in that is over issues no token any more.  A refresh in  *)
(* flight is all that can outlive an end: one that read the token before      *)
(* (auth.service.ts:174, then 187) still exchanges it for a live one.         *)
RevokedForGood ==
  [][/\ \A t \in TokenId : token[t].state \in {"revoked", "expired", "deleted"} =>
          token'[t].state \in {"revoked", "expired", "deleted"}
     /\ \A l \in TokenId : Over(l) => Over(l)']_vars

(* A password reset uses up its token in the step that sets the password, and *)
(* never sets one when a newer request has deleted the token meanwhile.       *)
ResetUsesToken ==
  [][\A p \in Proc : At(p, "reset_commit") /\ req'[p] # req[p] =>
       LET r == req[p].reset IN
       /\ account'.password # account.password => reset'[r] = "used"
       /\ reset'[r] # reset[r] => account'.password # account.password]_vars

Resetting(r) == \E p \in Proc : At(p, "reset_commit") /\ req[p].reset = r

(* A reset link that was used, replaced or has run out is good for nothing    *)
(* any more, unless a request has found it good before: one link sets two     *)
(* passwords only when two requests are in flight with it.                    *)
DeadLinkStaysDead ==
  [][\A r \in ResetId : reset[r] \in {"used", "deleted", "lapsed"} /\ ~Resetting(r) =>
       reset'[r] \in {"used", "deleted", "lapsed"} /\ ~Resetting(r)']_vars

(* A reset link sets one password: it is used up in the step that sets it, it *)
(* sets none once a newer request has deleted it, and when dead it sets none  *)
(* but for a request in flight that had found it good.                        *)
LinkSetsOnePassword == ResetUsesToken /\ DeadLinkStaysDead

TwoTokens(l) ==
  \E t, u \in TokenId : /\ t # u
                        /\ token[t].state = "live" /\ token[t].login = l
                        /\ token[u].state = "live" /\ token[u].login = l

(* "Old token is revoked immediately" (auth.service.ts:156): a sign-in comes  *)
(* to have two live tokens in one way only, a rotation of a token that was    *)
(* live when it was read and no longer is when it is replaced.                *)
OneTokenPerLogin ==
  [][\A l \in TokenId : TwoTokens(l)' /\ ~TwoTokens(l) =>
       \E p \in Proc : /\ At(p, "refresh_rotate")
                       /\ token[req[p].token].state # "live"]_vars

TwoLinks == \E r, s \in ResetId : r # s /\ reset[r] = "usable" /\ reset[s] = "usable"

(* "Revoke all outstanding reset tokens before issuing a new one"             *)
(* (auth.service.ts:253): two links are usable in one way only, a transaction *)
(* that committed after another had chosen what to delete.                    *)
OneResetLink ==
  [][TwoLinks' /\ ~TwoLinks =>
       \E p \in Proc : At(p, "forgot_commit") /\ ~(Outstanding \subseteq req[p].rows)]_vars

(* "lock after 5 consecutive failures" (auth.service.ts:78): a lock ends with *)
(* its time or with the right password, never by a failure that was counted   *)
(* from a number read before the lock.                                        *)
LockHolds ==
  [][account.locked /\ ~account'.locked =>
       Unlock \/ \E p \in Proc : At(p, "login_compare") /\ At(p, "login_issue")']_vars

Current(w) == account.active /\ w = account.password

\* The account is inactive or has another password, nobody is about to revoke,
\* and the sign-in has a live token nevertheless.
Astray(l) ==
  /\ InFlight({"revoke"}) = {}
  /\ \E t \in TokenId : /\ token[t].state = "live" /\ token[t].login = l
                        /\ ~Current(token[t].password)

(* "Invalidate existing sessions on password change" (auth.service.ts:303),   *)
(* "Revoke all sessions on password change" (users.ts:112): a session goes on *)
(* beyond a new password or a deactivation in four ways only.  A sign-in had  *)
(* read the account before; a refresh had read a token before it ended; the   *)
(* admin revoked first and the session began, or was being refreshed, in      *)
(* between; a handler died before it revoked.                                 *)
SessionsMatchAccount ==
  [][\A l \in TokenId : Astray(l)' /\ ~Astray(l) =>
       \E p \in Proc : req'[p] # req[p] /\
         \/ At(p, "login_issue") /\ ~Current(req[p].password)
         \/ At(p, "refresh_rotate") /\ token[req[p].token].state # "live"
         \/ At(p, "admin_update") /\ l \in req[p].spared
         \/ At(p, "revoke") /\ Faults]_vars
=============================================================================
