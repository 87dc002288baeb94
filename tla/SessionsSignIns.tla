-------------------------- MODULE SessionsSignIns ---------------------------
(* Sessions implements SignIns: the refinement mapping.                       *)
EXTENDS Sessions

Session ==
  [l \in TokenId |-> IF ~Started(l) THEN "none" ELSE IF Held(l) THEN "open" ELSE "over"]

Key == [l \in TokenId |-> IF Started(l) THEN token[l].password ELSE 0]

Trying == {req[p].password : p \in InFlight({"login_compare", "login_issue"})}

InUse == {l \in TokenId : Busy(l)}

Due == InFlight({"revoke"}) # {}

\* What an admin has in flight that needs the sessions ended first.
Harsh(p) == At(p, "admin_update") /\ (req[p].renew \/ FALSE \in req[p].set)

Ready == {req[p].spared : p \in {q \in Proc : Harsh(q)}}

Abstract == INSTANCE SignIns WITH
  SignInId <- TokenId, Deaths <- Faults,
  active <- account.active, password <- account.password,
  session <- Session, key <- Key,
  trying <- Trying, inUse <- InUse, due <- Due, ready <- Ready

(* Whatever sign-ins, refreshes, logouts, expiries, resets and changes are in *)
(* flight, and wherever they die, the owner sees the moves of SignIns: one    *)
(* session per sign-in however often its token is rotated, over for good once *)
(* it is over, and all of them over before an admin changes the account and   *)
(* after the owner does, but for those of a request that was there before.    *)
ImplementsSignIns == Abstract!Spec
=============================================================================
