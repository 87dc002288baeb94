------------------------------- MODULE SignIns -------------------------------
(* What an account promises its owner, without requests, tokens or            *)
(* statements: a sign-in opens one session, which lasts until it is over and  *)
(* never comes back, and a change of the account ends every session but those *)
(* that somebody is opening or using at the very moment.                      *)
EXTENDS Naturals

CONSTANTS
  SignInId,  \* the sign-ins there can ever be
  Deaths     \* may the process stop between a change and its revocation?

VARIABLES
  active,    \* may the owner sign in?
  password,  \* the number of the current password
  session,   \* what became of each sign-in: "none", "open" or "over"
  key,       \* the password each session was opened with
  trying,    \* the passwords of the sign-ins under way
  inUse,     \* the sessions somebody is prolonging
  due,       \* has the owner set a password whose revocation is still due?
  ready      \* of each end an admin has prepared a change with: who it spared

state == <<active, password, session, key, trying, inUse, due, ready>>

Init ==
  /\ active = TRUE
  /\ password = 0
  /\ session = [s \in SignInId |-> "none"]
  /\ key = [s \in SignInId |-> 0]
  /\ trying = {} /\ inUse = {} /\ ready = {}
  /\ due = FALSE

-----------------------------------------------------------------------------
(* The owner *)

\* Only on an active account, with the password of that moment.
Try ==
  /\ active
  /\ trying' = trying \cup {password}
  /\ UNCHANGED <<active, password, session, key, inUse, due, ready>>

SignIn(s) ==
  /\ session[s] = "none"
  /\ session' = [session EXCEPT ![s] = "open"]
  /\ \E w \in trying :
       /\ key' = [key EXCEPT ![s] = w]
       /\ trying' \in {trying, trying \ {w}}
  /\ UNCHANGED <<active, password, inUse, due, ready>>

Use(s) ==
  /\ session[s] = "open"
  /\ inUse' = inUse \cup {s}
  /\ UNCHANGED <<active, password, session, key, trying, due, ready>>

\* A session ended meanwhile is prolonged or is over now.
Used(s) ==
  /\ s \in inUse
  /\ inUse' = inUse \ {s}
  /\ session' \in {session, [session EXCEPT ![s] = "over"]}
  /\ UNCHANGED <<active, password, key, trying, due, ready>>

\* A logout, the end of its time: no other session is concerned.
Quit(s) ==
  /\ session[s] = "open" /\ s \notin inUse
  /\ session' = [session EXCEPT ![s] = "over"]
  /\ UNCHANGED <<active, password, key, trying, inUse, due, ready>>

-----------------------------------------------------------------------------
(* Changes of the account *)

Reached(s) == session[s] = "open" /\ s \notin inUse

\* All that can be reached end, and what was due is done or an admin may go on.
QuitAll ==
  /\ session' = [s \in SignInId |-> IF Reached(s) THEN "over" ELSE session[s]]
  /\ \/ due' \in {due, FALSE} /\ UNCHANGED ready
     \/ ready' = ready \cup {{s \in SignInId : session'[s] # "over"}} /\ UNCHANGED due
  /\ UNCHANGED <<active, password, key, trying, inUse>>

\* The owner sets a new password; the sessions are ended after that.
Change ==
  /\ password' = password + 1
  /\ due' = TRUE
  /\ UNCHANGED <<active, session, key, trying, inUse, ready>>

\* The process stops before they are.
Forget ==
  /\ Deaths
  /\ due' = FALSE
  /\ UNCHANGED <<active, password, session, key, trying, inUse, ready>>

\* An admin ends the sessions first: what is open has been spared then.  A mere
\* reactivation needs no end.
Administer ==
  /\ active' \in BOOLEAN
  /\ password' \in {password, password + 1}
  /\ (active /\ ~active') \/ password' # password =>
       \E kept \in ready : \A s \in SignInId : session[s] = "open" => s \in kept
  /\ ready' \subseteq ready
  /\ UNCHANGED <<session, key, trying, inUse, due>>

\* A wrong password, or a process that stops.
GiveUp ==
  /\ trying' \subseteq trying
  /\ ready' \subseteq ready
  /\ UNCHANGED <<active, password, session, key, inUse, due>>

\* What the owner does not see; named so that it is tried before the rest.
Unseen == UNCHANGED state

Next ==
  \/ Unseen \/ Try \/ GiveUp \/ Change \/ Forget
  \/ \E s \in SignInId : SignIn(s) \/ Use(s) \/ Used(s) \/ Quit(s)
  \/ QuitAll \/ Administer

Spec == Init /\ [][Next]_state
=============================================================================
