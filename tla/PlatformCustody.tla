-------------------------- MODULE PlatformCustody ---------------------------
(* The handlers of Platform implement Custody as long as no two requests in   *)
(* flight concern the same asset: the refinement mapping.                     *)
EXTENDS PlatformInvariant

\* The rows of the table t that are open on device d, and whose they are.
OpenIn(t, d) == {i \in AsgId : t[i].state = "open" /\ t[i].device = d}
HolderIn(t, d) ==
  IF OpenIn(t, d) = {} THEN None ELSE t[CHOOSE i \in OpenIn(t, d) : TRUE].employee

Holder == [d \in Device |-> HolderIn(assignment, d)]

\* The approvals of the table t that wait for an admin.
PendingIn(t) == {a \in ApprovalId : t[a].state = "pending"}
Subject(r) == [kind |-> r.kind, device |-> r.device, employee |-> r.employee]
Asked == {Subject(approval[a]) : a \in PendingIn(approval)}

Abstract == INSTANCE Custody WITH
  holder <- Holder, asked <- Asked, Moves <- ValidTransitions

(* Whatever the routes of devices, employees and approvals interleave, and    *)
(* wherever they die, their users see the moves of Custody: one holder per    *)
(* device, changes of status along the table, requests granted with their     *)
(* effect or denied, each once.                                               *)
ImplementsCustody == Abstract!Spec

\* What a handler has read about its own device and employee besides what
\* PlatformInvariant needs.
StillRead ==
  \A p \in Proc :
    /\ req[p].pc = "patch_close" => AutoClose(status[req[p].device])
    /\ req[p].pc \in {"offboard_gate", "offboard_request", "offboard_update",
                      "leave_close", "leave_commit"} => active[req[p].employee]
    /\ req[p].pc \in {"offboard_close", "reactivate_update"} =>
         ~active[req[p].employee]
=============================================================================
