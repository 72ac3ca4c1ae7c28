------------------------- MODULE WorkspaceLifecycle -------------------------
(***************************************************************************)
(* What the workspaces table promises its readers, the API and reconcile:  *)
(* a workspace is created, then shows newer and newer statuses, until it   *)
(* becomes Unavailable and stays so; its name is free again only when the  *)
(* account that owns it is deleted.                                        *)
(***************************************************************************)
EXTENDS Naturals

CONSTANT Names

VARIABLES life,   \* life[n]: "absent", "live" or "Unavailable"
          shown   \* shown[n]: the publication time of the status n shows, 0
                  \* while it shows none

vars == <<life, shown>>

TypeOK == /\ life \in [Names -> {"absent", "live", "Unavailable"}]
          /\ shown \in [Names -> Nat]

Init == /\ life = [n \in Names |-> "absent"]
        /\ shown = [n \in Names |-> 0]

Become(n, l) == /\ life' = [life EXCEPT ![n] = l]
                /\ shown' = [shown EXCEPT ![n] = 0]

Create(n) == life[n] = "absent" /\ Become(n, "live")

\* A live workspace shows a newer status.
Report(n) == /\ life[n] = "live"
             /\ shown'[n] > shown[n]
             /\ shown' = [shown EXCEPT ![n] = shown'[n]]
             /\ UNCHANGED life

Retire(n) == life[n] = "live" /\ Become(n, "Unavailable")

Forget(n) == life[n] # "absent" /\ Become(n, "absent")

Next == \E n \in Names : Create(n) \/ Report(n) \/ Retire(n) \/ Forget(n)

Spec == Init /\ [][Next]_vars
=============================================================================
