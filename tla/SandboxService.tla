---------------------------- MODULE SandboxService ----------------------------
(***************************************************************************)
(* What the sandbox lifecycle promises to whoever uses it (the CLI, the    *)
(* gateway, the broker): a sandbox runs once, for the one request that got *)
(* its id; it is listed before it is acknowledged; and it is taken off the *)
(* list only when it does not run any more.  A sandbox may stop at any     *)
(* time, and one that stopped may be listed again by a renewal that comes  *)
(* late, but it never runs again.                                          *)
(***************************************************************************)
CONSTANT Ids

VARIABLES
    stage,   \* "free", "requested", "running" or "stopped", by id
    listed,  \* ids with a record
    acked    \* ids whose record was once made durable by create

serviceVars == <<stage, listed, acked>>

\* The sandboxes of an older version run and are listed.
Init ==
    \E old \in SUBSET Ids :
        /\ stage = [i \in Ids |-> IF i \in old THEN "running" ELSE "free"]
        /\ listed = old /\ acked = old

Move(i, from, to) ==
    /\ stage[i] = from
    /\ stage' = [stage EXCEPT ![i] = to]
    /\ UNCHANGED <<listed, acked>>

Request(i) == Move(i, "free", "requested")
Start(i)   == Move(i, "requested", "running")
Refuse(i)  == Move(i, "requested", "stopped")
Stop(i)    == Move(i, "running", "stopped")

\* The VM may have been lost since it was started.
Acknowledge(i) ==
    /\ stage[i] \in {"running", "stopped"} /\ i \notin acked
    /\ listed' = listed \cup {i} /\ acked' = acked \cup {i}
    /\ UNCHANGED stage

Delist(i) ==
    /\ i \in listed /\ stage[i] = "stopped"
    /\ listed' = listed \ {i}
    /\ UNCHANGED <<stage, acked>>

\* A renewal writes back a record that was deleted after it was loaded.
Relist(i) ==
    /\ i \in acked \ listed /\ stage[i] = "stopped"
    /\ listed' = listed \cup {i}
    /\ UNCHANGED <<stage, acked>>

Next ==
    \E i \in Ids :
        \/ Request(i) \/ Start(i) \/ Refuse(i) \/ Stop(i)
        \/ Acknowledge(i) \/ Delist(i) \/ Relist(i)

Spec == Init /\ [][Next]_serviceVars
=============================================================================
