------------------------------ MODULE Handover ------------------------------
(***************************************************************************)
(* What a deploy promises whatever fails: the slot that serves is handed   *)
(* over in one commit.  Until then the slot the deploy found serving stays *)
(* kept by launchd and only the other one may be started and stopped;      *)
(* from then on the route and the disk name the other slot for good, and   *)
(* only the replaced one may be stopped.  A deploy may end at any moment.  *)
(*                                                                         *)
(* It does not promise that the slot routed to is kept: Deploy states what *)
(* that takes (UpstreamServes).                                            *)
(***************************************************************************)
CONSTANT Slot

VARIABLES
    phase,     \* "settled" between deploys, "switching", then "switched"
    from,      \* the slot the deploy found serving
    kept,      \* the slots launchd keeps running
    route,     \* the slot requests are routed to
    recorded   \* the slots the files on disk name

vars == <<phase, from, kept, route, recorded>>

Init ==
    /\ phase = "settled" /\ from \in Slot
    /\ kept = {from} /\ route = from /\ recorded = {from}

MayEnd == phase' \in {phase, "settled"}

Begin ==
    /\ phase = "settled" /\ phase' = "switching"
    /\ from' = route
    /\ UNCHANGED <<kept, route, recorded>>

\* The candidate is started, or a leftover of an earlier deploy stopped.
Keep(s) ==
    /\ phase = "switching" /\ from \in kept /\ s # from
    /\ kept' \in {kept \cup {s}, kept \ {s}}
    /\ UNCHANGED <<phase, from, route, recorded>>

\* The switch and its rollback: only a slot that is kept gets the route.
Reroute(s) ==
    /\ phase = "switching" /\ s \in kept
    /\ route' = s /\ MayEnd
    /\ UNCHANGED <<from, kept, recorded>>

Record(s) ==
    /\ phase = "switching" /\ s \in kept
    /\ recorded' \in {{s}, recorded \cup {s}} /\ MayEnd
    /\ UNCHANGED <<from, kept, route>>

\* The front router restarts from what the disk says.
Reread ==
    /\ phase # "switched" /\ route' \in recorded
    /\ UNCHANGED <<phase, from, kept, recorded>>

Commit ==
    /\ phase = "switching" /\ phase' = "switched"
    /\ route # from /\ route \in kept /\ recorded = {route}
    /\ UNCHANGED <<from, kept, route, recorded>>

Retire ==
    /\ phase = "switched" /\ route \in kept \ {from}
    /\ kept' = kept \ {from}
    /\ UNCHANGED <<phase, from, route, recorded>>

End ==
    /\ phase # "settled" /\ phase' = "settled"
    /\ UNCHANGED <<from, kept, route, recorded>>

Next == \/ Begin \/ Reread \/ Commit \/ Retire \/ End
        \/ \E s \in Slot : Keep(s) \/ Reroute(s) \/ Record(s)

Spec == Init /\ [][Next]_vars
=============================================================================
