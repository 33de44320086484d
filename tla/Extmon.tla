------------------------------- MODULE Extmon -------------------------------
(***************************************************************************)
(* The three programs of the extmon host, model-checked in one run.  They  *)
(* share no state, no file and no lock, so a behaviour exercises one of    *)
(* them while the others rest, and their product shows nothing more.       *)
(***************************************************************************)
EXTENDS DiagAgent, ExpiryCollector, BgpAgent

VARIABLE active    \* the program this behaviour is about

vars == <<active, diagVars, collectorVars, bgpVars>>

\* A resting program has no choices of its own.
Init ==
    /\ active \in {"diag", "collector", "bgp"}
    /\ DiagInit /\ (active # "diag" => ~token /\ dns = [n \in Name |-> <<>>])
    /\ CollectorInit /\ (active # "collector" => expiring = {})
    /\ BgpInit /\ (active # "bgp" => ~cfToken)

Next ==
    /\ UNCHANGED active
    /\ \/ active = "diag" /\ DiagNext /\ UNCHANGED <<collectorVars, bgpVars>>
       \/ active = "collector" /\ CollectorNext /\ UNCHANGED <<diagVars, bgpVars>>
       \/ active = "bgp" /\ BgpNext /\ UNCHANGED <<diagVars, collectorVars>>

\* A resting program is not scheduled.
Fairness ==
    \/ active = "diag" /\ DiagFairness
    \/ active = "collector" /\ CollectorFairness
    \/ active = "bgp" /\ BgpFairness

Spec == Init /\ [][Next]_vars /\ Fairness

(***************************************************************************)
(* What the monitor promises (BgpAgent), asked only where it is not at     *)
(* rest: unlike the other two it owes answers from its first state on.     *)
(***************************************************************************)

\* What a steady feed answers is what /metrics exports in the end.
ActiveExportsSettle == active = "bgp" => ExportsSettle

\* Every announced origin's RPKI state is exported as it is in the end.
ActiveRpkiSettles == active = "bgp" => RpkiSettles

\* Hyrule Cloud hears in the end of a feed that stays down, or up.
ActiveReportsSettle == active = "bgp" => ReportsSettle
=============================================================================
