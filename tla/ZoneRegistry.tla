---------------------------- MODULE ZoneRegistry ----------------------------
(***************************************************************************)
(* What the DNS control plane promises its callers, with no files, no      *)
(* journal and no Knot commands: a register per zone that is replaced in   *)
(* two phases.  A zone has a settled value `base' and an accepted value    *)
(* `want'; they differ while a transition is under way.  The name servers  *)
(* answer with `served', which is never anything but the records of one of *)
(* the two, and the transition settles only once the accepted records are  *)
(* the ones being served.                                                  *)
(*                                                                         *)
(* DNSControl (hyrule_dns_control.py) implements it.                       *)
(***************************************************************************)
EXTENDS Naturals

CONSTANTS Zone,          \* customer zones
          Records,       \* record sets a zone can be given
          MaxRevision,   \* bound on the revisions that callers use
          None           \* no value: the zone is not managed

Value == [revision : 1 .. MaxRevision, records : Records]

VARIABLES base,   \* [Zone -> Value or None], the settled value
          want,   \* [Zone -> Value or None], the accepted value
          served  \* [Zone -> Records or None], what the name servers answer

vars == <<base, want, served>>

RecordsOf(v) == IF v = None THEN None ELSE v.records

Init ==
    /\ base = [z \in Zone |-> None]
    /\ want = [z \in Zone |-> None]
    /\ served = [z \in Zone |-> None]

\* A new value may only be accepted when every zone has settled.  It either
\* removes the zone, or creates it, or has a higher revision than the old one.
Accept(z, v) ==
    /\ want = base
    /\ v # base[z]
    /\ (v # None /\ base[z] # None) => v.revision > base[z].revision
    /\ want' = [want EXCEPT ![z] = v]
    /\ UNCHANGED <<base, served>>

\* The name servers move between the two values of a zone under transition:
\* forwards, or back when they restart before the new one is durable.
Serve(z) ==
    /\ base[z] # want[z]
    /\ served' \in {[served EXCEPT ![z] = RecordsOf(v)] : v \in {base[z], want[z]}}
    /\ UNCHANGED <<base, want>>

\* The transition ends, and only once the accepted records are being served.
Settle(z) ==
    /\ base[z] # want[z]
    /\ served[z] = RecordsOf(want[z])
    /\ base' = [base EXCEPT ![z] = want[z]]
    /\ UNCHANGED <<want, served>>

Next == \E z \in Zone :
            \/ \E v \in Value \cup {None} : Accept(z, v)
            \/ Serve(z)
            \/ Settle(z)

Spec == Init /\ [][Next]_vars
=============================================================================
