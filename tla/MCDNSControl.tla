---------------------------- MODULE MCDNSControl ----------------------------
(***************************************************************************)
(* DNSControl on a small instance: two record sets that share one RRset    *)
(* and differ in the others, and one that Knot rejects.                    *)
(***************************************************************************)
EXTENDS DNSControl, TLC

CONSTANTS www, mail, a1, a2

MCOwner == {www, mail}
MCRdata == {a1, a2}

WebOnly == (www :> {a1}) @@ (mail :> {})
WebAndMail == (www :> {a2}) @@ (mail :> {a1})
BadMail == (www :> {}) @@ (mail :> {a1, a2})

GoodRecords == {WebOnly, WebAndMail}
AllRecords == {WebOnly, WebAndMail, BadMail}
BadRecords == {BadMail}
NoRecords == {}

ZoneSymmetry == Permutations(Zone)
=============================================================================
