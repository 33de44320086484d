--------------------------- MODULE Extmon_proofs ---------------------------
(***************************************************************************)
(* The safety of two small programs of the extmon host, for any names,     *)
(* addresses, ports and DNS answers, and for any services and invoices.    *)
(***************************************************************************)
EXTENDS Extmon, FiniteSetTheorems, SequenceTheorems, TLAPS

-----------------------------------------------------------------------------
\* The diagnostic agent: its inductive invariant.

ProbeKind == {"tcp", "http", "ping", "unsupported"}

\* The probe may connect to its address and port.
Vetted(address) == address \in Public /\ (kind # "ping" => url.port \in AllowedPort)

\* What has been vetted stays in hand until the connection is closed, and each
\* hop has been counted.
DiagInv ==
    /\ dns \in [Name -> Answer]
    /\ phase \in {"idle", "vet", "connect", "connected"} /\ hops \in Nat
    /\ phase = "idle" => hops = 0
    /\ phase # "idle" => url \in Url /\ kind \in ProbeKind
    /\ phase \in {"vet", "connect"} => hops <= MaxRedirects
    /\ phase = "connect" => Vetted(pinned)
    /\ phase # "connected" => conn = NoConn
    /\ phase = "connected" => /\ hops <= MaxRedirects + 1
                              /\ Vetted(conn.address) /\ conn.port = url.port

\* A probe opens at most one connection more than it may follow redirects.
HopsAreBounded == hops <= MaxRedirects + 1

\* getaddrinfo returns a sequence of addresses, the literal itself for one.
LEMMA ResolvedAnswer ==
    ASSUME NEW host \in Host, dns \in [Name -> Answer]
    PROVE  Resolved(host) \in Seq(Address)
  <1>1. Answer \subseteq Seq(Address)
    BY SeqDef, DiagAssumption DEF Answer
  <1>2. CASE host \in Address
    BY <1>2 DEF Resolved
  <1>3. CASE host \notin Address
    BY <1>1, <1>3 DEF Resolved, Host
  <1>4. QED
    BY <1>2, <1>3

\* resolve_public: the first address of an answer that passes is public.
LEMMA FirstIsPublic ==
    ASSUME NEW host \in Host, dns \in [Name -> Answer], ResolvesPublic(host)
    PROVE  Resolved(host)[1] \in Public
  <1>1. Resolved(host) \in Seq(Address) /\ Resolved(host) # <<>>
    BY ResolvedAnswer DEF ResolvesPublic
  <1>2. Len(Resolved(host)) \in Nat \ {0}
    BY <1>1, EmptySeq
  <1>3. 1 \in DOMAIN Resolved(host)
    BY <1>1, <1>2
  <1>4. QED
    BY <1>3 DEF ResolvesPublic, Blocked

\* A reply leaves nothing of the probe behind.
LEMMA AnsweredIsIdle ==
    ASSUME DiagInv, NEW status, Answered(status), dns' = dns
    PROVE  DiagInv'
  BY DEF DiagInv, Answered

\* The agent starts without a probe.
LEMMA DiagInitInv == DiagInit => DiagInv
  <1> SUFFICES ASSUME DiagInit PROVE DiagInv
    OBVIOUS
  <1>1. dns \in [Name -> Answer] /\ phase = "idle" /\ hops = 0 /\ conn = NoConn
    BY Zenon DEF DiagInit
  <1>2. QED
    BY <1>1 DEF DiagInv

\* No redirect, no rebinding and no failure gets past the vetting.
LEMMA DiagNextInv == DiagInv /\ [DiagNext]_diagVars => DiagInv'
  <1> SUFFICES ASSUME DiagInv, [DiagNext]_diagVars PROVE DiagInv'
    OBVIOUS
  <1> USE DiagAssumption
  <1>1. ASSUME NEW ok \in BOOLEAN, Refuse(ok) PROVE DiagInv'
    BY <1>1, AnsweredIsIdle DEF Refuse
  <1>2. ASSUME NEW k \in ProbeKind, NEW u \in Url, Post(k, u) PROVE DiagInv'
    BY <1>2 DEF Post, DiagInv
  <1>3. CASE Vet
    <2>1. CASE Acceptable
      <3>1. url \in Url /\ kind \in ProbeKind /\ dns \in [Name -> Answer]
        BY <1>3 DEF Vet, DiagInv
      <3>2. Resolved(url.host)[1] \in Public
        BY <2>1, <3>1, FirstIsPublic DEF Acceptable, Url
      <3>3. /\ pinned' \in Public /\ phase' = "connect"
            /\ UNCHANGED <<dns, kind, url, hops, conn>>
        BY <1>3, <2>1, <3>2 DEF Vet
      <3>4. QED
        BY <1>3, <2>1, <3>1, <3>3 DEF Vet, Acceptable, DiagInv, Vetted
    <2>2. CASE ~Acceptable
      BY <1>3, <2>2, AnsweredIsIdle DEF Vet
    <2>3. QED
      BY <2>1, <2>2
  <1>4. CASE Connect
    BY <1>4 DEF Connect, DiagInv, Vetted
  <1>5. ASSUME NEW u \in Url, Follow(u) PROVE DiagInv'
    <2>1. CASE hops <= MaxRedirects
      BY <1>5, <2>1 DEF Follow, DiagInv
    <2>2. CASE ~(hops <= MaxRedirects)
      BY <1>5, <2>2, AnsweredIsIdle DEF Follow
    <2>3. QED
      BY <2>1, <2>2
  <1>6. CASE Succeed
    BY <1>6, AnsweredIsIdle DEF Succeed
  <1>7. CASE Fail
    BY <1>7, AnsweredIsIdle DEF Fail
  <1>8. ASSUME NEW n \in Name, NEW answer \in Answer, Rebind(n, answer) PROVE DiagInv'
    BY <1>8 DEF Rebind, DiagInv, Vetted
  <1>9. CASE UNCHANGED diagVars
    BY <1>9 DEF diagVars, DiagInv, Vetted
  <1>10. QED
    BY <1>1, <1>2, <1>3, <1>4, <1>5, <1>6, <1>7, <1>8, <1>9 DEF DiagNext, ProbeStep, ProbeKind

-----------------------------------------------------------------------------
\* The expiry collector: its inductive invariant.

Metrics == [expiry : [Service -> {"absent", "near", "far"}], unpaid : Nat, errors : Nat]

\* The services that have no series.
Missing(m) == {s \in Service : m.expiry[s] = "absent"}

\* What is missing is an error, and an invoice count that is there is complete.
Accounted(m) ==
    /\ m.errors = Cardinality(Missing(m)) + (IF m.unpaid = Absent THEN 1 ELSE 0)
    /\ m.unpaid \in {Absent, Unpaid}

\* A run has an error for each service that it has looked up in vain, and none
\* yet for those that it has still to look up or for the invoices.
CollectorInv ==
    /\ metrics \in Metrics
    /\ step \in {"idle", "load", "services", "list", "bills", "write"}
    /\ step \in {"services", "list", "bills"} => metrics.unpaid = Absent
    /\ step = "services" =>
          /\ next \in Service
          /\ \A s \in Service : s >= next => metrics.expiry[s] = "absent"
          /\ metrics.errors + (FailoverIPs + 1 - next) = Cardinality(Missing(metrics))
    /\ step \in {"list", "bills"} => metrics.errors = Cardinality(Missing(metrics))
    /\ step = "bills" => next \in 1 .. Bills + 1
    /\ step = "write" => Accounted(metrics)
    /\ file # NoFile => Accounted(file)

\* What the collector counts is finite.
LEMMA MissingIsFinite ==
    ASSUME NEW m
    PROVE  IsFiniteSet(Missing(m)) /\ Cardinality(Missing(m)) \in Nat
  <1>1. IsFiniteSet(Service)
    BY FS_Interval, CollectorAssumption DEF Service
  <1>2. Missing(m) \in SUBSET Service
    BY DEF Missing
  <1>3. QED
    BY <1>1, <1>2, FS_Subset, FS_CardinalityType

\* A run starts with every service to look up.
LEMMA NothingLookedUp ==
    /\ NoMetrics \in Metrics /\ Missing(NoMetrics) = Service
    /\ Cardinality(Service) = FailoverIPs + 1
  <1>1. Cardinality(Service) = FailoverIPs + 1
    BY FS_Interval, CollectorAssumption DEF Service
  <1>2. NoMetrics \in Metrics
    BY CollectorAssumption DEF NoMetrics, Metrics, Absent
  <1>3. QED
    BY <1>1, <1>2 DEF NoMetrics, Missing

LEMMA CollectorInitInv == CollectorInit => CollectorInv
  BY NothingLookedUp DEF CollectorInit, CollectorInv

\* Every request is a series or an error, and every file accounts for both.
LEMMA CollectorNextInv == CollectorInv /\ [CollectorNext]_collectorVars => CollectorInv'
  <1> SUFFICES ASSUME CollectorInv, [CollectorNext]_collectorVars PROVE CollectorInv'
    OBVIOUS
  <1> USE CollectorAssumption
  <1>1. CASE Tick
    BY <1>1 DEF Tick, CollectorInv
  <1>2. CASE Load
    <2>1. /\ step' = "services" /\ next' = 0 /\ metrics' = NoMetrics /\ file' = file
      BY <1>2 DEF Load
    <2>2. metrics'.unpaid = Absent /\ metrics'.errors = 0
          /\ \A s \in Service : metrics'.expiry[s] = "absent"
      BY <2>1 DEF NoMetrics
    <2>3. Cardinality(Missing(metrics')) = FailoverIPs + 1
      BY <2>1, NothingLookedUp
    <2>4. next' \in Service
      BY <2>1 DEF Service
    <2>5. QED
      BY <2>1, <2>2, <2>3, <2>4, NothingLookedUp DEF CollectorInv
  <1>3. ASSUME NEW found \in BOOLEAN, LookUp(found) PROVE CollectorInv'
    <2>1. /\ metrics \in Metrics /\ metrics.unpaid = Absent
          /\ next \in Nat /\ next \in Service /\ next <= FailoverIPs
          /\ metrics.expiry[next] = "absent"
          /\ metrics.errors + (FailoverIPs + 1 - next) = Cardinality(Missing(metrics))
          /\ \A s \in Service : s >= next => metrics.expiry[s] = "absent"
      BY <1>3 DEF LookUp, CollectorInv, Service
    <2>2. file' = file /\ (file # NoFile => Accounted(file))
      BY <1>3 DEF LookUp, CollectorInv
    <2>3. /\ metrics' \in Metrics /\ metrics'.unpaid = Absent
          /\ \A s \in Service : s > next => metrics'.expiry[s] = "absent"
          /\ metrics'.errors + (FailoverIPs - next) = Cardinality(Missing(metrics'))
      <3>1. CASE found
        <4>1. /\ metrics' = [metrics EXCEPT !.expiry[next] = Expiry(next)]
              /\ Expiry(next) \in {"near", "far"}
          BY <1>3, <3>1 DEF LookUp, Expiry
        <4>2. /\ metrics' \in Metrics /\ metrics'.errors = metrics.errors
              /\ metrics'.unpaid = metrics.unpaid
              /\ \A s \in Service : metrics'.expiry[s] = IF s = next THEN Expiry(next)
                                                         ELSE metrics.expiry[s]
          BY <2>1, <4>1 DEF Metrics
        <4>3. Missing(metrics') = Missing(metrics) \ {next} /\ next \in Missing(metrics)
          BY <2>1, <4>1, <4>2 DEF Missing
        <4>4. Cardinality(Missing(metrics')) = Cardinality(Missing(metrics)) - 1
          BY <4>3, MissingIsFinite, FS_RemoveElement
        <4>5. metrics.errors \in Nat
          BY <2>1 DEF Metrics
        <4>6. QED
          BY <2>1, <4>2, <4>4, <4>5, MissingIsFinite DEF Service
      <3>2. CASE ~found
        <4>1. metrics' = [metrics EXCEPT !.errors = @ + 1]
          BY <1>3, <3>2 DEF LookUp
        <4>2. /\ metrics' \in Metrics /\ metrics'.errors = metrics.errors + 1
              /\ metrics'.unpaid = metrics.unpaid /\ metrics'.expiry = metrics.expiry
          BY <2>1, <4>1 DEF Metrics
        <4>3. Missing(metrics') = Missing(metrics)
          BY <4>2 DEF Missing
        <4>4. metrics.errors \in Nat
          BY <2>1 DEF Metrics
        <4>5. QED
          BY <2>1, <4>2, <4>3, <4>4, MissingIsFinite DEF Service
      <3>3. QED
        BY <3>1, <3>2
    <2>4. CASE next = FailoverIPs
      <3>1. step' = "list" /\ metrics'.errors = Cardinality(Missing(metrics'))
        BY <1>3, <2>3, <2>4 DEF LookUp, Metrics
      <3>2. QED
        BY <2>2, <2>3, <3>1 DEF CollectorInv
    <2>5. CASE next # FailoverIPs
      <3>1. step' = "services" /\ next' = next + 1 /\ next' \in Service
        BY <1>3, <2>1, <2>5 DEF LookUp, Service
      <3>2. metrics'.errors + (FailoverIPs + 1 - next') = Cardinality(Missing(metrics'))
        BY <2>1, <2>3, <3>1 DEF Metrics
      <3>3. \A s \in Service : s >= next' => metrics'.expiry[s] = "absent"
        BY <2>1, <2>3, <3>1 DEF Service
      <3>4. QED
        BY <2>2, <2>3, <3>1, <3>2, <3>3 DEF CollectorInv
    <2>6. QED
      BY <2>4, <2>5
  <1>4. CASE ListBills
    BY <1>4 DEF ListBills, CollectorInv
  <1>5. CASE ReadBill
    BY <1>5 DEF ReadBill, CollectorInv
  <1>6. CASE CountBills
    <2>1. /\ step = "bills" /\ next > Bills /\ step' = "write" /\ file' = file
          /\ metrics' = [metrics EXCEPT !.unpaid = Counted]
      BY <1>6 DEF CountBills
    <2>2. Counted = Unpaid /\ Unpaid # Absent /\ Unpaid \in Nat
      BY <2>1 DEF Counted, CollectorInv, Absent
    <2>3. /\ metrics' \in Metrics /\ metrics'.unpaid = Unpaid
          /\ metrics'.errors = metrics.errors /\ metrics'.expiry = metrics.expiry
      BY <2>1, <2>2 DEF CollectorInv, Metrics
    <2>4. Missing(metrics') = Missing(metrics)
      BY <2>3 DEF Missing
    <2>5. Accounted(metrics')
      BY <2>1, <2>2, <2>3, <2>4, MissingIsFinite DEF CollectorInv, Accounted
    <2>6. QED
      BY <2>1, <2>3, <2>5 DEF CollectorInv
  <1>7. CASE BillsFail
    <2>1. /\ step \in {"list", "bills"} /\ step' = "write" /\ file' = file
          /\ metrics' = [metrics EXCEPT !.errors = @ + 1]
      BY <1>7 DEF BillsFail
    <2>2. /\ metrics' \in Metrics /\ metrics'.unpaid = metrics.unpaid
          /\ metrics'.errors = metrics.errors + 1 /\ metrics'.expiry = metrics.expiry
      BY <2>1 DEF CollectorInv, Metrics
    <2>3. Missing(metrics') = Missing(metrics)
      BY <2>2 DEF Missing
    <2>4. Accounted(metrics')
      BY <2>1, <2>2, <2>3, MissingIsFinite DEF CollectorInv, Accounted
    <2>5. QED
      BY <2>1, <2>2, <2>4 DEF CollectorInv
  <1>8. CASE Publish
    BY <1>8, NothingLookedUp DEF Publish, CollectorInv
  <1>9. CASE Abort
    BY <1>9, NothingLookedUp DEF Abort, CollectorInv
  <1>10. ASSUME NEW s \in Service, Approach(s) PROVE CollectorInv'
    BY <1>10 DEF Approach, CollectorInv
  <1>11. CASE UNCHANGED collectorVars
    BY <1>11 DEF collectorVars, CollectorInv
  <1>12. QED
    BY <1>1, <1>2, <1>3, <1>4, <1>5, <1>6, <1>7, <1>8, <1>9, <1>10, <1>11 DEF CollectorNext

-----------------------------------------------------------------------------
\* The host runs both, next to the BGP agent (BgpAgent_proofs).

LEMMA InvAlways == Spec => [](DiagInv /\ CollectorInv)
  <1>1. Init => DiagInv /\ CollectorInv
    BY DiagInitInv, CollectorInitInv DEF Init
  <1>2. [Next]_vars => [DiagNext]_diagVars /\ [CollectorNext]_collectorVars
    BY DEF Next, vars
  <1>3. DiagInv /\ CollectorInv /\ [Next]_vars => (DiagInv /\ CollectorInv)'
    BY <1>2, DiagNextInv, CollectorNextInv
  <1>4. QED
    BY <1>1, <1>3, PTL DEF Spec

\* Whatever the DNS answers between the vetting and the connection, and wherever
\* redirects lead, a probe connects only to an address and a port it has vetted.
THEOREM OnlyVettedConnections == Spec => []VettedConnections
  <1>1. DiagInv => VettedConnections
    BY DEF DiagInv, Vetted, VettedConnections
  <1>2. QED
    BY <1>1, InvAlways, PTL

\* Redirects do not keep a probe connecting for ever: the limit counts every hop.
THEOREM HopsEnd == Spec => []HopsAreBounded
  <1>1. DiagInv => HopsAreBounded
    BY DiagAssumption DEF DiagInv, HopsAreBounded
  <1>2. QED
    BY <1>1, InvAlways, PTL

\* A file accounts for every service and for the invoices: as a series or as an
\* error that OVHCollectorErrors sees, whatever failed and wherever runs died.
THEOREM EveryFailureIsCounted == Spec => []FailuresAreCounted
  <1>1. CollectorInv => FailuresAreCounted
    BY DEF CollectorInv, FailuresAreCounted, Accounted, Missing
  <1>2. QED
    BY <1>1, InvAlways, PTL
=============================================================================
