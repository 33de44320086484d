--------------------------- MODULE BgpAgent_proofs ---------------------------
(***************************************************************************)
(* The safety of the external BGP metrics agent, for any origins and any   *)
(* number of crashes, outages and changes of the routes and ROAs.          *)
(***************************************************************************)
EXTENDS BgpAgent, FiniteSetTheorems, TLAPS

-----------------------------------------------------------------------------
\* The inductive invariant.

Known(f) == sources[f].up # "absent"

\* The feeds a round has behind it are up or down, and so are all once the
\* server has started.
RoundInv ==
    /\ pc \in PC \ {"ripestat", "rpki", "dead"} => Known("ripestat")
    /\ pc \in {"cloudflare_radar", "bgp_tools", "ingest"} => Known("routinator")
    /\ pc \in {"bgp_tools", "ingest"} /\ cfToken => Known("cloudflare_radar")
    /\ pc = "ingest" => Known("bgp_tools")

Inv == TypeOK /\ RoundInv /\ DownFeedIsRetried /\ ServedSourcesAreKnown

-----------------------------------------------------------------------------
\* The helpers.

\* _set_source marks a feed up or down, touches no other, and forgets neither
\* its last success nor its last error.
LEMMA SetSourceEffect ==
    ASSUME sources \in [Feed -> Source], NEW f \in Feed, NEW ok \in BOOLEAN, SetSource(f, ok)
    PROVE  /\ sources' \in [Feed -> Source]
           /\ sources'[f].up = IF ok THEN "up" ELSE "down"
           /\ \A g \in Feed : /\ g # f => sources'[g] = sources[g]
                              /\ sources[g].succeeded => sources'[g].succeeded
                              /\ sources[g].failed => sources'[g].failed
  <1> DEFINE up == IF ok THEN "up" ELSE "down"
             succeeded == sources[f].succeeded \/ ok
             failed == sources[f].failed \/ ~ok
  <1>0. up \in {"absent", "up", "down"} /\ succeeded \in BOOLEAN /\ failed \in BOOLEAN
    OBVIOUS
  <1>1. sources[f] \in Source /\ sources' \in [Feed -> Source]
    <2>1. sources' = [sources EXCEPT ![f].up = up, ![f].succeeded = succeeded, ![f].failed = failed]
      BY DEF SetSource, Source
    <2> HIDE DEF up, succeeded, failed
    <2>2. QED
      BY <1>0, <2>1 DEF Source
  <1>2. /\ sources'[f].up = IF ok THEN "up" ELSE "down"
        /\ \A g \in Feed : g # f => sources'[g] = sources[g]
    BY DEF SetSource, Source
  <1>3. /\ sources'[f].succeeded = (sources[f].succeeded \/ ok)
        /\ sources'[f].failed = (sources[f].failed \/ ~ok)
    BY <1>1 DEF SetSource, Source
  <1>4. QED
    BY <1>1, <1>2, <1>3

\* A feed that stores its answer stores one set of origins.
LEMMA OneAnswer ==
    ASSUME TypeOK, NEW f \in RouteFeed, NEW origins \in SUBSET Origin,
           prefixes' = [prefixes EXCEPT ![f] = {origins}]
    PROVE  /\ prefixes' \in [RouteFeed -> SUBSET (SUBSET Origin)]
           /\ \A g \in RouteFeed : Cardinality(prefixes'[g]) <= 1
  <1>1. Cardinality({origins}) = 1
    BY FS_Singleton
  <1>2. \A g \in RouteFeed : prefixes'[g] = IF g = f THEN {origins} ELSE prefixes[g]
    BY DEF TypeOK
  <1>3. \A g \in RouteFeed : Cardinality(prefixes'[g]) <= 1
    <2> SUFFICES ASSUME NEW g \in RouteFeed PROVE Cardinality(prefixes'[g]) <= 1
      OBVIOUS
    <2>1. CASE g = f
      BY <1>1, <1>2, <2>1
    <2>2. CASE g # f
      BY <1>2, <2>2 DEF TypeOK
    <2>3. QED
      BY <2>1, <2>2
  <1>4. QED
    BY <1>3 DEF TypeOK

\* What a fresh process remembers is well-formed.
LEMMA FreshTypes ==
    /\ NoSources \in [Feed -> Source]
    /\ NoPrefixes \in [RouteFeed -> SUBSET (SUBSET Origin)]
    /\ \A f \in RouteFeed : Cardinality(NoPrefixes[f]) <= 1
    /\ NoRpki \in [Origin \X Validator -> {"absent", "valid", "invalid"}]
  <1>1. NoSources \in [Feed -> Source]
    BY DEF NoSources, NoSource, Source
  <1>2. \A f \in RouteFeed : Cardinality(NoPrefixes[f]) <= 1
    BY FS_EmptySet DEF NoPrefixes
  <1>3. QED
    BY <1>1, <1>2 DEF NoPrefixes, NoRpki

-----------------------------------------------------------------------------
\* The invariant.

LEMMA InitInv == BgpInit => Inv
  <1> SUFFICES ASSUME BgpInit PROVE Inv
    OBVIOUS
  <1>1. cfToken \in BOOLEAN /\ serving \in BOOLEAN /\ recent \in BOOLEAN
    BY Zenon DEF BgpInit
  <1>2. /\ pc = "ripestat" /\ todo = {} /\ hits = {} /\ announced = {Own}
        /\ authorised = {Own} /\ answering = Feed /\ changes = 0
        /\ ingested = [f \in Feed |-> "none"]
        /\ sources = NoSources /\ prefixes = NoPrefixes /\ rpki = NoRpki
    BY Zenon DEF BgpInit
  <1>3. ~serving /\ ~recent
    BY Zenon DEF BgpInit
  <1>4. TypeOK
    <2>1. /\ announced \subseteq Origin /\ authorised \subseteq Origin /\ answering \subseteq Feed
          /\ changes \in 0 .. MaxChanges /\ pc \in PC /\ todo \subseteq Origin /\ hits \subseteq Origin
      BY <1>2, BgpAssumption DEF PC, Feed, RouteFeed
    <2>2. ingested \in [Feed -> {"none", "ok", "error"}]
      BY <1>2
    <2>3. QED
      BY <1>1, <1>2, <2>1, <2>2, FreshTypes DEF TypeOK
  <1>5. RoundInv /\ DownFeedIsRetried /\ ServedSourcesAreKnown
    BY <1>2, <1>3 DEF RoundInv, DownFeedIsRetried, ServedSourcesAreKnown
  <1>6. QED
    BY <1>4, <1>5 DEF Inv

\* What a step of the poller does to the source states: it marks the feed it
\* is done with and leaves the others.
Marks(f, next) ==
    /\ pc' = next
    /\ sources' \in [Feed -> Source] /\ sources'[f].up \in {"up", "down"}
    /\ \A g \in Feed : /\ g # f => sources'[g] = sources[g]
                       /\ sources[g].succeeded => sources'[g].succeeded
                       /\ sources[g].failed => sources'[g].failed

\* The six ways a step of poll_once can go.
LEMMA PollerSteps ==
    ASSUME Inv, PollFeeds
    PROVE  \/ pc = "ripestat" /\ pc' = "rpki" /\ UNCHANGED <<sources, recent>>
           \/ pc = "rpki" /\ pc' = "rpki" /\ UNCHANGED <<sources, recent>>
           \/ pc \in {"ripestat", "rpki"} /\ Marks("ripestat", "routinator") /\ recent' = recent
           \/ pc = "routinator" /\ Marks("routinator", "cloudflare_radar") /\ recent' = recent
           \/ pc = "cloudflare_radar" /\ Marks("cloudflare_radar", "bgp_tools") /\ recent' = recent
           \/ /\ pc = "cloudflare_radar" /\ ~cfToken /\ pc' = "bgp_tools"
              /\ UNCHANGED <<sources, recent>>
           \/ /\ pc = "bgp_tools" /\ recent /\ pc' = "ingest" /\ UNCHANGED <<sources, recent>>
           \/ /\ pc = "bgp_tools" /\ Marks("bgp_tools", "ingest")
              /\ recent' => sources'["bgp_tools"].up = "up"
  <1>0. /\ TypeOK /\ sources \in [Feed -> Source] /\ recent \in BOOLEAN
        /\ Feed = {"ripestat", "cloudflare_radar", "bgp_tools", "routinator"}
    BY DEF Inv, TypeOK, Feed, RouteFeed
  <1>a. ASSUME NEW f \in Feed, NEW next, NEW ok \in BOOLEAN, SetSource(f, ok), pc' = next
        PROVE  Marks(f, next) /\ (ok => sources'[f].up = "up")
    BY <1>0, <1>a, SetSourceEffect DEF Marks
  <1>b. ASSUME NEW f \in Feed, NEW next, Failed(f, next)
        PROVE  Marks(f, next) /\ recent' = recent
    BY <1>a, <1>b DEF Failed
  <1>1. CASE PollRipestat
    BY <1>1 DEF PollRipestat
  <1>2. CASE AskRpki
    <2>1. CASE todo' = {}
      BY <1>0, <1>2, <1>a, <2>1 DEF AskRpki
    <2>2. CASE todo' # {}
      BY <1>2, <2>2 DEF AskRpki
    <2>3. QED
      BY <2>1, <2>2
  <1>3. CASE RipestatFails
    BY <1>0, <1>3, <1>b DEF RipestatFails
  <1>4. CASE PollRoutinator
    <2>1. CASE Failed("routinator", "cloudflare_radar")
      BY <1>0, <1>4, <1>b, <2>1 DEF PollRoutinator
    <2>2. CASE ~Failed("routinator", "cloudflare_radar")
      BY <1>0, <1>4, <1>a, <2>2 DEF PollRoutinator
    <2>3. QED
      BY <2>1, <2>2
  <1>5. CASE PollCloudflare
    <2>1. CASE Failed("cloudflare_radar", "bgp_tools")
      BY <1>0, <1>5, <1>b, <2>1 DEF PollCloudflare
    <2>2. CASE /\ SetSource("cloudflare_radar", TRUE) /\ pc' = "bgp_tools"
               /\ pc = "cloudflare_radar" /\ UNCHANGED recent
      BY <1>0, <1>a, <2>2
    <2>3. CASE ~cfToken /\ pc' = "bgp_tools" /\ UNCHANGED feeds
      BY <1>5, <2>3 DEF PollCloudflare, feeds
    <2>4. QED
      BY <1>5, <2>1, <2>2, <2>3 DEF PollCloudflare
  <1>6. CASE PollBgpTools
    <2>1. CASE Failed("bgp_tools", "ingest") /\ ~recent
      BY <1>0, <1>6, <1>b, <2>1 DEF PollBgpTools
    <2>2. CASE SetSource("bgp_tools", TRUE) /\ pc' = "ingest"
      BY <1>0, <1>6, <1>a, <2>2 DEF PollBgpTools
    <2>3. CASE recent /\ pc' = "ingest" /\ UNCHANGED feeds
      BY <1>6, <2>3 DEF PollBgpTools, feeds
    <2>4. QED
      BY <1>6, <2>1, <2>2, <2>3 DEF PollBgpTools
  <1>7. QED
    BY <1>1, <1>2, <1>3, <1>4, <1>5, <1>6 DEF PollFeeds

\* No poll, report or restart stores anything of the wrong type.
LEMMA NextType == Inv /\ [BgpNext]_bgpVars => TypeOK'
  <1> SUFFICES ASSUME Inv, [BgpNext]_bgpVars PROVE TypeOK'
    OBVIOUS
  <1>0. TypeOK
    BY DEF Inv
  <1> DEFINE Stored == /\ prefixes' \in [RouteFeed -> SUBSET (SUBSET Origin)]
                       /\ \A f \in RouteFeed : Cardinality(prefixes'[f]) <= 1
             Typed == /\ pc' \in PC /\ todo' \subseteq Origin /\ hits' \subseteq Origin
                      /\ sources' \in [Feed -> Source] /\ recent' \in BOOLEAN
                      /\ rpki' \in [Origin \X Validator -> {"absent", "valid", "invalid"}]
  <1>1. /\ Feed = {"ripestat", "cloudflare_radar", "bgp_tools", "routinator"}
        /\ RouteFeed \subseteq Feed /\ Feed \subseteq PC
        /\ {"rpki", "ingest", "sleep", "dead"} \subseteq PC
    BY DEF Feed, RouteFeed, PC
  <1>2. ASSUME NEW f \in Feed, NEW ok \in BOOLEAN, SetSource(f, ok)
        PROVE  sources' \in [Feed -> Source]
    BY <1>0, <1>2, SetSourceEffect DEF TypeOK
  <1>3. ASSUME NEW f \in Feed, NEW next \in PC, Failed(f, next), todo' \subseteq Origin
        PROVE  Typed /\ Stored
    BY <1>0, <1>2, <1>3 DEF Failed, TypeOK
  <1>4. ASSUME NEW v \in Validator, NEW o \in Origin,
               rpki' = [rpki EXCEPT ![<<o, v>>] = Validity(o)]
        PROVE  rpki' \in [Origin \X Validator -> {"absent", "valid", "invalid"}]
    BY <1>0, <1>4 DEF TypeOK, Validity
  <1>5. CASE PollFeeds
    <2>1. CASE PollRipestat
      <3>1. Stored
        BY <1>0, <2>1, OneAnswer DEF PollRipestat, TypeOK, RouteFeed
      <3>2. Typed
        BY <1>0, <1>1, <2>1, BgpAssumption DEF PollRipestat, TypeOK
      <3>3. QED
        BY <1>0, <1>5, <3>1, <3>2 DEF PollFeeds, TypeOK, world
    <2>2. CASE AskRpki
      <3>1. Stored
        BY <1>0, <2>2 DEF AskRpki, TypeOK
      <3>2. sources' \in [Feed -> Source] /\ pc' \in PC
        BY <1>0, <1>1, <1>2, <2>2 DEF AskRpki, TypeOK
      <3>3. rpki' \in [Origin \X Validator -> {"absent", "valid", "invalid"}]
        BY <1>0, <1>4, <2>2 DEF AskRpki, TypeOK, Validator
      <3>4. Typed
        BY <1>0, <2>2, <3>2, <3>3 DEF AskRpki, TypeOK
      <3>5. QED
        BY <1>0, <1>5, <3>1, <3>4 DEF PollFeeds, TypeOK, world
    <2>3. CASE RipestatFails
      BY <1>0, <1>1, <1>3, <1>5, <2>3 DEF RipestatFails, PollFeeds, TypeOK, world
    <2>4. CASE PollRoutinator
      <3>1. CASE Failed("routinator", "cloudflare_radar")
        BY <1>0, <1>1, <1>3, <1>5, <2>4, <3>1 DEF PollRoutinator, PollFeeds, TypeOK, world
      <3>2. CASE /\ rpki' = [rpki EXCEPT ![<<Own, "routinator">>] = Validity(Own)]
                 /\ SetSource("routinator", TRUE) /\ pc' = "cloudflare_radar"
                 /\ UNCHANGED <<prefixes, hits, recent, todo>>
        <4>1. rpki' \in [Origin \X Validator -> {"absent", "valid", "invalid"}]
          BY <1>4, <3>2, BgpAssumption DEF Validator
        <4>2. Typed /\ Stored
          BY <1>0, <1>1, <1>2, <3>2, <4>1 DEF TypeOK
        <4>3. QED
          BY <1>0, <1>5, <4>2 DEF PollFeeds, TypeOK, world
      <3>3. QED
        BY <2>4, <3>1, <3>2 DEF PollRoutinator
    <2>5. CASE PollCloudflare
      <3>1. CASE Failed("cloudflare_radar", "bgp_tools")
        BY <1>0, <1>1, <1>3, <1>5, <2>5, <3>1 DEF PollCloudflare, PollFeeds, TypeOK, world
      <3>2. CASE /\ prefixes' = [prefixes EXCEPT !["cloudflare_radar"] = {announced}]
                 /\ SetSource("cloudflare_radar", TRUE) /\ pc' = "bgp_tools"
                 /\ UNCHANGED <<rpki, hits, recent, todo>>
        <4>1. Stored
          BY <1>0, <3>2, OneAnswer DEF TypeOK, RouteFeed
        <4>2. Typed
          BY <1>0, <1>1, <1>2, <3>2 DEF TypeOK
        <4>3. QED
          BY <1>0, <1>5, <4>1, <4>2 DEF PollFeeds, TypeOK, world
      <3>3. CASE pc' = "bgp_tools" /\ UNCHANGED <<feeds, todo>>
        BY <1>0, <1>1, <1>5, <3>3 DEF PollFeeds, TypeOK, world, feeds
      <3>4. QED
        BY <2>5, <3>1, <3>2, <3>3 DEF PollCloudflare
    <2>6. CASE PollBgpTools
      <3>1. CASE Failed("bgp_tools", "ingest")
        BY <1>0, <1>1, <1>3, <1>5, <2>6, <3>1 DEF PollBgpTools, PollFeeds, TypeOK, world
      <3>2. CASE /\ Replace(announced) /\ SetSource("bgp_tools", TRUE) /\ recent' = TRUE
                 /\ pc' = "ingest" /\ UNCHANGED <<rpki, todo>>
        <4>1. Stored
          BY <1>0, <3>2, OneAnswer DEF Replace, TypeOK, RouteFeed
        <4>2. recent' \in BOOLEAN
          BY <3>2, Zenon
        <4>3. Typed
          BY <1>0, <1>1, <1>2, <3>2, <4>2 DEF Replace, TypeOK
        <4>4. QED
          BY <1>0, <1>5, <4>1, <4>3 DEF PollFeeds, TypeOK, world
      <3>3. CASE pc' = "ingest" /\ UNCHANGED <<feeds, todo>>
        BY <1>0, <1>1, <1>5, <3>3 DEF PollFeeds, TypeOK, world, feeds
      <3>4. QED
        BY <2>6, <3>1, <3>2, <3>3 DEF PollBgpTools
    <2>7. QED
      BY <1>5, <2>1, <2>2, <2>3, <2>4, <2>5, <2>6 DEF PollFeeds
  <1>6. CASE WakeUp
    BY <1>0, <1>1, <1>6 DEF WakeUp, TypeOK, world, feeds
  <1>7. CASE Elapse
    <2>1. recent' \in BOOLEAN
      BY <1>7, Zenon DEF Elapse
    <2>2. QED
      BY <1>0, <1>7, <2>1 DEF Elapse, TypeOK, world
  <1>8. CASE Restart
    BY <1>0, <1>1, <1>8 DEF Restart, TypeOK, world, feeds
  <1>9. CASE Crash
    <2>1. serving' \in BOOLEAN /\ recent' \in BOOLEAN
      BY <1>9, Zenon DEF Crash
    <2>2. changes' \in 0 .. MaxChanges
      BY <1>0, <1>9, BgpAssumption DEF Crash, Change, TypeOK
    <2>3. pc' \in PC /\ todo' = {} /\ hits' = {}
      BY <1>1, <1>9 DEF Crash
    <2>4. sources' = NoSources /\ prefixes' = NoPrefixes /\ rpki' = NoRpki
      BY <1>9 DEF Crash
    <2>5. UNCHANGED <<cfToken, announced, authorised, answering, ingested>>
      BY <1>9 DEF Crash
    <2>6. QED
      BY <1>0, <2>1, <2>2, <2>3, <2>4, <2>5, FreshTypes DEF TypeOK
  <1>10. ASSUME NEW delivered \in {Feed, {}}, Ingest(delivered) PROVE TypeOK'
    <2>1. serving' \in BOOLEAN
      BY <1>10, Zenon DEF Ingest
    <2>2. ingested' \in [Feed -> {"none", "ok", "error"}]
      BY <1>0, <1>10 DEF Ingest, Report, TypeOK
    <2>3. QED
      BY <1>0, <1>1, <1>10, <2>1, <2>2 DEF Ingest, TypeOK, world, feeds
  <1>11. ASSUME NEW origins \in SUBSET Origin, Reroute(origins) \/ Authorise(origins)
         PROVE  TypeOK'
    <2>1. changes' \in 0 .. MaxChanges
      BY <1>0, <1>11, BgpAssumption DEF Reroute, Authorise, Change, TypeOK
    <2>2. QED
      BY <1>0, <1>11, <2>1 DEF Reroute, Authorise, TypeOK, feeds
  <1>12. ASSUME NEW f \in Feed, Outage(f) PROVE TypeOK'
    <2>1. changes' \in 0 .. MaxChanges
      BY <1>0, <1>12, BgpAssumption DEF Outage, Change, TypeOK
    <2>2. QED
      BY <1>0, <1>12, <2>1 DEF Outage, TypeOK, feeds
  <1>13. CASE UNCHANGED bgpVars
    BY <1>0, <1>13 DEF bgpVars, TypeOK, world, feeds
  <1>14. QED
    BY <1>5, <1>6, <1>7, <1>8, <1>9, <1>10, <1>11, <1>12, <1>13 DEF BgpNext, Poll

\* A step that touches neither the source states nor the server.
LEMMA QuietStep ==
    ASSUME Inv, UNCHANGED <<sources, serving, cfToken>>, recent' => recent,
           pc' \in {pc, "ripestat"}
    PROVE  (RoundInv /\ DownFeedIsRetried /\ ServedSourcesAreKnown)'
  <1>0. RoundInv /\ DownFeedIsRetried /\ ServedSourcesAreKnown
    BY DEF Inv
  <1>1. RoundInv'
    BY <1>0 DEF RoundInv, Known, PC
  <1>2. DownFeedIsRetried'
    BY <1>0 DEF DownFeedIsRetried
  <1>3. ServedSourcesAreKnown'
    BY <1>0 DEF ServedSourcesAreKnown, Polled
  <1>4. QED
    BY <1>1, <1>2, <1>3

\* A round leaves a trace of every feed it has asked, a successful one of the
\* feed that it may skip the next time.
LEMMA NextRound ==
    Inv /\ [BgpNext]_bgpVars => (RoundInv /\ DownFeedIsRetried /\ ServedSourcesAreKnown)'
  <1> SUFFICES ASSUME Inv, [BgpNext]_bgpVars
               PROVE  (RoundInv /\ DownFeedIsRetried /\ ServedSourcesAreKnown)'
    OBVIOUS
  <1>0. /\ TypeOK /\ RoundInv /\ DownFeedIsRetried /\ ServedSourcesAreKnown
        /\ Feed = {"ripestat", "cloudflare_radar", "bgp_tools", "routinator"}
    BY DEF Inv, Feed, RouteFeed
  <1>1. CASE PollFeeds
    <2>1. serving' = serving /\ cfToken' = cfToken
      BY <1>1 DEF PollFeeds, world
    <2>2. ASSUME NEW f \in Feed, NEW next, Marks(f, next)
          PROVE  /\ Known(f)' /\ \A g \in Feed : Known(g) => Known(g)'
                 /\ f # "bgp_tools" => sources'["bgp_tools"] = sources["bgp_tools"]
      BY <1>0, <2>2 DEF Marks, Known
    <2>3. CASE pc = "ripestat" /\ pc' = "rpki" /\ UNCHANGED <<sources, recent>>
      BY <1>0, <2>1, <2>3 DEF RoundInv, DownFeedIsRetried, ServedSourcesAreKnown, Known, Polled
    <2>4. CASE pc = "rpki" /\ pc' = "rpki" /\ UNCHANGED <<sources, recent>>
      BY <1>0, <2>1, <2>4 DEF RoundInv, DownFeedIsRetried, ServedSourcesAreKnown, Known, Polled
    <2>5. CASE /\ pc \in {"ripestat", "rpki"} /\ Marks("ripestat", "routinator")
               /\ recent' = recent
      <3>1. pc' = "routinator"
        BY <2>5 DEF Marks
      <3>2. QED
        BY <1>0, <2>1, <2>2, <2>5, <3>1
           DEF RoundInv, DownFeedIsRetried, ServedSourcesAreKnown, Known, Polled
    <2>6. CASE /\ pc = "routinator" /\ Marks("routinator", "cloudflare_radar")
               /\ recent' = recent
      <3>1. pc' = "cloudflare_radar"
        BY <2>6 DEF Marks
      <3>2. QED
        BY <1>0, <2>1, <2>2, <2>6, <3>1
           DEF RoundInv, DownFeedIsRetried, ServedSourcesAreKnown, Known, Polled, PC
    <2>7. CASE /\ pc = "cloudflare_radar" /\ Marks("cloudflare_radar", "bgp_tools")
               /\ recent' = recent
      <3>1. pc' = "bgp_tools"
        BY <2>7 DEF Marks
      <3>2. QED
        BY <1>0, <2>1, <2>2, <2>7, <3>1
           DEF RoundInv, DownFeedIsRetried, ServedSourcesAreKnown, Known, Polled, PC
    <2>8. CASE /\ pc = "cloudflare_radar" /\ ~cfToken /\ pc' = "bgp_tools"
               /\ UNCHANGED <<sources, recent>>
      BY <1>0, <2>1, <2>8 DEF RoundInv, DownFeedIsRetried, ServedSourcesAreKnown, Known,
         Polled, PC
    <2>9. CASE pc = "bgp_tools" /\ recent /\ pc' = "ingest" /\ UNCHANGED <<sources, recent>>
      BY <1>0, <2>1, <2>9 DEF RoundInv, DownFeedIsRetried, ServedSourcesAreKnown, Known,
         Polled, PC
    <2>10. CASE /\ pc = "bgp_tools" /\ Marks("bgp_tools", "ingest")
                /\ recent' => sources'["bgp_tools"].up = "up"
      <3>1. pc' = "ingest"
        BY <2>10 DEF Marks
      <3>2. QED
        BY <1>0, <2>1, <2>2, <2>10, <3>1
           DEF RoundInv, DownFeedIsRetried, ServedSourcesAreKnown, Known, Polled, PC
    <2>11. QED
      BY <1>1, PollerSteps, <2>3, <2>4, <2>5, <2>6, <2>7, <2>8, <2>9, <2>10
  <1>2. CASE WakeUp
    BY <1>2, QuietStep DEF WakeUp, world, feeds
  <1>3. CASE Elapse
    BY <1>3, QuietStep DEF Elapse, world
  <1>4. CASE Restart
    BY <1>4, QuietStep DEF Restart, world, feeds
  <1>5. CASE Crash
    BY <1>5 DEF Crash, RoundInv, DownFeedIsRetried, ServedSourcesAreKnown
  <1>6. ASSUME NEW delivered \in {Feed, {}}, Ingest(delivered)
        PROVE  (RoundInv /\ DownFeedIsRetried /\ ServedSourcesAreKnown)'
    <2>1. /\ pc = "ingest" /\ pc' = "sleep" /\ UNCHANGED <<cfToken, sources, recent>>
      BY <1>6 DEF Ingest, world, feeds
    <2>2. QED
      BY <1>0, <2>1 DEF RoundInv, DownFeedIsRetried, ServedSourcesAreKnown, Known, Polled, PC
  <1>7. ASSUME NEW origins \in SUBSET Origin, Reroute(origins) \/ Authorise(origins)
        PROVE  (RoundInv /\ DownFeedIsRetried /\ ServedSourcesAreKnown)'
    BY <1>7, QuietStep DEF Reroute, Authorise, feeds
  <1>8. ASSUME NEW f \in Feed, Outage(f)
        PROVE  (RoundInv /\ DownFeedIsRetried /\ ServedSourcesAreKnown)'
    BY <1>8, QuietStep DEF Outage, feeds
  <1>9. CASE UNCHANGED bgpVars
    BY <1>9, QuietStep DEF bgpVars, world, feeds
  <1>10. QED
    BY <1>1, <1>2, <1>3, <1>4, <1>5, <1>6, <1>7, <1>8, <1>9 DEF BgpNext, Poll

LEMMA InvAlways == BgpSpec => []Inv
  <1>1. Inv /\ [BgpNext]_bgpVars => Inv'
    BY NextType, NextRound DEF Inv
  <1>2. QED
    BY InitInv, <1>1, PTL DEF BgpSpec

-----------------------------------------------------------------------------
\* The theorems.

\* The poller's dictionaries stay well-formed, and each route feed holds one
\* answer at most.
THEOREM TypeCorrect == BgpSpec => []TypeOK
  BY InvAlways, PTL DEF Inv

\* A failed download of the bgp.tools table is retried in the next round: only
\* a successful one starts the minimum interval.
THEOREM FailedDownloadIsRetried == BgpSpec => []DownFeedIsRetried
  BY InvAlways, PTL DEF Inv

\* From the first scrape on, /metrics has every configured feed as up or down,
\* whatever died in between.
THEOREM ServedIsKnown == BgpSpec => []ServedSourcesAreKnown
  BY InvAlways, PTL DEF Inv

\* While the process lives, no failure erases the time of a last success and no
\* success that of a last error.
THEOREM HistorySurvives == BgpSpec => HistoryIsKept
  <1> DEFINE Keeps == pc' # "dead" => \A f \in Feed :
                        /\ sources[f].succeeded => sources'[f].succeeded
                        /\ sources[f].failed => sources'[f].failed
  <1>1. ASSUME Inv, [BgpNext]_bgpVars PROVE [Keeps]_bgpVars
    <2>1. CASE PollFeeds
      <3>1. ASSUME NEW f \in Feed, NEW next, Marks(f, next) PROVE Keeps
        BY <3>1 DEF Marks
      <3>2. ASSUME UNCHANGED sources PROVE Keeps
        BY <3>2
      <3> HIDE DEF Keeps
      <3>3. QED
        BY <1>1, <2>1, <3>1, <3>2, PollerSteps DEF Feed, RouteFeed
    <2>2. CASE WakeUp \/ Elapse \/ Restart \/ Crash \/ UNCHANGED bgpVars
      BY <2>2 DEF WakeUp, Elapse, Restart, Crash, bgpVars, feeds
    <2>3. ASSUME NEW delivered \in {Feed, {}}, Ingest(delivered) PROVE Keeps
      BY <2>3 DEF Ingest, feeds
    <2>4. ASSUME NEW origins \in SUBSET Origin, Reroute(origins) \/ Authorise(origins)
          PROVE  Keeps
      BY <2>4 DEF Reroute, Authorise, feeds
    <2>5. ASSUME NEW f \in Feed, Outage(f) PROVE Keeps
      BY <2>5 DEF Outage, feeds
    <2> HIDE DEF Keeps
    <2>6. QED
      BY <1>1, <2>1, <2>2, <2>3, <2>4, <2>5 DEF BgpNext, Poll
  <1>2. QED
    BY <1>1, InvAlways, PTL DEF BgpSpec, HistoryIsKept
=============================================================================
