------------------------------ MODULE BgpAgent ------------------------------
(***************************************************************************)
(* The external BGP metrics agent of extmon (extmon-bgp-agent.py): one     *)
(* poller thread asks RIPEstat, Routinator, Cloudflare Radar and bgp.tools *)
(* about the prefix, /metrics exports what they last answered, and each    *)
(* round reports the sources to Hyrule Cloud.                              *)
(*                                                                         *)
(* There is one prefix, as deployed.  A route feed's answer is the set of  *)
(* origins that announce it; timestamps are kept as whether there is one.  *)
(***************************************************************************)
EXTENDS Naturals, FiniteSets

CONSTANTS
    Origin,       \* origin ASNs
    Own,          \* ASN
    MaxChanges    \* bound on changes of the world and crashes

ASSUME BgpAssumption ==
    /\ Own \in Origin /\ MaxChanges \in Nat

RouteFeed == {"ripestat", "cloudflare_radar", "bgp_tools"}
Feed == RouteFeed \cup {"routinator"}
Validator == {"ripestat", "routinator"}

VARIABLES
    cfToken,      \* CF_TOKEN is set
    announced,    \* the origins that announce the prefix
    authorised,   \* the origins the published ROAs allow
    answering,    \* the feeds that answer
    changes,      \* how much of MaxChanges is used up
    pc,           \* where the poller is in poll_once
    todo,         \* origins whose RPKI state poll_ripestat has still to ask
    serving,      \* the HTTP server is up
    sources,      \* STATE["sources"]
    prefixes,     \* STATE["prefixes"], the origins last read from each feed
    rpki,         \* STATE["rpki"]
    hits,         \* origins that STATE["bgp_tools_hits"] counts
    recent,       \* bgp.tools was fetched within BGPTOOLS_MIN_INTERVAL
    ingested      \* what Hyrule Cloud last heard of each source

world == <<cfToken, announced, authorised, answering, changes>>
feeds == <<sources, prefixes, rpki, hits, recent>>
bgpVars == <<world, pc, todo, serving, feeds, ingested>>

\* The feeds a round asks: Radar is disabled, not down, without a token.
Polled == IF cfToken THEN Feed ELSE Feed \ {"cloudflare_radar"}

PC == Feed \cup {"rpki", "ingest", "sleep", "dead"}
Source == [up : {"absent", "up", "down"}, succeeded : BOOLEAN, failed : BOOLEAN]

TypeOK ==
    /\ cfToken \in BOOLEAN /\ announced \subseteq Origin /\ authorised \subseteq Origin
    /\ answering \subseteq Feed /\ changes \in 0 .. MaxChanges
    /\ pc \in PC /\ todo \subseteq Origin /\ serving \in BOOLEAN
    /\ sources \in [Feed -> Source]
    /\ prefixes \in [RouteFeed -> SUBSET (SUBSET Origin)]
    /\ \A f \in RouteFeed : Cardinality(prefixes[f]) <= 1
    /\ rpki \in [Origin \X Validator -> {"absent", "valid", "invalid"}]
    /\ hits \subseteq Origin /\ recent \in BOOLEAN
    /\ ingested \in [Feed -> {"none", "ok", "error"}]

\* What a fresh process remembers.
NoSource == [up |-> "absent", succeeded |-> FALSE, failed |-> FALSE]
NoSources == [f \in Feed |-> NoSource]
NoPrefixes == [f \in RouteFeed |-> {}]
NoRpki == [ov \in Origin \X Validator |-> "absent"]

BgpInit ==
    /\ cfToken \in BOOLEAN /\ announced = {Own} /\ authorised = {Own} /\ answering = Feed /\ changes = 0
    /\ pc = "ripestat" /\ todo = {} /\ serving = FALSE
    /\ sources = NoSources /\ prefixes = NoPrefixes /\ rpki = NoRpki
    /\ hits = {} /\ recent = FALSE
    /\ ingested = [f \in Feed |-> "none"]

(***************************************************************************)
(* The poller thread                                                       *)
(***************************************************************************)

SetSourceAfresh(f, ok) ==
    sources' = [sources EXCEPT ![f] = [up |-> IF ok THEN "up" ELSE "down",
                                       succeeded |-> ok, failed |-> ~ok]]

\* _set_source keeps the time of the last success through failures and the
\* time of the last error through successes.
SetSource(f, ok) ==
    sources' = [sources EXCEPT ![f].up = IF ok THEN "up" ELSE "down",
                               ![f].succeeded = @ \/ ok, ![f].failed = @ \/ ~ok]

FailedQuietly(f, next) ==
    /\ f \in Polled /\ f \notin answering
    /\ pc' = next
    /\ UNCHANGED feeds

\* A feed raises; poll_once marks it down and goes on.
Failed(f, next) ==
    /\ f \in Polled /\ f \notin answering
    /\ SetSource(f, FALSE)
    /\ pc' = next
    /\ UNCHANGED <<prefixes, rpki, hits, recent>>

Validity(o) == IF o \in authorised THEN "valid" ELSE "invalid"

AskOwnRpki ==
    /\ pc = "rpki" /\ "ripestat" \in answering
    /\ rpki' = [rpki EXCEPT ![<<Own, "ripestat">>] = Validity(Own)]
    /\ todo' = {}
    /\ SetSource("ripestat", TRUE) /\ pc' = "routinator"
    /\ UNCHANGED <<prefixes, hits, recent>>

\* poll_ripestat: the current announcers, stored before their RPKI states
\* are asked one by one; without announcers the ASN's own state is asked.
PollRipestat ==
    /\ pc = "ripestat" /\ "ripestat" \in answering
    /\ prefixes' = [prefixes EXCEPT !["ripestat"] = {announced}]
    /\ todo' = IF announced = {} THEN {Own} ELSE announced
    /\ pc' = "rpki"
    /\ UNCHANGED <<sources, rpki, hits, recent>>

AskRpki ==
    /\ pc = "rpki" /\ "ripestat" \in answering
    /\ \E o \in todo :
        /\ rpki' = [rpki EXCEPT ![<<o, "ripestat">>] = Validity(o)]
        /\ todo' = todo \ {o}
    /\ IF todo' = {} THEN SetSource("ripestat", TRUE) /\ pc' = "routinator"
                     ELSE UNCHANGED <<sources, pc>>
    /\ UNCHANGED <<prefixes, hits, recent>>

RipestatFails ==
    /\ pc \in {"ripestat", "rpki"} /\ Failed("ripestat", "routinator")
    /\ todo' = {}

\* poll_routinator: the local validator's view of the ASN's own route.
PollRoutinator ==
    /\ pc = "routinator"
    /\ \/ /\ "routinator" \in answering
          /\ rpki' = [rpki EXCEPT ![<<Own, "routinator">>] = Validity(Own)]
          /\ SetSource("routinator", TRUE)
          /\ pc' = "cloudflare_radar"
          /\ UNCHANGED <<prefixes, hits, recent>>
       \/ Failed("routinator", "cloudflare_radar")
    /\ UNCHANGED todo

\* poll_cloudflare: the origins of the realtime route set.
PollCloudflare ==
    /\ pc = "cloudflare_radar"
    /\ \/ /\ cfToken /\ "cloudflare_radar" \in answering
          /\ prefixes' = [prefixes EXCEPT !["cloudflare_radar"] = {announced}]
          /\ SetSource("cloudflare_radar", TRUE)
          /\ pc' = "bgp_tools"
          /\ UNCHANGED <<rpki, hits, recent>>
       \/ ~cfToken /\ pc' = "bgp_tools" /\ UNCHANGED feeds
       \/ Failed("cloudflare_radar", "bgp_tools")
    /\ UNCHANGED todo

PresentOnly(origins) ==
    /\ prefixes' = IF origins = {} THEN prefixes
                   ELSE [prefixes EXCEPT !["bgp_tools"] = {origins}]
    /\ hits' = origins

Accumulate(origins) ==
    /\ prefixes' = [prefixes EXCEPT !["bgp_tools"] = @ \cup {origins}]
    /\ hits' = hits \cup origins

\* The table replaces a prefix and its hit counters, an absent prefix too.
Replace(origins) ==
    /\ prefixes' = [prefixes EXCEPT !["bgp_tools"] = {origins}]
    /\ hits' = origins

GateOnAttempt ==
    /\ pc = "bgp_tools" /\ pc' = "ingest" /\ recent' = TRUE
    /\ IF recent THEN UNCHANGED <<sources, prefixes, hits>>
       ELSE IF "bgp_tools" \in answering THEN Replace(announced) /\ SetSource("bgp_tools", TRUE)
       ELSE SetSource("bgp_tools", FALSE) /\ UNCHANGED <<prefixes, hits>>
    /\ UNCHANGED <<rpki, todo>>

\* poll_bgp_tools: skipped within the minimum interval of the last success,
\* else the whole table is downloaded.
PollBgpTools ==
    /\ pc = "bgp_tools"
    /\ \/ recent /\ pc' = "ingest" /\ UNCHANGED feeds
       \/ /\ ~recent /\ "bgp_tools" \in answering
          /\ Replace(announced)
          /\ SetSource("bgp_tools", TRUE)
          /\ recent' = TRUE /\ pc' = "ingest"
          /\ UNCHANGED rpki
       \/ ~recent /\ Failed("bgp_tools", "ingest")
    /\ UNCHANGED todo

PollFeeds ==
    /\ PollRipestat \/ AskRpki \/ RipestatFails
       \/ PollRoutinator \/ PollCloudflare \/ PollBgpTools
    /\ UNCHANGED <<world, serving, ingested>>

ReportWhenUp(f) == IF sources[f].up = "up" THEN "ok" ELSE ingested[f]

Report(f) == IF sources[f].up = "up" THEN "ok" ELSE "error"

\* _ingest_source_statuses: one post per source to one endpoint, and a failed
\* post is swallowed; the round is over, and after the first the server starts.
Ingest(delivered) ==
    /\ pc = "ingest"
    /\ ingested' = [f \in Feed |-> IF f \in delivered /\ sources[f].up # "absent"
                                   THEN Report(f) ELSE ingested[f]]
    /\ pc' = "sleep"
    /\ serving' = TRUE
    /\ UNCHANGED <<world, todo, feeds>>

\* What /metrics says of a prefix in a route feed that is up.
Exported(f, origins) ==
    serving /\ prefixes[f] = {origins} /\ sources[f].up = "up"

\* The next round, POLL_SECONDS later.
WakeUp ==
    /\ pc = "sleep" /\ pc' = "ripestat"
    /\ UNCHANGED <<world, todo, serving, feeds, ingested>>

\* BGPTOOLS_MIN_INTERVAL has passed since the last download.
Elapse ==
    /\ recent /\ recent' = FALSE
    /\ UNCHANGED <<world, pc, todo, serving, sources, prefixes, rpki, hits, ingested>>

\* systemd starts a new process (Restart=always).
Restart ==
    /\ pc = "dead" /\ pc' = "ripestat"
    /\ UNCHANGED <<world, todo, serving, feeds, ingested>>

(***************************************************************************)
(* The world                                                               *)
(***************************************************************************)

Change == changes < MaxChanges /\ changes' = changes + 1

\* The process dies, and all it remembers with it.
Crash ==
    /\ Change /\ pc # "dead" /\ pc' = "dead" /\ todo' = {} /\ serving' = FALSE
    /\ sources' = NoSources /\ prefixes' = NoPrefixes /\ rpki' = NoRpki
    /\ hits' = {} /\ recent' = FALSE
    /\ UNCHANGED <<cfToken, announced, authorised, answering, ingested>>

Reroute(origins) ==
    /\ Change /\ announced' = origins
    /\ UNCHANGED <<cfToken, authorised, answering, pc, todo, serving, feeds, ingested>>

Authorise(origins) ==
    /\ Change /\ authorised' = origins
    /\ UNCHANGED <<cfToken, announced, answering, pc, todo, serving, feeds, ingested>>

Outage(f) ==
    /\ Change
    /\ answering' = IF f \in answering THEN answering \ {f} ELSE answering \cup {f}
    /\ UNCHANGED <<cfToken, announced, authorised, pc, todo, serving, feeds, ingested>>

Poll == PollFeeds \/ WakeUp

BgpNext ==
    \/ Poll \/ Elapse \/ Restart \/ Crash
    \/ \E delivered \in {Feed, {}} : Ingest(delivered)
    \/ \E origins \in SUBSET Origin : Reroute(origins) \/ Authorise(origins)
    \/ \E f \in Feed : Outage(f)

\* The poller never ends, time passes, systemd restarts the service, and a
\* post that is sent over and over gets through.
BgpFairness ==
    /\ WF_bgpVars(Poll) /\ WF_bgpVars(Elapse) /\ WF_bgpVars(Restart)
    /\ SF_bgpVars(Ingest(Feed))

BgpSpec == BgpInit /\ [][BgpNext]_bgpVars /\ BgpFairness

(***************************************************************************)
(* Properties                                                              *)
(***************************************************************************)

\* The feeds' answers reach /metrics: when the announcers settle and a route
\* feed keeps answering, that feed is up and exports exactly those origins.
\* So a withdrawal shows (AS215932PrefixNotVisible), a second origin is not
\* masked (AS215932UnexpectedOrigin) and a return is seen, after any crash.
ExportsSettle ==
    \A f \in RouteFeed, origins \in SUBSET Origin :
        <>[](f \in Polled /\ announced = origins /\ f \in answering)
            => <>[]Exported(f, origins)

\* The RPKI state a hijacker's origin is exported with settles as well, not
\* only that of the ASN's own origin, whatever other feeds do.
RpkiSettles ==
    \A o \in Origin, state \in {"valid", "invalid"} :
        <>[](o \in announced /\ Validity(o) = state /\ "ripestat" \in answering)
            => <>[](rpki[o, "ripestat"] = state)

\* Hyrule Cloud hears of a feed that stays down, and of its recovery.
ReportsSettle ==
    \A f \in Feed :
        /\ <>[](f \in Polled \ answering) => <>[](ingested[f] = "error")
        /\ <>[](f \in Polled \cap answering) => <>[](ingested[f] = "ok")

\* The minimum interval counts from the last successful download, so it
\* never holds back the retry of a failed one.
DownFeedIsRetried == recent => sources["bgp_tools"].up = "up"

\* An absent series fires no alert: from the first scrape on every feed that
\* is configured is exported as up or down.
ServedSourcesAreKnown == serving => \A f \in Polled : sources[f].up # "absent"

\* A failure never erases the time of the last success that BGPSourceStale
\* is computed from, nor a success that of the last error.
HistoryIsKept ==
    [][pc' # "dead" => \A f \in Feed :
        /\ sources[f].succeeded => sources'[f].succeeded
        /\ sources[f].failed => sources'[f].failed]_bgpVars
=============================================================================
