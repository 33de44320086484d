----------------------------- MODULE DiagAgent -----------------------------
(***************************************************************************)
(* The diagnostic agent of extmon (extmon-diag-agent.py): an authorised    *)
(* POST asks for a probe of a host, the agent resolves and vets the name,  *)
(* connects to the address it vetted and, for HTTP, follows redirects.     *)
(*                                                                         *)
(* The handlers share nothing, so one request at a time stands for the     *)
(* threads of the server; the answers of the DNS change under it.          *)
(***************************************************************************)
EXTENDS Naturals, Sequences

CONSTANTS
    Name,           \* host names
    Address,        \* IP addresses, which are hosts as well
    Public,         \* those that blocked_ip lets through
    Port,           \* ports
    AllowedPort,    \* ALLOWED_PORTS without BLOCKED_PORTS
    MaxRedirects,   \* MAX_REDIRECTS
    MaxAnswers      \* bound on the addresses of a DNS answer

ASSUME DiagAssumption ==
    /\ Name \cap Address = {} /\ Public \subseteq Address /\ AllowedPort \subseteq Port
    /\ MaxRedirects \in Nat /\ MaxAnswers \in Nat

Host == Name \cup Address
Url == [web : BOOLEAN, host : Host, port : Port]
Answer == UNION {[1 .. n -> Address] : n \in 0 .. MaxAnswers}

VARIABLES
    token,     \* EXTMON_DIAG_AGENT_TOKEN is configured
    dns,       \* what getaddrinfo answers for each name
    phase,     \* where run_probe is
    kind,      \* the kind of probe
    url,       \* the host and port, or the URL, that is fetched now
    hops,      \* connections the probe has opened
    pinned,    \* the address that was vetted
    conn,      \* where the probe is connected to
    reply      \* the status of the last reply

diagVars == <<token, dns, phase, kind, url, hops, pinned, conn, reply>>

NoConn == [address |-> "none", port |-> "none"]

DiagInit ==
    /\ token \in BOOLEAN /\ dns \in [Name -> Answer]
    /\ phase = "idle" /\ kind = "none" /\ url = "none" /\ hops = 0
    /\ pinned = "none" /\ conn = NoConn /\ reply = "none"

(***************************************************************************)
(* The handler                                                             *)
(***************************************************************************)

Blocked(address) == address \notin Public

\* getaddrinfo: a literal is its own answer, an unknown name has none.
Resolved(host) == IF host \in Address THEN <<host>> ELSE dns[host]

\* resolve_public: every address of the answer is vetted, not only the first.
ResolvesPublic(host) ==
    /\ Resolved(host) # <<>>
    /\ \A i \in DOMAIN Resolved(host) : ~Blocked(Resolved(host)[i])

\* What tcp, _open_pinned and run_probe reject before they connect; ping and
\* trace have no port.
Acceptable ==
    /\ kind \in {"tcp", "http", "ping"}
    /\ kind = "http" => url.web
    /\ kind # "ping" => url.port \in AllowedPort
    /\ ResolvesPublic(url.host)

\* The probe is over: its connection is closed and the reply sent.
Answered(status) ==
    /\ reply' = status /\ phase' = "idle" /\ conn' = NoConn
    /\ kind' = "none" /\ url' = "none" /\ hops' = 0 /\ pinned' = "none"

\* A request without a configured token, with a wrong one, or whose body
\* cannot be parsed, which raises outside the handler's try.
Refuse(authorised) ==
    /\ phase = "idle"
    /\ Answered(IF ~token THEN "503" ELSE IF ~authorised THEN "403" ELSE "closed")
    /\ UNCHANGED <<token, dns>>

Post(k, u) ==
    /\ phase = "idle" /\ token
    /\ phase' = "vet" /\ kind' = k /\ url' = u
    /\ hops' = 0 /\ reply' = "none"
    /\ UNCHANGED <<token, dns, pinned, conn>>

\* Resolve and vet; the first address of the answer is pinned.
Vet ==
    /\ phase = "vet"
    /\ IF Acceptable
       THEN /\ pinned' = Resolved(url.host)[1] /\ phase' = "connect"
            /\ UNCHANGED <<kind, url, hops, conn, reply>>
       ELSE Answered("400")
    /\ UNCHANGED <<token, dns>>

ConnectByName ==
    /\ phase = "connect" /\ Resolved(url.host) # <<>>
    /\ conn' = [address |-> Resolved(url.host)[1], port |-> url.port]
    /\ hops' = hops + 1 /\ phase' = "connected"
    /\ UNCHANGED <<token, dns, kind, url, pinned, reply>>

\* The connection, or the ping or traceroute process, to the pinned address.
Connect ==
    /\ phase = "connect"
    /\ conn' = [address |-> pinned, port |-> url.port]
    /\ hops' = hops + 1 /\ phase' = "connected"
    /\ UNCHANGED <<token, dns, kind, url, pinned, reply>>

FollowUncounted(location) ==
    /\ phase = "connected" /\ kind = "http"
    /\ url' = location /\ phase' = "vet" /\ conn' = NoConn /\ hops' = 0
    /\ UNCHANGED <<token, dns, kind, pinned, reply>>

\* A redirect: the next URL is vetted and pinned afresh, at most MaxRedirects
\* times.
Follow(location) ==
    /\ phase = "connected" /\ kind = "http"
    /\ IF hops <= MaxRedirects
       THEN /\ url' = location /\ phase' = "vet" /\ conn' = NoConn
            /\ UNCHANGED <<kind, hops, pinned, reply>>
       ELSE Answered("400")
    /\ UNCHANGED <<token, dns>>

\* The probe has its result.
Succeed == phase = "connected" /\ Answered("200") /\ UNCHANGED <<token, dns>>

\* Whatever raises on the way: refused, timed out, TLS, a reset, a process
\* that takes longer than 20 seconds.
Fail ==
    /\ phase \in {"connect", "connected"} /\ Answered("400")
    /\ UNCHANGED <<token, dns>>

ProbeStep == Vet \/ Connect \/ Succeed \/ Fail \/ \E u \in Url : Follow(u)

\* The answer for a name changes at any time.
Rebind(n, answer) ==
    /\ dns' = [dns EXCEPT ![n] = answer]
    /\ UNCHANGED <<token, phase, kind, url, hops, pinned, conn, reply>>

DiagNext ==
    \/ \E authorised \in BOOLEAN : Refuse(authorised)
    \/ \E k \in {"tcp", "http", "ping", "unsupported"}, u \in Url : Post(k, u)
    \/ ProbeStep
    \/ \E n \in Name, answer \in Answer : Rebind(n, answer)

\* Every socket operation and process has a timeout, so a thread goes on.
DiagFairness == WF_diagVars(ProbeStep)

(***************************************************************************)
(* Properties                                                              *)
(***************************************************************************)

\* The address that was vetted is the one connected to: whatever the DNS
\* answers later and wherever redirects lead, no connection is to an address
\* or a port that the agent rejects (the comment on _PinnedHTTPConnection).
VettedConnections ==
    conn # NoConn => conn.address \in Public /\ (kind # "ping" => conn.port \in AllowedPort)

\* A probe ends with a reply, also when every page redirects to another.
ProbeEnds == phase # "idle" ~> (phase = "idle" /\ reply \in {"200", "400"})
=============================================================================
