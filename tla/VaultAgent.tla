----------------------------- MODULE VaultAgent -----------------------------
(***************************************************************************)
(* Secret delivery to a host: the Vault Agent and its AppRole credential,  *)
(* the vault_agent role that installs one (tasks/main.yml), the collector  *)
(* that samples the agent (vault-agent-health-metrics.py.j2) and Icinga's  *)
(* check_vault_agent_health.py on the last sample.                         *)
(*                                                                         *)
(* A tick is the collector's interval.  Within one the collector runs, and *)
(* an agent without a token tries to log in.  Ages are capped one past the *)
(* largest bound they are compared with.                                   *)
(***************************************************************************)
EXTENDS Integers

CONSTANTS
    TokenTTL,     \* token_max_ttl: the agent logs in again at that age
    SinkMax,      \* --token-max-age
    SampleMax,    \* --collector-max-age
    Window,       \* vault_agent_metrics_auth_error_window
    BarePath,     \* an apply may name a wrapping path without a SecretID
    MaxFaults     \* bound on applies, restarts and faults

\* The threshold must clear token_max_ttl "with room for one missed cycle", and
\* silence is noticed before a missed renewal (services/vault-agent.conf).
ASSUME ThresholdAssumption ==
    /\ TokenTTL \in Nat \ {0} /\ SinkMax \in Nat /\ SinkMax > TokenTTL + 1
    /\ SampleMax \in 1 .. SinkMax /\ Window \in Nat \ {0}
    /\ BarePath \in BOOLEAN /\ MaxFaults \in Nat

Absent == -1
Least(a, b) == IF a < b THEN a ELSE b
Shape == {"durable", "wrapped"}
Sample == [active : BOOLEAN, sink : Absent .. SinkMax + 1, ephemeral : BOOLEAN,
           file : BOOLEAN, errors : {-1, 0, 1}, rendered : BOOLEAN]

VARIABLES
    shape,      \* the deployed .hcl: is the SecretID removed after reading
    loaded,     \* the .hcl the running agent has read
    file,       \* the SecretID file
    unit,       \* the systemd unit; "autostart" waits for RestartSec or the boot
    cached,     \* the agent has an unwrapped SecretID in memory
    token,      \* the agent holds a Vault token
    sink,       \* age of the token sink
    rendered,   \* every destination exists
    errors,     \* ticks since the last auth error in the journal
    vault,      \* Vault accepts the SecretID
    journal,    \* the collector can read the journal
    timer,      \* the collector's timer runs
    looking,    \* the collector waits to look again, and what it saw first
    sample,     \* the published sample
    sampleAge,  \* and its age
    apply,      \* the apply in progress
    done,       \* what happened in this tick
    outage,     \* ticks without a token since the unit came up
    spent,      \* ticks on a token whose credential is spent
    calm,       \* ticks without a fault or an error on a shape that no apply changes
    fresh,      \* the last apply delivered a credential and nothing failed since
    faults      \* how much of MaxFaults is used up

agent == <<loaded, file, unit, cached, token, sink, rendered, errors>>
host == <<vault, journal, timer>>
metrics == <<looking, sample, sampleAge>>
past == <<outage, spent, calm, fresh, faults>>
vars == <<shape, agent, host, metrics, apply, done, past>>

NoApply == [pc |-> "idle", target |-> "durable", given |-> FALSE, changed |-> FALSE]

TypeOK ==
    /\ shape \in Shape /\ loaded \in Shape /\ file \in {"none", "plain", "wrapping"}
    /\ unit \in {"active", "restarting", "autostart", "stopped"}
    /\ cached \in BOOLEAN /\ token \in BOOLEAN /\ rendered \in BOOLEAN
    /\ sink \in Absent .. SinkMax + 1 /\ errors \in 0 .. Window + 1
    /\ vault \in BOOLEAN /\ journal \in BOOLEAN /\ timer \in BOOLEAN
    /\ looking \in {"no", "restart", "down"} /\ sample \in Sample /\ sampleAge \in 0 .. SampleMax + 1
    /\ apply \in [pc : {"idle", "stop", "install", "config", "restart", "failed"},
                  target : Shape, given : BOOLEAN, changed : BOOLEAN]
    /\ done \in [tried : BOOLEAN, sampled : BOOLEAN]
    /\ outage \in 0 .. SinkMax + 1 /\ spent \in 0 .. SampleMax + 1 /\ calm \in 0 .. Window + 2
    /\ fresh \in BOOLEAN /\ faults \in 0 .. MaxFaults

\* An agent that has just authenticated, and was sampled.
Init ==
    /\ shape \in Shape /\ loaded = shape
    /\ file = IF shape = "wrapped" THEN "none" ELSE "plain"
    /\ cached = TRUE
    /\ unit = "active" /\ token = TRUE /\ sink = 0 /\ rendered = TRUE
    /\ errors = Window + 1
    /\ vault = TRUE /\ journal = TRUE /\ timer = TRUE
    /\ looking = "no" /\ sampleAge = 0
    /\ sample = [active |-> TRUE, sink |-> 0, ephemeral |-> shape = "wrapped",
                 file |-> file # "none", errors |-> 0, rendered |-> TRUE]
    /\ apply = NoApply /\ done = [tried |-> FALSE, sampled |-> TRUE]
    /\ outage = 0 /\ spent = 0 /\ calm = 0 /\ fresh = FALSE /\ faults = 0

(***************************************************************************)
(* The agent                                                               *)
(***************************************************************************)

\* A wrapped agent can only unwrap a SecretID, a durable one only take it as
\* it is.
Readable(s) == IF s = "wrapped" THEN "wrapping" ELSE "plain"

\* The SecretID on disk goes before the one in memory.
CanLogIn == vault /\ IF file = "none" THEN cached ELSE file = Readable(loaded)

\* A login writes the sink and the templates; a wrapped SecretID is unwrapped
\* once and its file removed.  A failure is an error in the journal.
Login ==
    /\ unit = "active" /\ ~token /\ ~done.tried
    /\ IF CanLogIn
       THEN /\ token' = TRUE /\ sink' = 0 /\ rendered' = TRUE
            /\ cached' = TRUE
            /\ file' = IF loaded = "wrapped" THEN "none" ELSE file
            /\ outage' = 0 /\ spent' = 0
            /\ UNCHANGED <<errors, done, calm>>
       ELSE /\ errors' = 0 /\ calm' = 0
            /\ done' = [done EXCEPT !.tried = TRUE]
            /\ UNCHANGED <<token, sink, rendered, cached, file, outage, spent>>
    /\ UNCHANGED <<shape, loaded, unit, host, metrics, apply, fresh, faults>>

\* The unit comes up again without what the process had in memory.
Start ==
    /\ unit \in {"restarting", "autostart"} /\ unit' = "active" /\ loaded' = shape /\ outage' = 0
    /\ UNCHANGED <<shape, file, cached, token, sink, rendered, errors, host, metrics, apply, done,
                   spent, calm, fresh, faults>>

(***************************************************************************)
(* The role                                                                *)
(***************************************************************************)

Fault ==
    /\ faults < MaxFaults /\ faults' = faults + 1
    /\ fresh' = FALSE
    /\ UNCHANGED <<outage, spent>>

\* An apply that keeps the durable shape has nothing to wait for.
CalmUnder(target) == IF shape = "durable" /\ target = "durable" THEN calm ELSE 0

\* An apply brings a new credential of some shape, or none and keeps the
\* deployed shape, forces the durable one or, with BarePath, names a wrapping
\* path; edited is any other change of what it renders.
Apply(target, given, edited) ==
    /\ apply.pc \in {"idle", "failed"}
    /\ given \/ BarePath \/ target \in {shape, "durable"}
    /\ apply' = [pc |-> "stop", target |-> target, given |-> given, changed |-> given \/ edited]
    /\ Fault
    /\ calm' = CalmUnder(target)
    /\ UNCHANGED <<shape, agent, host, metrics, done>>

ApplyStep(from, to) ==
    /\ apply.pc = from /\ apply' = [apply EXCEPT !.pc = to, !.changed = @ \/ apply.target # shape]
    /\ calm' = CalmUnder(apply.target)
    /\ UNCHANGED <<host, metrics, outage, faults>>

ApplyStopNever ==
    /\ ApplyStep("stop", "install")
    /\ UNCHANGED <<shape, agent, done, fresh, spent>>

\* The agent is stopped before a wrapping token is put in its reach.
ApplyStop ==
    /\ ApplyStep("stop", "install")
    /\ IF apply.given /\ apply.target = "wrapped"
       THEN unit' = "stopped" /\ token' = FALSE /\ cached' = FALSE
       ELSE UNCHANGED <<unit, token, cached>>
    /\ UNCHANGED <<shape, loaded, file, sink, rendered, errors, done, fresh, spent>>

ApplyInstall ==
    /\ ApplyStep("install", "config")
    /\ file' = IF apply.given THEN Readable(apply.target) ELSE file
    /\ done' = [done EXCEPT !.tried = FALSE]
    /\ UNCHANGED <<shape, loaded, unit, cached, token, sink, rendered, errors, fresh, spent>>

ApplyConfig ==
    /\ ApplyStep("config", "restart")
    /\ shape' = apply.target
    /\ spent' = IF apply.target = "wrapped" THEN spent ELSE 0
    /\ UNCHANGED <<agent, done, fresh>>

MaterialOrSink == apply.given \/ file # "none" \/ sink # Absent

\* vault_agent_has_bootstrap_material; a token sink is none.
Material == apply.given \/ file # "none"

\* The role's assertion: a steady agent needs no material if nothing changed.
Accepted == Material \/ (unit = "active" /\ rendered /\ ~apply.changed)

\* The unit is restarted onto what is on disk when this apply changed
\* something, and else started.
ApplyRestart ==
    /\ ApplyStep("restart", IF Accepted THEN "idle" ELSE "failed")
    /\ IF Accepted /\ apply.changed
       THEN unit' = "restarting" /\ token' = FALSE /\ cached' = FALSE
       ELSE /\ unit' = IF Accepted /\ unit = "stopped" THEN "restarting" ELSE unit
            /\ UNCHANGED <<token, cached>>
    /\ done' = [done EXCEPT !.tried = FALSE]
    /\ fresh' = (apply.given /\ vault)
    /\ UNCHANGED <<shape, loaded, file, sink, rendered, errors, spent>>

(***************************************************************************)
(* The collector                                                           *)
(***************************************************************************)

PublishExitStatus ==
    /\ sample' = [active |-> unit = "active", sink |-> sink,
                  ephemeral |-> shape = "wrapped", file |-> file # "none",
                  errors |-> IF ~journal THEN 127 ELSE IF errors <= Window THEN 1 ELSE 0,
                  rendered |-> rendered]
    /\ sampleAge' = 0
    /\ looking' = "no"
    /\ done' = [done EXCEPT !.sampled = TRUE]

\* What a run publishes; -1 stands for an unreadable journal.
Publish ==
    /\ sample' = [active |-> unit = "active", sink |-> sink,
                  ephemeral |-> shape = "wrapped", file |-> file # "none",
                  errors |-> IF ~journal THEN -1 ELSE IF errors <= Window THEN 1 ELSE 0,
                  rendered |-> rendered]
    /\ sampleAge' = 0
    /\ looking' = "no"
    /\ done' = [done EXCEPT !.sampled = TRUE]

LookOnce ==
    /\ timer /\ looking = "no" /\ ~done.sampled
    /\ Publish
    /\ UNCHANGED <<shape, agent, host, apply, past>>

\* An agent that looks down is looked at again after a grace.
Look ==
    /\ timer /\ looking = "no" /\ ~done.sampled
    /\ IF unit = "active" /\ sink # Absent THEN Publish
       ELSE /\ looking' = IF unit = "restarting" THEN "restart" ELSE "down"
            /\ UNCHANGED <<sample, sampleAge, done>>
    /\ UNCHANGED <<shape, agent, host, apply, past>>

\* The second look publishes whatever it sees.  A systemctl restart that the
\* first one fell into is over by then; RestartSec outlasts the grace.
LookAgain ==
    /\ looking # "no" /\ (looking = "restart" => unit # "restarting")
    /\ Publish
    /\ UNCHANGED <<shape, agent, host, apply, past>>

(***************************************************************************)
(* check_vault_agent_health.py on the sample of the agent                  *)
(***************************************************************************)

TokenStaleOnly(s, age) == s.sink + age > 1

TokenNeverStale(s, age) == FALSE

\* The age of the sink when the check runs.
TokenStale(s, age) == s.sink + age > SinkMax

SpentCredentialIgnored(s) == FALSE

SpentCredential(s) == s.ephemeral /\ ~s.file

Check(s, age) ==
    IF age > SampleMax THEN "UNKNOWN"
    ELSE IF \/ ~s.active
            \/ s.errors > 0
            \/ s.sink = Absent
            \/ TokenStale(s, age)
            \/ ~s.rendered
         THEN "CRITICAL"
    ELSE IF SpentCredential(s) THEN "WARNING" ELSE "OK"

(***************************************************************************)
(* Time and faults                                                         *)
(***************************************************************************)

\* The token reaches its maximal age and is gone until the next login.
Tick ==
    /\ unit \notin {"restarting", "autostart"} /\ looking = "no"
    /\ unit = "active" /\ ~token => done.tried
    /\ timer => done.sampled
    /\ token' = (token /\ sink < TokenTTL)
    /\ sink' = IF sink = Absent THEN sink ELSE Least(sink + 1, SinkMax + 1)
    /\ errors' = Least(errors + 1, Window + 1)
    /\ sampleAge' = Least(sampleAge + 1, SampleMax + 1)
    /\ done' = [tried |-> FALSE, sampled |-> FALSE]
    /\ outage' = IF token THEN 0 ELSE Least(outage + 1, SinkMax + 1)
    /\ spent' = IF token /\ shape = "wrapped" /\ file = "none"
                   THEN Least(spent + 1, SampleMax + 1) ELSE 0
    /\ calm' = IF token /\ rendered THEN Least(calm + 1, Window + 2) ELSE 0
    /\ UNCHANGED <<shape, loaded, file, unit, cached, rendered, host, looking, sample,
                   apply, fresh, faults>>

\* A crash, an upgrade or an OOM kill (Restart=always); the runtime directory
\* is preserved, so the sink stays.  A reboot empties it.
Restart(reboot) ==
    /\ Fault /\ calm' = 0 /\ unit = "active" /\ unit' = "autostart"
    /\ token' = FALSE /\ cached' = FALSE
    /\ sink' = IF reboot THEN Absent ELSE sink
    /\ apply' = IF reboot THEN NoApply ELSE apply
    /\ done' = [done EXCEPT !.tried = FALSE]
    /\ looking' = IF reboot THEN "no" ELSE looking
    /\ UNCHANGED <<shape, loaded, file, rendered, errors, host, sample, sampleAge>>

\* Vault refuses the SecretID or accepts it again, the journal or the timer
\* breaks, a destination is removed, the apply dies.
Break ==
    /\ Fault /\ calm' = 0
    /\ \/ vault' = ~vault /\ UNCHANGED <<journal, timer, rendered, apply>>
       \/ journal /\ journal' = FALSE /\ UNCHANGED <<vault, timer, rendered, apply>>
       \/ timer /\ looking = "no" /\ timer' = FALSE /\ UNCHANGED <<vault, journal, rendered, apply>>
       \/ rendered /\ rendered' = FALSE /\ UNCHANGED <<vault, journal, timer, apply>>
       \/ /\ apply.pc \notin {"idle", "failed"} /\ apply' = NoApply
          /\ UNCHANGED <<vault, journal, timer, rendered>>
    /\ UNCHANGED <<shape, loaded, file, unit, cached, token, sink, errors, metrics, done>>

Progress == \/ Login \/ Start \/ Look \/ LookAgain
            \/ ApplyStop \/ ApplyInstall \/ ApplyConfig \/ ApplyRestart

Next ==
    \/ Progress \/ Tick \/ Break
    \/ \E target \in Shape, given, edited \in BOOLEAN : Apply(target, given, edited)
    \/ \E reboot \in BOOLEAN : Restart(reboot)

\* The agent retries for ever, systemd starts it, and time passes.
Spec == Init /\ [][Next]_vars /\ WF_vars(Login) /\ WF_vars(Start) /\ WF_vars(Look)
        /\ WF_vars(LookAgain) /\ WF_vars(Tick)

(***************************************************************************)
(* Properties                                                              *)
(***************************************************************************)

Verdict == Check(sample, sampleAge)

\* An agent that comes up and gets no token does not stay green as in July 2026: the check
\* sees the login errors or a stale sample, and without a readable journal the
\* age of the sink that outlives the agent.
OutageIsSeen ==
    /\ outage > SinkMax => Verdict # "OK"
    /\ outage > SampleMax /\ sample.errors >= 0 => Verdict # "OK"

\* A wrapped agent that runs on a SecretID it can never read again is
\* reported before the restart that would put it into the 403 loop: in the
\* next interval, or when its samples have stopped coming for too long.
SpentCredentialIsSeen ==
    LET overdue == IF timer THEN 1 ELSE SampleMax
    IN  file = "none" /\ shape = "wrapped" /\ spent > overdue => Verdict # "OK"

\* No false alarm: an agent with a durable credential and nothing wrong for
\* longer than the error window is OK, also between two logins.
HealthyIsOK ==
    calm > Window + 1 /\ shape = "durable" /\ timer /\ token /\ rendered => Verdict = "OK"

\* An apply that restarts a healthy durable agent raises no alarm: the sample
\* that the restart falls into does not say that the agent is down ("so a
\* restart in flight is not published as an outage"; the restart after a crash
\* is, for it takes longer than the grace).
RestartIsNotAnOutage ==
    calm > Window + 1 /\ shape = "durable" /\ timer /\ ~token => Verdict = "OK"

\* When the role restarts the agent onto a credential that it was given, the
\* agent can read it: neither the agent's own retries nor a crash or a reboot
\* between the installation and the restart have spent it or left it to
\* another .hcl.
DeliveredCredentialIsReadable ==
    apply.pc = "restart" /\ apply.given => file = Readable(shape)

\* An apply that must restart a running agent needs the bootstrap values for
\* it (the role's assertion, tasks/main.yml, lines 276-278): it restarts the
\* agent only onto a credential that the agent can read.
ApplyRestartsOntoCredential ==
    [][apply.pc = "restart" /\ unit = "active" /\ unit' = "restarting"
            => file = Readable(shape)]_vars

\* A credential an apply delivers is not lost to the agent's own retries
\* while the role works: the agent logs in with it.
DeliveredCredentialWorks == fresh ~> (token \/ ~fresh)

\* Requiring a durable SecretID "flips an existing consumer from the
\* single-use shape to the persisted one" (tasks/main.yml, lines 74-76): after
\* an apply that succeeds the agent runs, or comes up, on the deployed shape.
AppliedShapeIsLoaded ==
    [][apply.pc = "restart" /\ apply'.pc = "idle" /\ faults' = faults
            => unit' \in {"restarting", "autostart"} \/ loaded = shape]_vars
=============================================================================
