----------------------------- MODULE CloudDeploy -----------------------------
(***************************************************************************)
(* The hyrule_cloud role on the api host: an apply holds the API and the   *)
(* worker with persistent start conditions, stops them, checks that no VM  *)
(* is being provisioned, replaces the code and its runtime, migrates the   *)
(* database and lets the services go one after the other.  Meanwhile the   *)
(* Vault render hook, Restart=always, an operator and a reboot try to      *)
(* start them, and the apply may die between any two tasks.                *)
(* Versions are the successive states of the application; version v brings *)
(* schema revision v.                                                      *)
(***************************************************************************)
EXTENDS Integers, FiniteSets

CONSTANTS
    MaxVersion,     \* bound: versions that are ever deployed
    Broken,         \* versions whose API never answers its health check
    MaxRequests,    \* bound: applies requested, reruns not counted
    MaxFaults       \* bound: deaths of an apply, crashes and reboots

ASSUME CloudDeployAssumption ==
    /\ MaxVersion \in Nat \ {0} /\ Broken \subseteq 2..MaxVersion
    /\ MaxRequests \in Nat /\ MaxFaults \in Nat

VARIABLES
    marker,     \* services with a deployment-pending file
    dropin,     \* the start conditions: "none", "installed", "loaded" by systemd
    units,      \* the unit files are installed
    enabled,    \* units started at boot
    code,       \* the checkout, 0: none
    venv,       \* the version uv sync was run for, 0: no .venv
    schema,     \* alembic revision, 0: an empty database
    proc,       \* the units' processes and the code they loaded
    inflight,   \* a VM row has status provisioning
    deploy,     \* the apply: next task, ref, whether the first preflight blocked it
    vetted,     \* versions whose API passed the health check of an apply
    requests, faults

host == <<marker, dropin, units, enabled>>
app == <<code, venv, schema>>
past == <<vetted, requests, faults>>
vars == <<host, app, proc, inflight, deploy, past>>

Service == {"api", "worker"}
Version == 1..MaxVersion

Inactive == [state |-> "inactive", code |-> 0]
Starting == [state |-> "starting", code |-> 0]
Running(v) == [state |-> "running", code |-> v]

Task == {"hold", "markApi", "markWorker", "reload", "stopWorker", "stopApi", "preflight",
         "checkout", "sync", "units", "recheck", "migrate", "releaseApi", "restartApi",
         "health", "releaseWorker", "restartWorker", "assertWorker"}

TypeOK ==
    /\ marker \subseteq Service /\ enabled \subseteq Service
    /\ dropin \in {"none", "installed", "loaded"}
    /\ units \in BOOLEAN /\ inflight \in BOOLEAN
    /\ code \in 0..MaxVersion /\ venv \in 0..MaxVersion /\ schema \in 0..MaxVersion
    /\ proc \in [Service -> {Inactive, Starting} \cup {Running(v) : v \in Version}]
    /\ deploy \in [pc : Task \cup {"idle", "failed"}, target : 0..MaxVersion, blocked : BOOLEAN]
    /\ vetted \subseteq Version /\ requests \in 0..MaxRequests /\ faults \in 0..MaxFaults

\* An installation from before the barriers, a new host, or a new host on a
\* restored database.
Init ==
    /\ marker = {} /\ dropin = "none"
    /\ deploy = [pc |-> "idle", target |-> 0, blocked |-> FALSE]
    /\ requests = 0 /\ faults = 0
    /\ \/ /\ units = TRUE /\ enabled = Service
          /\ code = 1 /\ venv = 1 /\ schema = 1
          /\ proc = [s \in Service |-> Running(1)] /\ vetted = {1} /\ inflight = FALSE
       \/ /\ units = FALSE /\ enabled = {}
          /\ code = 0 /\ venv = 0 /\ schema \in {0, 1}
          /\ proc = [s \in Service |-> Inactive] /\ vetted = {}
          /\ inflight \in {FALSE, schema = 1}

(***************************************************************************)
(* systemd and the services                                                *)
(***************************************************************************)

AllowedUnlessApiHeld(s) == ~(dropin = "loaded" /\ "api" \in marker /\ s = "api")

\* ConditionPathExists=!...deployment-pending, as systemd has loaded it.
Allowed(s) == ~(dropin = "loaded" /\ s \in marker)

\* A start job: with a failed condition the unit stays, or goes, inactive.
Begin(s) == IF Allowed(s) THEN Starting ELSE Inactive

\* The API upgrades the schema in ExecStartPre; alembic does not know a
\* revision newer than the code, and Restart=always tries again.
Up(s) ==
    /\ proc[s].state = "starting"
    /\ s = "api" => code >= schema
    /\ proc' = [proc EXCEPT ![s] = Running(code)]
    /\ schema' = IF s = "api" THEN code ELSE schema
    /\ UNCHANGED <<host, code, venv, inflight, deploy, past>>

\* The hook validates the rendered environment and try-restarts each unit.
TryRestart(s) ==
    /\ proc[s].state # "inactive"
    /\ proc' = [proc EXCEPT ![s] = Begin(s)]
    /\ UNCHANGED <<host, app, inflight, deploy, past>>

\* By hand, or pulled in by Wants= of another unit.
ManualStart(s) ==
    /\ units /\ proc[s].state = "inactive" /\ Allowed(s)
    /\ proc' = [proc EXCEPT ![s] = Starting]
    /\ UNCHANGED <<host, app, inflight, deploy, past>>

Fault == faults < MaxFaults /\ faults' = faults + 1 /\ UNCHANGED <<vetted, requests>>

CrashForGood(s) ==
    /\ Fault /\ proc[s].state = "running"
    /\ proc' = [proc EXCEPT ![s] = [state |-> "failed", code |-> 0]]
    /\ UNCHANGED <<host, app, inflight, deploy>>

\* Restart=always.
Crash(s) ==
    /\ Fault /\ proc[s].state = "running"
    /\ proc' = [proc EXCEPT ![s] = Begin(s)]
    /\ UNCHANGED <<host, app, inflight, deploy>>

\* Markers and conditions survive, the apply loses its connection.
Reboot ==
    /\ Fault
    /\ dropin' = IF dropin = "none" THEN "none" ELSE "loaded"
    /\ proc' = [s \in Service |->
                  IF s \in enabled /\ (dropin = "none" \/ s \notin marker) THEN Starting ELSE Inactive]
    /\ deploy' = [deploy EXCEPT !.pc = IF @ = "idle" THEN @ ELSE "failed"]
    /\ UNCHANGED <<marker, units, enabled, app, inflight>>

\* The application takes an order; it can end an attempt only while it runs.
Order ==
    /\ proc["api"].state = "running" /\ inflight' = ~inflight
    /\ UNCHANGED <<host, app, proc, deploy, past>>

(***************************************************************************)
(* The apply                                                               *)
(***************************************************************************)

Goto(from, to) == deploy.pc = from /\ deploy' = [deploy EXCEPT !.pc = to]

Request(v) ==
    /\ requests < MaxRequests /\ requests' = requests + 1
    /\ deploy.pc \in {"idle", "failed"}
    /\ deploy' = [pc |-> "hold", target |-> v, blocked |-> FALSE]
    /\ UNCHANGED <<host, app, proc, inflight, vetted, faults>>

\* A failed apply is run again at the same ref.
Rerun ==
    /\ deploy.pc = "failed" /\ deploy' = [deploy EXCEPT !.pc = "hold", !.blocked = FALSE]
    /\ UNCHANGED <<host, app, proc, inflight, past>>

\* A task fails, or the connection or the runner is lost.
Die ==
    /\ Fault /\ deploy.pc \in Task
    /\ deploy' = [deploy EXCEPT !.pc = "failed"]
    /\ UNCHANGED <<host, app, proc, inflight>>

\* The conditions are copied (systemd still runs on what it has loaded), then
\* one marker per service, then systemd loads the conditions.
Hold ==
    /\ \/ /\ Goto("hold", "markApi")
          /\ dropin' = IF dropin = "none" THEN "installed" ELSE dropin
          /\ UNCHANGED marker
       \/ Goto("markApi", "markWorker") /\ marker' = marker \cup {"api"} /\ UNCHANGED dropin
       \/ Goto("markWorker", "reload") /\ marker' = marker \cup {"worker"} /\ UNCHANGED dropin
       \/ Goto("reload", "stopWorker") /\ dropin' = "loaded" /\ UNCHANGED marker
    /\ UNCHANGED <<units, enabled, app, proc, inflight, past>>

StopWorkerOnly ==
    /\ \/ Goto("stopWorker", "stopApi") /\ proc' = [proc EXCEPT !["worker"] = Inactive]
       \/ Goto("stopApi", "preflight") /\ UNCHANGED proc
    /\ UNCHANGED <<host, app, inflight, past>>

Stop ==
    /\ \/ Goto("stopWorker", "stopApi") /\ proc' = [proc EXCEPT !["worker"] = Inactive]
       \/ Goto("stopApi", "preflight") /\ proc' = [proc EXCEPT !["api"] = Inactive]
    /\ UNCHANGED <<host, app, inflight, past>>

\* provisioning-preflight.py: an empty database, or no attempt in flight.
Drained == schema = 0 \/ ~inflight

\* Skipped where there is no runtime to run it with, which an existing
\* installation must have.
Preflight ==
    /\ deploy.pc = "preflight"
    /\ deploy' = [deploy EXCEPT
         !.pc = IF (IF venv = 0 THEN ~units ELSE Drained) THEN "checkout" ELSE "failed",
         !.blocked = venv # 0 /\ ~Drained]
    /\ UNCHANGED <<host, app, proc, inflight, past>>

Install ==
    /\ \/ Goto("checkout", "sync") /\ code' = deploy.target /\ UNCHANGED <<venv, units>>
       \/ Goto("sync", "units") /\ venv' = code /\ UNCHANGED <<code, units>>
       \/ Goto("units", "recheck") /\ units' = TRUE /\ UNCHANGED <<code, venv>>
    /\ UNCHANGED <<marker, dropin, enabled, schema, proc, inflight, past>>

RecheckNothing ==
    /\ Goto("recheck", "migrate")
    /\ UNCHANGED <<host, app, proc, inflight, past>>

Recheck ==
    /\ Goto("recheck", IF Drained THEN "migrate" ELSE "failed")
    /\ UNCHANGED <<host, app, proc, inflight, past>>

\* alembic upgrade head; there is no downgrade.
Migrate ==
    /\ Goto("migrate", IF code >= schema THEN "releaseApi" ELSE "failed")
    /\ schema' = IF code >= schema THEN code ELSE schema
    /\ UNCHANGED <<host, code, venv, proc, inflight, past>>

ReleaseBoth ==
    /\ \/ Goto("releaseApi", "restartApi") /\ marker' = {}
       \/ Goto("releaseWorker", "restartWorker") /\ marker' = marker \ {"worker"}
    /\ UNCHANGED <<dropin, units, enabled, app, proc, inflight, past>>

Release ==
    /\ \/ Goto("releaseApi", "restartApi") /\ marker' = marker \ {"api"}
       \/ Goto("releaseWorker", "restartWorker") /\ marker' = marker \ {"worker"}
    /\ UNCHANGED <<dropin, units, enabled, app, proc, inflight, past>>

RestartChangedOnly ==
    \E s \in Service :
       /\ Goto(IF s = "api" THEN "restartApi" ELSE "restartWorker",
               IF s = "api" THEN "health" ELSE "assertWorker")
       /\ proc' = [proc EXCEPT ![s] = IF code \in vetted THEN @ ELSE Begin(s)]
       /\ enabled' = enabled \cup {s}
       /\ UNCHANGED <<marker, dropin, units, app, inflight, past>>

\* On every apply, whether or not the checkout changed.
RestartService ==
    \E s \in Service :
       /\ Goto(IF s = "api" THEN "restartApi" ELSE "restartWorker",
               IF s = "api" THEN "health" ELSE "assertWorker")
       /\ proc' = [proc EXCEPT ![s] = Begin(s)]
       /\ enabled' = enabled \cup {s}
       /\ UNCHANGED <<marker, dropin, units, app, inflight, past>>

\* The unit is active and answers 200 in one of ten tries.
Healthy ==
    /\ deploy.pc = "health" /\ proc["api"].state # "starting"
    /\ LET ok == proc["api"].state = "running" /\ proc["api"].code \notin Broken
       IN  /\ deploy' = [deploy EXCEPT !.pc = IF ok THEN "releaseWorker" ELSE "failed"]
           /\ vetted' = IF ok THEN vetted \cup {proc["api"].code} ELSE vetted
    /\ UNCHANGED <<host, app, proc, inflight, requests, faults>>

AssertWorker ==
    /\ proc["worker"].state # "starting"
    /\ Goto("assertWorker", IF proc["worker"].state = "running" THEN "idle" ELSE "failed")
    /\ UNCHANGED <<host, app, proc, inflight, past>>

Apply == Hold \/ Stop \/ Preflight \/ Install \/ Recheck \/ Migrate \/ Release
         \/ RestartService \/ Healthy \/ AssertWorker

Next ==
    \/ Apply \/ Rerun \/ Die \/ Reboot \/ Order
    \/ \E v \in Version : Request(v)
    \/ \E s \in Service : Up(s) \/ TryRestart(s) \/ ManualStart(s) \/ Crash(s)

\* A started task ends, a failed apply is run again, and systemd brings up a
\* unit whose start job it has accepted; a render or an order may come between
\* the polls of the health check, hence strong fairness.
Spec == Init /\ [][Next]_vars /\ SF_vars(Apply) /\ WF_vars(Rerun)
        /\ \A s \in Service : WF_vars(Up(s))

(***************************************************************************)
(* Properties                                                              *)
(***************************************************************************)

\* No service runs, at any point of an apply, on code other than the checkout
\* and its runtime, or against another schema than its own: neither the hook,
\* nor Restart=, nor a reboot starts one between the stop and the migration.
RunsOnItsSchema ==
    \A s \in Service : proc[s].state = "running" =>
        proc[s].code = code /\ code = venv /\ venv = schema

\* A worker only ever runs a version whose API passed the health check, also
\* when the apply that would have checked it died half-way.
WorkerFollowsHealthyAPI ==
    proc["worker"].state = "running" => proc["worker"].code \in vetted

\* An apply that the first check blocks leaves the checkout and the schema as
\* the attempts need them (cloud-migration-quiescence.md, lines 19-20), also
\* one that repeats an interrupted apply; but for a host that never served.
BlockedIsIntact == deploy.blocked /\ vetted # {} => code = venv /\ venv = schema

\* No schema changes under an attempt in flight, on a restored database neither.
MigrationFindsNoAttempt == [][schema' # schema => Drained]_vars

\* Rerunning recovers an interrupted apply: in the end both services serve
\* what was asked for, unless an attempt is in flight, the database is ahead
\* of the code, or the version is broken.
Serving(s) ==
    proc[s].state # "inactive" /\ (proc[s].state = "running" => proc[s].code = deploy.target)

Recovers ==
    <>[](\/ deploy.target = 0 \/ deploy.target < schema \/ deploy.target \in Broken
         \/ inflight
         \/ \A s \in Service : Serving(s))
=============================================================================
