# Formal models of network-operations

This repository runs a small service provider's network: Ansible roles for its
hosts, the programs those roles install, the workflows that promote and deploy
applications, and the monitoring that watches them.  Most of it is declarative.
The modules in this directory model the parts that are programs with state of
their own, where the order of steps, a crash, a timeout or a second actor can
break something that no unit test in `tests/` reaches.

## Inventory

| Component | State it keeps | Operations | Talks to | What is hard |
| --- | --- | --- | --- | --- |
| Managed-zone control plane, `ansible/roles/knot/files/hyrule_dns_control.py` | `state.json` (zones, pending journal), `customer-zones.conf`, zone files, `self._state` | PUT and DELETE of a zone, DNSKEY and health reads, replay of the journal | Knot through `knotc`, the file system, the backup job through `mutation.lock` | crashes between durable writes, commands that time out after they took effect, replay, stale memory |
| DNS backup, `knot-online-backup.j2` | a snapshot directory | daily snapshot | Knot, the two control-plane files | three sources copied at one consistent point |
| Cloud deployment, `ansible/roles/hyrule_cloud` | deployment markers, checkout, database schema, unit states | quiesce, migrate, check, release | systemd, Vault Agent callbacks, alembic | services started from elsewhere in the middle of a migration, reruns after a failure |
| Application promotion, `promote-apps.yml`, `scripts/ci/promote-app-pins.py`, `pending-app-promotions.py` | pins on `main` and on the promotion branch | rebuild the branch, carry pins forward | application repositories, a concurrency group | lost, late and reordered dispatches, rolled-back pins |
| Deployment pipeline, `app-promotion-deploy.yml`, `apply.yml`, `post-merge-apply.yml` | runs queued, what is deployed | detect, plan, apply | GitHub queues, the hosts | only one run waits per group; detection looks one commit back |
| Drift, `check-drift.sh`, `drift-apply-plan.sh` | logs of a check-mode run | classify hosts | the deployment pipeline | truncated logs, unreachable hosts |
| Vault Agent authentication, `ansible/roles/vault_agent`, `check_vault_agent_health.py` | wrapped SecretID, token, metrics | bootstrap, renew, alert | Vault, Icinga | credentials that can be used once, unknown values taken for healthy ones |
| BGP monitor, `generated/extmon/extmon-bgp-agent.py` | visibility and RPKI per prefix and source | poll, export, report | looking glasses, Prometheus, Hyrule Cloud | partial failure of a poll, values that never expire |
| Diagnostic agent, `generated/extmon/extmon-diag-agent.py` | none between requests | probe a host for an authorised caller | the DNS, any host | answers that change between check and use, redirects |
| OVH expiry collector, `generated/extmon/ovh-expiry-collector.py` | the metrics textfile | collect, replace the file | OVH's API, the alert rules | partial failure published with a fresh timestamp |
| Stateful checks, `check_jool_success_delta.sh`, `check_dns_soa_ecmp.py` | a counter file | sample | Icinga | file rewritten in place |

Renderers (`render-network-flows.py`, `render-env.sh`, ...), registrar and cloud
command lines, VM provisioning scripts, and the roles that only install
templates keep no state between steps; `PROJECT.json` lists them as not
modelled with the reason.  The hazards of the code, each at its line, are in
`PROJECT.json` under `hazards`.

What makes each component correct:

* *Managed zones*: a change is journaled before Knot sees it; Knot never serves
  anything but the old or the new records of a journaled change; what was
  answered stays true; revisions never go back; a deleted zone leaves nothing
  behind; every journaled change is eventually carried out.
* *Backup*: its three parts describe one point of the history.
* *Cloud deployment*: no service runs old code on a new schema or the reverse;
  none starts while its barrier is up; the worker runs only versions whose API
  was healthy; a rerun recovers from a failure at any step.
* *Promotion*: a pin that reached the branch and was not superseded reaches `main`;
  a merge moves a pin backwards only to a commit somebody asked for, and a driver
  not without its slave; the pull request tells what its merge does; a rolled-back
  pin does not return by itself.
* *Pipeline and drift*: every merged pin is deployed or reported; a host is
  applied, skipped with a reason, or unchanged, and never silently dropped.
* *Vault Agent*: a delivered credential is used and not lost; an agent without a
  token, or with one it cannot renew, is reported, and a healthy one is not.
* *BGP monitor*: what is exported and reported settles on what the feeds that
  answer say, whatever failed before.
* *Diagnostic agent*: it connects only to what it has vetted, and every probe ends.
* *Expiry collector*: a service does not come to its expiry without an alert.

## Plan

Most important behaviour first.  Modules marked *done* exist.

1. *done* `ZoneRegistry` (abstract), `DNSControl` (control plane, Knot, file
   system, backup), `MCDNSControl`, and its three modules of proofs.
2. *done* `CloudDeploy`: barriers, units, checkout and schema; safety of every start
   of a unit, recovery by rerunning.
3. *done* `Promotion`: branch, pins, pull request and queue.
4. *done* `VaultAgent`: agent, role, collector and check in one module, because the
   hazards are between them.
5. *done* `BgpAgent`, `DiagAgent` and `ExpiryCollector`, run together by `Extmon`.
6. `DNSRestore`: the backup composed with the runbook's restore and the start of
   the service on restored files.
7. `DeployPipeline`: what `app-promotion-deploy.yml` detects in `HEAD^..HEAD` of each
   push when the concurrency group displaces runs, composed with the merges of
   `Promotion`.
8. `DriftPlan` as pure operators, and the two stateful checks.

Theorems: the types of each core module, the safety invariants and action
properties that the runs check, and the refinement of `ZoneRegistry` are proved
(see *Proofs*), those of the control plane that survive late writes without assuming
their absence.  Worth adding: the theorems of the modules planned above.

## The managed-zone control plane

### How the model corresponds to the code

`DNSControl` has the file system (`disk` is `state.json`, `conf` the zones in
`customer-zones.conf`, `file` the zone files), the Knot server (`served`, `txn`,
`kasp`), the process (`mem` is `self._state`, `pc` the place a request has
reached, `op`, `target`, `lock`) and the backup job.  `_mutation_guard` makes
requests exclude each other and the backup, so one `pc` is enough: a second
thread of the HTTP server waits for the lock and has no state before it.

Every durable write, every `knotc` command and every decision is an action.  The
sequences are those of `apply`, `delete` and `_recover_one`:

    request   recover* decide [zonefile check] stage stagedConfig, then
    create    config zonefile check reload sign           save finalConfig
    update    config begin unset set commit sign flush    save finalConfig
    delete    config reload purge unlink                  save finalConfig

`recover*` carries out each journal entry with the same sequences, so the labels
are shared: `op.staged` says whether the entry in hand is this request's own.
`config` is `_recover_one` rendering the include a second time.  `__init__` is
`Start` (label `boot`), which renders the include and then replays.

A step has an outcome.  `fail` is an error without effect.  `late` is an effect
whose caller sees an error: a `knotc` command that ran into the 30 second
timeout, or a directory `fsync` that failed after `os.replace`.  In a request an
exception releases the lock and becomes an error answer; in `__init__` it ends
the process (`Raise`).

The data is abstracted to what the properties tell apart.  A zone's value is a
revision and a record set, a function from owner/type pairs to sets of rdata.
`Records` are those that `validate_payload` lets through and `Rejected` those
among them that Knot refuses in `zone-set` and `kzonecheck`: `validate_payload`
checks the shape of rdata and leaves the rest to Knot.  A sequence of `zone-unset`
(and of `zone-set`) commands is one step; failing in the middle differs from
failing at the end only inside the open transaction, which is then aborted or
orphaned and never committed.

Assumptions about Knot, which is not in this repository: one transaction may be
open per zone and `zone-begin` is refused while one is (`+benevolent` makes it
forgive the unset of absent records, not a second transaction); `reload` loads
the declared zones whose file is good from their files and drops the others that
are no longer declared; a restart does the same and loses open transactions; a
committed transaction survives in memory and in the journal, but the file behind
it is only brought up to date by `zone-flush`, and a start is modelled as reading
the file (the conservative choice: `zonefile-load: difference-no-serial` makes the
file win).  A Knot restart during a command sequence is noticed by the command
that is running: `knotc` fails while the socket is away.  A restart that begins and
ends between two commands is not modelled; after `zone-commit` it would lose the
update that `zone-flush` then takes for written (listed under `hazards`).

### Runs

| Run | Instance | Shows |
| --- | --- | --- |
| `dns_safety` | 2 zones (symmetric), 3 record sets over 2 RRsets of which 1 is rejected, revisions 1..2, 3 faults; 241,374 states | the ten safety properties below |
| `dns_live` | 1 zone, 2 record sets, revisions 1..2, 3 faults, `OperatedSpec`; 8,577 states | `Converges` |
| `dns_rejected_update` | 1 zone, one of 3 record sets rejected, no fault | `Converges` is violated |
| `dns_orphan_transaction` | 1 zone, 1 fault, no operator | `Converges` is violated |
| `dns_late_write` | 1 zone, 1 fault, late writes | `ReplayedBeforeNextRequest` is violated |

Two zones are what the journal order, the include and `reload` (which concerns all
zones) need; two revisions give a first value, an update, a repeat, a reuse and a
stale PUT; two RRsets of which the record sets share one are what it takes for
`zone-unset` to matter; three faults allow a failure, a failure of its replay and
a Knot restart or crash on top.

* `JournalCoversKnot`: whenever Knot serves something else than a zone's committed
  records, the journal on disk has a transition of the zone and Knot serves its
  desired value.
* `OneInFlight`: the journal on disk never holds two zones.
* `SettledSurvivesKnotRestart`: a zone with nothing pending would be loaded as it is
  served, because flush and the include are in time.
* `DeletedZonesLeaveNoKeys`: no keys remain for a zone that is gone.
* `BackupIsConsistent`: the snapshot agrees with the copied state or its journal.
* `AnswersLast`: what a 2xx answer promised holds until a later request for the zone
  is journaled.
* `RevisionFence`: the revision of a zone never goes back and never stands for two
  values while the zone exists.
* `ImplementsRegistry`: refinement of `ZoneRegistry`, with `base` the zones and `want`
  the zones after the journal, of the memory while the process runs and of the disk
  while it does not.
* `Consistent`: the inductive invariant (below).
* `Converges`: a journaled transition leaves the journal.

Fairness (`FairSpec`): steps of a request and of the backup job are taken when they
stay possible (weak); systemd restarts the process (`Restart=on-failure`, strong,
because the lock may be taken by the backup in between); callers keep sending
requests (strong), since `_recover_pending` runs only in requests and at a start.
`OperatedSpec` adds the operator, who ends a transaction that nothing in the code
ends by restarting Knot; `Requires=` then restarts the control process as well.
`MaxFaults` bounds the faults, so every behaviour is eventually without faults, as
any convergence claim has to assume.

### Disagreements found

1. *An update that Knot rejects blocks the service* (`dns_rejected_update`).  Only a
   creation is checked with `kzonecheck` before it is journaled.  An update with
   rdata that `validate_payload` accepts and `zone-set` refuses is journaled, its
   replay fails in every later request for any zone and in `__init__`, against
   "Replaying it here makes every crash point converge on the intended zone"
   (`hyrule_dns_control.py:154-155`).
2. *An orphaned Knot transaction blocks the service* (`dns_orphan_transaction`).  After
   a crash between `zone-begin` and `zone-commit`, or a `zone-begin` that timed out
   after it took effect, no code aborts the transaction and the replay's
   `zone-begin` is refused.
3. *A state write that fails late is not replayed by the next request*
   (`dns_late_write`), against `docs/runbooks/managed-domain-dns.md:140-143`.

With late writes the memory can be behind the disk (finding 3), and a second request can
then journal another value over the first: that a 2xx answer lasts, that Knot serves
only what the journal knows of, the backup and the refinement need
`LateWrites = FALSE`, as in `dns_safety`.  `OneInFlight`, `SettledSurvivesKnotRestart`,
`DeletedZonesLeaveNoKeys` and `RevisionFence` do not: `DNSDurability_proofs` proves them
whatever fails.  (TLC agrees: with `LateWrites = TRUE` in `MCDNSControl_safety.cfg` and
these four properties it finds no error in 920,098 states.)  Late outcomes of `knotc`
commands are always included.

## Cloud deployment

### How the model corresponds to the code

`CloudDeploy` is the role `hyrule_cloud` with systemd and the two services.  `deploy.pc`
is the next task of an apply; each task that changes something is a step:

    quiesce.yml   hold markApi markWorker reload stopWorker stopApi preflight
    checkout.yml  checkout
    runtime.yml   sync units
    health.yml    recheck migrate releaseApi restartApi health
                  releaseWorker restartWorker assertWorker

`marker` are the files under which a service may not start, `dropin` the start
conditions on them: copied by `hold`, but systemd runs on what it has loaded until
`reload`.  `proc` is a unit and the code its process loaded; `code`, `venv` and `schema`
are the checkout, the version `uv sync` ran for and the revision of the database.
`Begin` is what systemd does with a start job and is used by everything that can
cause one: the tasks, the Vault render hook (`TryRestart`), an operator or `Wants=`
(`ManualStart`), `Restart=always` (`Crash`) and a boot (`Reboot`).  `Die` ends an apply
between any two tasks; `Rerun` repeats it at the same ref, and `Request` starts one
at any version, also an older one.

Versions are successive states of the application, each with one schema revision,
so that an upgrade over several revisions is one step.  Whether a VM is being
provisioned is one Boolean, `inflight`, that the running API switches.  An existing
installation, a new host and a new host on a restored database are the initial
states.

### What the run shows

`cloud_deploy`: three versions of which the second never becomes healthy, three
requests, three deaths, crashes or reboots; 58,764 states.  Three versions are an
upgrade, a broken one and the way out of it; with three faults an apply and its rerun
can die and the host reboot on top.

* `RunsOnItsSchema`: a running service has the code of the checkout, its runtime and
  its schema.
* `WorkerFollowsHealthyAPI`: a worker runs only versions whose API passed a health
  check, also after an apply died between the two releases.
* `BlockedIsIntact`: an apply blocked by attempts in flight leaves the checkout and the
  schema together, as `docs/runbooks/cloud-migration-quiescence.md:19-20` says.
* `MigrationFindsNoAttempt`: the second check, because the first does not run on a
  restored host without a runtime.
* `Recovers`: rerunning ends in both services on the requested version.

Fairness: the tasks of an apply are strongly fair, since a render or an order can
come between two polls of the health check; a failed apply is run again, which the
runbook asks for (lines 32-37); systemd brings up a unit whose start it accepted.
`Recovers` excludes what the code itself cannot resolve and the runbook gives to a
person: an attempt that stays in flight while the services are held (only a running
API ends one), a request behind the database's schema (there is no downgrade) and a
broken version.

## Application promotion

### How the model corresponds to the code

`Promotion` is `promote-apps.yml` and the two scripts it calls.  `main` and `branch.pins`
are what the inventory pins; a commit is its position in the app repository, so
that `CompareStatus` is GitHub's compare API.  A run goes through `Resolve`, `Load` (the
branch rebuilt from `main`, with `Carried` from `pending-app-promotions.py`), `Update`
(`promote-app-pins.py`), `Push` (with its lease) and `OpenPR`.  `waiting` is the one
slot of the concurrency group, which a newer request takes over.  `Slave` is the pin
in `_SLAVED_PINS`, which `promote-app-pins.py` writes whenever it writes its driver's
(`Updated`).

The people around it are actions: `Merge` of an up-to-date pull request, with or
without deleting the branch, `EditPin` on `main` (a deploy or a rollback by hand, of
one pin or of a driver and its slave together),
`ForcePush` in an app repository (commits become "gone", a 404 of the compare API),
`SelfHeal` (the runbook's empty-input run).  `Die` ends a run between two steps.

The slaved pin follows its driver only inside the script.  The comment on
`_SLAVED_PINS` (`promote-app-pins.py:25-30`) says that it "always moves with the
sidecar's", but a person edits either pin alone and no test or workflow objects: at
this commit `host_vars/netproxy.yml:10-12` has the sidecar at `b82dc72` and its tunnel
daemon at `81d61bd`.  `Init` therefore starts from any slave pin.
`pending-app-promotions.py:79-86` looks at `PIN_TARGETS` only, so where somebody moved the
driver alone to the commit that a pending promotion has for both, the next rebuild
carries neither and the slave's move is dropped from the branch; `main` keeps the two
apart until the driver is promoted again.

### What the runs show

`promotion`: two apps and the slaved pin, two commits each, two requests, one manual
edit, one death and one lost commit, from equal and from different pins of sidecar and
daemon; 490,279 states.  Two commits tell ahead from
behind; two requests are what it takes for one to displace, carry or overtake the
other; each of the others happens once, at any point.  The run is without the
deadlock check because the bounded requests get used up and everything is then
promoted.

* `SlaveFollowsDriver`: a merge leaves sidecar and daemon as `main` has them, or at one
  commit.  It is a property of merges: of `main` it would be false (above).
* `BodyTellsTheMerge`: a mergeable pull request lists what the merge changes, and the
  values to roll back to, unless a run died after its push.
* `PromotionNeverRegresses`: a merge moves a pin backwards only to a commit that was
  asked for since.
* `Promoted`: what reached the branch is promoted or superseded.

Fairness (`LiveSpec`): GitHub runs the steps of a job; operators heal a branch whose
pull request cannot be merged, and merge one that can.

`promotion_rollback` (no deaths, no lost commits) finds `CarriedPinsArePending`
violated: disagreement 4 below.

## Vault Agent

### How the model corresponds to the code

`VaultAgent` puts together the agent, the role that installs its credential, the
collector that samples it and the Icinga check on the sample.  `shape` is the
deployed `.hcl` and `loaded` the one the running process has read; `file` and `cached`
are the SecretID on disk and in memory.  `Login` prefers the file, can only unwrap in
the wrapped shape, and removes the file after it did.  The role is `ApplyStop`,
`ApplyInstall`, `ApplyConfig`, `ApplyRestart`, with `Accepted` its assertion about
bootstrap material; `apply.changed` is what Ansible knows of the current apply.  `Look`
and `LookAgain` are the collector with its grace for a restart, and `Check` is the
order of comparisons in `check_vault_agent_health.py`.  `Apply` may bring a credential
of either shape, keep the deployed shape or force the durable one; with `BarePath` it
may also name a wrapping path without a SecretID, which `tasks/main.yml:91-94` accepts.

A tick is the collector's interval, and ages are counted in ticks and capped one
past the bound they are compared with.  Within a tick the collector runs once and an
agent without a token tries to log in once.  `Restart` is a crash, an upgrade or a
reboot; the token sink outlives the first two (`RuntimeDirectoryPreserve`) and not
the third.  The unit is then `autostart`, waiting for `RestartSec` or the boot, which
is not the `restarting` of a `systemctl restart`: the latter is over within the
collector's grace of 3 seconds, as the comment at `vault-agent-health-metrics.py.j2:228-241`
explains, and `RestartSec=5` (`vault-agent.service.j2:23`) is not.  `looking` keeps what the
first look fell into, and the second waits for the end of a `systemctl restart` only: if
the unit crashed, the collector may publish `unit_active=0` in the middle of the
restart.  (The comment at lines 57-58, "so a restart in flight is not published as an
outage", is meant for the restarts of an apply and holds for those.)  `Break` is everything else: Vault refuses the SecretID or accepts it
again, the journal becomes unreadable, the timer stops, a destination is removed,
the apply dies.

### What the runs show

`vault_agent`: a token lives two ticks, the check's threshold is four, a sample is
stale after two, an error counts for one; three applies, restarts or faults;
`BarePath` on; 1,277,531 states.  In the deployment a tick is five minutes, a token lives 48 of them,
the threshold is 72, and a sample and an error count for three each.  The threshold is
above the life of a token by more than one tick: `services/vault-agent.conf` asks
for room above the token's life, and the sample that the check reads can be a tick
older than the login.

* `OutageIsSeen`: an agent without a token for longer than `SampleMax` is reported, by its
  errors or a stale sample, and when the journal cannot be read, once the outage is
  longer than `SinkMax`, by the age of the sink.
* `SpentCredentialIsSeen`: a wrapped agent that could not log in again is reported
  while its token still works, in the interval after the next sample, or when its
  samples have stopped for longer than `SampleMax`.
* `HealthyIsOK`: no alarm about an agent at work on a durable credential, also between
  two renewals of its token.
* `RestartIsNotAnOutage`: an apply's restart of a durable agent raises no alarm.  Like
  `HealthyIsOK` it asks for `calm`: no fault, crash or error for longer than the error
  window, and no apply that changes the shape.
* `DeliveredCredentialIsReadable`: when the role restarts the agent onto a credential
  that it was given, the deployed shape can read the file, whatever the agent's
  retries, a crash or a reboot did since it was installed.
* `DeliveredCredentialWorks`: the agent logs in with it.

Fairness: the agent retries for ever, systemd starts a unit that `Restart=always`
covers, the timer elapses and time passes.

`vault_shape` finds
`AppliedShapeIsLoaded` violated, and `vault_credential` (without `BarePath`, so that every
apply is one the role's comments speak of) `ApplyRestartsOntoCredential`: disagreements 5
and 6 below.

## The external monitor

### BGP agent

`BgpAgent` is the poller thread, one action per feed and, in RIPEstat's, per question
about an origin, so that a failure can come after part of an answer was stored.
`sources`, `prefixes`, `rpki` and `hits` are the tables of `STATE`; `recent` is whether
bgp.tools was downloaded within `BGPTOOLS_MIN_INTERVAL`.  `Ingest` is the round's
posts to Hyrule Cloud, of which a failed one is swallowed; the HTTP server starts
after the first round.  A route feed's answer is the set of origins that announce
the prefix; there is one prefix, as deployed.  Announcements, ROAs and outages of
feeds change, and the process crashes, at any step.

In `extmon`: the own origin and another, two changes.  With two changes an origin can
appear and go again, and a feed fail and come back, or either together with a crash
or an outage elsewhere.

* `ExportsSettle`, `RpkiSettles`, `ReportsSettle`: what is exported, the RPKI state of
  every announced origin and what Hyrule Cloud was told settle on the truth of the
  feeds that answer.  The run states them as `ActiveExportsSettle` and so on, of the
  behaviours in which this agent runs.
* `DownFeedIsRetried`: the minimum interval does not hold back the retry of a failed
  download.
* `ServedSourcesAreKnown`: no configured feed is missing from the first scrape on.
* `HistoryIsKept`: a failure keeps the time of the last success.

Fairness: the loop of the poller never ends, time passes, `Restart=always`, and a post
that is sent in every round gets through (strong).

### Diagnostic agent and expiry collector

`DiagAgent` is the handler of a probe: authorisation, `resolve_public` (every address
of the answer is vetted, `Vet`), the connection to the pinned address (`Connect`), up
to `MAX_REDIRECTS` redirects, each vetted afresh (`Follow`), and the reply.  The DNS
changes its answers between any two steps (`Rebind`).  The handlers of the threads
share nothing, so one request at a time stands for all of them.

`ExpiryCollector` is a run of the collector, one action per request to OVH, its
textfile and its timer, and the three alert rules `OVHServiceExpiryCritical`,
`OVHCollectorErrors` and `OVHCollectorStale` on the file.  Time is counted in intervals
of the timer, of which the randomised delay is ignored; an expiry date is near
(within the alert's limit) or far; what is in the file when the timer elapses has
been there for the ten minutes of the expiry alert.

The three programs share no state.  `Extmon` is one module for all in which a behaviour
exercises one program while the others rest.

`extmon`: one name with answers of up to two addresses of which one is public, two
ports of which one is allowed, five redirects as in the code; one failover IP
besides the server, two invoices, both unpaid, the alerts' times in intervals of 15
minutes (4 and 2); and the BGP agent above; 64,159 states in all.

* `VettedConnections`: no connection to an address or port that the agent rejects.
* `ProbeEnds`: a probe ends with a reply, also when pages redirect in circles.
* `FailuresAreCounted`: whatever is missing in the textfile is counted in it.
* `LapseIsNeverSilent`: once there is a file, an expiry that comes near raises its own
  alert or one about the collector.

Fairness: every socket operation and process of a probe has a timeout; for the
collector only that time passes, so the property holds whichever runs fail or never
happen.

## Further disagreements found

4. *A rolled-back pin is carried forward* (`promotion_rollback`).  A promotion is merged
   and its branch kept; the pin is then rolled back on `main` by hand.  The next run
   for another app finds the branch's pin ahead of `main`'s and proposes it again,
   against "Pins whose old value is strictly ahead in the app repo are still-pending
   promotions" (`pending-app-promotions.py:6-8`).
5. *An apply that fails half-way hides its change from the next* (`vault_shape`).
   Requiring a durable SecretID without giving one rewrites the `.hcl` and fails the
   assertion; the next apply finds nothing changed, is accepted as steady and only
   starts the unit.  The agent stays on the single-use shape while the `.hcl`, and
   with it the health check, says durable, against `tasks/main.yml:74-76`.
6. *An apply can restart the agent onto a SecretID of the other shape*
   (`vault_credential`).  On a wrapped host an apply installs a plain SecretID and dies
   before it renders the `.hcl`.  The next apply brings no credential and changes
   something else, a template say: the plain file counts as bootstrap material
   (`tasks/main.yml:248-252`), the running agent is restarted with the wrapping path still
   deployed, and cannot unwrap the file.  The message of the role's assertion (lines
   276-278) asks for bootstrap values in "any apply that must restart Vault Agent".
   With `BarePath` one apply is enough: a wrapping path named on a durable host without a
   SecretID.  The agent then logs errors, and `OutageIsSeen` says that they are seen.

## Proofs

TLC shows a property on a small instance; the theorems hold for every value of the
constants that satisfies the assumptions of the module, which TLC evaluates in every
run: sets of zones, apps, origins or addresses of any size, and any bound on faults,
requests and edits.  Every safety invariant and every action property of a passing run
is stated by a theorem.  Each is proved from an inductive invariant: the property and
what else has to be known for a step to keep it, found with TLC (which checked the
invariant on the instance of the run first) and proved with one case per action.

| Module | Invariant | Theorems |
| --- | --- | --- |
| `DNSControl_proofs` | `TypeInv` | `TypeCorrect` |
| `DNSDurability_proofs` | `BaseInv` | `OneInFlightHolds`, `SettledHolds`, `DeletedZonesHaveNoKeys`, `RevisionsOnlyGrow` |
| `DNSConsistency_proofs` | `Inv`, that is `BaseInv` and the rest of `Consistent`; `BackupInv` | `ConsistencyHolds`, `JournalHolds`, `AnswersHold`, `BackupsAreConsistent`, `RegistryImplemented` |
| `CloudDeploy_proofs` | `Inv` | `TypeCorrect`, `ServicesMatchSchema`, `WorkerIsVetted`, `BlockedChangesNothing`, `MigrationIsQuiet` |
| `Promotion_proofs` | `Inv` | `TypeCorrect`, `SlaveFollows`, `BodyHolds`, `MergeNeverRegresses` |
| `VaultAgent_proofs` | `Inv` | `TypeCorrect`, `OutageNeverGreen`, `SpentCredentialNeverGreen`, `NoFalseAlarm`, `RestartIsNotPublished`, `DeliveredIsReadable` |
| `BgpAgent_proofs` | `Inv` | `TypeCorrect`, `FailedDownloadIsRetried`, `ServedIsKnown`, `HistorySurvives` |
| `Extmon_proofs` | `DiagInv`, `CollectorInv` | `OnlyVettedConnections`, `HopsEnd`, `EveryFailureIsCounted` |

### Managed zones

`DNSControl_proofs`, from the three assumptions of `DNSControl`:

* `TypeCorrect`: `Spec => []TypeOK`.  `TypeOK` alone is not inductive: that
  `mem.pending[target].desired.records` is a record set needs to know that there is a
  transition in hand at that label, which is `TargetConsistent`, and that needs to
  know which request is in progress, `RequestConsistent`.  The invariant `TypeInv`
  has them and is proved in two lemmas, `NextData` for what is stored and `NextFlow`
  for the control flow.  `StepCases` and `StepOrAbortCases` say once how a step may end.

`DNSDurability_proofs`, whatever fails, file writes after their rename included.  The
process may then go on from a memory that is not the state file, so the invariant
`BaseInv` speaks of both:

* `Fits(s, z)` says, for each kind of journal entry (none, creation, update, deletion),
  what the include, the zone file, Knot and the key store may hold for a zone that
  stands in state `s` as it does.  It holds of the state file, from which a restart
  goes on, and of the memory, from which the next request does.
* `Recalls(z)` says how far the two may differ: the memory is one write behind, and has
  not seen the entry of a transition (a late `Stage`) or that one was carried out (a
  late `Save`).  A repeated commit therefore changes nothing, and a rendered include
  fits both states.
* `Progress` and `Reached` say what the steps taken so far have achieved for the zone in
  hand, which is what the next step counts on.  No part is inductive without the
  others: `Save` may take an entry off the journal only because `Progress` says Knot
  and the zone file have its records and `Reached` that its keys are gone, and
  `Progress` survives a Knot restart only because `Fits` says what is loaded.

The step is split by part (`NextFitting` with a lemma for each step that writes stored
data, `NextProgress`, `NextReached`).  `OneInFlightHolds`, `SettledHolds` and
`DeletedZonesHaveNoKeys` follow from `Fits` and the journal's shape; `RevisionsOnlyGrow`
(`Spec => RevisionFence`) from `OnlyStageAndSave`: `Stage` keeps the zones, since a
memory without a pending entry knows them all, and `Save` replaces a value by a newer
one or repeats what is there.

`DNSConsistency_proofs`, for `LateWrites = FALSE`:

* `ConsistencyHolds`: `Spec => []Consistent`.  `Inv` adds to `BaseInv` that
  `self._state` is `state.json` (`MemoryIsDisk`, the only part whose proof uses
  `LateWrites = FALSE`), that the file of a zone being created is the checked one
  (`Created`) and that answers are true (`Answered`).  Of a single state, `Fits` and
  `Created` are `ZoneConsistent`.  `JournalHolds` and `AnswersHold` follow.
* `BackupsAreConsistent`: `BackupInv` adds who holds `mutation.lock`.  Between the two
  copies the job has it, so no request is in progress and the state file stays; Knot
  may restart in between, and the snapshot still agrees with the journal.
* `RegistryImplemented`: `Spec => ImplementsRegistry`.  A `Stage` that writes is the
  register's `Accept` (`StageAccepts`: nothing else is pending, and the revision grows),
  a `Save` that writes its `Settle` (`SaveSettles`: the new records are being served),
  and whatever changes what is served is its `Serve`: a commit (`CommitServes`), or a
  load by `reload` or a restart (`LoadServes`), which moves the zone in the journal and
  no other because every settled zone is loaded as it is served.  Everything else
  stutters.

### Cloud deployment

`CloudDeploy_proofs`.  `RunsOnItsSchema` speaks of running services, and what keeps
it true are barriers that other steps could lift.  `TaskInv` says for each task which
barriers are up and loaded, which services are down and what has been brought
together; `MixedIsHeld` that as long as checkout, runtime and schema do not belong
together, nothing runs and every start is barred, also after an apply died;
`RunsCheckout` that what runs has been started from the present checkout; `InstallInv`
and `WorkerInv` do the same for new hosts and unvetted workers, and `AttemptInv` says
when an attempt can be in flight.  `WorkerIsVetted`, `BlockedChangesNothing` and the
action property `MigrationIsQuiet` follow from the same invariant.

### Application promotion

`Promotion_proofs`.  The two scripts are treated first, as lemmas on operators:
`UpdatedPins` and `UpdatedFollows` (`promote-app-pins.py`), `CarriedAhead`
(`pending-app-promotions.py` returns only commits that are ahead) and `RenderedMoves`
(`render_body`).  The invariant relates a run to the `main` it was loaded from
(`RunInv`) and the branch to `main` and to what was asked (`BranchInv`); it is the
`current` flag of the branch, which an edit of `main` clears, that lets
`BodyTellsTheMerge` and `MergeNeverRegresses` speak of the merge and not of the run.
`SlaveFollows` needs of a branch that contains the tip of `main` that its slave and driver
are those of `main` or equal (`SlaveInv`); an edit of `main` makes the branch stale.
`OnlyMergeCloses` says that only `Merge` closes a pull request.

### Vault Agent

`VaultAgent_proofs`.  A verdict is about a sample, a sample about a moment that is
past, and the counters `outage`, `spent` and `calm` about the time since; the invariant
says how far a sample can lag: `OutageInv` that sink, errors and sample have each grown
as old as the outage or were taken before it, `SpentInv` and `CalmInv` the same for a
spent credential and a quiet time.  `ApplyInv` says at each task of the role where the
delivered credential is.  `RestartIsNotPublished` rests on the same lemma as `NoFalseAlarm`, `CalmIsOK`: the
second look comes after the restart, and the sample from before it is good enough.
`NoFalseAlarm` is where `ThresholdAssumption` is needed as it
stands: with a threshold of only one tick above the token's life, a sample taken
just before a renewal is over it by the time the check looks.

### External monitor

`BgpAgent_proofs`: `RoundInv` says which feeds a round has behind it, from which all of
them are known when the server starts; `SetSourceEffect` says once what `_set_source`
leaves alone.  That a route feed holds one answer at most needs the cardinality lemmas
of the library.

`Extmon_proofs`: `DiagInv` keeps what `resolve_public` vetted attached to the pinned
address until the connection is closed, whatever the DNS answers by then;
`FirstIsPublic` is the lemma about the answer's sequence.  `HopsEnd` is the counting part
of termination: at most `MaxRedirects + 1` connections.  `CollectorInv` counts the errors
of a run against the services it has been through, and the file inherits the count.
The two programs share no variable, so each invariant is proved over its own
next-state relation and holds under the other's steps.

### Only model-checked

* Liveness: `Converges`, `Recovers`, `Promoted`, `DeliveredCredentialWorks`, `ExportsSettle`,
  `RpkiSettles`, `ReportsSettle`, `ProbeEnds` and `LapseIsNeverSilent`.  Fairness and
  `ENABLED` are outside the proof system.
* The disagreements: a violation is a behaviour that TLC exhibits.

## Not modelled

* *Control plane*: TTLs, SOA serials and signatures' content; zone transfer to the
  secondaries; HTTP parsing and HMAC verification (a request that fails them
  changes nothing); the restore procedure; removal of old backups.
* *Cloud deployment*: the content of the rendered environment, the deploy key, the
  installation of `uv` and the Monero wallet service.  Two applies at once are
  forbidden by the runbook and not modelled.
* *Promotion*: `is-app-pin-only.py`, a predicate on a diff that picks jobs.
* *BGP monitor*: the counter of the BGPalerter webhook; a second prefix.
* *Expiry collector*: the alert for unpaid invoices, which reads the same file.
* *Deployment pipeline, drift, stateful checks*: planned above.
* *Renderers* turn the inventory into text without state, and their output is in the
  repository as golden files.  *Registrar and cloud command lines* make one remote
  call per invocation.  *VM and runner provisioning* are scripts run once.  The other
  roles install templates, or programs that live in other repositories.
