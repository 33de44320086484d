------------------------- MODULE CloudDeploy_proofs -------------------------
(***************************************************************************)
(* The safety of an apply of the hyrule_cloud role, for any number of      *)
(* versions, broken ones among them, any number of applies and any number  *)
(* of deaths, crashes and reboots.                                         *)
(***************************************************************************)
EXTENDS CloudDeploy, TLAPS

-----------------------------------------------------------------------------
\* The inductive invariant.

\* The checkout, its runtime and the database belong together.
Coherent == code = venv /\ venv = schema

\* The tasks of an apply, by what has been done when they are next.
ApiMarked == {"markWorker", "reload", "stopWorker", "stopApi", "preflight", "checkout",
              "sync", "units", "recheck", "migrate", "releaseApi"}
WorkerMarked == (ApiMarked \ {"markWorker"}) \cup {"restartApi", "health", "releaseWorker"}
Loaded == Task \ {"hold", "markApi", "markWorker", "reload"}
ApiStopped == {"preflight", "checkout", "sync", "units", "recheck", "migrate", "releaseApi"}
WorkerStopped == ApiStopped \cup {"stopApi", "restartApi", "health", "releaseWorker"}
Replacing == {"checkout", "sync", "units", "recheck", "migrate"}
Migrated == {"releaseApi", "restartApi", "health", "releaseWorker", "restartWorker",
             "assertWorker"}

\* How far the apply has come says which barriers are up, which services are
\* down and what has been brought together.
TaskInv ==
    /\ deploy.pc # "idle" => deploy.target \in Version
    /\ deploy.pc \in ApiMarked => "api" \in marker
    /\ deploy.pc \in WorkerMarked => "worker" \in marker
    /\ deploy.pc \in Loaded => dropin = "loaded"
    /\ deploy.pc \in {"markApi", "markWorker", "reload"} => dropin # "none"
    /\ deploy.pc \in ApiStopped => proc["api"] = Inactive
    /\ deploy.pc \in WorkerStopped => proc["worker"] = Inactive
    /\ deploy.pc \in {"sync", "units"} => code # 0
    /\ deploy.pc \in {"units", "recheck", "migrate"} => code = venv
    /\ deploy.pc \in {"recheck", "migrate"} \cup Migrated => units
    /\ deploy.pc \in Migrated => Coherent

\* While code, runtime and schema do not belong together nothing runs, and on
\* a host with units nothing can start.
MixedIsHeld ==
    ~Coherent =>
        /\ \A s \in Service : proc[s] = Inactive
        /\ units => marker = Service /\ dropin = "loaded"

\* What runs has been started from the present checkout.
RunsCheckout == \A s \in Service : proc[s].state = "running" => proc[s].code = code

\* A host without units runs nothing and never has.
InstallInv ==
    /\ ~units => enabled = {} /\ vetted = {} /\ \A s \in Service : proc[s] = Inactive
    /\ units => code # 0

\* The worker is held, or not there, until the API of its version is vetted.
WorkerInv ==
    /\ proc["worker"] # Inactive => code \in vetted
    /\ units /\ code \notin vetted => "worker" \in marker /\ dropin = "loaded"
    /\ deploy.pc = "releaseWorker" => code \in vetted

\* No attempt is in flight while the installation is being replaced; only a
\* host that never served is replaced without asking.
AttemptInv ==
    /\ ~Coherent /\ vetted # {} => Drained
    /\ deploy.pc \in Replacing /\ vetted # {} => Drained
    /\ deploy.pc = "migrate" => Drained
    /\ deploy.blocked => deploy.pc = "failed"
    /\ deploy.blocked /\ vetted # {} => Coherent

Inv == /\ TypeOK /\ TaskInv /\ MixedIsHeld /\ RunsCheckout
       /\ InstallInv /\ WorkerInv /\ AttemptInv

-----------------------------------------------------------------------------
\* Every step preserves the invariant, part by part.

\* No task stores anything of the wrong type.
LEMMA NextType == Inv /\ [Next]_vars => TypeOK'
  <1> SUFFICES ASSUME Inv, [Next]_vars PROVE TypeOK'
    OBVIOUS
  <1> USE CloudDeployAssumption DEF Inv, TypeOK, TaskInv, InstallInv, Version, host, app,
          past, Service, Inactive, Starting, Running, Task, ApiMarked, WorkerMarked, Loaded,
          ApiStopped, WorkerStopped, Replacing, Migrated
  <1>1. CASE Hold
    BY <1>1 DEF Hold, Goto
  <1>2. CASE Stop
    BY <1>2 DEF Stop, Goto
  <1>3. CASE Preflight
    BY <1>3 DEF Preflight
  <1>4. CASE Install
    BY <1>4 DEF Install, Goto
  <1>5. CASE Recheck
    BY <1>5 DEF Recheck, Goto
  <1>6. CASE Migrate
    BY <1>6 DEF Migrate, Goto
  <1>7. CASE Release
    BY <1>7 DEF Release, Goto
  <1>8. CASE RestartService
    BY <1>8 DEF RestartService, Goto, Begin, Allowed
  <1>9. CASE Healthy
    BY <1>9 DEF Healthy
  <1>10. CASE AssertWorker
    BY <1>10 DEF AssertWorker, Goto
  <1>11. CASE Rerun
    BY <1>11 DEF Rerun
  <1>12. CASE Die
    BY <1>12 DEF Die, Fault
  <1>13. CASE Reboot
    BY <1>13 DEF Reboot, Fault
  <1>14. CASE Order
    BY <1>14 DEF Order
  <1>15. ASSUME NEW v \in Version, Request(v) PROVE TypeOK'
    BY <1>15 DEF Request
  <1>16. ASSUME NEW s \in Service, Up(s) PROVE TypeOK'
    BY <1>16 DEF Up
  <1>17. ASSUME NEW s \in Service, TryRestart(s) PROVE TypeOK'
    BY <1>17 DEF TryRestart, Begin, Allowed
  <1>18. ASSUME NEW s \in Service, ManualStart(s) PROVE TypeOK'
    BY <1>18 DEF ManualStart, Allowed
  <1>19. ASSUME NEW s \in Service, Crash(s) PROVE TypeOK'
    BY <1>19 DEF Crash, Fault, Begin, Allowed
  <1>20. CASE UNCHANGED vars
    BY <1>20 DEF vars
  <1>21. QED
    BY <1>1, <1>2, <1>3, <1>4, <1>5, <1>6, <1>7, <1>8, <1>9, <1>10, <1>11, <1>12, <1>13,
       <1>14, <1>15, <1>16, <1>17, <1>18, <1>19, <1>20 DEF Next, Apply

\* Each task finds what the tasks before it have left.  In between, only a
\* release or an install touches barriers and checkout, and no start job
\* brings up a service that is held.
LEMMA NextTask == Inv /\ [Next]_vars => TaskInv'
  <1> SUFFICES ASSUME Inv, [Next]_vars PROVE TaskInv'
    OBVIOUS
  <1> USE DEF Inv, TypeOK, TaskInv, MixedIsHeld, InstallInv, Coherent, Version, host, app,
          past, Service, Inactive, Starting, Running, Task, ApiMarked, WorkerMarked, Loaded,
          ApiStopped, WorkerStopped, Replacing, Migrated
  <1>1. CASE Hold
    BY <1>1 DEF Hold, Goto
  <1>2. CASE Stop
    BY <1>2 DEF Stop, Goto
  <1>3. CASE Preflight
    BY <1>3 DEF Preflight
  <1>4. CASE Install
    BY <1>4 DEF Install, Goto
  <1>5. CASE Recheck
    BY <1>5 DEF Recheck, Goto
  <1>6. CASE Migrate
    BY <1>6 DEF Migrate, Goto
  <1>7. CASE Release
    BY <1>7 DEF Release, Goto
  <1>8. CASE RestartService
    BY <1>8 DEF RestartService, Goto, Begin, Allowed
  <1>9. CASE Healthy
    BY <1>9 DEF Healthy
  <1>10. CASE AssertWorker
    BY <1>10 DEF AssertWorker, Goto
  <1>11. CASE Rerun
    BY <1>11 DEF Rerun
  <1>12. CASE Die
    BY <1>12 DEF Die, Fault
  <1>13. CASE Reboot
    BY <1>13 DEF Reboot, Fault
  <1>14. CASE Order
    BY <1>14 DEF Order
  <1>15. ASSUME NEW v \in Version, Request(v) PROVE TaskInv'
    BY <1>15 DEF Request
  <1>16. ASSUME NEW s \in Service, Up(s) PROVE TaskInv'
    BY <1>16 DEF Up
  <1>17. ASSUME NEW s \in Service, TryRestart(s) PROVE TaskInv'
    BY <1>17 DEF TryRestart, Begin, Allowed
  <1>18. ASSUME NEW s \in Service, ManualStart(s) PROVE TaskInv'
    BY <1>18 DEF ManualStart, Allowed
  <1>19. ASSUME NEW s \in Service, Crash(s) PROVE TaskInv'
    BY <1>19 DEF Crash, Fault, Begin, Allowed
  <1>20. CASE UNCHANGED vars
    BY <1>20 DEF vars
  <1>21. QED
    BY <1>1, <1>2, <1>3, <1>4, <1>5, <1>6, <1>7, <1>8, <1>9, <1>10, <1>11, <1>12, <1>13,
       <1>14, <1>15, <1>16, <1>17, <1>18, <1>19, <1>20 DEF Next, Apply

\* Only held services see the checkout, the runtime or the schema change, and a
\* release comes after the migration.
LEMMA NextMixed == Inv /\ [Next]_vars => MixedIsHeld'
  <1> SUFFICES ASSUME Inv, [Next]_vars PROVE MixedIsHeld'
    OBVIOUS
  <1> USE DEF Inv, TypeOK, TaskInv, MixedIsHeld, InstallInv, Coherent, host, app, past,
          Service, Inactive, Starting, Running, Task, ApiMarked, WorkerMarked, Loaded,
          ApiStopped, WorkerStopped, Replacing, Migrated
  <1>1. CASE Hold
    BY <1>1 DEF Hold, Goto
  <1>2. CASE Stop
    BY <1>2 DEF Stop, Goto
  <1>3. CASE Preflight
    BY <1>3 DEF Preflight
  <1>4. CASE Install
    BY <1>4 DEF Install, Goto
  <1>5. CASE Recheck
    BY <1>5 DEF Recheck, Goto
  <1>6. CASE Migrate
    BY <1>6 DEF Migrate, Goto
  <1>7. CASE Release
    BY <1>7 DEF Release, Goto
  <1>8. CASE RestartService
    BY <1>8 DEF RestartService, Goto, Begin, Allowed
  <1>9. CASE Healthy
    BY <1>9 DEF Healthy
  <1>10. CASE AssertWorker
    BY <1>10 DEF AssertWorker, Goto
  <1>11. CASE Rerun
    BY <1>11 DEF Rerun
  <1>12. CASE Die
    BY <1>12 DEF Die, Fault
  <1>13. CASE Reboot
    BY <1>13 DEF Reboot, Fault
  <1>14. CASE Order
    BY <1>14 DEF Order
  <1>15. ASSUME NEW v \in Version, Request(v) PROVE MixedIsHeld'
    BY <1>15 DEF Request
  <1>16. ASSUME NEW s \in Service, Up(s) PROVE MixedIsHeld'
    BY <1>16 DEF Up
  <1>17. ASSUME NEW s \in Service, TryRestart(s) PROVE MixedIsHeld'
    BY <1>17 DEF TryRestart, Begin, Allowed
  <1>18. ASSUME NEW s \in Service, ManualStart(s) PROVE MixedIsHeld'
    BY <1>18 DEF ManualStart, Allowed
  <1>19. ASSUME NEW s \in Service, Crash(s) PROVE MixedIsHeld'
    BY <1>19 DEF Crash, Fault, Begin, Allowed
  <1>20. CASE UNCHANGED vars
    BY <1>20 DEF vars
  <1>21. QED
    BY <1>1, <1>2, <1>3, <1>4, <1>5, <1>6, <1>7, <1>8, <1>9, <1>10, <1>11, <1>12, <1>13,
       <1>14, <1>15, <1>16, <1>17, <1>18, <1>19, <1>20 DEF Next, Apply

\* A process loads the checkout when it starts, and nothing runs at the checkout.
LEMMA NextRuns == Inv /\ [Next]_vars => RunsCheckout'
  <1> SUFFICES ASSUME Inv, [Next]_vars PROVE RunsCheckout'
    OBVIOUS
  <1> USE DEF Inv, TypeOK, TaskInv, RunsCheckout, host, app, past, Service, Inactive,
          Starting, Running, Task, ApiMarked, WorkerMarked, Loaded, ApiStopped, WorkerStopped,
          Replacing, Migrated
  <1>1. CASE Hold
    BY <1>1 DEF Hold, Goto
  <1>2. CASE Stop
    BY <1>2 DEF Stop, Goto
  <1>3. CASE Preflight
    BY <1>3 DEF Preflight
  <1>4. CASE Install
    BY <1>4 DEF Install, Goto
  <1>5. CASE Recheck
    BY <1>5 DEF Recheck, Goto
  <1>6. CASE Migrate
    BY <1>6 DEF Migrate, Goto
  <1>7. CASE Release
    BY <1>7 DEF Release, Goto
  <1>8. CASE RestartService
    BY <1>8 DEF RestartService, Goto, Begin, Allowed
  <1>9. CASE Healthy
    BY <1>9 DEF Healthy
  <1>10. CASE AssertWorker
    BY <1>10 DEF AssertWorker, Goto
  <1>11. CASE Rerun
    BY <1>11 DEF Rerun
  <1>12. CASE Die
    BY <1>12 DEF Die, Fault
  <1>13. CASE Reboot
    BY <1>13 DEF Reboot, Fault
  <1>14. CASE Order
    BY <1>14 DEF Order
  <1>15. ASSUME NEW v \in Version, Request(v) PROVE RunsCheckout'
    BY <1>15 DEF Request
  <1>16. ASSUME NEW s \in Service, Up(s) PROVE RunsCheckout'
    BY <1>16 DEF Up
  <1>17. ASSUME NEW s \in Service, TryRestart(s) PROVE RunsCheckout'
    BY <1>17 DEF TryRestart, Begin, Allowed
  <1>18. ASSUME NEW s \in Service, ManualStart(s) PROVE RunsCheckout'
    BY <1>18 DEF ManualStart, Allowed
  <1>19. ASSUME NEW s \in Service, Crash(s) PROVE RunsCheckout'
    BY <1>19 DEF Crash, Fault, Begin, Allowed
  <1>20. CASE UNCHANGED vars
    BY <1>20 DEF vars
  <1>21. QED
    BY <1>1, <1>2, <1>3, <1>4, <1>5, <1>6, <1>7, <1>8, <1>9, <1>10, <1>11, <1>12, <1>13,
       <1>14, <1>15, <1>16, <1>17, <1>18, <1>19, <1>20 DEF Next, Apply

\* Units are installed on a checkout and started or enabled only afterwards.
LEMMA NextInstall == Inv /\ [Next]_vars => InstallInv'
  <1> SUFFICES ASSUME Inv, [Next]_vars PROVE InstallInv'
    OBVIOUS
  <1> USE DEF Inv, TypeOK, TaskInv, InstallInv, MixedIsHeld, Coherent, host, app, past,
          Service, Inactive, Starting, Running, Task, ApiMarked, WorkerMarked, Loaded,
          ApiStopped, WorkerStopped, Replacing, Migrated, Version
  <1>1. CASE Hold
    BY <1>1 DEF Hold, Goto
  <1>2. CASE Stop
    BY <1>2 DEF Stop, Goto
  <1>3. CASE Preflight
    BY <1>3 DEF Preflight
  <1>4. CASE Install
    BY <1>4 DEF Install, Goto
  <1>5. CASE Recheck
    BY <1>5 DEF Recheck, Goto
  <1>6. CASE Migrate
    BY <1>6 DEF Migrate, Goto
  <1>7. CASE Release
    BY <1>7 DEF Release, Goto
  <1>8. CASE RestartService
    BY <1>8 DEF RestartService, Goto, Begin, Allowed
  <1>9. CASE Healthy
    BY <1>9 DEF Healthy
  <1>10. CASE AssertWorker
    BY <1>10 DEF AssertWorker, Goto
  <1>11. CASE Rerun
    BY <1>11 DEF Rerun
  <1>12. CASE Die
    BY <1>12 DEF Die, Fault
  <1>13. CASE Reboot
    BY <1>13 DEF Reboot, Fault
  <1>14. CASE Order
    BY <1>14 DEF Order
  <1>15. ASSUME NEW v \in Version, Request(v) PROVE InstallInv'
    BY <1>15 DEF Request
  <1>16. ASSUME NEW s \in Service, Up(s) PROVE InstallInv'
    BY <1>16 DEF Up
  <1>17. ASSUME NEW s \in Service, TryRestart(s) PROVE InstallInv'
    BY <1>17 DEF TryRestart, Begin, Allowed
  <1>18. ASSUME NEW s \in Service, ManualStart(s) PROVE InstallInv'
    BY <1>18 DEF ManualStart, Allowed
  <1>19. ASSUME NEW s \in Service, Crash(s) PROVE InstallInv'
    BY <1>19 DEF Crash, Fault, Begin, Allowed
  <1>20. CASE UNCHANGED vars
    BY <1>20 DEF vars
  <1>21. QED
    BY <1>1, <1>2, <1>3, <1>4, <1>5, <1>6, <1>7, <1>8, <1>9, <1>10, <1>11, <1>12, <1>13,
       <1>14, <1>15, <1>16, <1>17, <1>18, <1>19, <1>20 DEF Next, Apply

\* The worker's barrier stays up from before the checkout to the health check.
LEMMA NextWorker == Inv /\ [Next]_vars => WorkerInv'
  <1> SUFFICES ASSUME Inv, [Next]_vars PROVE WorkerInv'
    OBVIOUS
  <1> USE DEF Inv, TypeOK, TaskInv, WorkerInv, InstallInv, RunsCheckout, host, app, past,
          Service, Inactive, Starting, Running, Task, ApiMarked, WorkerMarked, Loaded,
          ApiStopped, WorkerStopped, Replacing, Migrated
  <1>1. CASE Hold
    BY <1>1 DEF Hold, Goto
  <1>2. CASE Stop
    BY <1>2 DEF Stop, Goto
  <1>3. CASE Preflight
    BY <1>3 DEF Preflight
  <1>4. CASE Install
    BY <1>4 DEF Install, Goto
  <1>5. CASE Recheck
    BY <1>5 DEF Recheck, Goto
  <1>6. CASE Migrate
    BY <1>6 DEF Migrate, Goto
  <1>7. CASE Release
    BY <1>7 DEF Release, Goto
  <1>8. CASE RestartService
    BY <1>8 DEF RestartService, Goto, Begin, Allowed
  <1>9. CASE Healthy
    BY <1>9 DEF Healthy
  <1>10. CASE AssertWorker
    BY <1>10 DEF AssertWorker, Goto
  <1>11. CASE Rerun
    BY <1>11 DEF Rerun
  <1>12. CASE Die
    BY <1>12 DEF Die, Fault
  <1>13. CASE Reboot
    BY <1>13 DEF Reboot, Fault
  <1>14. CASE Order
    BY <1>14 DEF Order
  <1>15. ASSUME NEW v \in Version, Request(v) PROVE WorkerInv'
    BY <1>15 DEF Request
  <1>16. ASSUME NEW s \in Service, Up(s) PROVE WorkerInv'
    BY <1>16 DEF Up
  <1>17. ASSUME NEW s \in Service, TryRestart(s) PROVE WorkerInv'
    BY <1>17 DEF TryRestart, Begin, Allowed
  <1>18. ASSUME NEW s \in Service, ManualStart(s) PROVE WorkerInv'
    BY <1>18 DEF ManualStart, Allowed
  <1>19. ASSUME NEW s \in Service, Crash(s) PROVE WorkerInv'
    BY <1>19 DEF Crash, Fault, Begin, Allowed
  <1>20. CASE UNCHANGED vars
    BY <1>20 DEF vars
  <1>21. QED
    BY <1>1, <1>2, <1>3, <1>4, <1>5, <1>6, <1>7, <1>8, <1>9, <1>10, <1>11, <1>12, <1>13,
       <1>14, <1>15, <1>16, <1>17, <1>18, <1>19, <1>20 DEF Next, Apply

\* From the check on no API takes an order, so that the attempts counted then are
\* the attempts of the whole apply.
LEMMA NextAttempt == Inv /\ [Next]_vars => AttemptInv'
  <1> SUFFICES ASSUME Inv, [Next]_vars PROVE AttemptInv'
    OBVIOUS
  <1> USE DEF Inv, TypeOK, TaskInv, AttemptInv, MixedIsHeld, InstallInv, Coherent, Drained,
          host, app, past, Service, Inactive, Starting, Running, Task, ApiMarked,
          WorkerMarked, Loaded, ApiStopped, WorkerStopped, Replacing, Migrated
  <1>1. CASE Hold
    BY <1>1 DEF Hold, Goto
  <1>2. CASE Stop
    BY <1>2 DEF Stop, Goto
  <1>3. CASE Preflight
    BY <1>3 DEF Preflight
  <1>4. CASE Install
    BY <1>4 DEF Install, Goto
  <1>5. CASE Recheck
    BY <1>5 DEF Recheck, Goto
  <1>6. CASE Migrate
    BY <1>6 DEF Migrate, Goto
  <1>7. CASE Release
    BY <1>7 DEF Release, Goto
  <1>8. CASE RestartService
    BY <1>8 DEF RestartService, Goto, Begin, Allowed
  <1>9. CASE Healthy
    BY <1>9 DEF Healthy
  <1>10. CASE AssertWorker
    BY <1>10 DEF AssertWorker, Goto
  <1>11. CASE Rerun
    BY <1>11 DEF Rerun
  <1>12. CASE Die
    BY <1>12 DEF Die, Fault
  <1>13. CASE Reboot
    BY <1>13 DEF Reboot, Fault
  <1>14. CASE Order
    BY <1>14 DEF Order
  <1>15. ASSUME NEW v \in Version, Request(v) PROVE AttemptInv'
    BY <1>15 DEF Request
  <1>16. ASSUME NEW s \in Service, Up(s) PROVE AttemptInv'
    BY <1>16 DEF Up
  <1>17. ASSUME NEW s \in Service, TryRestart(s) PROVE AttemptInv'
    BY <1>17 DEF TryRestart, Begin, Allowed
  <1>18. ASSUME NEW s \in Service, ManualStart(s) PROVE AttemptInv'
    BY <1>18 DEF ManualStart, Allowed
  <1>19. ASSUME NEW s \in Service, Crash(s) PROVE AttemptInv'
    BY <1>19 DEF Crash, Fault, Begin, Allowed
  <1>20. CASE UNCHANGED vars
    BY <1>20 DEF vars
  <1>21. QED
    BY <1>1, <1>2, <1>3, <1>4, <1>5, <1>6, <1>7, <1>8, <1>9, <1>10, <1>11, <1>12, <1>13,
       <1>14, <1>15, <1>16, <1>17, <1>18, <1>19, <1>20 DEF Next, Apply

-----------------------------------------------------------------------------
\* What follows.

LEMMA InitInv == Init => Inv
  <1> SUFFICES ASSUME Init PROVE Inv
    OBVIOUS
  <1> USE CloudDeployAssumption
      DEF Service, Version, Inactive, Starting, Running, Coherent, TypeOK, MixedIsHeld,
          RunsCheckout,
          InstallInv, WorkerInv, AttemptInv, Replacing
  <1>1. /\ marker = {} /\ dropin = "none" /\ requests = 0 /\ faults = 0
        /\ deploy = [pc |-> "idle", target |-> 0, blocked |-> FALSE]
    BY DEF Init
  <1>2. TaskInv
    BY <1>1 DEF TaskInv, ApiMarked, WorkerMarked, Loaded, Task, ApiStopped, WorkerStopped,
                Migrated
  <1>3. CASE /\ units = TRUE /\ enabled = Service
             /\ code = 1 /\ venv = 1 /\ schema = 1
             /\ proc = [s \in Service |-> Running(1)] /\ vetted = {1} /\ inflight = FALSE
    <2>1. units \in BOOLEAN /\ inflight \in BOOLEAN
      BY <1>3, Zenon
    <2>2. 1 \in 0..MaxVersion /\ 1 \in Version
      OBVIOUS
    <2>3. proc \in [Service -> {Inactive, Starting} \cup {Running(v) : v \in Version}]
      BY <1>3, <2>2
    <2>4. enabled = Service /\ code = 1 /\ venv = 1 /\ schema = 1 /\ vetted = {1}
      BY <1>3
    <2>5. TypeOK
      BY <1>1, <2>1, <2>2, <2>3, <2>4
    <2>6. MixedIsHeld /\ RunsCheckout /\ InstallInv /\ WorkerInv /\ AttemptInv
      BY <1>1, <1>3
    <2>7. QED
      BY <1>2, <2>5, <2>6 DEF Inv
  <1>4. CASE /\ units = FALSE /\ enabled = {}
             /\ code = 0 /\ venv = 0 /\ schema \in {0, 1}
             /\ proc = [s \in Service |-> Inactive] /\ vetted = {}
             /\ inflight \in {FALSE, schema = 1}
    <2>1. units \in BOOLEAN /\ inflight \in BOOLEAN
      BY <1>4, Zenon
    <2>2. code \in 0..MaxVersion /\ venv \in 0..MaxVersion /\ schema \in 0..MaxVersion
      BY <1>4
    <2>3. proc \in [Service -> {Inactive}] /\ enabled = {} /\ vetted = {}
      BY <1>4
    <2>4. TypeOK
      BY <1>1, <2>1, <2>2, <2>3
    <2>5. ~units
      BY <1>4
    <2>6. MixedIsHeld /\ RunsCheckout /\ InstallInv /\ WorkerInv /\ AttemptInv
      BY <1>1, <2>3, <2>5
    <2>7. QED
      BY <1>2, <2>4, <2>6 DEF Inv
  <1>5. QED
    BY <1>3, <1>4, Zenon DEF Init

\* Inv is inductive: its parts need each other, as MixedIsHeld needs to know
\* from TaskInv that the migration is over when the API is released.
LEMMA NextInv == Inv /\ [Next]_vars => Inv'
  BY NextType, NextTask, NextMixed, NextRuns, NextInstall, NextWorker, NextAttempt DEF Inv

LEMMA InvAlways == Spec => []Inv
  <1>1. QED
    BY InitInv, NextInv, PTL DEF Spec

\* The variables keep their types, whatever is deployed and however it fails.
THEOREM TypeCorrect == Spec => []TypeOK
  <1>1. Inv => TypeOK
    BY DEF Inv
  <1>2. QED
    BY <1>1, InvAlways, PTL

\* No service runs on code other than the checkout and its runtime or on
\* another schema: quiesce.yml holds both before the checkout, and health.yml
\* releases them after the migration.
THEOREM ServicesMatchSchema == Spec => []RunsOnItsSchema
  <1>1. Inv => RunsOnItsSchema
    <2> SUFFICES ASSUME Inv, NEW s \in Service, proc[s].state = "running"
                 PROVE  proc[s].code = code /\ code = venv /\ venv = schema
      BY DEF RunsOnItsSchema
    <2>1. proc[s] # Inactive
      BY DEF Inactive
    <2>2. Coherent
      BY <2>1 DEF Inv, MixedIsHeld
    <2>3. QED
      BY <2>2 DEF Inv, RunsCheckout, Coherent
  <1>2. QED
    BY <1>1, InvAlways, PTL

\* A worker runs only versions whose API passed the health check of health.yml,
\* also after an apply that died between the two releases.
THEOREM WorkerIsVetted == Spec => []WorkerFollowsHealthyAPI
  <1>1. Inv => WorkerFollowsHealthyAPI
    BY DEF Inv, WorkerInv, RunsCheckout, WorkerFollowsHealthyAPI, Service, Inactive
  <1>2. QED
    BY <1>1, InvAlways, PTL

\* An apply that the check of quiesce.yml blocks has changed nothing, and
\* neither had the interrupted applies before it.
THEOREM BlockedChangesNothing == Spec => []BlockedIsIntact
  <1>1. Inv => BlockedIsIntact
    BY DEF Inv, AttemptInv, BlockedIsIntact, Coherent
  <1>2. QED
    BY <1>1, InvAlways, PTL

\* The schema changes only while no attempt is in flight: in the migration,
\* after the second check, and never by the API's own upgrade when it starts.
THEOREM MigrationIsQuiet == Spec => MigrationFindsNoAttempt
  <1>1. ASSUME Inv, [Next]_vars PROVE [schema' # schema => Drained]_vars
    <2>1. CASE Migrate
      BY <1>1, <2>1 DEF Migrate, Goto, Inv, AttemptInv, TypeOK
    <2>2. ASSUME NEW s \in Service, Up(s) PROVE schema' = schema
      <3>1. proc[s] # Inactive
        BY <2>2 DEF Up, Inactive
      <3>2. Coherent
        BY <1>1, <3>1 DEF Inv, MixedIsHeld
      <3>3. QED
        BY <2>2, <3>2 DEF Up, Coherent
    <2>3. CASE Hold \/ Stop \/ Preflight \/ Install \/ Recheck
      BY <2>3 DEF Hold, Stop, Preflight, Install, Recheck, app
    <2>4. CASE Release \/ RestartService \/ Healthy \/ AssertWorker
      BY <2>4 DEF Release, RestartService, Healthy, AssertWorker, app
    <2>5. CASE Rerun \/ Die \/ Reboot \/ Order \/ \E v \in Version : Request(v)
      BY <2>5 DEF Rerun, Die, Reboot, Order, Request, app
    <2>6. ASSUME NEW s \in Service, TryRestart(s) \/ ManualStart(s) \/ Crash(s)
          PROVE  schema' = schema
      BY <2>6 DEF TryRestart, ManualStart, Crash, app
    <2>7. QED
      BY <1>1, <2>1, <2>2, <2>3, <2>4, <2>5, <2>6 DEF Next, Apply
  <1>2. QED
    BY <1>1, InvAlways, PTL DEF Spec, MigrationFindsNoAttempt
=============================================================================
