----------------------------- MODULE DNSControl -----------------------------
(***************************************************************************)
(* The managed-zone control plane of the DNS primary,                      *)
(* ansible/roles/knot/files/hyrule_dns_control.py, with the Knot server    *)
(* and the file system it drives and the backup job it shares a lock with. *)
(*                                                                         *)
(* A request is handled under one exclusive lock, so one request is in     *)
(* progress at a time; `pc' says how far it has come.  There is one action *)
(* per durable write, per Knot command and per decision, and the process   *)
(* can be killed, and Knot restarted, between any two of them.             *)
(*                                                                         *)
(* Every write and every command has an outcome: it succeeds, it fails     *)
(* without effect, or it takes effect and the caller still sees an error   *)
(* ("late": a knotc command that times out after the server obeyed it, a   *)
(* directory fsync that fails after the rename).  A record set is a        *)
(* function from owner/type pairs to sets of rdata; TTLs, the SOA and the  *)
(* signatures are abstracted away.                                         *)
(***************************************************************************)
EXTENDS Naturals

CONSTANTS
    Zone,         \* customer zones
    Owner,        \* owner/type pairs, the keys of the RRsets
    Rdata,        \* rdata values
    Records,      \* the record sets callers send
    Rejected,     \* those that pass validate_payload and that Knot rejects
    MaxRevision,  \* bound: the revisions callers use are 1 .. MaxRevision
    LateWrites,   \* whether a file write may fail after the rename
    MaxFaults,    \* bound on failures, crashes and Knot restarts
    None          \* no value

Value == [revision : 1 .. MaxRevision, records : Records]

\* A journal entry.  A delete is the entry whose desired value is None, a
\* creation the one whose previous value is None.
Transition == [previous : Value \cup {None}, desired : Value \cup {None}]

ZoneData == [Owner -> SUBSET Rdata]

ASSUME RecordsAssumption == Records \subseteq ZoneData /\ Rejected \subseteq Records

ASSUME BoundsAssumption ==
    MaxRevision \in Nat /\ MaxFaults \in Nat /\ LateWrites \in BOOLEAN

ASSUME NoneAssumption == None \notin Zone \cup Value \cup Transition \cup ZoneData

VARIABLES
    \* the file system
    disk,    \* state.json: the zones and the pending journal
    conf,    \* customer-zones.conf: the zones it declares
    file,    \* the zone files
    \* the Knot server
    served,  \* the records of each loaded zone
    txn,     \* the open transaction of each zone, or None
    kasp,    \* zones with DNSSEC keys in the KASP database
    \* the control process
    mem,     \* self._state
    pc,      \* where the request in progress is
    op,      \* the request in progress
    target,  \* the zone _recover_one or the mutation is working on
    lock,    \* who holds mutation.lock
    \* the backup job
    backup,
    \* history and bounds
    acked,   \* what the last answer about a zone promises, until it is changed
    faults   \* failures so far

diskVars == <<disk, conf, file>>
knotVars == <<served, txn, kasp>>
procVars == <<mem, pc, op, target, lock>>
vars == <<diskVars, knotVars, procVars, backup, acked, faults>>

-----------------------------------------------------------------------------
\* Values and helpers

EmptyState == [zones   |-> [z \in Zone |-> None],
               pending |-> [z \in Zone |-> None]]

State == [zones   : [Zone -> Value \cup {None}],
          pending : [Zone -> Transition \cup {None}]]

NoOp == [kind |-> "none", zone |-> None, value |-> None, staged |-> FALSE]

NoBackup == [pc |-> "off", served |-> [z \in Zone |-> None], state |-> EmptyState]

RecordsOf(v) == IF v = None THEN None ELSE v.records

\* The value a zone will have once its pending transition, if any, is done.
Intended(s, z) == IF s.pending[z] = None THEN s.zones[z] ELSE s.pending[z].desired

\* Bug for a mutant: the generated include lists the committed zones only.
MembersWithoutPending(s) == {z \in Zone : s.zones[z] # None}

\* The zones that the generated include declares: zones, plus pending upserts,
\* minus pending deletes.
Members(s) == {z \in Zone : Intended(s, z) # None}

\* The state with the requested transition entered in the journal.
Staged(s, z, v) ==
    [s EXCEPT !.pending[z] = [previous |-> s.zones[z], desired |-> v]]

\* The state with the transition of zone z carried out and off the journal.
Committed(s, z) ==
    [s EXCEPT !.zones[z] = s.pending[z].desired, !.pending[z] = None]

\* The RRsets that are present in a record set.
Present(r) == {k \in Owner : r[k] # {}}

\* Bug for a mutant: only the RRsets of the new value are cleared.
UnsetDesiredOnly(t) == Present(t.desired.records)

\* The RRsets cleared before the new ones are set: those of both values.
UnsetKeys(t) == Present(t.previous.records) \cup Present(t.desired.records)

\* What Knot holds for zone z after it (re)reads its configuration: nothing
\* for a zone that is not declared, the zone file for one that is, and what it
\* had when the zone file is missing or bad.
Loaded(z) == CASE z \notin conf -> None
               [] z \in conf /\ file[z] \in Rejected \cup {None} -> served[z]
               [] OTHER -> file[z]

LoadAll ==
    /\ served' = [z \in Zone |-> Loaded(z)]
    /\ kasp' = kasp \cup {z \in Zone : Loaded(z) # None}

Outcome == {"ok", "fail", "late"}
WriteOutcome == IF LateWrites THEN Outcome ELSE {"ok", "fail"}
Effective(o) == o # "fail"

-----------------------------------------------------------------------------
\* Control flow shared by the steps

Fault == faults < MaxFaults /\ faults' = faults + 1

Goto(label) == pc' = label /\ UNCHANGED <<mem, op, target, lock>>

\* The request is over: the lock is released and the answer is sent.
Finish ==
    /\ pc' = "idle" /\ op' = NoOp /\ target' = None /\ lock' = "free"
    /\ UNCHANGED mem

\* The process is gone; the kernel drops its lock.
Die ==
    /\ pc' = "down" /\ op' = NoOp /\ target' = None /\ mem' = EmptyState
    /\ lock' = IF lock = "control" THEN "free" ELSE lock

\* Bug for a mutant: the guard is not left when an exception passes.
RaiseHoldingLock ==
    IF op.kind = "start" THEN Die
    ELSE pc' = "idle" /\ op' = NoOp /\ target' = None /\ UNCHANGED <<mem, lock>>

\* An exception leaves the guard.  In a request it becomes an error answer and
\* the process lives on; in __init__ it ends the process.
Raise == IF op.kind = "start" THEN Die ELSE Finish

Step(o, label) ==
    \/ o = "ok" /\ Goto(label) /\ UNCHANGED faults
    \/ o # "ok" /\ Raise /\ Fault

\* As Step, inside the try block of _update_existing: an error aborts first.
StepOrAbort(o, label) ==
    \/ o = "ok" /\ Goto(label) /\ UNCHANGED faults
    \/ o # "ok" /\ Goto("abort") /\ Fault

\* The transition being carried out.
Current == mem.pending[target]

Init ==
    /\ disk = EmptyState /\ conf = {} /\ file = [z \in Zone |-> None]
    /\ served = [z \in Zone |-> None] /\ txn = [z \in Zone |-> None] /\ kasp = {}
    /\ mem = EmptyState /\ pc = "down" /\ op = NoOp /\ target = None /\ lock = "free"
    /\ backup = NoBackup /\ acked = [z \in Zone |-> {}] /\ faults = 0

-----------------------------------------------------------------------------
\* Starting, and taking a request

\* systemd starts the process; __init__ takes the guard and loads the state.
Start ==
    /\ pc = "down" /\ lock = "free"
    /\ pc' = "boot" /\ lock' = "control" /\ mem' = disk
    /\ op' = [NoOp EXCEPT !.kind = "start"]
    /\ UNCHANGED <<diskVars, knotVars, target, backup, acked, faults>>

\* Bug for a mutant: a request does not replay the journal first.
RequestWithoutReplay(kind, z, v) ==
    /\ pc = "idle" /\ lock = "free" /\ kind # "read"
    /\ pc' = "decide" /\ lock' = "control"
    /\ op' = [kind |-> kind, zone |-> z, value |-> v, staged |-> FALSE]
    /\ UNCHANGED <<diskVars, knotVars, mem, target, backup, acked, faults>>

\* A request that passed the signature and payload checks takes the guard.
\* "read" is GET .../dnssec and GET /health, which recover and change nothing.
Request(kind, z, v) ==
    /\ pc = "idle" /\ lock = "free"
    /\ pc' = "recover" /\ lock' = "control"
    /\ op' = [kind |-> kind, zone |-> z, value |-> v, staged |-> FALSE]
    /\ UNCHANGED <<diskVars, knotVars, mem, target, backup, acked, faults>>

AnyRequest == \E z \in Zone :
                 \/ \E v \in Value : Request("put", z, v)
                 \/ Request("delete", z, None)
                 \/ Request("read", z, None)

\* _recover_pending: the next journal entry.
RecoverNext(z) ==
    /\ pc = "recover" /\ mem.pending[z] # None
    /\ pc' = "config" /\ target' = z
    /\ UNCHANGED <<diskVars, knotVars, mem, op, lock, backup, acked, faults>>

\* _recover_pending has nothing left to replay.
RecoverDone ==
    /\ pc = "recover" /\ \A z \in Zone : mem.pending[z] = None
    /\ IF op.kind \in {"start", "read"} THEN Finish ELSE Goto("decide")
    /\ UNCHANGED <<diskVars, knotVars, backup, acked, faults>>

\* apply: the revision is stale, or reused for another value (409).
AnswerConflict ==
    /\ pc = "decide" /\ op.kind = "put"
    /\ LET current == mem.zones[op.zone]
       IN  /\ current # None
           /\ current # op.value
           /\ op.value.revision <= current.revision
    /\ Finish
    /\ UNCHANGED <<diskVars, knotVars, backup, acked, faults>>

\* Bug for a mutant: a repeated revision is taken for a repeated value.
AnswerRepeatedRevision ==
    /\ pc = "decide" /\ op.kind = "put" /\ mem.zones[op.zone] # None
    /\ op.value.revision = mem.zones[op.zone].revision
    /\ acked' = [acked EXCEPT ![op.zone] = {op.value}]
    /\ Finish
    /\ UNCHANGED <<diskVars, knotVars, backup, faults>>

\* apply: the zone has this very value (200).  delete: there is no zone (200).
AnswerUnchanged ==
    /\ pc = "decide" /\ mem.zones[op.zone] = op.value
    /\ acked' = [acked EXCEPT ![op.zone] = {op.value}]
    /\ Finish
    /\ UNCHANGED <<diskVars, knotVars, backup, faults>>

\* Bug for a mutant: the revision is not compared.
AcceptAnyRevision ==
    /\ pc = "decide"
    /\ mem.zones[op.zone] # op.value
    /\ pc' = IF mem.zones[op.zone] = None THEN "zonefile" ELSE "stage"
    /\ target' = op.zone
    /\ UNCHANGED <<diskVars, knotVars, mem, op, lock, backup, acked, faults>>

\* apply: a new zone gets its zone file first; a newer revision of a zone, and
\* the deletion of one, go straight to the journal.
Accept ==
    /\ pc = "decide"
    /\ LET current == mem.zones[op.zone]
       IN  /\ current # op.value
           /\ (current # None /\ op.kind = "put") => op.value.revision > current.revision
           /\ pc' = IF current = None THEN "zonefile" ELSE "stage"
    /\ target' = op.zone
    /\ UNCHANGED <<diskVars, knotVars, mem, op, lock, backup, acked, faults>>

-----------------------------------------------------------------------------
\* The journal and the generated include

\* _save_state(staged): the transition reaches the disk before Knot is touched.
\* When the write fails after the rename the memory stays behind the disk.
Stage ==
    /\ pc = "stage"
    /\ LET staged == Staged(mem, target, op.value)
       IN  \E o \in WriteOutcome :
              /\ disk' = IF Effective(o) THEN staged ELSE disk
              /\ acked' = IF Effective(o) THEN [acked EXCEPT ![target] = {}] ELSE acked
              /\ \/ /\ o = "ok"
                    /\ mem' = staged /\ pc' = "stagedConfig"
                    /\ op' = [op EXCEPT !.staged = TRUE]
                    /\ UNCHANGED <<target, lock, faults>>
                 \/ o # "ok" /\ Raise /\ Fault
    /\ UNCHANGED <<conf, file, knotVars, backup>>

\* _write_generated_config from the state in memory; the file is replaced whole.
WriteConfig(o) == conf' = IF Effective(o) THEN Members(mem) ELSE conf

\* In __init__, whether or not something is pending.
BootConfig ==
    /\ pc = "boot"
    /\ \E o \in WriteOutcome : WriteConfig(o) /\ Step(o, "recover")
    /\ UNCHANGED <<disk, file, knotVars, backup, acked>>

\* In apply and delete, right after the journal entry.
StagedConfig ==
    /\ pc = "stagedConfig"
    /\ \E o \in WriteOutcome : WriteConfig(o) /\ Step(o, "config")
    /\ UNCHANGED <<disk, file, knotVars, backup, acked>>

\* _recover_one renders the include again, then carries out the transition.
RecoverConfig ==
    /\ pc = "config"
    /\ \E o \in WriteOutcome :
          /\ WriteConfig(o)
          /\ Step(o, CASE Current.desired = None -> "reload"
                       [] Current.desired # None /\ Current.previous = None -> "zonefile"
                       [] OTHER -> "begin")
    /\ UNCHANGED <<disk, file, knotVars, backup, acked>>

\* Bug for a mutant: the wrong copy is saved, still holding the journal entry.
SaveUncommitted ==
    /\ pc = "save"
    /\ \E o \in WriteOutcome :
          /\ disk' = IF Effective(o) THEN mem ELSE disk
          /\ \/ o = "ok" /\ mem' = Committed(mem, target) /\ pc' = "finalConfig"
                /\ UNCHANGED <<op, target, lock, faults>>
             \/ o # "ok" /\ Raise /\ Fault
    /\ UNCHANGED <<conf, file, knotVars, backup, acked>>

\* _save_state(committed): the zone changes and the entry goes in one write.
Save ==
    /\ pc = "save"
    /\ LET committed == Committed(mem, target)
       IN  \E o \in WriteOutcome :
              /\ disk' = IF Effective(o) THEN committed ELSE disk
              /\ \/ /\ o = "ok"
                    /\ mem' = committed /\ pc' = "finalConfig"
                    /\ UNCHANGED <<op, target, lock, faults>>
                 \/ o # "ok" /\ Raise /\ Fault
    /\ UNCHANGED <<conf, file, knotVars, backup, acked>>

\* Bug for a mutant: the zone being worked on is not reset after an answer.
FinalConfigKeepsTarget ==
    /\ pc = "finalConfig"
    /\ WriteConfig("ok")
    /\ IF op.staged
          THEN acked' = [acked EXCEPT ![op.zone] = {op.value}] /\ pc' = "idle"
          ELSE acked' = acked /\ pc' = "recover"
    /\ UNCHANGED <<disk, file, knotVars, mem, op, target, lock, backup, faults>>

\* The include is rendered from the committed state.  A mutation then answers
\* 2xx; a replay goes on with the next entry.
FinalConfig ==
    /\ pc = "finalConfig"
    /\ \E o \in WriteOutcome :
          /\ WriteConfig(o)
          /\ \/ /\ o = "ok" /\ op.staged
                /\ Finish /\ UNCHANGED faults
                /\ acked' = [acked EXCEPT ![op.zone] = {op.value}]
             \/ /\ o = "ok" /\ ~op.staged
                /\ pc' = "recover" /\ target' = None
                /\ UNCHANGED <<mem, op, lock, acked, faults>>
             \/ o # "ok" /\ Raise /\ Fault /\ UNCHANGED acked
    /\ UNCHANGED <<disk, file, knotVars, backup>>

-----------------------------------------------------------------------------
\* Creating a zone (again, on replay)

\* _prepare_zonefile: the file is written before it is checked.
WriteZonefile ==
    /\ pc = "zonefile"
    /\ LET v == IF Current = None THEN op.value ELSE Current.desired
       IN  \E o \in WriteOutcome :
              /\ file' = IF Effective(o) THEN [file EXCEPT ![target] = v.records] ELSE file
              /\ Step(o, "check")
    /\ UNCHANGED <<disk, conf, knotVars, backup, acked>>

\* check_zonefile: a bad zone file is the caller's error (422).  A new zone is
\* journaled after its file has passed.
CheckZonefile ==
    /\ pc = "check"
    /\ \/ file[target] \in Rejected /\ Raise /\ UNCHANGED faults
       \/ /\ file[target] \notin Rejected
          /\ \E o \in {"ok", "fail"} : Step(o, IF Current = None THEN "stage" ELSE "reload")
    /\ UNCHANGED <<diskVars, knotVars, backup, acked>>

\* knotc reload.
Reload ==
    /\ pc = "reload"
    /\ \E o \in Outcome :
          /\ IF Effective(o) THEN LoadAll ELSE UNCHANGED <<served, kasp>>
          /\ Step(o, IF Current.desired = None THEN "purge" ELSE "sign")
    /\ UNCHANGED <<diskVars, txn, backup, acked>>

\* knotc zone-sign; an unloaded zone cannot be signed.
ZoneSign ==
    /\ pc = "sign"
    /\ \E o \in Outcome :
          /\ Effective(o) => served[target] # None
          /\ Step(o, IF Current.previous = None THEN "save" ELSE "flush")
    /\ UNCHANGED <<diskVars, knotVars, backup, acked>>

-----------------------------------------------------------------------------
\* Updating a zone: one Knot transaction

\* knotc zone-begin.  Knot has one transaction per zone: while one is open,
\* begin is refused.
ZoneBegin ==
    /\ pc = "begin"
    /\ \/ txn[target] # None /\ Raise /\ UNCHANGED <<txn, faults>>
       \/ /\ txn[target] = None
          /\ \E o \in Outcome :
                /\ Effective(o) => served[target] # None
                /\ txn' = IF Effective(o) THEN [txn EXCEPT ![target] = served[target]] ELSE txn
                /\ Step(o, "unset")
    /\ UNCHANGED <<diskVars, served, kasp, backup, acked>>

\* knotc zone-unset, once per RRset.
ZoneUnset ==
    /\ pc = "unset"
    /\ txn' = [txn EXCEPT ![target] =
                  [k \in Owner |-> IF k \in UnsetKeys(Current) THEN {} ELSE @[k]]]
    /\ \E o \in Outcome : StepOrAbort(o, "set")
    /\ UNCHANGED <<diskVars, served, kasp, backup, acked>>

\* knotc zone-set, once per value.  Nothing has checked the rdata before.
ZoneSet ==
    /\ pc = "set"
    /\ \/ /\ Current.desired.records \in Rejected
          /\ Goto("abort") /\ UNCHANGED <<txn, faults>>
       \/ /\ Current.desired.records \notin Rejected
          /\ txn' = [txn EXCEPT ![target] =
                        [k \in Owner |-> @[k] \cup Current.desired.records[k]]]
          /\ \E o \in Outcome : StepOrAbort(o, "commit")
    /\ UNCHANGED <<diskVars, served, kasp, backup, acked>>

\* knotc -b zone-commit.
ZoneCommit ==
    /\ pc = "commit"
    /\ \E o \in Outcome :
          /\ IF Effective(o)
                THEN /\ served' = [served EXCEPT ![target] = txn[target]]
                     /\ txn' = [txn EXCEPT ![target] = None]
                ELSE UNCHANGED <<served, txn>>
          /\ StepOrAbort(o, "sign")
    /\ UNCHANGED <<diskVars, kasp, backup, acked>>

\* The except clause: zone-abort, whose own failure is ignored, then re-raise.
ZoneAbort ==
    /\ pc = "abort"
    /\ \/ txn' = [txn EXCEPT ![target] = None] /\ UNCHANGED faults
       \/ UNCHANGED txn /\ Fault
    /\ Raise
    /\ UNCHANGED <<diskVars, served, kasp, backup, acked>>

\* Bug for a mutant: the zone file is left as it was.
SkipFlush ==
    /\ pc = "flush" /\ Goto("save")
    /\ UNCHANGED <<diskVars, knotVars, backup, acked, faults>>

\* knotc -b zone-flush: the zone file catches up with the zone.
ZoneFlush ==
    /\ pc = "flush"
    /\ \E o \in Outcome :
          /\ Effective(o) => served[target] # None
          /\ file' = IF Effective(o) THEN [file EXCEPT ![target] = served[target]] ELSE file
          /\ Step(o, "save")
    /\ UNCHANGED <<disk, conf, knotVars, backup, acked>>

-----------------------------------------------------------------------------
\* Deleting a zone; its membership went with the reload

\* Bug for a mutant: the keys are kept.
SkipPurge ==
    /\ pc = "purge" /\ Goto("unlink")
    /\ UNCHANGED <<diskVars, knotVars, backup, acked, faults>>

\* knotc -b -f zone-purge +orphan +journal +timers +kaspdb.
ZonePurge ==
    /\ pc = "purge"
    /\ \E o \in Outcome :
          /\ kasp' = IF Effective(o) THEN kasp \ {target} ELSE kasp
          /\ Step(o, "unlink")
    /\ UNCHANGED <<diskVars, served, txn, backup, acked>>

UnlinkZonefile ==
    /\ pc = "unlink"
    /\ \E o \in {"ok", "fail"} :
          /\ file' = IF Effective(o) THEN [file EXCEPT ![target] = None] ELSE file
          /\ Step(o, "save")
    /\ UNCHANGED <<disk, conf, knotVars, backup, acked>>

-----------------------------------------------------------------------------
\* Crashes, restarts of Knot, and the operator

\* The process is killed, wherever it is.
Crash ==
    /\ pc # "down" /\ Fault /\ Die
    /\ UNCHANGED <<diskVars, knotVars, backup, acked>>

\* Knot reads its configuration and zone files; open transactions are gone.
KnotStarts == LoadAll /\ txn' = [z \in Zone |-> None]

\* Knot crashes and its supervisor restarts it; the control process stays up.
\* A request that is driving Knot notices: its knotc command fails.
KnotRestart ==
    /\ Fault /\ KnotStarts
    /\ CASE pc \in {"reload", "sign", "begin", "flush", "purge"} -> Raise
         [] pc \in {"unset", "set", "commit", "abort"} -> Goto("abort")
         [] OTHER -> UNCHANGED procVars
    /\ UNCHANGED <<diskVars, backup, acked>>

\* The runbook's repair: an operator finds a transaction that nothing will end,
\* restarts Knot, and with it the control process that requires it.
OperatorRestart ==
    /\ pc \in {"down", "idle"} /\ \E z \in Zone : txn[z] # None
    /\ KnotStarts /\ Die
    /\ UNCHANGED <<diskVars, backup, acked, faults>>

-----------------------------------------------------------------------------
\* The backup job, knot-online-backup

BackupLock ==
    /\ backup.pc = "off" /\ lock = "free"
    /\ backup' = [backup EXCEPT !.pc = "zones"] /\ lock' = "backup"
    /\ UNCHANGED <<diskVars, knotVars, mem, pc, op, target, acked, faults>>

\* Bug for a mutant: the lock is given back after the Knot snapshot.
BackupZonesUnlocked ==
    /\ backup.pc = "zones"
    /\ backup' = [backup EXCEPT !.pc = "state", !.served = served] /\ lock' = "free"
    /\ UNCHANGED <<diskVars, knotVars, mem, pc, op, target, acked, faults>>

\* knotc zone-backup.
BackupZones ==
    /\ backup.pc = "zones"
    /\ backup' = [backup EXCEPT !.pc = "state", !.served = served]
    /\ UNCHANGED <<diskVars, knotVars, procVars, acked, faults>>

\* The copies of state.json and of the include.
BackupState ==
    /\ backup.pc = "state"
    /\ backup' = [backup EXCEPT !.pc = "done", !.state = disk]
    /\ UNCHANGED <<diskVars, knotVars, procVars, acked, faults>>

\* The job ends, with its backup complete or (set -e) at a failed command.
BackupEnd ==
    /\ \/ backup.pc = "done" /\ UNCHANGED faults
       \/ backup.pc \in {"zones", "state"} /\ Fault
    /\ backup' = NoBackup
    /\ lock' = "free"
    /\ UNCHANGED <<diskVars, knotVars, mem, pc, op, target, acked>>

-----------------------------------------------------------------------------

\* One step of the request in progress.
Handle ==
    \/ \E z \in Zone : RecoverNext(z)
    \/ RecoverDone \/ AnswerConflict \/ AnswerUnchanged \/ Accept
    \/ Stage \/ BootConfig \/ StagedConfig \/ RecoverConfig \/ Save \/ FinalConfig
    \/ WriteZonefile \/ CheckZonefile \/ Reload \/ ZoneSign
    \/ ZoneBegin \/ ZoneUnset \/ ZoneSet \/ ZoneCommit \/ ZoneAbort \/ ZoneFlush
    \/ ZonePurge \/ UnlinkZonefile

Backup == BackupLock \/ BackupZones \/ BackupState \/ BackupEnd

Next == \/ Start \/ AnyRequest \/ Handle
        \/ Crash \/ KnotRestart \/ OperatorRestart
        \/ Backup

Spec == Init /\ [][Next]_vars

\* systemd restarts the process (Restart=on-failure), the process and the
\* backup job go on while they can, and callers keep sending requests.
FairSpec == /\ Spec
            /\ WF_vars(Handle) /\ SF_vars(Start) /\ SF_vars(AnyRequest)
            /\ WF_vars(BackupZones \/ BackupState \/ BackupEnd)

\* And an operator ends the transactions that nothing else will end.
OperatedSpec == FairSpec /\ SF_vars(OperatorRestart)

-----------------------------------------------------------------------------
\* Properties

\* Where the process works on a zone.
Working == {"config", "zonefile", "check", "stage", "stagedConfig", "reload", "sign",
            "begin", "unset", "set", "commit", "abort", "flush", "purge", "unlink",
            "save", "finalConfig"}

Labels == {"down", "boot", "idle", "recover", "decide"} \cup Working

Operation == [kind : {"none", "start", "put", "delete", "read"}, zone : Zone \cup {None},
              value : Value \cup {None}, staged : BOOLEAN]

\* The variables have their types, and a zone is being worked on exactly where
\* the code has one in hand.
TypeOK ==
    /\ disk \in State /\ mem \in State
    /\ conf \subseteq Zone /\ kasp \subseteq Zone
    /\ file \in [Zone -> ZoneData \cup {None}]
    /\ served \in [Zone -> ZoneData \cup {None}]
    /\ txn \in [Zone -> ZoneData \cup {None}]
    /\ pc \in Labels
    /\ op \in Operation
    /\ target \in Zone \cup {None} /\ (target # None <=> pc \in Working)
    /\ lock \in {"free", "control", "backup"}
    /\ backup \in [pc : {"off", "zones", "state", "done"},
                   served : [Zone -> ZoneData \cup {None}], state : State]
    /\ acked \in [Zone -> SUBSET (Value \cup {None})]
    /\ faults \in 0 .. MaxFaults

\* "A state transition is journaled before Knot is mutated" (__init__), seen
\* from the name servers: whenever they answer for a zone with anything but its
\* committed records, the journal on disk has a transition of that zone, and
\* what they answer with is its desired value.  No crash, timeout or restart
\* leaves Knot somewhere that the state file does not know of, and no half-made
\* update is ever answered.
JournalCoversKnot ==
    \A z \in Zone :
        served[z] # RecordsOf(disk.zones[z]) =>
            /\ disk.pending[z] # None
            /\ served[z] = RecordsOf(disk.pending[z].desired)

\* A mutation first replays what is pending, so the journal on disk never holds
\* transitions of two zones: the order of replay cannot matter.
OneInFlight ==
    \A y, z \in Zone : disk.pending[y] # None /\ disk.pending[z] # None => y = z

\* zone-flush and the write of the include are what makes a committed update
\* last: if Knot were restarted now, it would load every zone that has nothing
\* pending exactly as it serves it.
SettledSurvivesKnotRestart ==
    \A z \in Zone : disk.pending[z] = None => Loaded(z) = served[z]

\* zone-purge: a zone that is gone leaves no DNSSEC keys for the next owner of
\* its name, whatever failed on the way.
DeletedZonesLeaveNoKeys ==
    \A z \in Zone : disk.zones[z] = None /\ disk.pending[z] = None => z \notin kasp

\* The revision of a zone never goes back while the zone exists, and one
\* revision never stands for two values: late, repeated and reordered PUTs are
\* fenced off, across crashes too.
RevisionFence ==
    [][\A z \in Zone :
          LET old == disk.zones[z]
              new == disk'.zones[z]
          IN  old # None /\ new # None /\ old # new => new.revision > old.revision]_disk

\* "Knot snapshot and both control-plane files represent one consistent point"
\* (knot-online-backup): restored together, every zone of the snapshot has its
\* committed records or those that the copied journal will replay.
BackupIsConsistent ==
    backup.pc = "done" =>
        \A z \in Zone :
            \/ backup.served[z] = RecordsOf(backup.state.zones[z])
            \/ backup.served[z] = RecordsOf(Intended(backup.state, z))

\* What a 2xx answer said of a zone stays true on disk and in Knot until a
\* later request for the zone is journaled, through failures of other
\* requests, crashes and restarts.
AnswersLast ==
    \A z \in Zone : \A v \in acked[z] :
        /\ disk.zones[z] = v /\ disk.pending[z] = None
        /\ served[z] = RecordsOf(v)

\* The control plane implements the two-phase register.  What it knows is its
\* memory while it runs, and the state file while it does not.
Known == IF pc = "down" THEN disk ELSE mem

Registry == INSTANCE ZoneRegistry WITH
               base <- Known.zones, want <- [z \in Zone |-> Intended(Known, z)]

ImplementsRegistry == Registry!Spec

\* "A failed create, update, or deletion remains under pending and is replayed
\* when hyrule-dns-control starts or handles its next request" (the runbook):
\* a request is never decided on while the journal on disk holds something.
ReplayedBeforeNextRequest ==
    pc = "decide" => \A z \in Zone : disk.pending[z] = None

\* "Replaying it here makes every crash point converge on the intended zone":
\* a journaled transition does not stay in the journal for ever.
Converges == \A z \in Zone : disk.pending[z] # None ~> disk.pending[z] = None

-----------------------------------------------------------------------------
\* The inductive invariant behind the safety properties

\* The state file, the journal, the include, the zone file and Knot agree on a
\* zone, as far as a zone with that journal entry allows them to differ.
ZoneConsistent(z) ==
    LET c == disk.zones[z]
        t == disk.pending[z]
        d == t.desired
    IN  /\ c # None => c.records \notin Rejected
        /\ t # None => t.previous = c
        /\ t = None /\ c = None => z \notin conf /\ served[z] = None
        /\ t = None /\ c # None =>
              z \in conf /\ served[z] = c.records /\ file[z] = c.records
        /\ t # None /\ c = None =>
              /\ d # None /\ d.records \notin Rejected
              /\ file[z] = d.records /\ served[z] \in {None, d.records}
        /\ t # None /\ c # None /\ d # None =>
              /\ d.revision > c.revision /\ z \in conf
              /\ served[z] \in {c.records, d.records} /\ file[z] \in {c.records, d.records}
        /\ t # None /\ c # None /\ d = None =>
              /\ served[z] \in {None, c.records}
              /\ z \in conf => file[z] = c.records

\* What the request in progress is, at each label.
RequestConsistent ==
    /\ op.kind = "put" => op.zone \in Zone /\ op.value \in Value
    /\ op.kind = "delete" => op.zone \in Zone /\ op.value = None
    /\ pc = "idle" => op = NoOp
    /\ pc \notin {"idle", "down"} => op.kind # "none"
    /\ pc = "boot" => op.kind = "start"
    /\ pc \in {"boot", "recover", "decide", "stage"} => ~op.staged
    /\ pc \in {"decide", "stage"} => op.kind \in {"put", "delete"}
    /\ pc = "decide" => \A z \in Zone : mem.pending[z] = None

\* Whether the zone in hand is still to be journaled.
Unstaged == pc \in {"zonefile", "check", "stage"} /\ mem.pending[target] = None

\* Where the request is carrying out a journaled transition.
Carrying == pc \in Working \ {"finalConfig"} /\ ~Unstaged

\* The zone in hand has the transition that the label calls for.
TargetConsistent ==
    LET t == mem.pending[target]
    IN  /\ Unstaged =>
              /\ op.zone = target /\ op.kind \in {"put", "delete"} /\ ~op.staged
              /\ pc \in {"zonefile", "check"} => op.kind = "put"
              /\ \A z \in Zone : mem.pending[z] = None
        /\ op.staged => op.zone = target
        /\ pc = "stage" => t = None
        /\ Carrying => t # None
        /\ pc \in {"zonefile", "check", "sign"} /\ t # None => t.desired # None
        /\ pc \in {"begin", "unset", "set", "commit", "abort", "flush"} =>
              t.previous # None /\ t.desired # None
        /\ pc \in {"unset", "set", "commit"} => txn[target] # None

\* What the steps taken so far have achieved for the zone in hand.
Progress ==
    LET t == mem.pending[target]
        c == mem.zones[target]
    IN  /\ Unstaged =>
              /\ pc \in {"zonefile", "check"} => c = None
              /\ c = None => op.kind = "put"
              /\ c # None /\ op.kind = "put" => op.value.revision > c.revision
              /\ pc = "check" => file[target] = op.value.records
              /\ pc = "stage" /\ c = None =>
                    file[target] = op.value.records /\ op.value.records \notin Rejected
        /\ pc = "finalConfig" => t = None /\ (op.staged => op.value = c)
        /\ op.staged /\ Carrying => op.value = t.desired
        /\ Carrying /\ pc \notin {"stagedConfig", "config"} =>
              (target \in conf <=> t.desired # None)
        /\ Carrying /\ pc \in {"zonefile", "check"} => c = None
        /\ pc = "reload" => c = None \/ t.desired = None
        /\ pc \in {"purge", "unlink"} => t.desired = None /\ served[target] = None
        /\ pc = "unset" => txn[target] \in {c.records, t.desired.records}
        /\ pc = "set" => txn[target] = [k \in Owner |-> {}]
        /\ pc = "commit" => txn[target] = t.desired.records
        /\ pc \in {"commit", "sign", "flush"} =>
              t.desired # None /\ t.desired.records \notin Rejected
        /\ pc \in {"sign", "flush"} => served[target] = t.desired.records
        /\ pc = "save" =>
              /\ served[target] = RecordsOf(t.desired)
              /\ t.desired # None =>
                    t.desired.records \notin Rejected /\ file[target] = t.desired.records

\* While no write fails after its rename, the memory is the state file.
MemoryIsDisk == pc # "down" => mem = disk

Consistent ==
    /\ \A z \in Zone : ZoneConsistent(z)
    /\ OneInFlight
    /\ AnswersLast
    /\ RequestConsistent
    /\ TargetConsistent
    /\ Progress
    /\ MemoryIsDisk
=============================================================================
