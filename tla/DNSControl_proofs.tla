------------------------- MODULE DNSControl_proofs --------------------------
(***************************************************************************)
(* Proofs about DNSControl for every set of zones and record sets, every   *)
(* bound on revisions and any number of faults.                            *)
(***************************************************************************)
EXTENDS DNSControl, TLAPS

-----------------------------------------------------------------------------
\* Facts about the values and the helpers.

\* None is not one of the values that a variable can hold beside it.
LEMMA NoneIsNoValue ==
    /\ None \notin Zone /\ None \notin Value
    /\ None \notin Transition /\ None \notin ZoneData
  BY NoneAssumption

\* A value's records are zone data.
LEMMA ValueRecords ==
    ASSUME NEW v \in Value
    PROVE  v.records \in ZoneData /\ v.records \in Records /\ v.revision \in 1 .. MaxRevision
  BY RecordsAssumption DEF Value

\* The parts of a transition have their types.
LEMMA TransitionParts ==
    ASSUME NEW t \in Transition
    PROVE  t.previous \in Value \cup {None} /\ t.desired \in Value \cup {None}
  BY DEF Transition

\* The parts of a state have their types.
LEMMA StateParts ==
    ASSUME NEW s \in State, NEW z \in Zone
    PROVE  s.zones[z] \in Value \cup {None} /\ s.pending[z] \in Transition \cup {None}
  BY DEF State

\* The initial state is a state.
LEMMA EmptyStateType == EmptyState \in State
  BY DEF EmptyState, State

\* Entering a transition in the journal gives a state with that entry.
LEMMA StagedState ==
    ASSUME NEW s \in State, NEW z \in Zone, NEW v \in Value \cup {None}
    PROVE  /\ Staged(s, z, v) \in State
           /\ Staged(s, z, v).zones = s.zones
           /\ Staged(s, z, v).pending =
                 [s.pending EXCEPT ![z] = [previous |-> s.zones[z], desired |-> v]]
  <1>1. [previous |-> s.zones[z], desired |-> v] \in Transition
    BY StateParts DEF Transition
  <1>2. QED
    BY <1>1 DEF Staged, State

\* Carrying out a journaled transition gives a state without that entry.
LEMMA CommittedState ==
    ASSUME NEW s \in State, NEW z \in Zone, s.pending[z] # None
    PROVE  /\ Committed(s, z) \in State
           /\ Committed(s, z).zones = [s.zones EXCEPT ![z] = s.pending[z].desired]
           /\ Committed(s, z).pending = [s.pending EXCEPT ![z] = None]
  <1>1. s.pending[z].desired \in Value \cup {None}
    BY StateParts, TransitionParts
  <1>2. QED
    BY <1>1 DEF Committed, State

\* The generated include declares zones.
LEMMA MembersAreZones == ASSUME NEW s PROVE Members(s) \subseteq Zone
  BY DEF Members

-----------------------------------------------------------------------------
\* Type correctness.  TypeOK is split into the part about stored data and the
\* part about the control flow; the latter needs to know what the request in
\* progress is and which transition it has in hand, and nothing else.

DataTyped ==
    /\ disk \in State
    /\ conf \subseteq Zone /\ kasp \subseteq Zone
    /\ file \in [Zone -> ZoneData \cup {None}]
    /\ served \in [Zone -> ZoneData \cup {None}]
    /\ txn \in [Zone -> ZoneData \cup {None}]
    /\ backup \in [pc : {"off", "zones", "state", "done"},
                   served : [Zone -> ZoneData \cup {None}], state : State]
    /\ acked \in [Zone -> SUBSET (Value \cup {None})]

FlowTyped ==
    /\ mem \in State
    /\ pc \in Labels
    /\ op \in Operation
    /\ target \in Zone \cup {None} /\ (target # None <=> pc \in Working)
    /\ lock \in {"free", "control", "backup"}
    /\ faults \in 0 .. MaxFaults

FlowInv == FlowTyped /\ RequestConsistent /\ TargetConsistent

TypeInv == DataTyped /\ FlowInv

LEMMA TypeInvTypes == TypeInv => TypeOK
  BY DEF TypeInv, DataTyped, FlowInv, FlowTyped, TypeOK

\* Nothing is in progress.
Quiet == pc \in {"idle", "down"} /\ op = NoOp /\ target = None

\* The control state that does not depend on where the request is.
Settled == mem \in State /\ lock \in {"free", "control", "backup"} /\ faults \in 0 .. MaxFaults

LEMMA InitTypeInv == Init => TypeInv
  BY EmptyStateType, NoneIsNoValue, BoundsAssumption
     DEF Init, TypeInv, DataTyped, FlowInv, FlowTyped, RequestConsistent, TargetConsistent,
         NoOp, NoBackup, Operation, Labels, Working, Unstaged, Carrying

\* A quiet process satisfies what is asked of the control flow.
LEMMA QuietFlow == Settled' /\ Quiet' => FlowInv'
  BY NoneIsNoValue
     DEF Settled, Quiet, FlowInv, FlowTyped, RequestConsistent, TargetConsistent,
         NoOp, Operation, Labels, Working, Unstaged, Carrying

\* Counting a fault keeps the counter within its bound.
LEMMA FaultBound == faults \in 0 .. MaxFaults /\ Fault => faults' \in 0 .. MaxFaults
  BY BoundsAssumption DEF Fault

\* An exception leaves a quiet process.
LEMMA RaiseQuiet ==
    FlowTyped /\ Raise => Quiet' /\ mem' \in State /\ lock' \in {"free", "control", "backup"}
  BY EmptyStateType DEF FlowTyped, Raise, Die, Finish, Quiet

\* A step goes on to its label, or leaves a quiet process.
LEMMA StepCases ==
    ASSUME NEW o, NEW label, FlowTyped, Step(o, label)
    PROVE  /\ Settled'
           /\ \/ pc' = label /\ UNCHANGED <<mem, op, target>>
              \/ Quiet'
  <1>1. CASE o = "ok" /\ Goto(label) /\ UNCHANGED faults
    BY <1>1 DEF Goto, FlowTyped, Settled
  <1>2. CASE o # "ok" /\ Raise /\ Fault
    BY <1>2, RaiseQuiet, FaultBound DEF FlowTyped, Settled
  <1>3. QED
    BY <1>1, <1>2 DEF Step

\* A step inside the transaction goes on to its label, or to the abort.
LEMMA StepOrAbortCases ==
    ASSUME NEW o, NEW label, FlowTyped, StepOrAbort(o, label)
    PROVE  /\ Settled'
           /\ pc' \in {label, "abort"} /\ UNCHANGED <<mem, op, target>>
  BY FaultBound DEF StepOrAbort, Goto, FlowTyped, Settled

\* The zone in hand, at the labels that have one.
LEMMA TargetIsZone == ASSUME FlowTyped, pc \in Working PROVE target \in Zone
  BY DEF FlowTyped

\* The fields of the request in progress have their types.
LEMMA OperationParts ==
    ASSUME op \in Operation
    PROVE  op.value \in Value \cup {None} /\ op.zone \in Zone \cup {None} /\ op.staged \in BOOLEAN
  BY DEF Operation

\* Rendering the include, however it ends, leaves it declaring zones.
LEMMA ConfigTyped == ASSUME NEW o, conf \subseteq Zone, WriteConfig(o) PROVE conf' \subseteq Zone
  BY MembersAreZones DEF WriteConfig

\* Knot loads zone data for zones.
LEMMA LoadTyped ==
    DataTyped /\ LoadAll => served' \in [Zone -> ZoneData \cup {None}] /\ kasp' \subseteq Zone
  <1> SUFFICES ASSUME DataTyped, LoadAll
               PROVE  served' \in [Zone -> ZoneData \cup {None}] /\ kasp' \subseteq Zone
    OBVIOUS
  <1>1. ASSUME NEW z \in Zone PROVE Loaded(z) \in ZoneData \cup {None}
    BY DEF Loaded, DataTyped
  <1>2. QED
    BY <1>1 DEF LoadAll, DataTyped

\* While values are being set, the transaction and the values are zone data.
LEMMA SetData ==
    ASSUME TypeInv, pc = "set"
    PROVE  /\ target \in Zone
           /\ [k \in Owner |-> txn[target][k] \cup Current.desired.records[k]] \in ZoneData
  <1>1. target \in Zone
    BY TargetIsZone DEF TypeInv, FlowInv, Working
  <1>2. txn[target] \in ZoneData
    BY <1>1, NoneIsNoValue DEF TypeInv, DataTyped, FlowInv, TargetConsistent
  <1>3. mem.pending[target] # None /\ mem.pending[target].desired # None
    BY DEF TypeInv, FlowInv, TargetConsistent, Carrying, Unstaged, Working
  <1>4. mem.pending[target].desired \in Value
    BY <1>1, <1>3, StateParts, TransitionParts DEF TypeInv, FlowInv, FlowTyped
  <1>5. Current.desired.records \in ZoneData
    BY <1>4, ValueRecords DEF Current
  <1>6. QED
    BY <1>1, <1>2, <1>5 DEF ZoneData

\* No step stores anything of the wrong type.
LEMMA NextData == TypeInv /\ [Next]_vars => DataTyped'
  <1> SUFFICES ASSUME TypeInv, [Next]_vars PROVE DataTyped'
    OBVIOUS
  <1> USE NoneIsNoValue DEF TypeInv, DataTyped, FlowInv, FlowTyped, diskVars, knotVars, procVars
  <1>1. CASE Start
    BY <1>1 DEF Start
  <1>2. CASE AnyRequest
    BY <1>2 DEF AnyRequest, Request
  <1>3. ASSUME NEW z \in Zone, RecoverNext(z) PROVE DataTyped'
    BY <1>3 DEF RecoverNext
  <1>4. CASE RecoverDone
    BY <1>4 DEF RecoverDone
  <1>5. CASE AnswerConflict
    BY <1>5 DEF AnswerConflict
  <1>6. CASE AnswerUnchanged
    BY <1>6, OperationParts DEF AnswerUnchanged
  <1>7. CASE Accept
    BY <1>7 DEF Accept
  <1>8. CASE Stage
    <2>1. target \in Zone /\ op.value \in Value \cup {None}
      BY <1>8, TargetIsZone, OperationParts DEF Stage, Working
    <2>2. Staged(mem, target, op.value) \in State
      BY <2>1, StagedState
    <2>3. QED
      BY <1>8, <2>1, <2>2 DEF Stage
  <1>9. CASE BootConfig
    BY <1>9, ConfigTyped DEF BootConfig
  <1>10. CASE StagedConfig
    BY <1>10, ConfigTyped DEF StagedConfig
  <1>11. CASE RecoverConfig
    BY <1>11, ConfigTyped DEF RecoverConfig
  <1>12. CASE Save
    <2>1. target \in Zone /\ mem.pending[target] # None
      BY <1>12, TargetIsZone DEF Save, Working, TargetConsistent, Carrying, Unstaged
    <2>2. Committed(mem, target) \in State
      BY <2>1, CommittedState
    <2>3. QED
      BY <1>12, <2>2 DEF Save
  <1>13. CASE FinalConfig
    <2>1. conf' \subseteq Zone
      BY <1>13, ConfigTyped DEF FinalConfig
    <2>2. acked' \in [Zone -> SUBSET (Value \cup {None})]
      BY <1>13, OperationParts DEF FinalConfig
    <2>3. QED
      BY <1>13, <2>1, <2>2 DEF FinalConfig
  <1>14. CASE WriteZonefile
    <2> DEFINE v == IF Current = None THEN op.value ELSE Current.desired
    <2>1. target \in Zone
      BY <1>14, TargetIsZone DEF WriteZonefile, Working
    <2>2. v \in Value
      <3>1. CASE Current = None
        BY <1>14, <3>1 DEF WriteZonefile, Current, TargetConsistent, RequestConsistent, Unstaged
      <3>2. CASE Current # None
        BY <1>14, <2>1, <3>2, StateParts, TransitionParts
           DEF WriteZonefile, Current, TargetConsistent
      <3>3. QED
        BY <3>1, <3>2
    <2>3. v.records \in ZoneData
      BY <2>2, ValueRecords
    <2>4. QED
      BY <1>14, <2>1, <2>3 DEF WriteZonefile
  <1>15. CASE CheckZonefile
    BY <1>15 DEF CheckZonefile
  <1>16. CASE Reload
    BY <1>16, LoadTyped DEF Reload
  <1>17. CASE ZoneSign
    BY <1>17 DEF ZoneSign
  <1>18. CASE ZoneBegin
    BY <1>18 DEF ZoneBegin
  <1>19. CASE ZoneUnset
    <2>1. txn[target] \in ZoneData /\ target \in Zone
      BY <1>19, TargetIsZone DEF ZoneUnset, TargetConsistent, Working
    <2>2. [k \in Owner |-> IF k \in UnsetKeys(Current) THEN {} ELSE txn[target][k]] \in ZoneData
      BY <2>1 DEF ZoneData
    <2>3. QED
      BY <1>19, <2>1, <2>2 DEF ZoneUnset
  <1>20. CASE ZoneSet
    <2>4. /\ target \in Zone
          /\ [k \in Owner |-> txn[target][k] \cup Current.desired.records[k]] \in ZoneData
      BY <1>20, SetData DEF ZoneSet
    <2>5. txn' \in [Zone -> ZoneData \cup {None}]
      <3>1. CASE UNCHANGED txn
        BY <3>1
      <3>2. CASE txn' = [txn EXCEPT ![target] =
                           [k \in Owner |-> @[k] \cup Current.desired.records[k]]]
        BY <2>4, <3>2
      <3>3. QED
        BY <1>20, <3>1, <3>2 DEF ZoneSet
    <2>6. QED
      BY <1>20, <2>5 DEF ZoneSet
  <1>21. CASE ZoneCommit
    BY <1>21 DEF ZoneCommit
  <1>22. CASE ZoneAbort
    BY <1>22 DEF ZoneAbort
  <1>23. CASE ZoneFlush
    BY <1>23 DEF ZoneFlush
  <1>24. CASE ZonePurge
    BY <1>24 DEF ZonePurge
  <1>25. CASE UnlinkZonefile
    BY <1>25 DEF UnlinkZonefile
  <1>26. CASE Crash
    BY <1>26 DEF Crash
  <1>27. CASE KnotRestart
    BY <1>27, LoadTyped DEF KnotRestart, KnotStarts
  <1>28. CASE OperatorRestart
    BY <1>28, LoadTyped DEF OperatorRestart, KnotStarts
  <1>29. CASE BackupLock
    BY <1>29 DEF BackupLock
  <1>30. CASE BackupZones
    BY <1>30 DEF BackupZones
  <1>31. CASE BackupState
    BY <1>31 DEF BackupState
  <1>32. CASE BackupEnd
    BY <1>32, EmptyStateType DEF BackupEnd, NoBackup
  <1>33. CASE UNCHANGED vars
    BY <1>33 DEF vars
  <1>34. QED
    BY <1>1, <1>2, <1>3, <1>4, <1>5, <1>6, <1>7, <1>8, <1>9, <1>10, <1>11,
       <1>12, <1>13, <1>14, <1>15, <1>16, <1>17, <1>18, <1>19, <1>20, <1>21, <1>22,
       <1>23, <1>24, <1>25, <1>26, <1>27, <1>28, <1>29, <1>30, <1>31, <1>32, <1>33
    DEF Next, Handle, Backup

\* A step that leaves the request where it is keeps the control flow right, as
\* long as it touches no transaction that the request is using.
LEMMA FlowUnchanged ==
    ASSUME FlowInv, Settled', UNCHANGED <<mem, pc, op, target>>,
           txn' = txn \/ pc \notin {"unset", "set", "commit"}
    PROVE  FlowInv'
  BY DEF FlowInv, FlowTyped, Settled, RequestConsistent, TargetConsistent, Unstaged, Carrying

\* No step loses track of the request or of the transition in hand.
LEMMA NextFlow == TypeInv /\ [Next]_vars => FlowInv'
  <1> SUFFICES ASSUME TypeInv, [Next]_vars PROVE FlowInv'
    OBVIOUS
  <1> USE NoneIsNoValue
  <1>0. FlowInv /\ FlowTyped /\ Settled
    BY DEF TypeInv, FlowInv, FlowTyped, Settled
  <1>1. CASE Start
    <2>1. op' \in Operation /\ op'.kind = "start" /\ ~op'.staged
      BY <1>1 DEF Start, NoOp, Operation
    <2>2. mem' \in State
      BY <1>1 DEF Start, TypeInv, DataTyped
    <2>3. QED
      BY <1>0, <1>1, <2>1, <2>2 DEF Start,
             FlowInv, FlowTyped, Settled, RequestConsistent, TargetConsistent,
             Unstaged, Carrying, Working, Labels
  <1>2. CASE AnyRequest
    <2>1. ASSUME NEW kind \in {"put", "delete", "read"}, NEW z \in Zone,
                 NEW v \in Value \cup {None}, Request(kind, z, v),
                 kind = "put" => v \in Value, kind = "delete" => v = None
          PROVE  FlowInv'
      <3>1. op' \in Operation /\ op' = [kind |-> kind, zone |-> z, value |-> v, staged |-> FALSE]
        BY <2>1 DEF Request, Operation
      <3>2. QED
        BY <1>0, <2>1, <3>1 DEF Request,
             FlowInv, FlowTyped, Settled, RequestConsistent, TargetConsistent,
             Unstaged, Carrying, Working, Labels
    <2>2. QED
      BY <1>2, <2>1 DEF AnyRequest
  <1>3. ASSUME NEW z \in Zone, RecoverNext(z) PROVE FlowInv'
    BY <1>0, <1>3 DEF RecoverNext, diskVars, knotVars,
             FlowInv, FlowTyped, Settled, RequestConsistent, TargetConsistent,
             Unstaged, Carrying, Working, Labels
  <1>4. CASE RecoverDone
    <2>1. CASE op.kind \in {"start", "read"}
      <3>1. Finish /\ UNCHANGED faults
        BY <1>4, <2>1, Zenon DEF RecoverDone
      <3>2. QED
        BY <1>0, <3>1, QuietFlow DEF Finish, Quiet, Settled
    <2>2. CASE op.kind \notin {"start", "read"}
      <3>1. Goto("decide") /\ UNCHANGED faults
        BY <1>4, <2>2, Zenon DEF RecoverDone
      <3>2. op.kind \in {"none", "put", "delete"}
        BY <1>0, <2>2 DEF FlowTyped, Operation
      <3>3. QED
        BY <1>0, <1>4, <3>1, <3>2 DEF RecoverDone, Goto,
             FlowInv, FlowTyped, Settled, RequestConsistent, TargetConsistent,
             Unstaged, Carrying, Working, Labels
    <2>3. QED
      BY <2>1, <2>2
  <1>5. CASE AnswerConflict
    BY <1>0, <1>5, QuietFlow DEF AnswerConflict, Finish, Quiet, Settled
  <1>6. CASE AnswerUnchanged
    BY <1>0, <1>6, QuietFlow DEF AnswerUnchanged, Finish, Quiet, Settled
  <1>7. CASE Accept
    BY <1>0, <1>7 DEF Accept, diskVars, knotVars,
             FlowInv, FlowTyped, Settled, RequestConsistent, TargetConsistent,
             Unstaged, Carrying, Working, Labels
  <1>8. CASE Stage
    <2>1. target \in Zone /\ op.value \in Value \cup {None}
      BY <1>0, <1>8, TargetIsZone, OperationParts DEF Stage, Working, FlowTyped
    <2> DEFINE entry == [previous |-> mem.zones[target], desired |-> op.value]
    <2>2. CASE /\ mem' = Staged(mem, target, op.value) /\ pc' = "stagedConfig"
               /\ op' = [op EXCEPT !.staged = TRUE] /\ UNCHANGED <<target, lock, faults>>
      <3>0. mem' \in State /\ mem'.pending = [mem.pending EXCEPT ![target] = entry]
        BY <1>0, <2>1, <2>2, StagedState DEF FlowTyped
      <3>1. mem'.pending[target] = entry /\ entry \in Transition
        <4>1. mem.pending \in [Zone -> Transition \cup {None}]
          BY <1>0 DEF FlowTyped, State
        <4>2. mem.zones[target] \in Value \cup {None}
          BY <1>0, <2>1, StateParts DEF FlowTyped
        <4>3. entry \in Transition
          BY <2>1, <4>2 DEF Transition
        <4>4. QED
          BY <2>1, <3>0, <4>1, <4>3
      <3>2. op' \in Operation /\ op'.staged /\ op'.zone = op.zone
            /\ op'.kind = op.kind /\ op'.value = op.value
        BY <1>0, <2>2 DEF FlowTyped, Operation
      <3>3. op.zone = target
        BY <1>0, <1>8 DEF Stage, FlowInv, TargetConsistent, Unstaged
      <3>4. QED
        BY <1>0, <1>8, <2>2, <3>0, <3>1, <3>2, <3>3 DEF Stage,
             FlowInv, FlowTyped, Settled, RequestConsistent, TargetConsistent,
             Unstaged, Carrying, Working, Labels
    <2>3. CASE Raise /\ Fault
      BY <1>0, <2>3, RaiseQuiet, FaultBound, QuietFlow DEF FlowTyped, Settled
    <2>4. QED
      BY <1>8, <2>2, <2>3 DEF Stage
  <1>9. CASE BootConfig
    <2>1. Settled' /\ (Quiet' \/ (pc' = "recover" /\ UNCHANGED <<mem, op, target>>))
      BY <1>0, <1>9, StepCases DEF BootConfig
    <2>2. CASE Quiet'
      BY <2>1, <2>2, QuietFlow
    <2>3. CASE pc' = "recover" /\ UNCHANGED <<mem, op, target>>
      BY <1>0, <1>9, <2>1, <2>3 DEF BootConfig, Current,
             FlowInv, FlowTyped, Settled, RequestConsistent, TargetConsistent,
             Unstaged, Carrying, Working, Labels
    <2>4. QED
      BY <2>1, <2>2, <2>3
  <1>10. CASE StagedConfig
    <2>1. Settled' /\ (Quiet' \/ (pc' = "config" /\ UNCHANGED <<mem, op, target>>))
      BY <1>0, <1>10, StepCases DEF StagedConfig
    <2>2. CASE Quiet'
      BY <2>1, <2>2, QuietFlow
    <2>3. CASE pc' = "config" /\ UNCHANGED <<mem, op, target>>
      BY <1>0, <1>10, <2>1, <2>3 DEF StagedConfig, Current,
             FlowInv, FlowTyped, Settled, RequestConsistent, TargetConsistent,
             Unstaged, Carrying, Working, Labels
    <2>4. QED
      BY <2>1, <2>2, <2>3
  <1>11. CASE RecoverConfig
    <2> DEFINE label == CASE Current.desired = None -> "reload"
                          [] Current.desired # None /\ Current.previous = None -> "zonefile"
                          [] OTHER -> "begin"
    <2>1. Settled' /\ (Quiet' \/ (pc' = label /\ UNCHANGED <<mem, op, target>>))
      BY <1>0, <1>11, StepCases DEF RecoverConfig
    <2>2. CASE Quiet'
      BY <2>1, <2>2, QuietFlow
    <2>3. CASE pc' = label /\ UNCHANGED <<mem, op, target>>
      BY <1>0, <1>11, <2>1, <2>3 DEF RecoverConfig, Current,
             FlowInv, FlowTyped, Settled, RequestConsistent, TargetConsistent,
             Unstaged, Carrying, Working, Labels
    <2>4. QED
      BY <2>1, <2>2, <2>3
  <1>12. CASE Save
    <2>1. target \in Zone /\ mem.pending[target] # None
      BY <1>0, <1>12, TargetIsZone
         DEF Save, Working, FlowTyped, FlowInv, TargetConsistent, Carrying, Unstaged
    <2>2. CASE mem' = Committed(mem, target) /\ pc' = "finalConfig"
               /\ UNCHANGED <<op, target, lock, faults>>
      <3>1. mem' \in State
        BY <1>0, <2>1, <2>2, CommittedState DEF FlowTyped
      <3>2. QED
        BY <1>0, <1>12, <2>2, <3>1 DEF Save,
             FlowInv, FlowTyped, Settled, RequestConsistent, TargetConsistent,
             Unstaged, Carrying, Working, Labels
    <2>3. CASE Raise /\ Fault
      BY <1>0, <2>3, RaiseQuiet, FaultBound, QuietFlow DEF FlowTyped, Settled
    <2>4. QED
      BY <1>12, <2>2, <2>3 DEF Save
  <1>13. CASE FinalConfig
    <2>1. CASE Finish /\ UNCHANGED faults
      BY <1>0, <2>1, QuietFlow DEF Finish, Quiet, Settled
    <2>2. CASE /\ ~op.staged /\ pc' = "recover" /\ target' = None
               /\ UNCHANGED <<mem, op, lock, acked, faults>>
      BY <1>0, <1>13, <2>2 DEF FinalConfig,
             FlowInv, FlowTyped, Settled, RequestConsistent, TargetConsistent,
             Unstaged, Carrying, Working, Labels
    <2>3. CASE Raise /\ Fault
      BY <1>0, <2>3, RaiseQuiet, FaultBound, QuietFlow DEF FlowTyped, Settled
    <2>4. QED
      BY <1>13, <2>1, <2>2, <2>3 DEF FinalConfig
  <1>14. CASE WriteZonefile
    <2>1. Settled' /\ (Quiet' \/ (pc' = "check" /\ UNCHANGED <<mem, op, target>>))
      BY <1>0, <1>14, StepCases DEF WriteZonefile
    <2>2. CASE Quiet'
      BY <2>1, <2>2, QuietFlow
    <2>3. CASE pc' = "check" /\ UNCHANGED <<mem, op, target>>
      BY <1>0, <1>14, <2>1, <2>3 DEF WriteZonefile, Current,
             FlowInv, FlowTyped, Settled, RequestConsistent, TargetConsistent,
             Unstaged, Carrying, Working, Labels
    <2>4. QED
      BY <2>1, <2>2, <2>3
  <1>15. CASE CheckZonefile
    <2> DEFINE label == IF Current = None THEN "stage" ELSE "reload"
    <2>1. CASE Raise /\ UNCHANGED faults
      BY <1>0, <2>1, RaiseQuiet, QuietFlow DEF FlowTyped, Settled
    <2>2. ASSUME NEW o \in {"ok", "fail"}, Step(o, label) PROVE FlowInv'
      <3>1. Settled' /\ (Quiet' \/ (pc' = label /\ UNCHANGED <<mem, op, target>>))
        BY <1>0, <2>2, StepCases
      <3>2. CASE Quiet'
        BY <3>1, <3>2, QuietFlow
      <3>3. CASE pc' = label /\ UNCHANGED <<mem, op, target>>
        <4>1. CASE Current = None
          BY <1>0, <1>15, <3>1, <3>3, <4>1 DEF CheckZonefile, Current,
             FlowInv, FlowTyped, Settled, RequestConsistent, TargetConsistent,
             Unstaged, Carrying, Working, Labels
        <4>2. CASE Current # None
          BY <1>0, <1>15, <3>1, <3>3, <4>2 DEF CheckZonefile, Current,
             FlowInv, FlowTyped, Settled, RequestConsistent, TargetConsistent,
             Unstaged, Carrying, Working, Labels
        <4>3. QED
          BY <4>1, <4>2
      <3>4. QED
        BY <3>1, <3>2, <3>3
    <2>3. QED
      BY <1>15, <2>1, <2>2 DEF CheckZonefile
  <1>16. CASE Reload
    <2> DEFINE label == IF Current.desired = None THEN "purge" ELSE "sign"
    <2>1. Settled' /\ (Quiet' \/ (pc' = label /\ UNCHANGED <<mem, op, target>>))
      BY <1>0, <1>16, StepCases DEF Reload
    <2>2. CASE Quiet'
      BY <2>1, <2>2, QuietFlow
    <2>3. CASE pc' = label /\ UNCHANGED <<mem, op, target>>
      BY <1>0, <1>16, <2>1, <2>3 DEF Reload, Current,
             FlowInv, FlowTyped, Settled, RequestConsistent, TargetConsistent,
             Unstaged, Carrying, Working, Labels
    <2>4. QED
      BY <2>1, <2>2, <2>3
  <1>17. CASE ZoneSign
    <2> DEFINE label == IF Current.previous = None THEN "save" ELSE "flush"
    <2>1. Settled' /\ (Quiet' \/ (pc' = label /\ UNCHANGED <<mem, op, target>>))
      BY <1>0, <1>17, StepCases DEF ZoneSign
    <2>2. CASE Quiet'
      BY <2>1, <2>2, QuietFlow
    <2>3. CASE pc' = label /\ UNCHANGED <<mem, op, target>>
      BY <1>0, <1>17, <2>1, <2>3 DEF ZoneSign, Current,
             FlowInv, FlowTyped, Settled, RequestConsistent, TargetConsistent,
             Unstaged, Carrying, Working, Labels
    <2>4. QED
      BY <2>1, <2>2, <2>3
  <1>18. CASE ZoneBegin
    <2>0. target \in Zone
      BY <1>0, <1>18, TargetIsZone DEF ZoneBegin, Working
    <2>1. CASE Raise /\ UNCHANGED faults
      BY <1>0, <2>1, RaiseQuiet, QuietFlow DEF FlowTyped, Settled
    <2>2. ASSUME NEW o \in Outcome, Step(o, "unset"), Effective(o) => served[target] # None,
                 txn' = IF Effective(o) THEN [txn EXCEPT ![target] = served[target]] ELSE txn
          PROVE  FlowInv'
      <3>1. Settled' /\ (Quiet' \/ (pc' = "unset" /\ UNCHANGED <<mem, op, target>>))
        BY <1>0, <2>2, StepCases
      <3>2. CASE Quiet'
        BY <3>1, <3>2, QuietFlow
      <3>3. CASE pc' = "unset" /\ UNCHANGED <<mem, op, target>>
        <4>1. o = "ok"
          BY <1>0, <2>2, <3>3, RaiseQuiet DEF Step, Quiet
        <4>2. txn'[target] # None
          BY <2>0, <2>2, <4>1 DEF Effective, TypeInv, DataTyped
        <4>3. QED
          BY <1>0, <1>18, <3>1, <3>3, <4>2 DEF ZoneBegin,
             FlowInv, FlowTyped, Settled, RequestConsistent, TargetConsistent,
             Unstaged, Carrying, Working, Labels
      <3>4. QED
        BY <3>1, <3>2, <3>3
    <2>3. QED
      BY <1>18, <2>1, <2>2 DEF ZoneBegin
  <1>19. CASE ZoneUnset
    <2>1. target \in Zone /\ txn[target] \in ZoneData
      BY <1>0, <1>19, TargetIsZone
         DEF ZoneUnset, Working, FlowInv, TargetConsistent, TypeInv, DataTyped
    <2>2. Settled' /\ pc' \in {"set", "abort"} /\ UNCHANGED <<mem, op, target>>
      BY <1>0, <1>19, StepOrAbortCases DEF ZoneUnset, Goto, Settled, FlowTyped
    <2>3. txn'[target] # None
      BY <1>19, <2>1 DEF ZoneUnset, TypeInv, DataTyped, ZoneData
    <2>4. QED
      BY <1>0, <1>19, <2>2, <2>3 DEF ZoneUnset,
             FlowInv, FlowTyped, Settled, RequestConsistent, TargetConsistent,
             Unstaged, Carrying, Working, Labels
  <1>20. CASE ZoneSet
    <2>1. target \in Zone /\ txn[target] \in ZoneData
      BY <1>0, <1>20, TargetIsZone
         DEF ZoneSet, Working, FlowInv, TargetConsistent, TypeInv, DataTyped
    <2>2. Settled' /\ pc' \in {"commit", "abort"} /\ UNCHANGED <<mem, op, target>>
      <3>1. CASE Goto("abort") /\ UNCHANGED faults
        BY <1>0, <3>1 DEF Goto, Settled
      <3>2. CASE \E o \in Outcome : StepOrAbort(o, "commit")
        BY <1>0, <3>2, StepOrAbortCases
      <3>3. QED
        BY <1>20, <3>1, <3>2 DEF ZoneSet
    <2>3. txn'[target] # None
      <3>1. CASE UNCHANGED txn
        BY <2>1, <3>1
      <3>2. CASE txn' = [txn EXCEPT ![target] =
                           [k \in Owner |-> @[k] \cup Current.desired.records[k]]]
        <4>1. txn'[target] = [k \in Owner |-> txn[target][k] \cup Current.desired.records[k]]
          BY <2>1, <3>2 DEF TypeInv, DataTyped
        <4>2. QED
          BY <1>20, <4>1, SetData DEF ZoneSet
      <3>3. QED
        BY <1>20, <3>1, <3>2 DEF ZoneSet
    <2>4. QED
      BY <1>0, <1>20, <2>2, <2>3 DEF ZoneSet,
             FlowInv, FlowTyped, Settled, RequestConsistent, TargetConsistent,
             Unstaged, Carrying, Working, Labels
  <1>21. CASE ZoneCommit
    <2>1. target \in Zone /\ txn[target] \in ZoneData
      BY <1>0, <1>21, TargetIsZone
         DEF ZoneCommit, Working, FlowInv, TargetConsistent, TypeInv, DataTyped
    <2>2. Settled' /\ pc' \in {"sign", "abort"} /\ UNCHANGED <<mem, op, target>>
      BY <1>0, <1>21, StepOrAbortCases DEF ZoneCommit, Goto, Settled, FlowTyped
    <2>3. pc' # "unset"
      BY <2>2
    <2>4. QED
      BY <1>0, <1>21, <2>2, <2>3 DEF ZoneCommit,
             FlowInv, FlowTyped, Settled, RequestConsistent, TargetConsistent,
             Unstaged, Carrying, Working, Labels
  <1>22. CASE ZoneAbort
    BY <1>0, <1>22, RaiseQuiet, FaultBound, QuietFlow DEF ZoneAbort, FlowTyped, Settled
  <1>23. CASE ZoneFlush
    <2>1. Settled' /\ (Quiet' \/ (pc' = "save" /\ UNCHANGED <<mem, op, target>>))
      BY <1>0, <1>23, StepCases DEF ZoneFlush
    <2>2. CASE Quiet'
      BY <2>1, <2>2, QuietFlow
    <2>3. CASE pc' = "save" /\ UNCHANGED <<mem, op, target>>
      BY <1>0, <1>23, <2>1, <2>3 DEF ZoneFlush, Current,
             FlowInv, FlowTyped, Settled, RequestConsistent, TargetConsistent,
             Unstaged, Carrying, Working, Labels
    <2>4. QED
      BY <2>1, <2>2, <2>3
  <1>24. CASE ZonePurge
    <2>1. Settled' /\ (Quiet' \/ (pc' = "unlink" /\ UNCHANGED <<mem, op, target>>))
      BY <1>0, <1>24, StepCases DEF ZonePurge
    <2>2. CASE Quiet'
      BY <2>1, <2>2, QuietFlow
    <2>3. CASE pc' = "unlink" /\ UNCHANGED <<mem, op, target>>
      BY <1>0, <1>24, <2>1, <2>3 DEF ZonePurge, Current,
             FlowInv, FlowTyped, Settled, RequestConsistent, TargetConsistent,
             Unstaged, Carrying, Working, Labels
    <2>4. QED
      BY <2>1, <2>2, <2>3
  <1>25. CASE UnlinkZonefile
    <2>1. Settled' /\ (Quiet' \/ (pc' = "save" /\ UNCHANGED <<mem, op, target>>))
      BY <1>0, <1>25, StepCases DEF UnlinkZonefile
    <2>2. CASE Quiet'
      BY <2>1, <2>2, QuietFlow
    <2>3. CASE pc' = "save" /\ UNCHANGED <<mem, op, target>>
      BY <1>0, <1>25, <2>1, <2>3 DEF UnlinkZonefile, Current,
             FlowInv, FlowTyped, Settled, RequestConsistent, TargetConsistent,
             Unstaged, Carrying, Working, Labels
    <2>4. QED
      BY <2>1, <2>2, <2>3
  <1>26. CASE Crash
    BY <1>0, <1>26, EmptyStateType, FaultBound, QuietFlow
       DEF Crash, Die, Quiet, Settled
  <1>27. CASE KnotRestart
    <2>1. faults' \in 0 .. MaxFaults
      BY <1>0, <1>27, FaultBound DEF KnotRestart, Settled
    <2>2. CASE pc \in {"reload", "sign", "begin", "flush", "purge"}
      BY <1>0, <1>27, <2>1, <2>2, RaiseQuiet, QuietFlow DEF KnotRestart, Settled
    <2>3. CASE pc \in {"unset", "set", "commit", "abort"}
      BY <1>0, <1>27, <2>1, <2>3 DEF KnotRestart, Goto,
             FlowInv, FlowTyped, Settled, RequestConsistent, TargetConsistent,
             Unstaged, Carrying, Working, Labels
    <2>4. CASE pc \notin {"reload", "sign", "begin", "flush", "purge"}
               /\ pc \notin {"unset", "set", "commit", "abort"}
      BY <1>0, <1>27, <2>1, <2>4, FlowUnchanged DEF KnotRestart, procVars, Settled
    <2>5. QED
      BY <2>2, <2>3, <2>4
  <1>28. CASE OperatorRestart
    BY <1>0, <1>28, EmptyStateType, QuietFlow DEF OperatorRestart, Die, Quiet, Settled
  <1>29. CASE BackupLock
    BY <1>0, <1>29, FlowUnchanged, FaultBound
       DEF BackupLock, Settled, knotVars, procVars
  <1>30. CASE BackupZones
    BY <1>0, <1>30, FlowUnchanged, FaultBound
       DEF BackupZones, Settled, knotVars, procVars
  <1>31. CASE BackupState
    BY <1>0, <1>31, FlowUnchanged, FaultBound
       DEF BackupState, Settled, knotVars, procVars
  <1>32. CASE BackupEnd
    BY <1>0, <1>32, FlowUnchanged, FaultBound
       DEF BackupEnd, Settled, knotVars, procVars
  <1>33. CASE UNCHANGED vars
    BY <1>0, <1>33, FlowUnchanged DEF vars, Settled, knotVars, procVars
  <1>34. QED
    BY <1>1, <1>2, <1>3, <1>4, <1>5, <1>6, <1>7, <1>8, <1>9, <1>10, <1>11,
       <1>12, <1>13, <1>14, <1>15, <1>16, <1>17, <1>18, <1>19, <1>20, <1>21, <1>22,
       <1>23, <1>24, <1>25, <1>26, <1>27, <1>28, <1>29, <1>30, <1>31, <1>32, <1>33
    DEF Next, Handle, Backup

\* TypeOK holds in every behaviour: the variables keep their types, and the
\* process has a zone in hand exactly where hyrule_dns_control.py has one.
THEOREM TypeCorrect == Spec => []TypeOK
  <1>1. TypeInv /\ [Next]_vars => TypeInv'
    BY NextData, NextFlow DEF TypeInv
  <1>2. QED
    BY <1>1, InitTypeInv, TypeInvTypes, PTL DEF Spec
=============================================================================
