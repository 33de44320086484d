------------------------ MODULE DNSConsistency_proofs ------------------------
(***************************************************************************)
(* What DNSControl keeps as long as a write of a file that is reported as  *)
(* failed has left the old file (LateWrites = FALSE): the invariant        *)
(* Consistent, what follows from it for the answers and the backup, and    *)
(* that the whole implements the two-phase register ZoneRegistry.  With    *)
(* late writes the process may forget what it has journaled, and none of   *)
(* this holds.  Zones, record sets, failures, crashes and restarts of Knot *)
(* are not bounded.                                                        *)
(***************************************************************************)
EXTENDS DNSDurability_proofs

-----------------------------------------------------------------------------

\* While a zone is being created its file is the one that was checked, and Knot
\* has loaded it or nothing.
Created(z) ==
    disk.zones[z] = None /\ disk.pending[z] # None =>
        LET r == disk.pending[z].desired.records
        IN  file[z] = r /\ served[z] \in {None, r}

\* Whether what was answered about a zone is true.
Answered(z) ==
    \A v \in acked[z] :
        disk.zones[z] = v /\ disk.pending[z] = None /\ served[z] = RecordsOf(v)

Sound == \A z \in Zone : Created(z) /\ Answered(z)

\* What late writes would break, beside what they do not.
Inv == BaseInv /\ MemoryIsDisk /\ Sound

\* Of a single state, Fits and Created say what ZoneConsistent says.
LEMMA InvZones == ASSUME Inv, NEW z \in Zone PROVE ZoneConsistent(z)
  BY DEF Inv, BaseInv, Fitting, Fits, Sound, Created, ZoneConsistent

LEMMA InvConsistent == Inv => Consistent
  BY InvZones
     DEF Inv, BaseInv, TypeInv, FlowInv, Fitting, Sound, Answered, AnswersLast, Consistent

LEMMA InitInv == Init => Inv
  <1> SUFFICES ASSUME Init PROVE Inv
    OBVIOUS
  <1>1. BaseInv
    BY InitBaseInv
  <1>2. Sound
    BY DEF Init, Sound, Created, Answered, EmptyState
  <1>3. QED
    BY <1>1, <1>2 DEF Inv, Init, MemoryIsDisk

-----------------------------------------------------------------------------
\* Facts used by several steps.

\* While the process runs, its memory is the state file.
LEMMA Remembered == Inv /\ pc # "down" => mem = disk
  BY DEF Inv, MemoryIsDisk

\* What is known where a journaled transition is carried out.
LEMMA InHand ==
    ASSUME Inv, Carrying
    PROVE  /\ target \in Zone /\ mem = disk /\ pc # "down"
           /\ Current = disk.pending[target] /\ Current # None
           /\ Current.previous = disk.zones[target]
           /\ ZoneConsistent(target)
           /\ acked[target] = {}
  <1>1. /\ target \in Zone /\ pc # "down" /\ Current = mem.pending[target]
        /\ Current # None /\ Current.previous = mem.zones[target]
    BY InMemory DEF Inv
  <1>2. mem = disk
    BY <1>1, Remembered
  <1>3. ZoneConsistent(target) /\ Answered(target)
    BY <1>1, InvZones DEF Inv, Sound
  <1>4. acked[target] = {}
    BY <1>1, <1>2, <1>3 DEF Answered, Inv, BaseInv, TypeInv, DataTyped
  <1>5. QED
    BY <1>1, <1>2, <1>3, <1>4

\* Stored data that does not change stays sound.
LEMMA SoundUnchanged ==
    ASSUME Sound, UNCHANGED <<disk, file, served, acked>>
    PROVE  Sound'
  BY DEF Sound, Created, Answered

\* Stored data that changes at one zone is sound if it is sound there.
LEMMA SoundAt ==
    ASSUME Sound, NEW y \in Zone,
           \A z \in Zone \ {y} :
              /\ disk'.zones[z] = disk.zones[z] /\ disk'.pending[z] = disk.pending[z]
              /\ file'[z] = file[z] /\ served'[z] = served[z] /\ acked'[z] = acked[z],
           Created(y)', Answered(y)'
    PROVE  Sound'
  BY DEF Sound, Created, Answered

-----------------------------------------------------------------------------
\* The steps that change stored data keep it sound.

\* Whatever Knot loads, from the include and the zone files, is sound.
LEMMA LoadSound ==
    ASSUME Inv, LoadAll, UNCHANGED <<disk, conf, file, acked>>
    PROVE  Sound'
  <1>1. ASSUME NEW z \in Zone PROVE Created(z)' /\ Answered(z)'
    <2>1. /\ served'[z] = Loaded(z) /\ ZoneConsistent(z) /\ Created(z) /\ Answered(z)
          /\ disk.zones[z] \in Value \cup {None}
      BY <1>1, InvZones, StateParts DEF LoadAll, Inv, Sound, BaseInv, TypeInv, DataTyped
    <2>2. CASE disk.pending[z] = None
      <3>1. served'[z] = served[z]
        BY <2>1, <2>2, RecordsNotNone DEF ZoneConsistent, Loaded
      <3>2. QED
        BY <2>1, <2>2, <3>1 DEF Created, Answered
    <2>3. CASE disk.pending[z] # None
      <3>1. acked[z] = {}
        BY <1>1, <2>1, <2>3 DEF Answered, Inv, BaseInv, TypeInv, DataTyped
      <3>2. QED
        BY <2>1, <3>1 DEF Created, Answered, Loaded
    <2>4. QED
      BY <2>2, <2>3
  <1>2. QED
    BY <1>1 DEF Sound

\* Journaling a transition.
LEMMA StageSound == ASSUME Inv, Stage PROVE Sound'
  <1>0. target \in Zone
    BY TargetIsZone DEF Stage, Working, Inv, BaseInv, TypeInv, FlowInv
  <1> PICK y \in Zone : y = target
    BY <1>0
  <1> DEFINE c == disk.zones[y]
             d == op.value
             entry == [previous |-> c, desired |-> d]
  <1>1. /\ mem = disk /\ d \in Value \cup {None} /\ disk \in State
        /\ c \in Value \cup {None} /\ UNCHANGED <<file, served>>
    BY Remembered, OperationParts, StateParts
       DEF Stage, knotVars, Inv, BaseInv, TypeInv, DataTyped, FlowInv, FlowTyped
  <1>2. Unstaged /\ \A z \in Zone : disk.pending[z] = None
    BY <1>1 DEF Stage, Unstaged, TargetConsistent, Inv, BaseInv, TypeInv, FlowInv
  <1>3. CASE UNCHANGED <<disk, acked>>
    BY <1>1, <1>3, SoundUnchanged DEF Inv
  <1>4. CASE disk' = Staged(mem, target, op.value) /\ acked' = [acked EXCEPT ![target] = {}]
    <2>1. disk'.zones = disk.zones /\ disk'.pending = [disk.pending EXCEPT ![y] = entry]
      BY <1>1, <1>4, StagedState
    <2>2. /\ disk'.zones[y] = c /\ disk'.pending[y] = entry
          /\ \A z \in Zone \ {y} : disk'.pending[z] = disk.pending[z]
      BY <1>1, <2>1 DEF State
    <2>3. c = None => file[y] = d.records /\ served[y] = None
      <3>1. ZoneConsistent(y)
        BY InvZones
      <3>2. QED
        BY <1>1, <1>2, <3>1 DEF Stage, Progress, Inv, BaseInv, ZoneConsistent
    <2>4. Created(y)'
      BY <1>1, <2>2, <2>3 DEF Created
    <2>5. acked'[y] = {} /\ \A z \in Zone \ {y} : acked'[z] = acked[z]
      BY <1>4 DEF Inv, BaseInv, TypeInv, DataTyped
    <2>6. Answered(y)'
      BY <2>5 DEF Answered
    <2>7. QED
      BY <1>1, <2>1, <2>2, <2>4, <2>5, <2>6, SoundAt DEF Inv
  <1>5. \/ UNCHANGED <<disk, acked>>
        \/ disk' = Staged(mem, target, op.value) /\ acked' = [acked EXCEPT ![target] = {}]
    BY DEF Stage, Effective
  <1>6. QED
    BY <1>3, <1>4, <1>5

\* Carrying out a transition and taking it off the journal.
LEMMA SaveSound == ASSUME Inv, Save PROVE Sound'
  <1>0. Carrying
    BY DEF Save, Carrying, Unstaged, Working
  <1> PICK y \in Zone : y = target
    BY <1>0, InHand
  <1> DEFINE d == Current.desired
  <1>1. /\ mem = disk /\ disk \in State /\ acked[y] = {}
        /\ d = disk.pending[y].desired /\ disk.pending[y] # None
        /\ UNCHANGED <<file, served, acked>>
    BY <1>0, InHand DEF Save, knotVars, Inv, BaseInv, TypeInv, DataTyped
  <1>2. CASE UNCHANGED disk
    BY <1>1, <1>2, SoundUnchanged DEF Inv
  <1>3. CASE disk' = Committed(mem, target)
    <2>1. /\ disk'.zones = [disk.zones EXCEPT ![y] = d]
          /\ disk'.pending = [disk.pending EXCEPT ![y] = None]
      BY <1>1, <1>3, CommittedState
    <2>2. /\ disk'.pending[y] = None
          /\ \A z \in Zone \ {y} :
                disk'.zones[z] = disk.zones[z] /\ disk'.pending[z] = disk.pending[z]
      BY <1>1, <2>1 DEF State
    <2>3. Created(y)' /\ Answered(y)'
      BY <1>1, <2>2 DEF Created, Answered
    <2>4. QED
      BY <1>1, <2>2, <2>3, SoundAt DEF Inv
  <1>4. UNCHANGED disk \/ disk' = Committed(mem, target)
    BY DEF Save, Effective
  <1>5. QED
    BY <1>2, <1>3, <1>4

\* Writing the zone file of a zone that is not there yet.
LEMMA WriteZonefileSound == ASSUME Inv, WriteZonefile PROVE Sound'
  <1>0. target \in Zone
    BY TargetIsZone DEF WriteZonefile, Working, Inv, BaseInv, TypeInv, FlowInv
  <1> PICK y \in Zone : y = target
    BY <1>0
  <1>1. mem = disk /\ UNCHANGED <<disk, served, acked>>
    BY Remembered DEF WriteZonefile, knotVars
  <1>2. Created(y) /\ Answered(y) /\ Current = disk.pending[y]
    BY <1>1 DEF Inv, Sound, Current
  <1>3. CASE UNCHANGED file
    BY <1>1, <1>3, SoundUnchanged DEF Inv
  <1>4. CASE file' = [file EXCEPT ![y] =
                        (IF Current = None THEN op.value ELSE Current.desired).records]
    <2>1. \A z \in Zone \ {y} : file'[z] = file[z]
      BY <1>4 DEF Inv, BaseInv, TypeInv, DataTyped
    <2>2. disk.pending[y] # None => file'[y] = disk.pending[y].desired.records
      BY <1>2, <1>4 DEF Inv, BaseInv, TypeInv, DataTyped
    <2>3. Created(y)' /\ Answered(y)'
      BY <1>1, <1>2, <2>2 DEF Created, Answered
    <2>4. QED
      BY <1>1, <2>1, <2>3, SoundAt DEF Inv
  <1>5. QED
    BY <1>3, <1>4 DEF WriteZonefile

\* Changing what is served, or the file, of the zone that is being updated or
\* deleted: nothing is promised of it.
LEMMA ChangeSound ==
    ASSUME Inv, Carrying, Current.previous # None, UNCHANGED <<disk, acked>>,
           \A z \in Zone \ {target} : file'[z] = file[z] /\ served'[z] = served[z]
    PROVE  Sound'
  <1> PICK y \in Zone : y = target
    BY InHand
  <1>1. disk.zones[y] # None /\ acked[y] = {}
    BY InHand
  <1>2. Created(y)' /\ Answered(y)'
    BY <1>1 DEF Created, Answered
  <1>3. QED
    BY <1>2, SoundAt DEF Inv

\* Committing the transaction, writing the zone file of an updated zone and
\* removing that of a deleted one.
LEMMA ZoneCommitSound == ASSUME Inv, ZoneCommit PROVE Sound'
  <1>1. Carrying
    BY DEF ZoneCommit, Carrying, Unstaged, Working
  <1>2. Current.previous # None
    BY DEF ZoneCommit, Inv, BaseInv, TypeInv, FlowInv, TargetConsistent, Current
  <1>3. /\ UNCHANGED <<disk, file, acked>>
        /\ \A z \in Zone \ {target} : served'[z] = served[z]
    BY DEF ZoneCommit, diskVars, Inv, BaseInv, TypeInv, DataTyped
  <1>4. QED
    BY <1>1, <1>2, <1>3, ChangeSound

LEMMA ZoneFlushSound == ASSUME Inv, ZoneFlush PROVE Sound'
  <1>1. Carrying
    BY DEF ZoneFlush, Carrying, Unstaged, Working
  <1>2. Current.previous # None
    BY DEF ZoneFlush, Inv, BaseInv, TypeInv, FlowInv, TargetConsistent, Current
  <1>3. /\ UNCHANGED <<disk, served, acked>>
        /\ \A z \in Zone \ {target} : file'[z] = file[z]
    BY DEF ZoneFlush, knotVars, Inv, BaseInv, TypeInv, DataTyped
  <1>4. QED
    BY <1>1, <1>2, <1>3, ChangeSound

LEMMA UnlinkSound == ASSUME Inv, UnlinkZonefile PROVE Sound'
  <1>1. Carrying
    BY DEF UnlinkZonefile, Carrying, Unstaged, Working
  <1>2. Current.previous # None
    <2>1. Current.desired = None
      BY DEF UnlinkZonefile, Inv, BaseInv, Progress, Current
    <2>2. QED
      BY <1>1, <2>1, InHand DEF ZoneConsistent
  <1>3. /\ UNCHANGED <<disk, served, acked>>
        /\ \A z \in Zone \ {target} : file'[z] = file[z]
    BY DEF UnlinkZonefile, knotVars, Inv, BaseInv, TypeInv, DataTyped
  <1>4. QED
    BY <1>1, <1>2, <1>3, ChangeSound

\* Answering that a zone is settled as it was asked for.
LEMMA AnswerSound ==
    ASSUME Inv, NEW y \in Zone, NEW v,
           disk.zones[y] = v, disk.pending[y] = None, acked' = [acked EXCEPT ![y] = {v}],
           UNCHANGED <<disk, file, served>>
    PROVE  Sound'
  <1>1. served[y] = RecordsOf(v)
    BY InvZones DEF ZoneConsistent, RecordsOf
  <1>2. acked'[y] = {v} /\ \A z \in Zone \ {y} : acked'[z] = acked[z]
    BY DEF Inv, BaseInv, TypeInv, DataTyped
  <1>3. Created(y)' /\ Answered(y)'
    BY <1>1, <1>2 DEF Created, Answered
  <1>4. QED
    BY <1>2, <1>3, SoundAt DEF Inv

\* No step leaves the stored data unsound.
LEMMA NextSound == ASSUME Inv, [Next]_vars PROVE Sound'
  <1> USE DEF diskVars, knotVars
  <1>0. Sound
    BY DEF Inv
  <1>1. CASE Start
    BY <1>0, <1>1, SoundUnchanged DEF Start
  <1>2. CASE AnyRequest
    BY <1>0, <1>2, SoundUnchanged DEF AnyRequest, Request
  <1>3. ASSUME NEW z \in Zone, RecoverNext(z) PROVE Sound'
    BY <1>0, <1>3, SoundUnchanged DEF RecoverNext
  <1>4. CASE RecoverDone
    BY <1>0, <1>4, SoundUnchanged DEF RecoverDone
  <1>5. CASE AnswerConflict
    BY <1>0, <1>5, SoundUnchanged DEF AnswerConflict
  <1>6. CASE AnswerUnchanged
    <2>1. op.zone \in Zone /\ pc # "down" /\ mem = disk /\ disk.pending[op.zone] = None
      BY <1>6, Remembered
         DEF AnswerUnchanged, Inv, BaseInv, TypeInv, FlowInv, RequestConsistent
    <2> PICK y \in Zone : y = op.zone
      BY <2>1
    <2> PICK v : v = op.value
      OBVIOUS
    <2>2. UNCHANGED <<disk, file, served>>
      BY <1>6 DEF AnswerUnchanged
    <2>3. acked' = [acked EXCEPT ![y] = {v}] /\ disk.zones[y] = v
      BY <1>6, <2>1 DEF AnswerUnchanged
    <2>4. QED
      BY <2>1, <2>2, <2>3, AnswerSound
  <1>7. CASE Accept
    BY <1>0, <1>7, SoundUnchanged DEF Accept
  <1>8. CASE Stage
    BY <1>8, StageSound
  <1>9. CASE BootConfig
    BY <1>0, <1>9, SoundUnchanged DEF BootConfig
  <1>10. CASE StagedConfig
    BY <1>0, <1>10, SoundUnchanged DEF StagedConfig
  <1>11. CASE RecoverConfig
    BY <1>0, <1>11, SoundUnchanged DEF RecoverConfig
  <1>12. CASE Save
    BY <1>12, SaveSound
  <1>13. CASE FinalConfig
    <2>1. pc # "down" /\ mem = disk /\ UNCHANGED <<disk, file, served>>
      BY <1>13, Remembered DEF FinalConfig
    <2>2. CASE UNCHANGED acked
      BY <1>0, <2>1, <2>2, SoundUnchanged
    <2>3. CASE op.staged /\ acked' = [acked EXCEPT ![op.zone] = {op.value}]
      <3>1. target \in Zone /\ target # None
        BY <1>13, TargetIsZone, NoneIsNoValue
           DEF FinalConfig, Working, Inv, BaseInv, TypeInv, FlowInv
      <3>2. op.zone = target /\ disk.pending[target] = None /\ disk.zones[target] = op.value
        BY <1>13, <2>1, <2>3
           DEF FinalConfig, Progress, Inv, BaseInv, TypeInv, FlowInv, TargetConsistent
      <3> PICK y \in Zone : y = target
        BY <3>1
      <3> PICK v : v = op.value
        OBVIOUS
      <3>3. QED
        BY <2>1, <2>3, <3>2, AnswerSound
    <2>4. QED
      BY <1>13, <2>2, <2>3 DEF FinalConfig
  <1>14. CASE WriteZonefile
    BY <1>14, WriteZonefileSound
  <1>15. CASE CheckZonefile
    BY <1>0, <1>15, SoundUnchanged DEF CheckZonefile
  <1>16. CASE Reload
    <2>1. UNCHANGED <<disk, conf, file, acked>> /\ (LoadAll \/ UNCHANGED served)
      BY <1>16, Zenon DEF Reload
    <2>2. QED
      BY <1>0, <2>1, LoadSound, SoundUnchanged
  <1>17. CASE ZoneSign
    BY <1>0, <1>17, SoundUnchanged DEF ZoneSign
  <1>18. CASE ZoneBegin
    BY <1>0, <1>18, SoundUnchanged DEF ZoneBegin
  <1>19. CASE ZoneUnset
    BY <1>0, <1>19, SoundUnchanged DEF ZoneUnset
  <1>20. CASE ZoneSet
    BY <1>0, <1>20, SoundUnchanged DEF ZoneSet
  <1>21. CASE ZoneCommit
    BY <1>21, ZoneCommitSound
  <1>22. CASE ZoneAbort
    BY <1>0, <1>22, SoundUnchanged DEF ZoneAbort
  <1>23. CASE ZoneFlush
    BY <1>23, ZoneFlushSound
  <1>24. CASE ZonePurge
    BY <1>0, <1>24, SoundUnchanged DEF ZonePurge
  <1>25. CASE UnlinkZonefile
    BY <1>25, UnlinkSound
  <1>26. CASE Crash
    BY <1>0, <1>26, SoundUnchanged DEF Crash
  <1>27. CASE KnotRestart
    BY <1>27, LoadSound DEF KnotRestart, KnotStarts
  <1>28. CASE OperatorRestart
    BY <1>28, LoadSound DEF OperatorRestart, KnotStarts
  <1>29. CASE BackupLock
    BY <1>0, <1>29, SoundUnchanged DEF BackupLock
  <1>30. CASE BackupZones
    BY <1>0, <1>30, SoundUnchanged DEF BackupZones
  <1>31. CASE BackupState
    BY <1>0, <1>31, SoundUnchanged DEF BackupState
  <1>32. CASE BackupEnd
    BY <1>0, <1>32, SoundUnchanged DEF BackupEnd
  <1>33. CASE UNCHANGED vars
    BY <1>0, <1>33, SoundUnchanged DEF vars
  <1>34. QED
    BY <1>1, <1>2, <1>3, <1>4, <1>5, <1>6, <1>7, <1>8, <1>9, <1>10, <1>11,
       <1>12, <1>13, <1>14, <1>15, <1>16, <1>17, <1>18, <1>19, <1>20, <1>21, <1>22,
       <1>23, <1>24, <1>25, <1>26, <1>27, <1>28, <1>29, <1>30, <1>31, <1>32, <1>33
    DEF Next, Handle, Backup

-----------------------------------------------------------------------------
\* The memory follows the disk.

\* A step that writes neither keeps the memory of a running process right.
LEMMA SameMemory ==
    ASSUME MemoryIsDisk, UNCHANGED disk, (UNCHANGED mem /\ pc # "down") \/ pc' = "down"
    PROVE  MemoryIsDisk'
  BY DEF MemoryIsDisk

\* As long as a write that fails leaves the old file, no step lets the memory
\* fall behind the state file.
LEMMA NextMemory == ASSUME Inv, [Next]_vars, LateWrites = FALSE PROVE MemoryIsDisk'
  <1> USE DEF diskVars
  <1>0. MemoryIsDisk
    BY DEF Inv
  <1>1. CASE Start
    BY <1>1 DEF Start, MemoryIsDisk
  <1>2. CASE AnyRequest
    BY <1>0, <1>2, SameMemory DEF AnyRequest, Request
  <1>3. ASSUME NEW z \in Zone, RecoverNext(z) PROVE MemoryIsDisk'
    BY <1>0, <1>3, SameMemory DEF RecoverNext
  <1>4. CASE RecoverDone
    <2>1. UNCHANGED <<disk, mem>> /\ pc # "down"
      BY <1>4 DEF RecoverDone, Finish, Goto
    <2>2. QED
      BY <1>0, <2>1, SameMemory
  <1>5. CASE AnswerConflict
    BY <1>0, <1>5, SameMemory DEF AnswerConflict, Finish
  <1>6. CASE AnswerUnchanged
    BY <1>0, <1>6, SameMemory DEF AnswerUnchanged, Finish
  <1>7. CASE Accept
    BY <1>0, <1>7, SameMemory DEF Accept
  <1>8. CASE Stage
    BY <1>0, <1>8, SameMemory, RaiseMemory
       DEF Stage, WriteOutcome, Effective, MemoryIsDisk
  <1>9. CASE BootConfig
    BY <1>0, <1>9, SameMemory, StepMemory DEF BootConfig
  <1>10. CASE StagedConfig
    BY <1>0, <1>10, SameMemory, StepMemory DEF StagedConfig
  <1>11. CASE RecoverConfig
    BY <1>0, <1>11, SameMemory, StepMemory DEF RecoverConfig
  <1>12. CASE Save
    BY <1>0, <1>12, SameMemory, RaiseMemory
       DEF Save, WriteOutcome, Effective, MemoryIsDisk
  <1>13. CASE FinalConfig
    BY <1>0, <1>13, SameMemory, RaiseMemory DEF FinalConfig, Finish
  <1>14. CASE WriteZonefile
    BY <1>0, <1>14, SameMemory, StepMemory DEF WriteZonefile
  <1>15. CASE CheckZonefile
    BY <1>0, <1>15, SameMemory, StepMemory, RaiseMemory DEF CheckZonefile
  <1>16. CASE Reload
    BY <1>0, <1>16, SameMemory, StepMemory DEF Reload
  <1>17. CASE ZoneSign
    BY <1>0, <1>17, SameMemory, StepMemory DEF ZoneSign
  <1>18. CASE ZoneBegin
    BY <1>0, <1>18, SameMemory, StepMemory, RaiseMemory DEF ZoneBegin
  <1>19. CASE ZoneUnset
    BY <1>0, <1>19, SameMemory, StepOrAbortMemory DEF ZoneUnset
  <1>20. CASE ZoneSet
    BY <1>0, <1>20, SameMemory, StepOrAbortMemory DEF ZoneSet, Goto
  <1>21. CASE ZoneCommit
    BY <1>0, <1>21, SameMemory, StepOrAbortMemory DEF ZoneCommit
  <1>22. CASE ZoneAbort
    BY <1>0, <1>22, SameMemory, RaiseMemory DEF ZoneAbort
  <1>23. CASE ZoneFlush
    BY <1>0, <1>23, SameMemory, StepMemory DEF ZoneFlush
  <1>24. CASE ZonePurge
    BY <1>0, <1>24, SameMemory, StepMemory DEF ZonePurge
  <1>25. CASE UnlinkZonefile
    BY <1>0, <1>25, SameMemory, StepMemory DEF UnlinkZonefile
  <1>26. CASE Crash
    BY <1>0, <1>26, SameMemory DEF Crash, Die
  <1>27. CASE KnotRestart
    <2>1. UNCHANGED disk /\ (UNCHANGED mem \/ pc' = "down")
      BY <1>27, RaiseMemory DEF KnotRestart, Goto, procVars
    <2>2. pc = "down" => pc' = "down"
      BY <1>27 DEF KnotRestart, procVars
    <2>3. QED
      BY <1>0, <2>1, <2>2, SameMemory
  <1>28. CASE OperatorRestart
    BY <1>0, <1>28, SameMemory DEF OperatorRestart, Die
  <1>29. CASE BackupLock
    BY <1>0, <1>29 DEF BackupLock, procVars, MemoryIsDisk
  <1>30. CASE BackupZones
    BY <1>0, <1>30 DEF BackupZones, procVars, MemoryIsDisk
  <1>31. CASE BackupState
    BY <1>0, <1>31 DEF BackupState, procVars, MemoryIsDisk
  <1>32. CASE BackupEnd
    BY <1>0, <1>32 DEF BackupEnd, procVars, MemoryIsDisk
  <1>33. CASE UNCHANGED vars
    BY <1>0, <1>33 DEF vars, procVars, MemoryIsDisk
  <1>34. QED
    BY <1>1, <1>2, <1>3, <1>4, <1>5, <1>6, <1>7, <1>8, <1>9, <1>10, <1>11,
       <1>12, <1>13, <1>14, <1>15, <1>16, <1>17, <1>18, <1>19, <1>20, <1>21, <1>22,
       <1>23, <1>24, <1>25, <1>26, <1>27, <1>28, <1>29, <1>30, <1>31, <1>32, <1>33
    DEF Next, Handle, Backup

-----------------------------------------------------------------------------
\* What follows.

\* Inv is inductive while failed writes leave the old file.
LEMMA NextInv == ASSUME LateWrites = FALSE PROVE Inv /\ [Next]_vars => Inv'
  <1> SUFFICES ASSUME Inv, [Next]_vars PROVE Inv'
    OBVIOUS
  <1>1. BaseInv'
    BY NextBaseInv DEF Inv
  <1>2. QED
    BY <1>1, NextSound, NextMemory DEF Inv

LEMMA InvAlways == ASSUME LateWrites = FALSE PROVE Spec => []Inv
  <1>1. Inv /\ [Next]_vars => Inv'
    BY NextInv
  <1>2. QED
    BY <1>1, InitInv, PTL DEF Spec

\* The state file, the journal, the include, the zone files, Knot and the
\* answers given agree, at every label of the request in progress, as Consistent
\* says; ZoneStore never gets into a state that its replay was not written for.
THEOREM ConsistencyHolds == ASSUME LateWrites = FALSE PROVE Spec => []Consistent
  <1>1. Inv => Consistent
    BY InvConsistent
  <1>2. QED
    BY <1>1, InvAlways, PTL

\* Whatever Knot serves is committed, or the desired value of a journaled
\* transition: apply and delete journal before they touch Knot, and no partial
\* transaction is ever served.
THEOREM JournalHolds == ASSUME LateWrites = FALSE PROVE Spec => []JournalCoversKnot
  <1>1. Inv => JournalCoversKnot
    <2> SUFFICES ASSUME Inv, NEW z \in Zone, served[z] # RecordsOf(disk.zones[z])
                 PROVE  /\ disk.pending[z] # None
                        /\ served[z] = RecordsOf(disk.pending[z].desired)
      BY DEF JournalCoversKnot
    <2>1. ZoneConsistent(z)
      BY InvZones
    <2>2. QED
      BY <2>1 DEF ZoneConsistent, RecordsOf
  <1>2. QED
    BY <1>1, InvAlways, PTL

\* What a 2xx answer said stays true until a later request for the zone is
\* journaled.
THEOREM AnswersHold == ASSUME LateWrites = FALSE PROVE Spec => []AnswersLast
  <1>1. Inv => AnswersLast
    BY DEF Inv, Sound, Answered, AnswersLast
  <1>2. QED
    BY <1>1, InvAlways, PTL

-----------------------------------------------------------------------------
\* The backup job.

\* What the name servers answer with is, for every zone, the committed or the
\* intended records of a state file.
Matches(answers, s) ==
    \A z \in Zone :
        \/ answers[z] = RecordsOf(s.zones[z])
        \/ answers[z] = RecordsOf(Intended(s, z))

\* The lock belongs to the request or to the backup job as long as there is one.
LockInv ==
    /\ lock = "control" <=> pc \notin {"idle", "down"}
    /\ lock = "backup" <=> backup.pc # "off"

\* What the backup job has copied agrees with what it has still to copy, and in
\* the end with what it has copied.
BackupInv ==
    /\ LockInv
    /\ backup.pc = "state" => Matches(backup.served, disk)
    /\ backup.pc = "done" => Matches(backup.served, backup.state)

\* At any time Knot and the state file are a consistent pair.
LEMMA ServedMatches == Inv => Matches(served, disk)
  <1> SUFFICES ASSUME Inv, NEW z \in Zone
               PROVE  \/ served[z] = RecordsOf(disk.zones[z])
                      \/ served[z] = RecordsOf(Intended(disk, z))
    BY DEF Matches
  <1>1. ZoneConsistent(z)
    BY InvZones
  <1>2. QED
    BY <1>1 DEF ZoneConsistent, RecordsOf, Intended

\* An exception gives back the lock of the request and no other.
LEMMA RaiseLock ==
    ASSUME Raise, UNCHANGED backup, LockInv, pc \notin {"idle", "down"}
    PROVE  LockInv'
  BY DEF Raise, Die, Finish, LockInv

\* A step keeps the lock until the request is over.
LEMMA StepLock ==
    ASSUME NEW o, NEW label, label \notin {"idle", "down"}, UNCHANGED backup, LockInv,
           pc \notin {"idle", "down"}, Step(o, label) \/ StepOrAbort(o, label) \/ Goto(label)
    PROVE  LockInv'
  BY RaiseLock DEF Step, StepOrAbort, Goto, LockInv

\* Where the request in progress does not end, it keeps the lock.
LEMMA SameLock ==
    ASSUME LockInv, UNCHANGED <<lock, backup>>,
           pc \in {"idle", "down"} <=> pc' \in {"idle", "down"}
    PROVE  LockInv'
  BY DEF LockInv

\* Every request, every start and every backup has the lock to itself.
LEMMA NextLock == ASSUME Inv, LockInv, [Next]_vars PROVE LockInv'
  <1> USE DEF procVars
  <1>1. CASE Start
    BY <1>1 DEF Start, LockInv
  <1>2. CASE AnyRequest
    BY <1>2 DEF AnyRequest, Request, LockInv
  <1>3. ASSUME NEW z \in Zone, RecoverNext(z) PROVE LockInv'
    BY <1>3 DEF RecoverNext, LockInv
  <1>4. CASE RecoverDone
    BY <1>4 DEF RecoverDone, Finish, Goto, LockInv
  <1>5. CASE AnswerConflict \/ AnswerUnchanged
    BY <1>5 DEF AnswerConflict, AnswerUnchanged, Finish, LockInv
  <1>6. CASE Accept
    BY <1>6 DEF Accept, LockInv
  <1>7. CASE Stage
    BY <1>7, RaiseLock, SameLock DEF Stage
  <1>8. CASE BootConfig
    BY <1>8, StepLock DEF BootConfig
  <1>9. CASE StagedConfig
    BY <1>9, StepLock DEF StagedConfig
  <1>10. CASE RecoverConfig
    BY <1>10, StepLock DEF RecoverConfig
  <1>11. CASE Save
    BY <1>11, RaiseLock, SameLock DEF Save
  <1>12. CASE FinalConfig
    BY <1>12, RaiseLock, SameLock DEF FinalConfig, Finish, LockInv
  <1>13. CASE WriteZonefile
    BY <1>13, StepLock DEF WriteZonefile
  <1>14. CASE CheckZonefile
    BY <1>14, StepLock, RaiseLock DEF CheckZonefile
  <1>15. CASE Reload
    BY <1>15, StepLock DEF Reload
  <1>16. CASE ZoneSign
    BY <1>16, StepLock DEF ZoneSign
  <1>17. CASE ZoneBegin
    BY <1>17, StepLock, RaiseLock DEF ZoneBegin
  <1>18. CASE ZoneUnset
    BY <1>18, StepLock DEF ZoneUnset
  <1>19. CASE ZoneSet
    BY <1>19, StepLock DEF ZoneSet
  <1>20. CASE ZoneCommit
    BY <1>20, StepLock DEF ZoneCommit
  <1>21. CASE ZoneAbort
    BY <1>21, RaiseLock DEF ZoneAbort
  <1>22. CASE ZoneFlush
    BY <1>22, StepLock DEF ZoneFlush
  <1>23. CASE ZonePurge
    BY <1>23, StepLock DEF ZonePurge
  <1>24. CASE UnlinkZonefile
    BY <1>24, StepLock DEF UnlinkZonefile
  <1>25. CASE Crash
    BY <1>25 DEF Crash, Die, LockInv
  <1>26. CASE KnotRestart
    <2>1. CASE pc \in {"reload", "sign", "begin", "flush", "purge"}
      BY <1>26, <2>1, RaiseLock DEF KnotRestart
    <2>2. CASE pc \in {"unset", "set", "commit", "abort"}
      BY <1>26, <2>2, StepLock DEF KnotRestart
    <2>3. CASE UNCHANGED procVars
      BY <1>26, <2>3, SameLock DEF KnotRestart
    <2>4. QED
      BY <1>26, <2>1, <2>2, <2>3 DEF KnotRestart
  <1>27. CASE OperatorRestart
    BY <1>27 DEF OperatorRestart, Die, LockInv
  <1>28. CASE Backup
    <2>1. backup \in [pc : {"off", "zones", "state", "done"},
                      served : [Zone -> ZoneData \cup {None}], state : State]
      BY DEF Inv, BaseInv, TypeInv, DataTyped
    <2>2. CASE BackupLock
      BY <2>1, <2>2 DEF BackupLock, LockInv
    <2>3. CASE BackupZones \/ BackupState
      BY <2>1, <2>3 DEF BackupZones, BackupState, LockInv
    <2>4. CASE BackupEnd
      BY <2>4 DEF BackupEnd, NoBackup, LockInv
    <2>5. QED
      BY <1>28, <2>2, <2>3, <2>4 DEF Backup
  <1>29. CASE UNCHANGED vars
    BY <1>29 DEF vars, LockInv
  <1>30. QED
    BY <1>1, <1>2, <1>3, <1>4, <1>5, <1>6, <1>7, <1>8, <1>9, <1>10, <1>11,
       <1>12, <1>13, <1>14, <1>15, <1>16, <1>17, <1>18, <1>19, <1>20, <1>21, <1>22,
       <1>23, <1>24, <1>25, <1>26, <1>27, <1>28, <1>29
    DEF Next, Handle

\* Only the backup job changes what it has copied.
LEMMA OnlyBackup == ASSUME [Next]_vars PROVE UNCHANGED backup \/ Backup
  <1>1. CASE Start \/ AnyRequest \/ (\E z \in Zone : RecoverNext(z)) \/ RecoverDone
             \/ AnswerConflict \/ AnswerUnchanged \/ Accept
    BY <1>1 DEF Start, AnyRequest, Request, RecoverNext, RecoverDone, AnswerConflict,
                AnswerUnchanged, Accept
  <1>2. CASE Stage \/ BootConfig \/ StagedConfig \/ RecoverConfig \/ Save \/ FinalConfig
             \/ WriteZonefile \/ CheckZonefile \/ Reload \/ ZoneSign
    BY <1>2 DEF Stage, BootConfig, StagedConfig, RecoverConfig, Save, FinalConfig,
                WriteZonefile, CheckZonefile, Reload, ZoneSign
  <1>3. CASE ZoneBegin \/ ZoneUnset \/ ZoneSet \/ ZoneCommit \/ ZoneAbort \/ ZoneFlush
             \/ ZonePurge \/ UnlinkZonefile
    BY <1>3 DEF ZoneBegin, ZoneUnset, ZoneSet, ZoneCommit, ZoneAbort, ZoneFlush,
                ZonePurge, UnlinkZonefile
  <1>4. CASE Crash \/ KnotRestart \/ OperatorRestart
    BY <1>4 DEF Crash, KnotRestart, OperatorRestart
  <1>5. CASE UNCHANGED vars
    BY <1>5 DEF vars
  <1>6. QED
    BY <1>1, <1>2, <1>3, <1>4, <1>5 DEF Next, Handle

\* While the backup job has the lock the state file stays as it is.
LEMMA NextBackup == ASSUME Inv, BackupInv, [Next]_vars PROVE BackupInv'
  <1>1. LockInv'
    BY NextLock DEF BackupInv
  <1>2. CASE UNCHANGED backup
    <2>1. backup.pc # "off" => UNCHANGED disk
      <3>1. backup.pc # "off" => pc \in {"idle", "down"}
        BY DEF BackupInv, LockInv
      <3>2. QED
        BY <3>1, OnlyStageAndSave DEF Stage, Save
    <2>2. QED
      BY <1>1, <1>2, <2>1 DEF BackupInv, Matches
  <1>3. CASE Backup
    <2>1. backup \in [pc : {"off", "zones", "state", "done"},
                      served : [Zone -> ZoneData \cup {None}], state : State]
      BY DEF Inv, BaseInv, TypeInv, DataTyped
    <2>2. CASE BackupLock
      BY <1>1, <2>1, <2>2 DEF BackupLock, BackupInv
    <2>3. CASE BackupZones
      <3>1. backup'.pc = "state" /\ backup'.served = served /\ UNCHANGED disk
        BY <2>1, <2>3 DEF BackupZones, diskVars
      <3>2. QED
        BY <1>1, <3>1, ServedMatches DEF BackupInv, Matches
    <2>4. CASE BackupState
      <3>1. backup'.pc = "done" /\ backup'.served = backup.served /\ backup'.state = disk
        BY <2>1, <2>4 DEF BackupState
      <3>2. Matches(backup.served, disk)
        BY <2>4 DEF BackupState, BackupInv
      <3>3. QED
        BY <1>1, <3>1, <3>2 DEF BackupInv, Matches
    <2>5. CASE BackupEnd
      BY <1>1, <2>5 DEF BackupEnd, NoBackup, BackupInv
    <2>6. QED
      BY <1>3, <2>2, <2>3, <2>4, <2>5 DEF Backup
  <1>4. QED
    BY <1>2, <1>3, OnlyBackup

\* knot-online-backup holds mutation.lock from the Knot snapshot to the copy of
\* state.json, so what it saves can be restored together.
THEOREM BackupsAreConsistent == ASSUME LateWrites = FALSE PROVE Spec => []BackupIsConsistent
  <1>1. Init => BackupInv
    BY DEF Init, BackupInv, LockInv, NoBackup
  <1>2. Inv /\ BackupInv /\ [Next]_vars => BackupInv'
    BY NextBackup
  <1>3. BackupInv => BackupIsConsistent
    BY DEF BackupInv, Matches, BackupIsConsistent
  <1>4. QED
    BY <1>1, <1>2, <1>3, InvAlways, PTL DEF Spec

-----------------------------------------------------------------------------
\* The two-phase register.

\* Only a load and a committed transaction change what the name servers answer.
LEMMA OnlyLoadAndCommit ==
    ASSUME [Next]_vars PROVE \/ UNCHANGED served
                             \/ ZoneCommit
                             \/ LoadAll /\ UNCHANGED <<disk, conf, file>>
  <1> USE DEF knotVars, diskVars
  <1>1. CASE Start \/ AnyRequest \/ (\E z \in Zone : RecoverNext(z)) \/ RecoverDone
             \/ AnswerConflict \/ AnswerUnchanged \/ Accept
    BY <1>1 DEF Start, AnyRequest, Request, RecoverNext, RecoverDone, AnswerConflict,
                AnswerUnchanged, Accept
  <1>2. CASE Stage \/ BootConfig \/ StagedConfig \/ RecoverConfig \/ Save \/ FinalConfig
             \/ WriteZonefile \/ CheckZonefile \/ ZoneSign
    BY <1>2 DEF Stage, BootConfig, StagedConfig, RecoverConfig, Save, FinalConfig,
                WriteZonefile, CheckZonefile, ZoneSign
  <1>3. CASE Reload
    BY <1>3, Zenon DEF Reload
  <1>4. CASE ZoneBegin \/ ZoneUnset \/ ZoneSet \/ ZoneAbort \/ ZoneFlush
             \/ ZonePurge \/ UnlinkZonefile
    BY <1>4 DEF ZoneBegin, ZoneUnset, ZoneSet, ZoneAbort, ZoneFlush,
                ZonePurge, UnlinkZonefile
  <1>5. CASE Crash \/ Backup
    BY <1>5 DEF Crash, Backup, BackupLock, BackupZones, BackupState, BackupEnd
  <1>6. CASE KnotRestart \/ OperatorRestart
    BY <1>6 DEF KnotRestart, OperatorRestart, KnotStarts
  <1>7. CASE UNCHANGED vars
    BY <1>7 DEF vars
  <1>8. QED
    BY <1>1, <1>2, <1>3, <1>4, <1>5, <1>6, <1>7 DEF Next, Handle

\* A zone under transition has two different values.
LEMMA TransitionDiffers ==
    ASSUME Inv, NEW z \in Zone, disk.pending[z] # None
    PROVE  disk.zones[z] # disk.pending[z].desired
  <1>1. ZoneConsistent(z) /\ disk.zones[z] \in Value \cup {None}
    BY InvZones, StateParts DEF Inv, BaseInv, TypeInv, DataTyped
  <1>2. \A r \in 1 .. MaxRevision : ~ r > r
    BY BoundsAssumption
  <1>3. disk.zones[z] # None => disk.zones[z].revision \in 1 .. MaxRevision
    BY <1>1, ValueRecords
  <1>4. QED
    BY <1>1, <1>2, <1>3 DEF ZoneConsistent

\* Entering a transition in the journal accepts its desired value.
LEMMA StageAccepts ==
    ASSUME Inv, Stage, disk' # disk
    PROVE  \E v \in Value \cup {None} :
              /\ \A z \in Zone : disk.pending[z] = None
              /\ v # disk.zones[target]
              /\ v # None /\ disk.zones[target] # None =>
                    v.revision > disk.zones[target].revision
              /\ target \in Zone
              /\ disk'.zones = disk.zones
              /\ [z \in Zone |-> Intended(disk', z)] =
                    [[z \in Zone |-> Intended(disk, z)] EXCEPT ![target] = v]
  <1>1. /\ target \in Zone /\ mem = disk /\ op.value \in Value \cup {None}
        /\ disk \in State /\ pc = "stage"
    BY TargetIsZone, Remembered, OperationParts
       DEF Stage, Working, Inv, BaseInv, TypeInv, DataTyped, FlowInv, FlowTyped
  <1>2. Unstaged
    BY <1>1 DEF Unstaged, Inv, BaseInv, TypeInv, FlowInv, TargetConsistent
  <1>3. \A z \in Zone : disk.pending[z] = None
    BY <1>1, <1>2 DEF Inv, BaseInv, TypeInv, FlowInv, TargetConsistent
  <1>4. /\ op.kind \in {"put", "delete"}
        /\ disk.zones[target] = None => op.kind = "put"
        /\ disk.zones[target] # None /\ op.kind = "put" =>
              op.value.revision > disk.zones[target].revision
    BY <1>1, <1>2 DEF Inv, BaseInv, Progress, TypeInv, FlowInv, TargetConsistent
  <1>5. /\ op.kind = "put" => op.value \in Value
        /\ op.kind = "delete" => op.value = None
    BY DEF Inv, BaseInv, TypeInv, FlowInv, RequestConsistent
  <1>6. /\ op.value # disk.zones[target]
        /\ op.value # None /\ disk.zones[target] # None =>
              op.value.revision > disk.zones[target].revision
    <2>1. \A r \in 1 .. MaxRevision : ~ r > r
      BY BoundsAssumption
    <2>2. op.value # None => op.value.revision \in 1 .. MaxRevision
      BY <1>1, ValueRecords
    <2>3. QED
      BY <1>4, <1>5, <2>1, <2>2, NoneIsNoValue
  <1>7. disk' = Staged(disk, target, op.value)
    BY <1>1 DEF Stage
  <1> DEFINE t == [previous |-> disk.zones[target], desired |-> op.value]
  <1>8. /\ disk'.zones = disk.zones
        /\ disk'.pending = [disk.pending EXCEPT ![target] = t]
    BY <1>1, <1>7, StagedState
  <1>9. t # None /\ t.desired = op.value
    <2>1. t \in Transition
      BY <1>1, StateParts DEF Transition
    <2>2. QED
      BY <2>1, NoneIsNoValue
  <1> HIDE DEF t
  <1>10. \A z \in Zone : disk'.pending[z] = IF z = target THEN t ELSE disk.pending[z]
    BY <1>1, <1>8 DEF State
  <1>11. [z \in Zone |-> Intended(disk', z)] =
            [[z \in Zone |-> Intended(disk, z)] EXCEPT ![target] = op.value]
    BY <1>1, <1>8, <1>9, <1>10 DEF Intended
  <1>12. QED
    BY <1>1, <1>3, <1>6, <1>8, <1>11

\* Committing a transition settles its zone.
LEMMA SaveSettles ==
    ASSUME Inv, Save, disk' # disk
    PROVE  /\ target \in Zone
           /\ disk.zones[target] # Intended(disk, target)
           /\ served[target] = RecordsOf(Intended(disk, target))
           /\ disk'.zones = [disk.zones EXCEPT ![target] = Intended(disk, target)]
           /\ [z \in Zone |-> Intended(disk', z)] = [z \in Zone |-> Intended(disk, z)]
  <1>1. Carrying /\ disk \in State
    BY DEF Save, Carrying, Unstaged, Working, Inv, BaseInv, TypeInv, DataTyped
  <1>2. /\ target \in Zone /\ mem = disk /\ Current = disk.pending[target]
        /\ Current # None
    BY <1>1, InHand
  <1>3. Intended(disk, target) = Current.desired
    BY <1>2 DEF Intended
  <1>4. served[target] = RecordsOf(Current.desired)
    BY <1>2 DEF Save, Inv, BaseInv, Progress, Current
  <1>5. disk' = Committed(disk, target)
    BY <1>2 DEF Save
  <1>6. /\ disk'.zones = [disk.zones EXCEPT ![target] = Current.desired]
        /\ disk'.pending = [disk.pending EXCEPT ![target] = None]
    BY <1>1, <1>2, <1>5, CommittedState
  <1>7. ASSUME NEW z \in Zone PROVE Intended(disk', z) = Intended(disk, z)
    BY <1>1, <1>2, <1>6 DEF Intended, State
  <1>8. QED
    BY <1>2, <1>3, <1>4, <1>6, <1>7, TransitionDiffers

\* A load moves the name servers at one zone at most, the one in the journal,
\* and there between its two values.
LEMMA LoadServes ==
    ASSUME Inv, LoadAll, UNCHANGED <<disk, conf, file>>, served' # served, Inv'
    PROVE  \E y \in Zone :
              /\ disk.pending[y] # None
              /\ \E v \in {disk.zones[y], Intended(disk, y)} :
                    served' = [served EXCEPT ![y] = RecordsOf(v)]
  <1>1. served \in [Zone -> ZoneData \cup {None}] /\ served' = [z \in Zone |-> Loaded(z)]
    BY DEF Inv, BaseInv, TypeInv, DataTyped, LoadAll
  <1>2. ASSUME NEW z \in Zone, disk.pending[z] = None PROVE served'[z] = served[z]
    <2>1. ZoneConsistent(z) /\ disk.zones[z] \in Value \cup {None}
      BY InvZones, StateParts DEF Inv, BaseInv, TypeInv, DataTyped
    <2>2. QED
      BY <1>1, <1>2, <2>1, RecordsNotNone DEF ZoneConsistent, Loaded
  <1>3. PICK y \in Zone : served'[y] # served[y]
    BY <1>1
  <1>4. disk.pending[y] # None /\ \A z \in Zone \ {y} : disk.pending[z] = None
    BY <1>2, <1>3 DEF Inv, BaseInv, Fitting, OneInFlight
  <1>5. \A z \in Zone \ {y} : served'[z] = served[z]
    BY <1>2, <1>4
  <1>6. \E v \in {disk.zones[y], Intended(disk, y)} : served'[y] = RecordsOf(v)
    <2>1. ZoneConsistent(y)'
      BY DEF Inv, BaseInv, Fitting, Fits, Sound, Created, ZoneConsistent
    <2>2. QED
      BY <1>4, <2>1 DEF ZoneConsistent, RecordsOf, Intended
  <1>7. QED
    BY <1>1, <1>4, <1>5, <1>6

\* A committed transaction moves the name servers to the desired value.
LEMMA CommitServes ==
    ASSUME Inv, ZoneCommit, served' # served
    PROVE  /\ target \in Zone /\ disk.pending[target] # None /\ UNCHANGED disk
           /\ served' = [served EXCEPT ![target] = RecordsOf(Intended(disk, target))]
  <1>1. Carrying
    BY DEF ZoneCommit, Carrying, Unstaged, Working
  <1>2. /\ target \in Zone /\ Current = disk.pending[target] /\ Current # None
    BY <1>1, InHand
  <1>3. txn[target] = Current.desired.records /\ Current.desired # None
    BY DEF ZoneCommit, Inv, BaseInv, Progress, Current
  <1>4. served' = [served EXCEPT ![target] = txn[target]]
    BY Zenon DEF ZoneCommit
  <1>5. RecordsOf(Intended(disk, target)) = Current.desired.records
    BY <1>2, <1>3 DEF RecordsOf, Intended
  <1>6. QED
    BY <1>2, <1>3, <1>4, <1>5 DEF ZoneCommit, diskVars

\* Every step of the control plane is a step of the register or leaves it as it
\* is: Stage accepts, Save settles, and Knot moves a zone between its values.
LEMMA StepRefines ==
    ASSUME Inv, Inv', [Next]_vars
    PROVE  [Registry!Next]_(Registry!vars)
  <1> DEFINE want == [z \in Zone |-> Intended(disk, z)]
  <1>1. /\ Known = disk /\ Known' = disk'
        /\ disk \in State /\ served \in [Zone -> ZoneData \cup {None}]
    BY DEF Known, Inv, BaseInv, MemoryIsDisk, TypeInv, DataTyped
  <1>2. CASE UNCHANGED <<disk, served>>
    BY <1>1, <1>2 DEF Registry!vars
  <1>3. CASE disk' # disk /\ UNCHANGED served /\ Stage
    <2>1. PICK v \in Value \cup {None} :
             /\ \A z \in Zone : disk.pending[z] = None
             /\ v # disk.zones[target]
             /\ v # None /\ disk.zones[target] # None =>
                   v.revision > disk.zones[target].revision
             /\ target \in Zone
             /\ disk'.zones = disk.zones
             /\ [z \in Zone |-> Intended(disk', z)] = [want EXCEPT ![target] = v]
      BY <1>3, StageAccepts
    <2>2. want = disk.zones
      BY <1>1, <2>1 DEF Intended, State
    <2>3. Registry!Accept(target, v)
      BY <1>1, <1>3, <2>1, <2>2 DEF Registry!Accept
    <2>4. QED
      BY <2>1, <2>3 DEF Registry!Next, Registry!Value, Value
  <1>4. CASE disk' # disk /\ UNCHANGED served /\ Save
    BY <1>1, <1>4, SaveSettles
       DEF Registry!Next, Registry!Settle, Registry!RecordsOf, RecordsOf
  <1>5. CASE served' # served /\ UNCHANGED disk
    <2>1. \E y \in Zone :
             /\ disk.pending[y] # None
             /\ \E v \in {disk.zones[y], Intended(disk, y)} :
                   served' = [served EXCEPT ![y] = RecordsOf(v)]
      BY <1>5, LoadServes, CommitServes, OnlyLoadAndCommit
    <2>2. PICK y \in Zone : /\ disk.pending[y] # None
                            /\ \E v \in {disk.zones[y], Intended(disk, y)} :
                                  served' = [served EXCEPT ![y] = RecordsOf(v)]
      BY <2>1
    <2>3. want[y] = Intended(disk, y) /\ disk.zones[y] # want[y]
      BY <2>2, TransitionDiffers DEF Intended
    <2>4. Registry!Serve(y)
      BY <1>1, <1>5, <2>2, <2>3 DEF Registry!Serve, Registry!RecordsOf, RecordsOf
    <2>5. QED
      BY <2>4 DEF Registry!Next
  <1>6. QED
    BY <1>2, <1>3, <1>4, <1>5, OnlyStageAndSave, OnlyLoadAndCommit
       DEF Stage, Save, knotVars, diskVars, ZoneCommit

\* The control plane implements the two-phase register: whatever fails, callers
\* and resolvers see one zone at a time move from its settled to its accepted
\* value, and it settles only when the new records are being served.
THEOREM RegistryImplemented == ASSUME LateWrites = FALSE PROVE Spec => ImplementsRegistry
  <1>1. Init => Registry!Init
    BY DEF Init, Known, EmptyState, Intended, Registry!Init
  <1>2. Inv /\ Inv' /\ [Next]_vars => [Registry!Next]_(Registry!vars)
    BY StepRefines
  <1>3. QED
    BY <1>1, <1>2, InvAlways, PTL DEF Spec, ImplementsRegistry, Registry!Spec
=============================================================================
