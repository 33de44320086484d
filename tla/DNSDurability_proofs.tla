------------------------- MODULE DNSDurability_proofs -------------------------
(***************************************************************************)
(* What DNSControl keeps whatever fails: the promises about stored data    *)
(* that hold even when a write of state.json, of the include or of a zone  *)
(* file is reported as failed after its rename (LateWrites), so that the   *)
(* memory of the process and the state file go different ways.  They hold  *)
(* for every set of zones and record sets and any number of failures,      *)
(* crashes and restarts of Knot.                                           *)
(***************************************************************************)
EXTENDS DNSControl_proofs

-----------------------------------------------------------------------------
\* The invariant.

\* The include, the zone file, Knot and the key store are as they may be for a
\* zone that stands in state s as it does.  Of a zone that is being created
\* nothing is known: its file may belong to a request that was forgotten.
Fits(s, z) ==
    LET c == s.zones[z]
        t == s.pending[z]
        d == t.desired
    IN  /\ c # None => c.records \notin Rejected
        /\ t # None => t.previous = c
        /\ t = None /\ c = None => z \notin conf /\ served[z] = None /\ z \notin kasp
        /\ t = None /\ c # None =>
              z \in conf /\ served[z] = c.records /\ file[z] = c.records
        /\ t # None /\ c = None => d # None /\ d.records \notin Rejected
        /\ t # None /\ c # None /\ d # None =>
              /\ d.revision > c.revision /\ z \in conf
              /\ served[z] \in {c.records, d.records} /\ file[z] \in {c.records, d.records}
        /\ t # None /\ c # None /\ d = None =>
              /\ served[z] \in {None, c.records}
              /\ z \in conf => file[z] = c.records

\* The memory is as the state file at a zone, or one write behind: it has not
\* seen the entry of a transition, or that one was carried out.
Recalls(z) ==
    \/ mem.zones[z] = disk.zones[z] /\ mem.pending[z] = disk.pending[z]
    \/ mem.zones[z] = disk.zones[z] /\ mem.pending[z] = None /\ disk.pending[z] # None
    \/ /\ mem.pending[z] # None /\ disk.pending[z] = None
       /\ disk.zones[z] = mem.pending[z].desired

OnePending(s) == \A y, z \in Zone : s.pending[y] # None /\ s.pending[z] # None => y = z

\* Both of what a restart and what the running process would go on from fit.
Fitting ==
    /\ \A z \in Zone : Fits(disk, z)
    /\ OneInFlight
    /\ pc # "down" => /\ \A z \in Zone : Fits(mem, z) /\ Recalls(z)
                      /\ OnePending(mem)

\* What the steps taken so far have achieved, beyond Progress: the zone file of
\* a creation is the one that was checked, and the purged keys stay away.
Reached ==
    LET t == mem.pending[target]
        c == mem.zones[target]
    IN  /\ Carrying /\ pc = "check" => file[target] = t.desired.records
        /\ Carrying /\ pc \in {"reload", "sign"} /\ c = None =>
              file[target] = t.desired.records
        /\ pc \in {"unlink", "save"} /\ t.desired = None => target \notin kasp

BaseInv == TypeInv /\ Fitting /\ Progress /\ Reached

LEMMA InitBaseInv == Init => BaseInv
  <1> SUFFICES ASSUME Init PROVE BaseInv
    OBVIOUS
  <1>1. TypeInv
    BY InitTypeInv
  <1>2. Fitting
    BY NoneIsNoValue DEF Init, Fitting, Fits, OneInFlight, EmptyState
  <1>3. Progress /\ Reached
    BY DEF Init, Progress, Reached, Unstaged, Carrying, Working, NoOp
  <1>4. QED
    BY <1>1, <1>2, <1>3 DEF BaseInv

-----------------------------------------------------------------------------
\* Facts used by several steps.

\* The records of a value are not None.
LEMMA RecordsNotNone == ASSUME NEW v \in Value PROVE v.records # None /\ v # None
  BY ValueRecords, NoneIsNoValue

\* A step goes on to its label after a success, or leaves a quiet process.
LEMMA StepOutcome ==
    ASSUME NEW o, NEW label, FlowTyped, Step(o, label)
    PROVE  \/ o = "ok" /\ Goto(label)
           \/ Quiet'
  BY RaiseQuiet DEF Step

\* What is known where a journaled transition is carried out.
LEMMA InMemory ==
    ASSUME BaseInv, Carrying
    PROVE  /\ target \in Zone /\ pc # "down"
           /\ Current = mem.pending[target] /\ Current # None
           /\ Current.previous = mem.zones[target]
           /\ Current.desired \in Value \cup {None}
           /\ mem.zones[target] \in Value \cup {None}
           /\ Fits(mem, target) /\ Fits(disk, target)
           /\ \/ disk.zones[target] = mem.zones[target] /\ disk.pending[target] = Current
              \/ disk.zones[target] = Current.desired /\ disk.pending[target] = None
           /\ \A z \in Zone \ {target} : mem.pending[z] = None
  <1>1. pc \in Working /\ pc # "down"
    BY DEF Carrying, Working
  <1>2. target \in Zone
    BY <1>1, TargetIsZone DEF BaseInv, TypeInv, FlowInv
  <1>3. Current = mem.pending[target] /\ Current # None
    BY <1>2 DEF Current, BaseInv, TypeInv, FlowInv, TargetConsistent
  <1>4. Current.desired \in Value \cup {None} /\ mem.zones[target] \in Value \cup {None}
    BY <1>2, <1>3, StateParts, TransitionParts DEF BaseInv, TypeInv, FlowInv, FlowTyped
  <1>5. Fits(mem, target) /\ Fits(disk, target) /\ Recalls(target) /\ OnePending(mem)
    BY <1>1, <1>2 DEF BaseInv, Fitting
  <1>6. Current.previous = mem.zones[target]
    BY <1>3, <1>5 DEF Fits
  <1>7. QED
    BY <1>1, <1>2, <1>3, <1>4, <1>5, <1>6 DEF Recalls, OnePending

\* An exception keeps the memory, or ends the process.
LEMMA RaiseMemory == ASSUME Raise PROVE UNCHANGED mem \/ pc' = "down"
  BY DEF Raise, Die, Finish

LEMMA StepMemory == ASSUME NEW o, NEW label, Step(o, label) PROVE UNCHANGED mem \/ pc' = "down"
  BY RaiseMemory DEF Step, Goto

LEMMA StepOrAbortMemory == ASSUME NEW o, NEW label, StepOrAbort(o, label) PROVE UNCHANGED mem
  BY DEF StepOrAbort, Goto

\* The memory of a running process stays, or the process is gone after the step.
KeepsMemory == (UNCHANGED mem /\ pc # "down") \/ pc' = "down"

\* Data that does not change goes on fitting.
LEMMA FittingUnchanged ==
    ASSUME Fitting, UNCHANGED <<disk, conf, file, served>>, kasp' \subseteq kasp, KeepsMemory
    PROVE  Fitting'
  <1>1. ASSUME NEW z \in Zone PROVE Fits(disk, z)'
    BY <1>1 DEF Fitting, Fits
  <1>2. ASSUME NEW z \in Zone, pc' # "down" PROVE Fits(mem, z)' /\ Recalls(z)'
    BY <1>2 DEF Fitting, Fits, Recalls, KeepsMemory
  <1>3. pc' # "down" => OnePending(mem)'
    BY DEF Fitting, OnePending, KeepsMemory
  <1>4. QED
    BY <1>1, <1>2, <1>3 DEF Fitting, OneInFlight

\* Data that changes at one zone fits if it fits there.
LEMMA FittingAt ==
    ASSUME Fitting, NEW y \in Zone, UNCHANGED disk, KeepsMemory,
           \A z \in Zone \ {y} :
              /\ z \in conf' <=> z \in conf
              /\ z \in kasp' <=> z \in kasp
              /\ file'[z] = file[z] /\ served'[z] = served[z],
           Fits(disk, y)', pc' # "down" => Fits(mem, y)'
    PROVE  Fitting'
  <1>1. ASSUME NEW z \in Zone PROVE Fits(disk, z)'
    BY <1>1 DEF Fitting, Fits
  <1>2. ASSUME NEW z \in Zone, pc' # "down" PROVE Fits(mem, z)' /\ Recalls(z)'
    BY <1>2 DEF Fitting, Fits, Recalls, KeepsMemory
  <1>3. pc' # "down" => OnePending(mem)'
    BY DEF Fitting, OnePending, KeepsMemory
  <1>4. QED
    BY <1>1, <1>2, <1>3 DEF Fitting, OneInFlight

-----------------------------------------------------------------------------
\* The steps that change stored data keep it fitting.

\* Whatever Knot loads, from the include and the zone files, fits.
LEMMA LoadFitting ==
    ASSUME BaseInv, LoadAll, UNCHANGED <<disk, conf, file>>,
           KeepsMemory \/ UNCHANGED <<mem, pc>>
    PROVE  Fitting'
  <1>1. ASSUME NEW z \in Zone
        PROVE  /\ served'[z] = Loaded(z)
               /\ z \in kasp' <=> z \in kasp \/ Loaded(z) # None
    BY <1>1 DEF LoadAll
  <1>2. ASSUME NEW z \in Zone PROVE Fits(disk, z)'
    <2>1. Fits(disk, z) /\ disk.zones[z] \in Value \cup {None}
      BY <1>2, StateParts DEF BaseInv, Fitting, TypeInv, DataTyped
    <2>2. QED
      BY <1>1, <1>2, <2>1, RecordsNotNone DEF Fits, Loaded
  <1>3. ASSUME NEW z \in Zone, pc' # "down" PROVE Fits(mem, z)' /\ Recalls(z)'
    <2>1. /\ UNCHANGED mem /\ Fits(mem, z) /\ Recalls(z)
          /\ mem.zones[z] \in Value \cup {None}
      BY <1>3, StateParts DEF BaseInv, Fitting, TypeInv, FlowInv, FlowTyped, KeepsMemory
    <2>2. Fits(mem, z)'
      BY <1>1, <1>3, <2>1, RecordsNotNone DEF Fits, Loaded
    <2>3. QED
      BY <2>1, <2>2 DEF Recalls
  <1>4. pc' # "down" => OnePending(mem)'
    BY DEF BaseInv, Fitting, OnePending, KeepsMemory
  <1>5. QED
    BY <1>2, <1>3, <1>4 DEF Fitting, OneInFlight, BaseInv

\* The include, rendered or not, fits even if the memory is a write behind.
LEMMA ConfigFitting ==
    ASSUME BaseInv, NEW o, WriteConfig(o), pc # "down", UNCHANGED <<disk, file, served, kasp>>,
           KeepsMemory
    PROVE  Fitting'
  <1>1. CASE conf' = conf
    BY <1>1, FittingUnchanged DEF BaseInv
  <1>2. CASE conf' = Members(mem)
    <2>1. ASSUME NEW z \in Zone
          PROVE  /\ z \in conf' <=> Intended(mem, z) # None
                 /\ Fits(disk, z) /\ Fits(mem, z) /\ Recalls(z)
      BY <1>2, <2>1 DEF Members, BaseInv, Fitting
    <2>2. ASSUME NEW z \in Zone PROVE Fits(disk, z)'
      BY <2>1, <2>2 DEF Fits, Recalls, Intended
    <2>3. ASSUME NEW z \in Zone, pc' # "down" PROVE Fits(mem, z)' /\ Recalls(z)'
      BY <2>1, <2>3 DEF Fits, Recalls, Intended, KeepsMemory
    <2>4. pc' # "down" => OnePending(mem)'
      BY DEF BaseInv, Fitting, OnePending, KeepsMemory
    <2>5. QED
      BY <2>2, <2>3, <2>4 DEF Fitting, OneInFlight, BaseInv
  <1>3. QED
    BY <1>1, <1>2 DEF WriteConfig

\* Journaling a transition replaces whatever the process had forgotten.
LEMMA StageFitting == ASSUME BaseInv, Stage PROVE Fitting'
  <1>0. target \in Zone
    BY TargetIsZone DEF Stage, Working, BaseInv, TypeInv, FlowInv
  <1> PICK y \in Zone : y = target
    BY <1>0
  <1> DEFINE c == mem.zones[y]
             d == op.value
             entry == [previous |-> c, desired |-> d]
  <1>1. /\ d \in Value \cup {None} /\ c \in Value \cup {None} /\ mem \in State /\ pc # "down"
        /\ UNCHANGED <<conf, file, served, kasp>>
    BY OperationParts, StateParts
       DEF Stage, knotVars, BaseInv, TypeInv, FlowInv, FlowTyped
  <1>2. /\ Unstaged /\ op.kind \in {"put", "delete"}
        /\ \A z \in Zone : mem.pending[z] = None
    BY DEF Stage, Unstaged, TargetConsistent, BaseInv, TypeInv, FlowInv
  <1>3. ASSUME NEW z \in Zone PROVE Fits(mem, z) /\ Recalls(z)
    BY <1>1, <1>3 DEF BaseInv, Fitting
  <1>4. CASE UNCHANGED disk /\ KeepsMemory
    BY <1>1, <1>4, FittingUnchanged DEF BaseInv
  <1>5. CASE disk' = Staged(mem, target, op.value)
    <2>1. disk'.zones = mem.zones /\ disk'.pending = [mem.pending EXCEPT ![y] = entry]
      BY <1>1, <1>5, StagedState
    <2>2. entry # None /\ entry.previous = c /\ entry.desired = d
      <3>1. entry \in Transition
        BY <1>1 DEF Transition
      <3>2. QED
        BY <3>1, NoneIsNoValue
    <2>3. /\ disk'.zones[y] = c /\ disk'.pending[y] = entry
          /\ \A z \in Zone \ {y} : disk'.pending[z] = None
      BY <1>1, <1>2, <2>1 DEF State
    <2>4. Fits(disk, y)'
      <3>1. CASE c = None
        <4>1. d # None /\ d.records \notin Rejected
          BY <1>1, <1>2, <3>1, NoneIsNoValue
             DEF Stage, Progress, BaseInv, TypeInv, FlowInv, RequestConsistent
        <4>2. QED
          BY <1>1, <2>2, <2>3, <3>1, <4>1 DEF Fits
      <3>2. CASE c # None
        <4>1. d # None => d.revision > c.revision
          BY <1>1, <1>2, <3>2
             DEF Stage, Progress, BaseInv, TypeInv, FlowInv, RequestConsistent
        <4>2. /\ c.records \notin Rejected /\ y \in conf
              /\ served[y] = c.records /\ file[y] = c.records
          BY <1>2, <1>3, <3>2 DEF Fits
        <4>3. QED
          BY <1>1, <2>2, <2>3, <3>2, <4>1, <4>2 DEF Fits
      <3>3. QED
        BY <3>1, <3>2
    <2>5. ASSUME NEW z \in Zone \ {y} PROVE Fits(disk, z)'
      BY <1>1, <1>2, <1>3, <2>1, <2>3, <2>5 DEF Fits
    <2>6. OneInFlight'
      BY <2>3 DEF OneInFlight
    <2>7. CASE mem' = disk'
      <3>1. ASSUME NEW z \in Zone PROVE Fits(mem, z)' /\ Recalls(z)'
        BY <2>4, <2>5, <2>7, <3>1 DEF Fits, Recalls
      <3>2. OnePending(mem)'
        BY <2>6, <2>7 DEF OneInFlight, OnePending
      <3>3. QED
        BY <2>4, <2>5, <2>6, <3>1, <3>2 DEF Fitting
    <2>8. CASE KeepsMemory
      <3>1. ASSUME NEW z \in Zone, pc' # "down" PROVE Fits(mem, z)' /\ Recalls(z)'
        BY <1>1, <1>2, <1>3, <2>1, <2>2, <2>3, <2>8, <3>1 DEF Fits, Recalls, KeepsMemory
      <3>2. pc' # "down" => OnePending(mem)'
        BY <1>2, <2>8 DEF OnePending, KeepsMemory
      <3>3. QED
        BY <2>4, <2>5, <2>6, <3>1, <3>2 DEF Fitting
    <2>9. QED
      BY <1>1, <1>5, <2>7, <2>8, RaiseMemory DEF Stage, KeepsMemory
  <1>6. QED
    BY <1>1, <1>4, <1>5, RaiseMemory DEF Stage, Effective, KeepsMemory

\* Carrying out a transition and taking it off the journal.
LEMMA SaveFitting == ASSUME BaseInv, Save PROVE Fitting'
  <1>0. Carrying
    BY DEF Save, Carrying, Unstaged, Working
  <1> PICK y \in Zone : y = target
    BY <1>0, InMemory
  <1> DEFINE d == Current.desired
  <1>1. /\ mem \in State /\ Fits(mem, y) /\ pc # "down"
        /\ d = mem.pending[y].desired /\ d \in Value \cup {None} /\ mem.pending[y] # None
        /\ \A z \in Zone \ {y} : mem.pending[z] = None
        /\ UNCHANGED <<conf, file, served, kasp>>
    BY <1>0, InMemory DEF Save, knotVars, BaseInv, TypeInv, FlowInv, FlowTyped
  <1>2. ASSUME NEW z \in Zone PROVE Fits(mem, z) /\ Recalls(z)
    BY <1>1, <1>2 DEF BaseInv, Fitting
  <1>3. CASE UNCHANGED disk /\ KeepsMemory
    BY <1>1, <1>3, FittingUnchanged DEF BaseInv
  <1>4. CASE disk' = Committed(mem, target)
    <2>1. /\ disk'.zones = [mem.zones EXCEPT ![y] = d]
          /\ disk'.pending = [mem.pending EXCEPT ![y] = None]
      BY <1>1, <1>4, CommittedState
    <2>2. /\ disk'.zones[y] = d /\ disk'.pending[y] = None
          /\ \A z \in Zone \ {y} :
                disk'.zones[z] = mem.zones[z] /\ disk'.pending[z] = None
      BY <1>1, <2>1 DEF State
    <2>3. /\ y \in conf <=> d # None
          /\ served[y] = RecordsOf(d)
          /\ d # None => d.records \notin Rejected /\ file[y] = d.records
          /\ d = None => y \notin kasp
      BY <1>0 DEF Save, Progress, Reached, BaseInv, Current
    <2>4. Fits(disk, y)'
      BY <1>1, <2>2, <2>3 DEF Fits, RecordsOf
    <2>5. ASSUME NEW z \in Zone \ {y} PROVE Fits(disk, z)'
      BY <1>1, <1>2, <2>2, <2>5 DEF Fits
    <2>6. OneInFlight'
      BY <2>2 DEF OneInFlight
    <2>7. CASE mem' = disk'
      <3>1. ASSUME NEW z \in Zone PROVE Fits(mem, z)' /\ Recalls(z)'
        BY <2>4, <2>5, <2>7, <3>1 DEF Fits, Recalls
      <3>2. OnePending(mem)'
        BY <2>6, <2>7 DEF OneInFlight, OnePending
      <3>3. QED
        BY <2>4, <2>5, <2>6, <3>1, <3>2 DEF Fitting
    <2>8. CASE KeepsMemory
      <3>1. ASSUME NEW z \in Zone, pc' # "down" PROVE Fits(mem, z)' /\ Recalls(z)'
        BY <1>1, <1>2, <2>2, <2>8, <3>1 DEF Fits, Recalls, KeepsMemory
      <3>2. pc' # "down" => OnePending(mem)'
        BY <1>1, <2>8 DEF OnePending, KeepsMemory
      <3>3. QED
        BY <2>4, <2>5, <2>6, <3>1, <3>2 DEF Fitting
    <2>9. QED
      BY <1>1, <1>4, <2>7, <2>8, RaiseMemory DEF Save, KeepsMemory
  <1>5. QED
    BY <1>1, <1>3, <1>4, RaiseMemory DEF Save, Effective, KeepsMemory

\* Writing the zone file of a zone that is not there yet.
LEMMA WriteZonefileFitting == ASSUME BaseInv, WriteZonefile PROVE Fitting'
  <1>0. target \in Zone /\ pc # "down"
    BY TargetIsZone DEF WriteZonefile, Working, BaseInv, TypeInv, FlowInv
  <1> PICK y \in Zone : y = target
    BY <1>0
  <1>1. UNCHANGED <<disk, conf, served, kasp>> /\ KeepsMemory
    BY <1>0, StepMemory DEF WriteZonefile, knotVars, KeepsMemory
  <1>2. Fits(disk, y) /\ Fits(mem, y) /\ Recalls(y)
    BY <1>0 DEF BaseInv, Fitting
  <1>3. /\ mem.zones[y] = None /\ Current = mem.pending[y]
        /\ Current # None => Current.desired # None
    BY DEF WriteZonefile, Progress, BaseInv, TypeInv, FlowInv, TargetConsistent, Unstaged,
           Carrying, Working, Current
  <1>4. CASE UNCHANGED file
    BY <1>1, <1>4, FittingUnchanged DEF BaseInv
  <1>5. CASE file' = [file EXCEPT ![y] =
                        (IF Current = None THEN op.value ELSE Current.desired).records]
    <2>1. \A z \in Zone \ {y} : file'[z] = file[z]
      BY <1>5 DEF BaseInv, TypeInv, DataTyped
    <2>2. Current # None => file'[y] = Current.desired.records
      BY <1>5 DEF BaseInv, TypeInv, DataTyped
    <2>3. Fits(disk, y)'
      BY <1>1, <1>2, <1>3, <2>2 DEF Fits, Recalls
    <2>4. pc' # "down" => Fits(mem, y)'
      BY <1>1, <1>2, <1>3 DEF Fits, KeepsMemory
    <2>5. QED
      BY <1>1, <2>1, <2>3, <2>4, FittingAt DEF BaseInv
  <1>6. QED
    BY <1>4, <1>5 DEF WriteZonefile

\* Committing the transaction.
LEMMA ZoneCommitFitting == ASSUME BaseInv, ZoneCommit PROVE Fitting'
  <1>0. Carrying
    BY DEF ZoneCommit, Carrying, Unstaged, Working
  <1> PICK y \in Zone : y = target
    BY <1>0, InMemory
  <1>1. /\ Fits(mem, y) /\ Fits(disk, y) /\ pc # "down"
        /\ Current = mem.pending[y] /\ Current # None /\ Current.previous = mem.zones[y]
        /\ \/ disk.zones[y] = mem.zones[y] /\ disk.pending[y] = Current
           \/ disk.zones[y] = Current.desired /\ disk.pending[y] = None
        /\ UNCHANGED <<disk, conf, file, kasp>>
    BY <1>0, InMemory DEF ZoneCommit, diskVars
  <1>2. KeepsMemory
    BY <1>1, StepOrAbortMemory DEF ZoneCommit, KeepsMemory
  <1>3. Current.previous # None /\ Current.desired # None /\ txn[y] = Current.desired.records
    BY DEF ZoneCommit, BaseInv, TypeInv, FlowInv, TargetConsistent, Progress, Current
  <1>4. CASE UNCHANGED served
    BY <1>1, <1>2, <1>4, FittingUnchanged DEF BaseInv
  <1>5. CASE served' = [served EXCEPT ![target] = txn[target]]
    <2>1. served'[y] = Current.desired.records /\ \A z \in Zone \ {y} : served'[z] = served[z]
      BY <1>3, <1>5 DEF BaseInv, TypeInv, DataTyped
    <2>2. Fits(disk, y)'
      BY <1>1, <1>3, <2>1 DEF Fits
    <2>3. pc' # "down" => Fits(mem, y)'
      BY <1>1, <1>2, <1>3, <2>1 DEF Fits, KeepsMemory
    <2>4. QED
      BY <1>1, <1>2, <2>1, <2>2, <2>3, FittingAt DEF BaseInv
  <1>6. QED
    BY <1>4, <1>5 DEF ZoneCommit

\* Writing the zone file of an updated zone.
LEMMA ZoneFlushFitting == ASSUME BaseInv, ZoneFlush PROVE Fitting'
  <1>0. Carrying
    BY DEF ZoneFlush, Carrying, Unstaged, Working
  <1> PICK y \in Zone : y = target
    BY <1>0, InMemory
  <1>1. /\ Fits(mem, y) /\ Fits(disk, y) /\ pc # "down"
        /\ Current = mem.pending[y] /\ Current # None /\ Current.previous = mem.zones[y]
        /\ \/ disk.zones[y] = mem.zones[y] /\ disk.pending[y] = Current
           \/ disk.zones[y] = Current.desired /\ disk.pending[y] = None
        /\ UNCHANGED <<disk, conf, served, kasp>>
    BY <1>0, InMemory DEF ZoneFlush, knotVars
  <1>2. KeepsMemory
    BY <1>1, StepMemory DEF ZoneFlush, KeepsMemory
  <1>3. /\ Current.previous # None /\ Current.desired # None
        /\ served[y] = Current.desired.records
    BY DEF ZoneFlush, BaseInv, TypeInv, FlowInv, TargetConsistent, Progress, Current
  <1>4. CASE UNCHANGED file
    BY <1>1, <1>2, <1>4, FittingUnchanged DEF BaseInv
  <1>5. CASE file' = [file EXCEPT ![target] = served[target]]
    <2>1. file'[y] = served[y] /\ \A z \in Zone \ {y} : file'[z] = file[z]
      BY <1>5 DEF BaseInv, TypeInv, DataTyped
    <2>2. Fits(disk, y)'
      BY <1>1, <1>3, <2>1 DEF Fits
    <2>3. pc' # "down" => Fits(mem, y)'
      BY <1>1, <1>2, <1>3, <2>1 DEF Fits, KeepsMemory
    <2>4. QED
      BY <1>1, <1>2, <2>1, <2>2, <2>3, FittingAt DEF BaseInv
  <1>6. QED
    BY <1>4, <1>5 DEF ZoneFlush

\* Removing the zone file of a deleted zone.
LEMMA UnlinkFitting == ASSUME BaseInv, UnlinkZonefile PROVE Fitting'
  <1>0. Carrying
    BY DEF UnlinkZonefile, Carrying, Unstaged, Working
  <1> PICK y \in Zone : y = target
    BY <1>0, InMemory
  <1>1. /\ Fits(mem, y) /\ Fits(disk, y) /\ pc # "down"
        /\ Current = mem.pending[y] /\ Current # None
        /\ \/ disk.zones[y] = mem.zones[y] /\ disk.pending[y] = Current
           \/ disk.zones[y] = Current.desired /\ disk.pending[y] = None
        /\ UNCHANGED <<disk, conf, served, kasp>>
    BY <1>0, InMemory DEF UnlinkZonefile, knotVars
  <1>2. KeepsMemory
    BY <1>1, StepMemory DEF UnlinkZonefile, KeepsMemory
  <1>3. Current.desired = None /\ y \notin conf
    BY <1>0 DEF UnlinkZonefile, Progress, BaseInv, Current
  <1>4. CASE UNCHANGED file
    BY <1>1, <1>2, <1>4, FittingUnchanged DEF BaseInv
  <1>5. CASE file' = [file EXCEPT ![target] = None]
    <2>1. \A z \in Zone \ {y} : file'[z] = file[z]
      BY <1>5 DEF BaseInv, TypeInv, DataTyped
    <2>2. Fits(disk, y)'
      BY <1>1, <1>3 DEF Fits
    <2>3. pc' # "down" => Fits(mem, y)'
      BY <1>1, <1>2, <1>3 DEF Fits, KeepsMemory
    <2>4. QED
      BY <1>1, <1>2, <2>1, <2>2, <2>3, FittingAt DEF BaseInv
  <1>6. QED
    BY <1>4, <1>5 DEF UnlinkZonefile

\* No step leaves stored data that its journal does not explain.
LEMMA NextFitting == ASSUME BaseInv, [Next]_vars PROVE Fitting'
  <1> USE DEF diskVars, knotVars, procVars
  <1>0. Fitting
    BY DEF BaseInv
  <1>1. CASE Start
    <2>1. UNCHANGED <<disk, conf, file, served, kasp>> /\ mem' = disk
      BY <1>1 DEF Start
    <2>2. ASSUME NEW z \in Zone PROVE Fits(disk, z)' /\ Fits(mem, z)' /\ Recalls(z)'
      BY <1>0, <2>1, <2>2 DEF Fitting, Fits, Recalls
    <2>3. OneInFlight' /\ OnePending(mem)'
      BY <1>0, <2>1 DEF Fitting, OneInFlight, OnePending
    <2>4. QED
      BY <2>2, <2>3 DEF Fitting
  <1>2. CASE AnyRequest
    BY <1>0, <1>2, FittingUnchanged DEF AnyRequest, Request, KeepsMemory
  <1>3. ASSUME NEW z \in Zone, RecoverNext(z) PROVE Fitting'
    BY <1>0, <1>3, FittingUnchanged DEF RecoverNext, KeepsMemory
  <1>4. CASE RecoverDone
    <2>1. UNCHANGED mem /\ pc # "down"
      BY <1>4 DEF RecoverDone, Finish, Goto
    <2>2. QED
      BY <1>0, <1>4, <2>1, FittingUnchanged DEF RecoverDone, KeepsMemory
  <1>5. CASE AnswerConflict
    BY <1>0, <1>5, FittingUnchanged DEF AnswerConflict, Finish, KeepsMemory
  <1>6. CASE AnswerUnchanged
    BY <1>0, <1>6, FittingUnchanged DEF AnswerUnchanged, Finish, KeepsMemory
  <1>7. CASE Accept
    BY <1>0, <1>7, FittingUnchanged DEF Accept, KeepsMemory
  <1>8. CASE Stage
    BY <1>8, StageFitting
  <1>9. CASE BootConfig
    BY <1>9, ConfigFitting, StepMemory DEF BootConfig, KeepsMemory
  <1>10. CASE StagedConfig
    BY <1>10, ConfigFitting, StepMemory DEF StagedConfig, KeepsMemory
  <1>11. CASE RecoverConfig
    BY <1>11, ConfigFitting, StepMemory DEF RecoverConfig, KeepsMemory
  <1>12. CASE Save
    BY <1>12, SaveFitting
  <1>13. CASE FinalConfig
    <2>1. KeepsMemory /\ pc # "down"
      BY <1>13, RaiseMemory DEF FinalConfig, Finish, KeepsMemory
    <2>2. QED
      BY <1>13, <2>1, ConfigFitting DEF FinalConfig
  <1>14. CASE WriteZonefile
    BY <1>14, WriteZonefileFitting
  <1>15. CASE CheckZonefile
    BY <1>0, <1>15, FittingUnchanged, StepMemory, RaiseMemory DEF CheckZonefile, KeepsMemory
  <1>16. CASE Reload
    <2>1. KeepsMemory
      BY <1>16, StepMemory DEF Reload, KeepsMemory
    <2>2. UNCHANGED <<disk, conf, file>> /\ (LoadAll \/ UNCHANGED <<served, kasp>>)
      BY <1>16, Zenon DEF Reload
    <2>3. QED
      BY <1>0, <2>1, <2>2, LoadFitting, FittingUnchanged
  <1>17. CASE ZoneSign
    BY <1>0, <1>17, FittingUnchanged, StepMemory DEF ZoneSign, KeepsMemory
  <1>18. CASE ZoneBegin
    BY <1>0, <1>18, FittingUnchanged, StepMemory, RaiseMemory DEF ZoneBegin, KeepsMemory
  <1>19. CASE ZoneUnset
    BY <1>0, <1>19, FittingUnchanged, StepOrAbortMemory DEF ZoneUnset, KeepsMemory
  <1>20. CASE ZoneSet
    BY <1>0, <1>20, FittingUnchanged, StepOrAbortMemory DEF ZoneSet, Goto, KeepsMemory
  <1>21. CASE ZoneCommit
    BY <1>21, ZoneCommitFitting
  <1>22. CASE ZoneAbort
    BY <1>0, <1>22, FittingUnchanged, RaiseMemory DEF ZoneAbort, KeepsMemory
  <1>23. CASE ZoneFlush
    BY <1>23, ZoneFlushFitting
  <1>24. CASE ZonePurge
    <2>1. KeepsMemory /\ kasp' \subseteq kasp
      BY <1>24, StepMemory DEF ZonePurge, KeepsMemory
    <2>2. QED
      BY <1>0, <1>24, <2>1, FittingUnchanged DEF ZonePurge
  <1>25. CASE UnlinkZonefile
    BY <1>25, UnlinkFitting
  <1>26. CASE Crash
    BY <1>0, <1>26, FittingUnchanged DEF Crash, Die, KeepsMemory
  <1>27. CASE KnotRestart
    <2>1. KeepsMemory \/ UNCHANGED <<mem, pc>>
      BY <1>27, RaiseMemory DEF KnotRestart, Goto, KeepsMemory
    <2>2. QED
      BY <1>27, <2>1, LoadFitting DEF KnotRestart, KnotStarts
  <1>28. CASE OperatorRestart
    BY <1>28, LoadFitting DEF OperatorRestart, KnotStarts, Die, KeepsMemory
  <1>29. CASE Backup \/ UNCHANGED vars
    <2>1. UNCHANGED <<disk, conf, file, served, kasp, mem, pc>>
      BY <1>29 DEF Backup, BackupLock, BackupZones, BackupState, BackupEnd, vars
    <2>2. CASE pc # "down"
      BY <1>0, <2>1, <2>2, FittingUnchanged DEF KeepsMemory
    <2>3. CASE pc = "down"
      BY <1>0, <2>1, <2>3, FittingUnchanged DEF KeepsMemory
    <2>4. QED
      BY <2>2, <2>3
  <1>30. QED
    BY <1>1, <1>2, <1>3, <1>4, <1>5, <1>6, <1>7, <1>8, <1>9, <1>10, <1>11,
       <1>12, <1>13, <1>14, <1>15, <1>16, <1>17, <1>18, <1>19, <1>20, <1>21, <1>22,
       <1>23, <1>24, <1>25, <1>26, <1>27, <1>28, <1>29
    DEF Next, Handle

-----------------------------------------------------------------------------
\* The steps achieve what is said of them.

\* A quiet process claims nothing.
LEMMA QuietProgress == Quiet' => Progress'
  BY DEF Quiet, NoOp, Progress, Unstaged, Carrying, Working

\* An exception leaves a quiet process, which claims nothing.
LEMMA RaiseProgress == ASSUME BaseInv, Raise PROVE Progress'
  BY RaiseQuiet, QuietProgress DEF BaseInv, TypeInv, FlowInv

\* What has been achieved stays so while nothing it speaks of changes.
LEMMA ProgressUnchanged ==
    ASSUME BaseInv, UNCHANGED <<mem, pc, op, target, conf, file, served, txn>>
    PROVE  Progress'
  BY DEF BaseInv, Progress, Unstaged, Carrying

\* An error inside the transaction claims only what the include claims.
LEMMA AbortProgress ==
    ASSUME BaseInv, pc \in {"unset", "set", "commit", "abort"}, Goto("abort"), UNCHANGED conf
    PROVE  Progress'
  BY DEF Goto, BaseInv, Progress, Unstaged, Carrying, Working

\* Every step achieves for the zone in hand what the next one counts on.
LEMMA NextProgress == ASSUME BaseInv, [Next]_vars PROVE Progress'
  <1> USE DEF diskVars, knotVars
  <1>0. /\ TypeInv /\ FlowTyped /\ RequestConsistent /\ TargetConsistent /\ Progress
        /\ Reached
    BY DEF BaseInv, TypeInv, FlowInv
  <1>1. CASE Start
    BY <1>1 DEF Start, NoOp, Progress, Unstaged, Carrying, Working
  <1>2. CASE AnyRequest
    BY <1>0, <1>2 DEF AnyRequest, Request, FlowTyped, Progress, Unstaged, Carrying, Working
  <1>3. ASSUME NEW z \in Zone, RecoverNext(z) PROVE Progress'
    BY <1>0, <1>3 DEF RecoverNext, RequestConsistent, Progress, Unstaged, Carrying, Working
  <1>4. CASE RecoverDone
    <2>1. CASE op.kind \in {"start", "read"}
      <3>1. Quiet'
        BY <1>4, <2>1 DEF RecoverDone, Finish, Quiet
      <3>2. QED
        BY <3>1, QuietProgress
    <2>2. CASE op.kind \notin {"start", "read"}
      <3>1. Goto("decide")
        BY <1>4, <2>2, Zenon DEF RecoverDone
      <3>2. QED
        BY <3>1 DEF Goto, Progress, Unstaged, Carrying, Working
    <2>3. QED
      BY <2>1, <2>2
  <1>5. CASE AnswerConflict
    BY <1>5, QuietProgress DEF AnswerConflict, Finish, Quiet
  <1>6. CASE AnswerUnchanged
    BY <1>6, QuietProgress DEF AnswerUnchanged, Finish, Quiet
  <1>7. CASE Accept
    BY <1>0, <1>7 DEF Accept, RequestConsistent, Progress, Unstaged, Carrying, Working
  <1>8. CASE Stage
    <2>1. target \in Zone /\ op.value \in Value \cup {None} /\ ~op.staged
      BY <1>0, <1>8, TargetIsZone, OperationParts
         DEF Stage, RequestConsistent, Working, FlowTyped
    <2>2. CASE /\ mem' = Staged(mem, target, op.value) /\ pc' = "stagedConfig"
               /\ op' = [op EXCEPT !.staged = TRUE] /\ UNCHANGED <<target, lock, faults>>
      <3>1. mem'.pending = [mem.pending EXCEPT
                               ![target] = [previous |-> mem.zones[target], desired |-> op.value]]
        BY <1>0, <2>1, <2>2, StagedState DEF FlowTyped
      <3>2. mem.pending \in [Zone -> Transition \cup {None}]
        BY <1>0 DEF FlowTyped, State
      <3>3. mem'.pending[target].desired = op.value
        BY <2>1, <3>1, <3>2
      <3>4. op'.value = op.value
        BY <1>0, <2>2 DEF FlowTyped, Operation
      <3>5. QED
        BY <2>2, <3>3, <3>4 DEF Progress, Unstaged, Carrying, Working
    <2>3. CASE Raise
      BY <2>3, RaiseProgress
    <2>4. QED
      BY <1>8, <2>2, <2>3 DEF Stage
  <1>9. CASE BootConfig
    <2>1. Quiet' \/ \E o \in Outcome : o = "ok" /\ Goto("recover")
      BY <1>0, <1>9, StepOutcome DEF BootConfig, Outcome, WriteOutcome
    <2>2. CASE Quiet'
      BY <2>2, QuietProgress
    <2>3. CASE Goto("recover")
      BY <2>3 DEF Goto, Progress, Unstaged, Carrying, Working
    <2>4. QED
      BY <2>1, <2>2, <2>3
  <1>10. CASE StagedConfig
    <2>1. Quiet' \/ \E o \in Outcome : o = "ok" /\ Goto("config")
      BY <1>0, <1>10, StepOutcome DEF StagedConfig, Outcome, WriteOutcome
    <2>2. CASE Quiet'
      BY <2>2, QuietProgress
    <2>3. CASE Goto("config")
      BY <1>0, <1>10, <2>3 DEF StagedConfig, Goto, Progress, Unstaged, Carrying, Working
    <2>4. QED
      BY <2>1, <2>2, <2>3
  <1>11. CASE RecoverConfig
    <2> DEFINE label == CASE Current.desired = None -> "reload"
                          [] Current.desired # None /\ Current.previous = None -> "zonefile"
                          [] OTHER -> "begin"
    <2>0. Carrying
      BY <1>11 DEF RecoverConfig, Progress, Unstaged, Carrying, Working
    <2>1. Quiet' \/ (Goto(label) /\ conf' = Members(mem))
      BY <1>0, <1>11, StepOutcome DEF RecoverConfig, Effective, WriteConfig
    <2>2. CASE Quiet'
      BY <2>2, QuietProgress
    <2>3. CASE Goto(label) /\ conf' = Members(mem)
      <3>1. /\ target \in Zone /\ Current = mem.pending[target]
            /\ Current # None /\ Current.previous = mem.zones[target]
        BY <2>0, InMemory
      <3>2. target \in conf' <=> Current.desired # None
        BY <2>3, <3>1 DEF Members, Intended
      <3>3. QED
        BY <1>0, <1>11, <2>0, <2>3, <3>1, <3>2 DEF RecoverConfig, Goto, Current, Progress,
           Unstaged, Carrying, Working
    <2>4. QED
      BY <2>1, <2>2, <2>3
  <1>12. CASE Save
    <2>0. Carrying
      BY <1>12 DEF Save, Progress, Unstaged, Carrying, Working
    <2>1. CASE mem' = Committed(mem, target) /\ pc' = "finalConfig" /\ UNCHANGED <<op, target>>
      <3>1. target \in Zone /\ Current # None /\ Current = mem.pending[target]
        BY <2>0, InMemory
      <3>2. /\ mem'.zones = [mem.zones EXCEPT ![target] = Current.desired]
            /\ mem'.pending = [mem.pending EXCEPT ![target] = None]
        BY <1>0, <2>1, <3>1, CommittedState DEF FlowTyped
      <3>3. mem'.zones[target] = Current.desired /\ mem'.pending[target] = None
        BY <1>0, <3>1, <3>2 DEF FlowTyped, State
      <3>4. QED
        BY <1>0, <2>0, <2>1, <3>1, <3>3 DEF Progress, Unstaged, Carrying, Working
    <2>2. CASE Raise
      BY <2>2, RaiseProgress
    <2>3. QED
      BY <1>12, <2>1, <2>2 DEF Save
  <1>13. CASE FinalConfig
    <2>1. CASE Finish
      BY <2>1, QuietProgress DEF Finish, Quiet
    <2>2. CASE ~op.staged /\ pc' = "recover" /\ target' = None /\ UNCHANGED op
      BY <2>2 DEF Progress, Unstaged, Carrying, Working
    <2>3. CASE Raise
      BY <2>3, RaiseProgress
    <2>4. QED
      BY <1>13, <2>1, <2>2, <2>3 DEF FinalConfig
  <1>14. CASE WriteZonefile
    <2> DEFINE v == IF Current = None THEN op.value ELSE Current.desired
    <2>1. Quiet' \/ (Goto("check") /\ file' = [file EXCEPT ![target] = v.records])
      BY <1>0, <1>14, StepOutcome DEF WriteZonefile, Effective
    <2>2. CASE Quiet'
      BY <2>2, QuietProgress
    <2>3. CASE Goto("check") /\ file' = [file EXCEPT ![target] = v.records]
      <3>1. target \in Zone
        BY <1>0, <1>14, TargetIsZone DEF WriteZonefile, Working
      <3>2. Current = None => file'[target] = op.value.records
        BY <1>0, <2>3, <3>1 DEF TypeInv, DataTyped
      <3>3. QED
        BY <1>0, <1>14, <2>3, <3>2 DEF WriteZonefile, Goto, Current, Progress, Unstaged,
           Carrying, Working
    <2>4. QED
      BY <2>1, <2>2, <2>3
  <1>15. CASE CheckZonefile
    <2> DEFINE label == IF Current = None THEN "stage" ELSE "reload"
    <2>1. Quiet' \/ (Goto(label) /\ file[target] \notin Rejected)
      BY <1>0, <1>15, StepOutcome, RaiseQuiet DEF CheckZonefile
    <2>2. CASE Quiet'
      BY <2>2, QuietProgress
    <2>3. CASE Goto(label) /\ file[target] \notin Rejected
      <3>1. CASE Current = None
        BY <1>0, <1>15, <2>3, <3>1 DEF CheckZonefile, Goto, Current, Progress, Unstaged,
           Carrying, Working
      <3>2. CASE Current # None
        BY <1>0, <1>15, <2>3, <3>2 DEF CheckZonefile, Goto, Current, Progress, Unstaged,
           Carrying, Working
      <3>3. QED
        BY <3>1, <3>2
    <2>4. QED
      BY <2>1, <2>2, <2>3
  <1>16. CASE Reload
    <2> DEFINE label == IF Current.desired = None THEN "purge" ELSE "sign"
    <2>0. Carrying
      BY <1>16 DEF Reload, Progress, Unstaged, Carrying, Working
    <2>1. Quiet' \/ (Goto(label) /\ LoadAll /\ UNCHANGED <<conf, file>>)
      BY <1>0, <1>16, StepOutcome DEF Reload, Effective
    <2>2. CASE Quiet'
      BY <2>2, QuietProgress
    <2>3. CASE Goto(label) /\ LoadAll /\ UNCHANGED <<conf, file>>
      <3>1. /\ target \in Zone /\ Current = mem.pending[target] /\ Current # None
            /\ Current.desired \in Value \cup {None} /\ Fits(mem, target)
        BY <2>0, InMemory
      <3>2. /\ target \in conf <=> Current.desired # None
            /\ mem.zones[target] = None \/ Current.desired = None
        BY <1>0, <1>16, <2>0, <3>1 DEF Reload, Progress
      <3>3. served'[target] = Loaded(target)
        BY <2>3, <3>1 DEF LoadAll
      <3>4. CASE Current.desired = None
        <4>1. served'[target] = None
          BY <3>2, <3>3, <3>4 DEF Loaded
        <4>2. QED
          BY <1>0, <2>0, <2>3, <3>1, <3>2, <3>4, <4>1 DEF Goto, Progress, Unstaged, Carrying,
             Working
      <3>5. CASE Current.desired # None
        <4>1. /\ file[target] = Current.desired.records
              /\ Current.desired.records \notin Rejected \cup {None}
          BY <1>0, <1>16, <2>0, <3>1, <3>2, <3>5, RecordsNotNone DEF Reload, Reached, Fits
        <4>2. served'[target] = Current.desired.records
          BY <3>2, <3>3, <3>5, <4>1 DEF Loaded
        <4>3. QED
          BY <1>0, <2>0, <2>3, <3>1, <3>2, <3>5, <4>1, <4>2 DEF Goto, Progress, Unstaged,
             Carrying, Working
      <3>6. QED
        BY <3>4, <3>5
    <2>4. QED
      BY <2>1, <2>2, <2>3
  <1>17. CASE ZoneSign
    <2> DEFINE label == IF Current.previous = None THEN "save" ELSE "flush"
    <2>0. Carrying
      BY <1>17 DEF ZoneSign, Progress, Unstaged, Carrying, Working
    <2>1. Quiet' \/ Goto(label)
      BY <1>0, <1>17, StepOutcome DEF ZoneSign
    <2>2. CASE Quiet'
      BY <2>2, QuietProgress
    <2>3. CASE Goto(label)
      <3>1. /\ target \in Zone /\ Current = mem.pending[target] /\ Current # None
            /\ Current.previous = mem.zones[target]
        BY <2>0, InMemory
      <3>2. Current.previous = None => file[target] = Current.desired.records
        BY <1>0, <1>17, <2>0, <3>1 DEF ZoneSign, Reached
      <3>3. QED
        BY <1>0, <1>17, <2>0, <2>3, <3>1, <3>2 DEF ZoneSign, Goto, RecordsOf, Progress,
           Unstaged, Carrying, Working
    <2>4. QED
      BY <2>1, <2>2, <2>3
  <1>18. CASE ZoneBegin
    <2>0. Carrying
      BY <1>18 DEF ZoneBegin, Progress, Unstaged, Carrying, Working
    <2>1. Quiet' \/ (Goto("unset") /\ txn' = [txn EXCEPT ![target] = served[target]])
      BY <1>0, <1>18, StepOutcome, RaiseQuiet DEF ZoneBegin, Effective
    <2>2. CASE Quiet'
      BY <2>2, QuietProgress
    <2>3. CASE Goto("unset") /\ txn' = [txn EXCEPT ![target] = served[target]]
      <3>1. /\ target \in Zone /\ Current = mem.pending[target] /\ Current # None
            /\ Current.previous = mem.zones[target] /\ Fits(mem, target)
        BY <2>0, InMemory
      <3>2. Current.previous # None /\ Current.desired # None
        BY <1>0, <1>18 DEF ZoneBegin, TargetConsistent, Current
      <3>3. txn'[target] = served[target]
        BY <1>0, <2>3, <3>1 DEF TypeInv, DataTyped
      <3>4. served[target] \in {mem.zones[target].records, Current.desired.records}
        BY <3>1, <3>2 DEF Fits
      <3>5. QED
        BY <1>0, <1>18, <2>0, <2>3, <3>1, <3>3, <3>4 DEF ZoneBegin, Goto, Progress, Unstaged,
           Carrying, Working
    <2>4. QED
      BY <2>1, <2>2, <2>3
  <1>19. CASE ZoneUnset
    <2>0. Carrying
      BY <1>19 DEF ZoneUnset, Progress, Unstaged, Carrying, Working
    <2>1. CASE Goto("abort")
      BY <1>19, <2>1, AbortProgress DEF ZoneUnset
    <2>2. CASE Goto("set")
      <3>1. /\ target \in Zone /\ Current = mem.pending[target]
            /\ Current.previous = mem.zones[target]
        BY <2>0, InMemory
      <3>2. txn[target] \in {Current.previous.records, Current.desired.records}
        BY <1>0, <1>19, <3>1 DEF ZoneUnset, Progress
      <3>3. txn'[target] = [k \in Owner |-> IF k \in UnsetKeys(Current) THEN {} ELSE txn[target][k]]
        BY <1>0, <1>19, <3>1 DEF ZoneUnset, TypeInv, DataTyped
      <3>4. \A k \in Owner : k \notin UnsetKeys(Current) => txn[target][k] = {}
        BY <3>2 DEF UnsetKeys, Present
      <3>5. txn'[target] = [k \in Owner |-> {}]
        BY <3>3, <3>4
      <3>6. QED
        BY <1>0, <1>19, <2>0, <2>2, <3>1, <3>5 DEF ZoneUnset, Goto, Progress, Unstaged,
           Carrying, Working
    <2>3. QED
      BY <1>19, <2>1, <2>2 DEF ZoneUnset, StepOrAbort
  <1>20. CASE ZoneSet
    <2>0. Carrying
      BY <1>20 DEF ZoneSet, Progress, Unstaged, Carrying, Working
    <2> DEFINE r == Current.desired.records
    <2>1. CASE Goto("abort")
      BY <1>20, <2>1, AbortProgress DEF ZoneSet
    <2>2. CASE /\ Goto("commit") /\ r \notin Rejected
               /\ txn' = [txn EXCEPT ![target] = [k \in Owner |-> @[k] \cup r[k]]]
      <3>1. /\ target \in Zone /\ Current = mem.pending[target]
            /\ Current.desired \in Value \cup {None}
        BY <2>0, InMemory
      <3>2. txn[target] = [k \in Owner |-> {}]
        BY <1>0, <1>20 DEF ZoneSet, Progress
      <3>3. Current.desired # None
        BY <1>0, <1>20 DEF ZoneSet, TargetConsistent, Current
      <3>4. r \in ZoneData
        BY <3>1, <3>3, ValueRecords
      <3>5. txn'[target] = [k \in Owner |-> txn[target][k] \cup r[k]]
        BY <1>0, <2>2, <3>1 DEF TypeInv, DataTyped
      <3>6. txn'[target] = [k \in Owner |-> r[k]]
        BY <3>2, <3>5
      <3>7. r = [k \in Owner |-> r[k]]
        BY <3>4 DEF ZoneData
      <3>8. QED
        BY <1>0, <1>20, <2>0, <2>2, <3>1, <3>3, <3>6, <3>7 DEF ZoneSet, Goto, Progress,
           Unstaged, Carrying, Working
    <2>3. QED
      BY <1>20, <2>1, <2>2 DEF ZoneSet, StepOrAbort
  <1>21. CASE ZoneCommit
    <2>0. Carrying
      BY <1>21 DEF ZoneCommit, Progress, Unstaged, Carrying, Working
    <2>1. CASE Goto("abort")
      BY <1>21, <2>1, AbortProgress DEF ZoneCommit
    <2>2. CASE Goto("sign") /\ served' = [served EXCEPT ![target] = txn[target]]
      <3>1. target \in Zone
        BY <2>0, InMemory
      <3>2. served'[target] = txn[target]
        BY <1>0, <2>2, <3>1 DEF TypeInv, DataTyped
      <3>3. QED
        BY <1>0, <1>21, <2>0, <2>2, <3>2 DEF ZoneCommit, Goto, Progress, Unstaged, Carrying,
           Working
    <2>3. QED
      BY <1>21, <2>1, <2>2 DEF ZoneCommit, StepOrAbort, Effective
  <1>22. CASE ZoneAbort
    BY <1>22, RaiseProgress DEF ZoneAbort
  <1>23. CASE ZoneFlush
    <2>0. Carrying
      BY <1>23 DEF ZoneFlush, Progress, Unstaged, Carrying, Working
    <2>1. Quiet' \/ (Goto("save") /\ file' = [file EXCEPT ![target] = served[target]])
      BY <1>0, <1>23, StepOutcome DEF ZoneFlush, Effective
    <2>2. CASE Quiet'
      BY <2>2, QuietProgress
    <2>3. CASE Goto("save") /\ file' = [file EXCEPT ![target] = served[target]]
      <3>1. target \in Zone
        BY <2>0, InMemory
      <3>2. file'[target] = served[target]
        BY <1>0, <2>3, <3>1 DEF TypeInv, DataTyped
      <3>3. QED
        BY <1>0, <1>23, <2>0, <2>3, <3>2 DEF ZoneFlush, Goto, RecordsOf, Progress, Unstaged,
           Carrying, Working
    <2>4. QED
      BY <2>1, <2>2, <2>3
  <1>24. CASE ZonePurge
    <2>0. Carrying
      BY <1>24 DEF ZonePurge, Progress, Unstaged, Carrying, Working
    <2>1. Quiet' \/ Goto("unlink")
      BY <1>0, <1>24, StepOutcome DEF ZonePurge
    <2>2. CASE Quiet'
      BY <2>2, QuietProgress
    <2>3. CASE Goto("unlink")
      BY <1>0, <1>24, <2>0, <2>3 DEF ZonePurge, Goto, RecordsOf, Progress, Unstaged, Carrying,
         Working
    <2>4. QED
      BY <2>1, <2>2, <2>3
  <1>25. CASE UnlinkZonefile
    <2>0. Carrying
      BY <1>25 DEF UnlinkZonefile, Progress, Unstaged, Carrying, Working
    <2>1. Quiet' \/ Goto("save")
      BY <1>0, <1>25, StepOutcome DEF UnlinkZonefile
    <2>2. CASE Quiet'
      BY <2>2, QuietProgress
    <2>3. CASE Goto("save")
      BY <1>0, <1>25, <2>0, <2>3 DEF UnlinkZonefile, Goto, RecordsOf, Progress, Unstaged,
         Carrying, Working
    <2>4. QED
      BY <2>1, <2>2, <2>3
  <1>26. CASE Crash
    BY <1>26, QuietProgress DEF Crash, Die, Quiet
  <1>27. CASE KnotRestart
    <2>1. CASE Raise
      BY <2>1, RaiseProgress
    <2>2. CASE pc \in {"unset", "set", "commit", "abort"} /\ Goto("abort")
      BY <1>27, <2>2, AbortProgress DEF KnotRestart
    <2>3. CASE /\ UNCHANGED procVars
               /\ pc \notin {"reload", "sign", "begin", "flush", "purge"}
               /\ pc \notin {"unset", "set", "commit", "abort"}
      <3>1. UNCHANGED <<mem, pc, op, target, conf, file>> /\ LoadAll
        BY <1>27, <2>3 DEF KnotRestart, KnotStarts, procVars
      <3>2. CASE pc \in {"unlink", "save"}
        <4>0. Carrying
          BY <3>2 DEF Progress, Unstaged, Carrying, Working
        <4>1. /\ target \in Zone /\ Current = mem.pending[target]
              /\ Current.desired \in Value \cup {None}
          BY <4>0, InMemory
        <4>2. served'[target] = Loaded(target)
          BY <3>1, <4>1 DEF LoadAll
        <4>3. /\ target \in conf <=> Current.desired # None
              /\ pc = "unlink" => Current.desired = None
              /\ pc = "save" /\ Current.desired # None =>
                    /\ Current.desired.records \notin Rejected
                    /\ file[target] = Current.desired.records
          BY <1>0, <3>2, <4>0, <4>1 DEF Progress
        <4>4. served'[target] = RecordsOf(Current.desired)
          BY <3>2, <4>1, <4>2, <4>3, RecordsNotNone DEF Loaded, RecordsOf
        <4>5. QED
          BY <1>0, <3>1, <3>2, <4>0, <4>1, <4>3, <4>4 DEF RecordsOf, Progress, Unstaged,
             Carrying, Working
      <3>3. CASE pc \notin {"unlink", "save"}
        BY <1>0, <2>3, <3>1, <3>3 DEF Progress, Unstaged, Carrying, Working
      <3>4. QED
        BY <3>2, <3>3
    <2>4. QED
      BY <1>27, <2>1, <2>2, <2>3 DEF KnotRestart
  <1>28. CASE OperatorRestart
    BY <1>28, QuietProgress DEF OperatorRestart, Die, Quiet
  <1>29. CASE BackupLock
    BY <1>29, ProgressUnchanged DEF BackupLock, procVars
  <1>30. CASE BackupZones
    BY <1>30, ProgressUnchanged DEF BackupZones, procVars
  <1>31. CASE BackupState
    BY <1>31, ProgressUnchanged DEF BackupState, procVars
  <1>32. CASE BackupEnd
    BY <1>32, ProgressUnchanged DEF BackupEnd, procVars
  <1>33. CASE UNCHANGED vars
    BY <1>33, ProgressUnchanged DEF vars, procVars
  <1>34. QED
    BY <1>1, <1>2, <1>3, <1>4, <1>5, <1>6, <1>7, <1>8, <1>9, <1>10, <1>11,
       <1>12, <1>13, <1>14, <1>15, <1>16, <1>17, <1>18, <1>19, <1>20, <1>21, <1>22,
       <1>23, <1>24, <1>25, <1>26, <1>27, <1>28, <1>29, <1>30, <1>31, <1>32, <1>33
    DEF Next, Handle, Backup

\* Only these labels have something beyond Progress behind them.
LEMMA ReachedElsewhere == pc' \notin {"check", "reload", "sign", "unlink", "save"} => Reached'
  BY DEF Reached

\* A step to a label that has nothing of the kind behind it, or out of the request.
LEMMA StepReached ==
    ASSUME BaseInv, NEW o, NEW label, label \notin {"check", "reload", "sign", "unlink", "save"},
           Step(o, label) \/ StepOrAbort(o, label) \/ Goto(label) \/ Raise
    PROVE  Reached'
  <1>1. pc' \in {label, "abort", "idle", "down"}
    BY RaiseQuiet DEF Step, StepOrAbort, Goto, Quiet, BaseInv, TypeInv, FlowInv
  <1>2. QED
    BY <1>1, ReachedElsewhere

LEMMA RaiseReached == ASSUME BaseInv, Raise PROVE Reached'
  BY RaiseQuiet, ReachedElsewhere DEF Quiet, BaseInv, TypeInv, FlowInv

\* What has been reached stays so while nothing it speaks of changes.
LEMMA ReachedUnchanged ==
    ASSUME BaseInv, UNCHANGED <<mem, pc, target, file>>, kasp' = kasp
    PROVE  Reached'
  BY DEF BaseInv, Reached, Unstaged, Carrying

\* Every step reaches for the zone in hand what the next one counts on.
LEMMA NextReached == ASSUME BaseInv, [Next]_vars PROVE Reached'
  <1> USE DEF diskVars, knotVars
  <1>0. /\ FlowTyped /\ RequestConsistent /\ TargetConsistent /\ Progress /\ Reached
        /\ file \in [Zone -> ZoneData \cup {None}]
    BY DEF BaseInv, TypeInv, FlowInv, DataTyped
  <1>1. CASE Start \/ AnyRequest \/ Accept
    BY <1>1, ReachedElsewhere DEF Start, AnyRequest, Request, Accept
  <1>2. ASSUME NEW z \in Zone, RecoverNext(z) PROVE Reached'
    BY <1>2, ReachedElsewhere DEF RecoverNext
  <1>3. CASE RecoverDone \/ AnswerConflict \/ AnswerUnchanged
    BY <1>3, ReachedElsewhere
       DEF RecoverDone, AnswerConflict, AnswerUnchanged, Finish, Goto
  <1>4. CASE Stage \/ Save \/ FinalConfig
    <2>1. CASE Raise
      BY <2>1, RaiseReached
    <2>2. CASE ~Raise
      BY <1>4, <2>2, ReachedElsewhere DEF Stage, Save, FinalConfig, Finish
    <2>3. QED
      BY <2>1, <2>2
  <1>5. CASE BootConfig \/ StagedConfig
    BY <1>5, StepReached DEF BootConfig, StagedConfig
  <1>6. CASE RecoverConfig
    <2>0. Carrying
      BY <1>6 DEF RecoverConfig, Unstaged, Carrying, Working
    <2>1. UNCHANGED <<mem, target>> \/ Quiet'
      BY <1>0, <1>6, StepCases DEF RecoverConfig
    <2>2. pc' \in {"reload", "zonefile", "begin", "idle", "down"}
      BY <1>0, <1>6, StepOutcome DEF RecoverConfig, Goto, Quiet
    <2>3. pc' = "reload" => Current.desired = None
      BY <1>0, <1>6, StepOutcome DEF RecoverConfig, Goto, Quiet
    <2>4. Current.desired = None => mem.zones[target] # None
      BY <2>0, InMemory DEF Fits
    <2>5. QED
      BY <2>1, <2>2, <2>3, <2>4 DEF Reached, Quiet
  <1>7. CASE WriteZonefile
    <2> DEFINE v == IF Current = None THEN op.value ELSE Current.desired
    <2>1. Quiet' \/ (Goto("check") /\ file' = [file EXCEPT ![target] = v.records])
      BY <1>0, <1>7, StepOutcome DEF WriteZonefile, Effective
    <2>2. CASE Quiet'
      BY <2>2, ReachedElsewhere DEF Quiet
    <2>3. CASE Goto("check") /\ file' = [file EXCEPT ![target] = v.records]
      <3>1. target \in Zone
        BY <1>0, <1>7, TargetIsZone DEF WriteZonefile, Working
      <3>2. Current # None => file'[target] = Current.desired.records
        BY <1>0, <2>3, <3>1
      <3>3. Carrying' => Current # None
        BY <2>3 DEF Goto, Carrying, Unstaged, Current
      <3>4. QED
        BY <2>3, <3>2, <3>3 DEF Goto, Reached, Current
    <2>4. QED
      BY <2>1, <2>2, <2>3
  <1>8. CASE CheckZonefile
    <2> DEFINE label == IF Current = None THEN "stage" ELSE "reload"
    <2>1. Quiet' \/ Goto(label)
      BY <1>0, <1>8, StepOutcome, RaiseQuiet DEF CheckZonefile
    <2>2. CASE Quiet'
      BY <2>2, ReachedElsewhere DEF Quiet
    <2>3. CASE Goto(label)
      <3>1. Current # None => Carrying
        BY <1>8 DEF CheckZonefile, Carrying, Unstaged, Working, Current
      <3>2. Current # None => file[target] = Current.desired.records
        BY <1>0, <1>8, <3>1 DEF CheckZonefile, Reached, Current
      <3>3. QED
        BY <1>8, <2>3, <3>2 DEF CheckZonefile, Goto, Reached, Current
    <2>4. QED
      BY <2>1, <2>2, <2>3
  <1>9. CASE Reload
    <2> DEFINE label == IF Current.desired = None THEN "purge" ELSE "sign"
    <2>0. Carrying /\ pc = "reload"
      BY <1>9 DEF Reload, Carrying, Unstaged, Working
    <2>1. Quiet' \/ Goto(label)
      BY <1>0, <1>9, StepOutcome DEF Reload
    <2>2. CASE Quiet'
      BY <2>2, ReachedElsewhere DEF Quiet
    <2>3. CASE Goto(label)
      BY <1>0, <1>9, <2>0, <2>3 DEF Reload, Goto, Reached
    <2>4. QED
      BY <2>1, <2>2, <2>3
  <1>10. CASE ZoneSign
    <2>1. Current.desired # None
      BY <1>0, <1>10 DEF ZoneSign, Progress, Current
    <2>2. pc' \in {"save", "flush", "idle", "down"} /\ (pc' = "save" => UNCHANGED <<mem, target>>)
      BY <1>0, <1>10, StepOutcome DEF ZoneSign, Goto, Quiet
    <2>3. QED
      BY <2>1, <2>2 DEF Reached, Current
  <1>11. CASE ZoneBegin
    BY <1>11, StepReached DEF ZoneBegin
  <1>12. CASE ZoneUnset
    BY <1>12, StepReached DEF ZoneUnset
  <1>13. CASE ZoneSet
    <2>1. Goto("abort") \/ \E o \in Outcome : StepOrAbort(o, "commit")
      BY <1>13 DEF ZoneSet
    <2>2. QED
      BY <2>1, StepReached
  <1>14. CASE ZoneCommit
    <2>1. mem.zones[target] # None
      <3>1. Carrying
        BY <1>14 DEF ZoneCommit, Carrying, Unstaged, Working
      <3>2. Current.previous # None
        BY <1>0, <1>14 DEF ZoneCommit, TargetConsistent, Current
      <3>3. QED
        BY <3>1, <3>2, InMemory
    <2>2. pc' \in {"sign", "abort"} /\ UNCHANGED <<mem, target>>
      BY <1>0, <1>14, StepOrAbortCases DEF ZoneCommit
    <2>3. QED
      BY <2>1, <2>2 DEF Reached
  <1>15. CASE ZoneAbort
    BY <1>15, StepReached DEF ZoneAbort
  <1>16. CASE ZoneFlush
    <2>1. Current.desired # None
      BY <1>0, <1>16 DEF ZoneFlush, Progress, Current
    <2>2. pc' \in {"save", "idle", "down"} /\ (pc' = "save" => UNCHANGED <<mem, target>>)
      BY <1>0, <1>16, StepOutcome DEF ZoneFlush, Goto, Quiet
    <2>3. QED
      BY <2>1, <2>2 DEF Reached, Current
  <1>17. CASE ZonePurge
    <2>1. Quiet' \/ (Goto("unlink") /\ kasp' = kasp \ {target})
      BY <1>0, <1>17, StepOutcome DEF ZonePurge, Effective
    <2>2. QED
      BY <2>1, ReachedElsewhere DEF Quiet, Goto, Reached
  <1>18. CASE UnlinkZonefile
    <2>1. Quiet' \/ Goto("save")
      BY <1>0, <1>18, StepOutcome DEF UnlinkZonefile
    <2>2. CASE Quiet'
      BY <2>2, ReachedElsewhere DEF Quiet
    <2>3. CASE Goto("save")
      BY <1>0, <1>18, <2>3 DEF UnlinkZonefile, Goto, Reached
    <2>4. QED
      BY <2>1, <2>2, <2>3
  <1>19. CASE Crash
    BY <1>19, ReachedElsewhere DEF Crash, Die
  <1>20. CASE KnotRestart
    <2>1. CASE Raise
      BY <2>1, RaiseReached
    <2>2. CASE Goto("abort")
      BY <2>2, StepReached
    <2>3. CASE UNCHANGED procVars
      <3>1. UNCHANGED <<mem, pc, target, file>> /\ LoadAll
        BY <1>20, <2>3 DEF KnotRestart, KnotStarts, procVars
      <3>2. CASE pc \in {"unlink", "save"} /\ Current.desired = None
        <4>1. Carrying
          BY <3>2 DEF Carrying, Unstaged, Working
        <4>2. target \notin conf /\ target \notin kasp
          BY <1>0, <3>2, <4>1 DEF Progress, Reached, Current
        <4>3. target \notin kasp'
          BY <3>1, <4>2 DEF LoadAll, Loaded
        <4>4. QED
          BY <3>1, <3>2, <4>3 DEF Reached
      <3>3. CASE ~(pc \in {"unlink", "save"} /\ Current.desired = None)
        BY <1>0, <3>1, <3>3 DEF Reached, Unstaged, Carrying, Current
      <3>4. QED
        BY <3>2, <3>3
    <2>4. QED
      BY <1>20, <2>1, <2>2, <2>3 DEF KnotRestart
  <1>21. CASE OperatorRestart
    BY <1>21, ReachedElsewhere DEF OperatorRestart, Die
  <1>22. CASE Backup \/ UNCHANGED vars
    BY <1>22, ReachedUnchanged
       DEF Backup, BackupLock, BackupZones, BackupState, BackupEnd, vars, procVars
  <1>23. QED
    BY <1>1, <1>2, <1>3, <1>4, <1>5, <1>6, <1>7, <1>8, <1>9, <1>10, <1>11,
       <1>12, <1>13, <1>14, <1>15, <1>16, <1>17, <1>18, <1>19, <1>20, <1>21, <1>22
    DEF Next, Handle

-----------------------------------------------------------------------------
\* What follows.

\* BaseInv is inductive, whatever fails.
LEMMA NextBaseInv == BaseInv /\ [Next]_vars => BaseInv'
  <1> SUFFICES ASSUME BaseInv, [Next]_vars PROVE BaseInv'
    OBVIOUS
  <1>1. TypeInv'
    BY NextData, NextFlow DEF BaseInv, TypeInv
  <1>2. QED
    BY <1>1, NextFitting, NextProgress, NextReached DEF BaseInv

LEMMA BaseInvAlways == Spec => []BaseInv
  BY InitBaseInv, NextBaseInv, PTL DEF Spec

\* Every mutation replays before it journals, and it journals by replacing the
\* whole state file, so one entry is pending at most: even an entry that the
\* process never learned of does not stay beside the next one.
THEOREM OneInFlightHolds == Spec => []OneInFlight
  <1>1. BaseInv => OneInFlight
    BY DEF BaseInv, Fitting
  <1>2. QED
    BY <1>1, BaseInvAlways, PTL

\* zone-flush and the include make every settled zone survive a restart of Knot.
THEOREM SettledHolds == Spec => []SettledSurvivesKnotRestart
  <1>1. BaseInv => SettledSurvivesKnotRestart
    <2> SUFFICES ASSUME BaseInv, NEW z \in Zone, disk.pending[z] = None
                 PROVE  Loaded(z) = served[z]
      BY DEF SettledSurvivesKnotRestart
    <2>1. Fits(disk, z) /\ disk.zones[z] \in Value \cup {None}
      BY StateParts DEF BaseInv, Fitting, TypeInv, DataTyped
    <2>2. QED
      BY <2>1, RecordsNotNone DEF Fits, Loaded
  <1>2. QED
    BY <1>1, BaseInvAlways, PTL

\* zone-purge runs after the reload that drops the zone and before the deletion
\* is committed, so a name that is free has no keys of its last owner.
THEOREM DeletedZonesHaveNoKeys == Spec => []DeletedZonesLeaveNoKeys
  <1>1. BaseInv => DeletedZonesLeaveNoKeys
    BY DEF BaseInv, Fitting, Fits, DeletedZonesLeaveNoKeys
  <1>2. QED
    BY <1>1, BaseInvAlways, PTL

\* Only two steps write the state file.
LEMMA OnlyStageAndSave ==
    ASSUME [Next]_vars PROVE UNCHANGED disk \/ Stage \/ Save
  <1> USE DEF diskVars
  <1>1. CASE Start \/ AnyRequest \/ (\E z \in Zone : RecoverNext(z)) \/ RecoverDone
             \/ AnswerConflict \/ AnswerUnchanged \/ Accept
    BY <1>1 DEF Start, AnyRequest, Request, RecoverNext, RecoverDone, AnswerConflict,
                AnswerUnchanged, Accept
  <1>2. CASE BootConfig \/ StagedConfig \/ RecoverConfig \/ FinalConfig \/ WriteZonefile
             \/ CheckZonefile \/ Reload \/ ZoneSign
    BY <1>2 DEF BootConfig, StagedConfig, RecoverConfig, FinalConfig, WriteZonefile,
                CheckZonefile, Reload, ZoneSign
  <1>3. CASE ZoneBegin \/ ZoneUnset \/ ZoneSet \/ ZoneCommit \/ ZoneAbort \/ ZoneFlush
             \/ ZonePurge \/ UnlinkZonefile
    BY <1>3 DEF ZoneBegin, ZoneUnset, ZoneSet, ZoneCommit, ZoneAbort, ZoneFlush,
                ZonePurge, UnlinkZonefile
  <1>4. CASE Crash \/ KnotRestart \/ OperatorRestart \/ Backup
    BY <1>4 DEF Crash, KnotRestart, OperatorRestart, Backup, BackupLock, BackupZones,
                BackupState, BackupEnd
  <1>5. CASE UNCHANGED vars
    BY <1>5 DEF vars
  <1>6. QED
    BY <1>1, <1>2, <1>3, <1>4, <1>5 DEF Next, Handle

\* The revision of a zone never goes back: Stage keeps the zones, and the
\* transition that Save carries out was accepted against the value it replaces,
\* or had been carried out before.
THEOREM RevisionsOnlyGrow == Spec => RevisionFence
  <1> DEFINE Fence == \A z \in Zone :
                         LET old == disk.zones[z]
                             new == disk'.zones[z]
                         IN  old # None /\ new # None /\ old # new => new.revision > old.revision
  <1>1. ASSUME BaseInv, [Next]_vars PROVE [Fence]_disk
    <2>1. CASE UNCHANGED disk
      BY <2>1
    <2>2. CASE Stage
      <3>1. /\ target \in Zone /\ op.value \in Value \cup {None} /\ mem \in State
            /\ pc # "down" /\ \A z \in Zone : mem.pending[z] = None
        BY <1>1, <2>2, TargetIsZone, OperationParts
           DEF Stage, Working, Unstaged, BaseInv, TypeInv, FlowInv, FlowTyped, TargetConsistent
      <3>2. disk' = disk \/ disk' = Staged(mem, target, op.value)
        BY <2>2 DEF Stage
      <3>3. \A z \in Zone : mem.zones[z] = disk.zones[z]
        BY <1>1, <3>1 DEF BaseInv, Fitting, Recalls
      <3>4. Staged(mem, target, op.value).zones = mem.zones
        BY <3>1, StagedState
      <3>5. QED
        BY <3>2, <3>3, <3>4
    <2>3. CASE Save
      <3>0. Carrying
        BY <2>3 DEF Save, Carrying, Unstaged, Working
      <3>1. /\ target \in Zone /\ Current = mem.pending[target] /\ Current # None
            /\ Fits(mem, target) /\ mem \in State /\ pc # "down"
            /\ disk.zones[target] \in {mem.zones[target], Current.desired}
            /\ \A z \in Zone \ {target} : mem.pending[z] = None
        BY <1>1, <3>0, InMemory DEF BaseInv, TypeInv, FlowInv, FlowTyped
      <3>2. disk' = disk \/ disk' = Committed(mem, target)
        BY <2>3 DEF Save
      <3>3. CASE disk' = Committed(mem, target)
        <4>1. disk'.zones = [mem.zones EXCEPT ![target] = Current.desired]
          BY <3>1, <3>3, CommittedState
        <4>2. mem.zones[target] # None /\ Current.desired # None =>
                 Current.desired.revision > mem.zones[target].revision
          BY <3>1 DEF Fits
        <4>3. \A z \in Zone \ {target} : mem.zones[z] = disk.zones[z]
          BY <1>1, <3>1 DEF BaseInv, Fitting, Recalls
        <4>4. /\ disk'.zones[target] = Current.desired
              /\ \A z \in Zone \ {target} : disk'.zones[z] = mem.zones[z]
          BY <3>1, <4>1 DEF State
        <4>5. QED
          BY <3>1, <4>2, <4>3, <4>4
      <3>4. QED
        BY <2>1, <3>2, <3>3
    <2>4. QED
      BY <1>1, <2>1, <2>2, <2>3, OnlyStageAndSave
  <1>2. QED
    BY <1>1, BaseInvAlways, PTL DEF Spec, RevisionFence
=============================================================================
