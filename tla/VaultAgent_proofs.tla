-------------------------- MODULE VaultAgent_proofs --------------------------
(***************************************************************************)
(* The safety of secret delivery and of its health check, for any token    *)
(* life, thresholds and error window, and any number of applies, restarts  *)
(* and faults.                                                             *)
(***************************************************************************)
EXTENDS VaultAgent, TLAPS

-----------------------------------------------------------------------------
\* The inductive invariant.

\* A token is that of a running agent, which has written its sink; a failed
\* login is the latest error, and a sample is taken in every interval.
AgentInv ==
    /\ token => unit = "active" /\ sink \in 0 .. TokenTTL
    /\ done.tried => errors = 0
    /\ timer => sampleAge <= 1 /\ (done.sampled => sampleAge = 0)

\* The wrapped credential of an apply is out of the agent's reach until the
\* restart, a durable one stays on disk, and the .hcl is then the apply's.
ApplyInv ==
    /\ apply.pc \in {"install", "config", "restart"} /\ apply.given /\ apply.target = "wrapped"
          => unit = "stopped"
    /\ apply.pc \in {"config", "restart"} /\ apply.given
          => file = Readable(apply.target)
    /\ apply.pc = "restart" => shape = apply.target

\* The sink grows old with an outage, and while the agent is up its errors are
\* recent; a sample has seen either, unless it was taken before.
OutageInv ==
    /\ sink = Absent \/ sink >= Least(outage, SinkMax + 1)
    /\ outage > 0 /\ unit = "active" => errors <= 1
    /\ \/ sampleAge > SampleMax \/ sample.sink = Absent
       \/ sample.sink + sampleAge >= Least(outage, SinkMax + 1)
    /\ outage > sampleAge => ~sample.active \/ sample.errors # 0 \/ sampleAge > SampleMax

\* So has a sample seen a spent credential, which only a wrapped agent has.
SpentInv ==
    /\ spent > 0 => shape = "wrapped"
    /\ spent > 0 /\ file = "none" /\ shape = "wrapped"
          => (sample.ephemeral /\ ~sample.file) \/ sampleAge >= spent

\* Calm is an agent at work, or one that an apply restarts, without recent
\* errors; the collector can have fallen into that restart and into no other.
\* A sample taken when calm had lasted for the error window says so.
CalmInv ==
    /\ calm > 0 => /\ unit \in {"active", "restarting"} /\ looking # "down"
                   /\ rendered /\ sink \in 0 .. TokenTTL + 1
    /\ errors >= Least(calm, Window + 1)
    /\ calm > sampleAge + Window =>
          /\ sample.active /\ sample.errors <= 0 /\ sample.sink \in 0 .. TokenTTL + 1
          /\ sample.rendered /\ (sample.ephemeral <=> shape = "wrapped")

Inv == TypeOK /\ AgentInv /\ ApplyInv /\ OutageInv /\ SpentInv /\ CalmInv

-----------------------------------------------------------------------------
\* The start.

LEMMA InitInv == Init => Inv
  <1> SUFFICES ASSUME Init PROVE Inv
    OBVIOUS
  <1>1. /\ cached \in BOOLEAN /\ token \in BOOLEAN /\ rendered \in BOOLEAN /\ vault \in BOOLEAN
        /\ journal \in BOOLEAN /\ timer \in BOOLEAN /\ fresh \in BOOLEAN
    BY Zenon DEF Init
  <1>2. /\ shape \in Shape /\ loaded = shape /\ file = (IF shape = "wrapped" THEN "none" ELSE "plain")
        /\ unit = "active" /\ sink = 0 /\ errors = Window + 1 /\ looking = "no" /\ sampleAge = 0
        /\ apply = NoApply /\ done = [tried |-> FALSE, sampled |-> TRUE]
        /\ outage = 0 /\ spent = 0 /\ calm = 0 /\ faults = 0
    BY Zenon DEF Init
  <1>3. sample = [active |-> TRUE, sink |-> 0, ephemeral |-> shape = "wrapped",
                  file |-> file # "none", errors |-> 0, rendered |-> TRUE]
    BY Zenon DEF Init
  <1>4. sample \in Sample
    BY <1>3, ThresholdAssumption DEF Sample, Absent
  <1>5. TypeOK
    <2>1. file \in {"none", "plain", "wrapping"}
      BY <1>2
    <2>2. /\ apply \in [pc : {"idle", "stop", "install", "config", "restart", "failed"},
                        target : Shape, given : BOOLEAN, changed : BOOLEAN]
          /\ done \in [tried : BOOLEAN, sampled : BOOLEAN]
      BY <1>2 DEF NoApply, Shape
    <2>3. /\ sink \in Absent .. SinkMax + 1 /\ errors \in 0 .. Window + 1
          /\ sampleAge \in 0 .. SampleMax + 1 /\ outage \in 0 .. SinkMax + 1
          /\ spent \in 0 .. SampleMax + 1 /\ calm \in 0 .. Window + 2 /\ faults \in 0 .. MaxFaults
      BY <1>2, ThresholdAssumption DEF Absent
    <2>4. QED
      BY <1>1, <1>2, <1>4, <2>1, <2>2, <2>3 DEF TypeOK
  <1>6. AgentInv /\ ApplyInv
    BY <1>2, ThresholdAssumption DEF AgentInv, ApplyInv, NoApply
  <1>7. OutageInv /\ SpentInv /\ CalmInv
    BY <1>2, <1>3, ThresholdAssumption DEF OutageInv, SpentInv, CalmInv, Least
  <1>8. QED
    BY <1>5, <1>6, <1>7 DEF Inv

-----------------------------------------------------------------------------
\* Every step preserves the invariant, part by part.

\* What the collector publishes is a sample.
LEMMA PublishedSample ==
    ASSUME TypeOK, Publish
    PROVE  /\ sample' \in Sample /\ sampleAge' = 0 /\ looking' = "no"
           /\ sample'.active = (unit = "active") /\ sample'.sink = sink
           /\ sample'.ephemeral = (shape = "wrapped") /\ sample'.file = (file # "none")
           /\ sample'.errors = (IF ~journal THEN -1 ELSE IF errors <= Window THEN 1 ELSE 0)
           /\ sample'.rendered = rendered
           /\ done' = [done EXCEPT !.sampled = TRUE]
  <1>1. sample' = [active |-> unit = "active", sink |-> sink,
                   ephemeral |-> shape = "wrapped", file |-> file # "none",
                   errors |-> IF ~journal THEN -1 ELSE IF errors <= Window THEN 1 ELSE 0,
                   rendered |-> rendered]
    BY DEF Publish
  <1>3. (IF ~journal THEN -1 ELSE IF errors <= Window THEN 1 ELSE 0) \in {-1, 0, 1}
    OBVIOUS
  <1>4. sample' \in Sample
    BY <1>1, <1>3 DEF Sample, TypeOK
  <1>5. QED
    BY <1>1, <1>4 DEF Publish

\* No step stores anything of the wrong type, and every counter stays capped.
LEMMA NextType == Inv /\ [Next]_vars => TypeOK'
  <1> SUFFICES ASSUME Inv, [Next]_vars PROVE TypeOK'
    OBVIOUS
  <1>0. TypeOK
    BY DEF Inv
  <1> USE ThresholdAssumption
  <1>a. ASSUME Fault
        PROVE  /\ faults' \in 0 .. MaxFaults /\ fresh' \in BOOLEAN
               /\ outage' = outage /\ spent' = spent
    <2>1. fresh' \in BOOLEAN
      BY <1>a, Zenon DEF Fault
    <2>2. QED
      BY <1>0, <1>a, <2>1 DEF Fault, TypeOK
  <1>b. ASSUME NEW from \in {"stop", "install", "config", "restart"},
               NEW to \in {"idle", "install", "config", "restart", "failed"}, ApplyStep(from, to)
        PROVE  /\ apply' \in [pc : {"idle", "stop", "install", "config", "restart", "failed"},
                              target : Shape, given : BOOLEAN, changed : BOOLEAN]
               /\ calm' \in 0 .. Window + 2
               /\ UNCHANGED <<host, metrics, outage, faults>>
    <2> DEFINE changed == apply.changed \/ apply.target # shape
    <2>1. changed \in BOOLEAN
      BY Zenon
    <2>2. apply' = [apply EXCEPT !.pc = to, !.changed = changed]
      BY <1>0, <1>b DEF ApplyStep, TypeOK
    <2>3. calm' \in {0, calm} /\ UNCHANGED <<host, metrics, outage, faults>>
      BY <1>b DEF ApplyStep, CalmUnder
    <2> HIDE DEF changed
    <2>4. apply' \in [pc : {"idle", "stop", "install", "config", "restart", "failed"},
                      target : Shape, given : BOOLEAN, changed : BOOLEAN]
      BY <1>0, <2>1, <2>2 DEF TypeOK
    <2>5. calm' \in 0 .. Window + 2
      BY <1>0, <2>3 DEF TypeOK
    <2>6. QED
      BY <2>3, <2>4, <2>5
  <1>c. NoApply \in [pc : {"idle", "stop", "install", "config", "restart", "failed"},
                     target : Shape, given : BOOLEAN, changed : BOOLEAN]
    BY DEF NoApply, Shape
  <1>1. CASE Login
    <2>1. CASE CanLogIn
      <3>1. token' \in BOOLEAN /\ rendered' \in BOOLEAN /\ cached' \in BOOLEAN
        BY <1>1, <2>1, Zenon DEF Login
      <3>2. sink' \in Absent .. SinkMax + 1 /\ outage' \in 0 .. SinkMax + 1
            /\ spent' \in 0 .. SampleMax + 1
        BY <1>1, <2>1 DEF Login, Absent
      <3>3. file' \in {"none", "plain", "wrapping"}
        BY <1>0, <1>1, <2>1 DEF Login, TypeOK
      <3>4. UNCHANGED <<errors, done, calm, shape, loaded, unit, host, metrics, apply, fresh, faults>>
        BY <1>1, <2>1 DEF Login
      <3>5. QED
        BY <1>0, <3>1, <3>2, <3>3, <3>4 DEF TypeOK, host, metrics
    <2>2. CASE ~CanLogIn
      <3>1. errors' = 0 /\ calm' = 0 /\ done' = [done EXCEPT !.tried = TRUE]
        BY <1>1, <2>2 DEF Login
      <3>2. done' \in [tried : BOOLEAN, sampled : BOOLEAN]
        BY <1>0, <3>1 DEF TypeOK
      <3>3. UNCHANGED <<token, sink, rendered, cached, file, outage, spent, shape, loaded, unit,
                        host, metrics, apply, fresh, faults>>
        BY <1>1, <2>2 DEF Login
      <3>4. QED
        BY <1>0, <3>1, <3>2, <3>3 DEF TypeOK, host, metrics
    <2>3. QED
      BY <2>1, <2>2
  <1>2. CASE Start
    BY <1>0, <1>2 DEF Start, TypeOK, host, metrics
  <1>3. CASE Look \/ LookAgain
    <2>1. UNCHANGED <<shape, agent, host, apply, past>>
      BY <1>3 DEF Look, LookAgain
    <2>2. CASE Publish
      <3>1. /\ sample' \in Sample /\ sampleAge' = 0 /\ looking' = "no"
            /\ done' = [done EXCEPT !.sampled = TRUE]
        BY <1>0, <2>2, PublishedSample
      <3>2. done' \in [tried : BOOLEAN, sampled : BOOLEAN]
        BY <1>0, <3>1 DEF TypeOK
      <3>3. QED
        BY <1>0, <2>1, <3>1, <3>2 DEF TypeOK, agent, host, past
    <2>3. CASE looking' \in {"restart", "down"} /\ UNCHANGED <<sample, sampleAge, done>>
      BY <1>0, <2>1, <2>3 DEF TypeOK, agent, host, past
    <2>4. QED
      BY <1>3, <2>2, <2>3 DEF Look, LookAgain
  <1>4. CASE ApplyStop
    <2>1. unit' \in {"active", "restarting", "autostart", "stopped"} /\ token' \in BOOLEAN /\ cached' \in BOOLEAN
      <3>1. CASE apply.given /\ apply.target = "wrapped"
        <4>1. token' \in BOOLEAN /\ cached' \in BOOLEAN
          BY <1>4, <3>1, Zenon DEF ApplyStop
        <4>2. QED
          BY <1>4, <3>1, <4>1 DEF ApplyStop
      <3>2. CASE ~(apply.given /\ apply.target = "wrapped")
        BY <1>0, <1>4, <3>2 DEF ApplyStop, TypeOK
      <3>3. QED
        BY <3>1, <3>2
    <2>2. UNCHANGED <<shape, loaded, file, sink, rendered, errors, done, fresh, spent>>
      BY <1>4 DEF ApplyStop
    <2>3. ApplyStep("stop", "install")
      BY <1>4 DEF ApplyStop
    <2>4. QED
      BY <1>0, <1>b, <2>1, <2>2, <2>3 DEF TypeOK, host, metrics
  <1>5. CASE ApplyInstall
    <2>1. ApplyStep("install", "config") /\ file' \in {"none", "plain", "wrapping"}
      BY <1>0, <1>5 DEF ApplyInstall, Readable, TypeOK
    <2>2. done' \in [tried : BOOLEAN, sampled : BOOLEAN]
      BY <1>0, <1>5 DEF ApplyInstall, TypeOK
    <2>3. UNCHANGED <<shape, loaded, unit, cached, token, sink, rendered, errors, fresh, spent>>
      BY <1>5 DEF ApplyInstall
    <2>4. QED
      BY <1>0, <1>b, <2>1, <2>2, <2>3 DEF TypeOK, host, metrics
  <1>6. CASE ApplyConfig
    <2>1. /\ ApplyStep("config", "restart") /\ shape' \in Shape /\ spent' \in 0 .. SampleMax + 1
          /\ UNCHANGED <<agent, done, fresh>>
      BY <1>0, <1>6 DEF ApplyConfig, TypeOK
    <2>2. QED
      BY <1>0, <1>b, <2>1 DEF TypeOK, agent, host, metrics
  <1>7. CASE ApplyRestart
    <2>1. unit' \in {"active", "restarting", "autostart", "stopped"} /\ token' \in BOOLEAN /\ cached' \in BOOLEAN
      <3>1. CASE Accepted /\ apply.changed
        <4>1. token' \in BOOLEAN /\ cached' \in BOOLEAN
          BY <1>7, <3>1, Zenon DEF ApplyRestart
        <4>2. QED
          BY <1>7, <3>1, <4>1 DEF ApplyRestart
      <3>2. CASE ~(Accepted /\ apply.changed)
        BY <1>0, <1>7, <3>2 DEF ApplyRestart, TypeOK
      <3>3. QED
        BY <3>1, <3>2
    <2>2. fresh' \in BOOLEAN
      BY <1>7, Zenon DEF ApplyRestart
    <2>3. done' \in [tried : BOOLEAN, sampled : BOOLEAN]
      BY <1>0, <1>7 DEF ApplyRestart, TypeOK
    <2>4. UNCHANGED <<shape, loaded, file, sink, rendered, errors, spent>>
      BY <1>7 DEF ApplyRestart
    <2>5. ApplyStep("restart", "idle") \/ ApplyStep("restart", "failed")
      BY <1>7 DEF ApplyRestart
    <2>6. QED
      BY <1>0, <1>b, <2>1, <2>2, <2>3, <2>4, <2>5 DEF TypeOK, host, metrics
  <1>8. CASE Tick
    <2>1. token' \in BOOLEAN
      BY <1>8, Zenon DEF Tick
    <2>2. /\ sink' \in Absent .. SinkMax + 1 /\ errors' \in 0 .. Window + 1
          /\ sampleAge' \in 0 .. SampleMax + 1
      BY <1>0, <1>8 DEF Tick, TypeOK, Least, Absent
    <2>3. outage' \in 0 .. SinkMax + 1
      BY <1>0, <1>8 DEF Tick, TypeOK, Least
    <2>4. spent' \in 0 .. SampleMax + 1 /\ calm' \in 0 .. Window + 2
      BY <1>0, <1>8 DEF Tick, TypeOK, Least
    <2>5. done' \in [tried : BOOLEAN, sampled : BOOLEAN]
      BY <1>8 DEF Tick
    <2>6. UNCHANGED <<shape, loaded, file, unit, cached, rendered, host, looking, sample, apply,
                      fresh, faults>>
      BY <1>8 DEF Tick
    <2>7. QED
      BY <1>0, <2>1, <2>2, <2>3, <2>4, <2>5, <2>6 DEF TypeOK, host
  <1>9. CASE Break
    <2>1. UNCHANGED <<shape, loaded, file, unit, cached, token, sink, errors, metrics, done>>
      BY <1>9 DEF Break
    <2>2. /\ vault' \in BOOLEAN /\ journal' \in BOOLEAN /\ timer' \in BOOLEAN
          /\ rendered' \in BOOLEAN
      <3>1. vault' \in {vault, ~vault} /\ journal' \in {journal, FALSE}
            /\ timer' \in {timer, FALSE} /\ rendered' \in {rendered, FALSE}
        BY <1>9, Zenon DEF Break
      <3>2. QED
        BY <1>0, <3>1 DEF TypeOK
    <2>3. apply' \in {apply, NoApply}
      BY <1>9, Zenon DEF Break
    <2>4. apply' \in [pc : {"idle", "stop", "install", "config", "restart", "failed"},
                      target : Shape, given : BOOLEAN, changed : BOOLEAN]
      BY <1>0, <1>c, <2>3 DEF TypeOK
    <2>5. Fault /\ calm' \in 0 .. Window + 2
      BY <1>9 DEF Break
    <2>6. QED
      BY <1>0, <1>a, <2>1, <2>2, <2>4, <2>5 DEF TypeOK, metrics
  <1>10. ASSUME NEW target \in Shape, NEW given \in BOOLEAN, NEW edited \in BOOLEAN,
                Apply(target, given, edited)
         PROVE  TypeOK'
    <2>1. (given \/ edited) \in BOOLEAN
      BY Zenon
    <2>2. apply' = [pc |-> "stop", target |-> target, given |-> given, changed |-> given \/ edited]
      BY <1>10 DEF Apply
    <2>3. /\ Fault /\ calm' \in 0 .. Window + 2
          /\ UNCHANGED <<shape, agent, host, metrics, done>>
      BY <1>0, <1>10 DEF Apply, CalmUnder, TypeOK
    <2>4. QED
      BY <1>0, <1>a, <2>1, <2>2, <2>3 DEF TypeOK, agent, host, metrics
  <1>11. ASSUME NEW reboot \in BOOLEAN, Restart(reboot) PROVE TypeOK'
    <2>1. /\ Fault /\ calm' \in 0 .. Window + 2 /\ unit' = "autostart"
          /\ sink' \in {sink, Absent} /\ apply' \in {apply, NoApply} /\ looking' \in {looking, "no"}
      BY <1>11 DEF Restart
    <2>2. token' \in BOOLEAN /\ cached' \in BOOLEAN
      BY <1>11, Zenon DEF Restart
    <2>3. done' \in [tried : BOOLEAN, sampled : BOOLEAN]
      BY <1>0, <1>11 DEF Restart, TypeOK
    <2>4. UNCHANGED <<shape, loaded, file, rendered, errors, host, sample, sampleAge>>
      BY <1>11 DEF Restart
    <2>5. apply' \in [pc : {"idle", "stop", "install", "config", "restart", "failed"},
                      target : Shape, given : BOOLEAN, changed : BOOLEAN]
      BY <1>0, <1>c, <2>1 DEF TypeOK
    <2>6. sink' \in Absent .. SinkMax + 1
      BY <1>0, <2>1 DEF TypeOK, Absent
    <2>7. QED
      BY <1>0, <1>a, <2>1, <2>2, <2>3, <2>4, <2>5, <2>6 DEF TypeOK, host
  <1>12. CASE UNCHANGED vars
    BY <1>0, <1>12 DEF vars, agent, host, metrics, past, TypeOK
  <1>13. QED
    BY <1>1, <1>2, <1>3, <1>4, <1>5, <1>6, <1>7, <1>8, <1>9, <1>10, <1>11, <1>12
       DEF Next, Progress

\* Only a login gives an agent a token, and whatever takes the agent down takes
\* the token; the collector and time keep their appointments.
LEMMA NextAgent == Inv /\ [Next]_vars => AgentInv'
  <1> SUFFICES ASSUME Inv, [Next]_vars PROVE AgentInv'
    OBVIOUS
  <1>0. TypeOK /\ AgentInv
    BY DEF Inv
  <1> USE ThresholdAssumption
  <1>1. CASE Login
    <2>1. CASE CanLogIn
      BY <1>0, <1>1, <2>1 DEF Login, TypeOK, AgentInv, host, metrics
    <2>2. CASE ~CanLogIn
      BY <1>0, <1>1, <2>2 DEF Login, TypeOK, AgentInv, host, metrics
    <2>3. QED
      BY <2>1, <2>2
  <1>2. CASE Start
    BY <1>0, <1>2 DEF Start, AgentInv, host, metrics
  <1>3. CASE Look \/ LookAgain
    <2>1. UNCHANGED <<shape, agent, host, apply, past>>
      BY <1>3 DEF Look, LookAgain
    <2>2. CASE Publish
      <3>1. sampleAge' = 0 /\ done' = [done EXCEPT !.sampled = TRUE]
        BY <1>0, <2>2, PublishedSample
      <3>2. done'.tried = done.tried
        BY <1>0, <3>1 DEF TypeOK
      <3>3. QED
        BY <1>0, <2>1, <3>1, <3>2 DEF AgentInv, agent, host
    <2>3. CASE UNCHANGED <<sample, sampleAge, done>>
      BY <1>0, <2>1, <2>3 DEF AgentInv, agent, host
    <2>4. QED
      BY <1>3, <2>2, <2>3 DEF Look, LookAgain
  <1>4. CASE ApplyStop
    BY <1>0, <1>4 DEF ApplyStop, ApplyStep, AgentInv, host, metrics
  <1>5. CASE ApplyInstall
    BY <1>0, <1>5 DEF ApplyInstall, ApplyStep, AgentInv, TypeOK, host, metrics
  <1>6. CASE ApplyConfig
    BY <1>0, <1>6 DEF ApplyConfig, ApplyStep, AgentInv, agent, host, metrics
  <1>7. CASE ApplyRestart
    <2>1. UNCHANGED <<sink, errors, host, metrics>>
      BY <1>7 DEF ApplyRestart, ApplyStep
    <2>2. ~done'.tried /\ done'.sampled = done.sampled
      BY <1>0, <1>7 DEF ApplyRestart, TypeOK
    <2>3. token' => token /\ (unit = "active" => unit' = "active")
      BY <1>7 DEF ApplyRestart
    <2>4. QED
      BY <1>0, <2>1, <2>2, <2>3 DEF AgentInv, host, metrics
  <1>8. CASE Tick
    <2>1. token' => token /\ sink < TokenTTL
      BY <1>8 DEF Tick
    <2>2. sink' = (IF sink = Absent THEN sink ELSE Least(sink + 1, SinkMax + 1))
          /\ unit' = unit /\ timer' = timer /\ sampleAge' = Least(sampleAge + 1, SampleMax + 1)
          /\ (timer => done.sampled) /\ ~done'.tried /\ ~done'.sampled
      BY <1>8 DEF Tick, host
    <2>3. QED
      BY <1>0, <2>1, <2>2 DEF AgentInv, TypeOK, Least, Absent
  <1>9. CASE Break
    <2>1. UNCHANGED <<unit, token, sink, errors, sampleAge, done>> /\ (timer' => timer)
      BY <1>9 DEF Break, metrics
    <2>2. QED
      BY <1>0, <2>1 DEF AgentInv
  <1>10. ASSUME NEW target \in Shape, NEW given \in BOOLEAN, NEW edited \in BOOLEAN,
                Apply(target, given, edited)
         PROVE  AgentInv'
    BY <1>0, <1>10 DEF Apply, AgentInv, agent, host, metrics
  <1>11. ASSUME NEW reboot \in BOOLEAN, Restart(reboot) PROVE AgentInv'
    <2>1. ~token' /\ ~done'.tried /\ done'.sampled = done.sampled
          /\ UNCHANGED <<host, sampleAge>>
      BY <1>0, <1>11 DEF Restart, TypeOK
    <2>2. QED
      BY <1>0, <2>1 DEF AgentInv, host
  <1>12. CASE UNCHANGED vars
    BY <1>0, <1>12 DEF vars, agent, host, metrics, AgentInv
  <1>13. QED
    BY <1>1, <1>2, <1>3, <1>4, <1>5, <1>6, <1>7, <1>8, <1>9, <1>10, <1>11, <1>12
       DEF Next, Progress

\* An apply keeps hold of the credential that it has brought until it restarts
\* the agent onto it.
LEMMA NextApply == Inv /\ [Next]_vars => ApplyInv'
  <1> SUFFICES ASSUME Inv, [Next]_vars PROVE ApplyInv'
    OBVIOUS
  <1>0. TypeOK /\ ApplyInv
    BY DEF Inv
  <1>a. ASSUME UNCHANGED <<shape, file, unit, apply>> PROVE ApplyInv'
    BY <1>0, <1>a DEF ApplyInv
  <1>b. ASSUME apply'.pc \in {"idle", "failed"} PROVE ApplyInv'
    BY <1>b DEF ApplyInv
  <1>c. ASSUME NEW from, NEW to, ApplyStep(from, to)
        PROVE  /\ apply.pc = from /\ apply'.pc = to
               /\ apply'.given = apply.given /\ apply'.target = apply.target
    BY <1>0, <1>c DEF ApplyStep, TypeOK
  <1>1. CASE Login
    <2>1. UNCHANGED <<shape, unit, apply>>
      BY <1>1 DEF Login
    <2>2. CASE file' = file
      BY <1>a, <2>1, <2>2
    <2>3. CASE file' # file
      <3>1. unit = "active" /\ (file = "none" \/ file = "wrapping")
        BY <1>1, <2>3 DEF Login, CanLogIn, Readable
      <3>2. QED
        BY <1>0, <2>1, <3>1 DEF ApplyInv, TypeOK, Shape, Readable
    <2>4. QED
      BY <2>2, <2>3
  <1>2. CASE Start
    BY <1>0, <1>2 DEF Start, ApplyInv
  <1>3. CASE Look \/ LookAgain
    BY <1>3, <1>a DEF Look, LookAgain, agent
  <1>4. CASE ApplyStop
    <2>1. ApplyStep("stop", "install") /\ UNCHANGED <<shape, file>>
          /\ (apply.given /\ apply.target = "wrapped" => unit' = "stopped")
      BY <1>4 DEF ApplyStop
    <2>2. QED
      BY <1>0, <1>c, <2>1 DEF ApplyInv
  <1>5. CASE ApplyInstall
    <2>1. /\ ApplyStep("install", "config") /\ UNCHANGED <<shape, unit>>
          /\ apply.given => file' = Readable(apply.target)
      BY <1>5 DEF ApplyInstall
    <2>2. QED
      BY <1>0, <1>c, <2>1 DEF ApplyInv
  <1>6. CASE ApplyConfig
    <2>1. ApplyStep("config", "restart") /\ UNCHANGED <<file, unit>> /\ shape' = apply.target
      BY <1>6 DEF ApplyConfig, agent
    <2>2. QED
      BY <1>0, <1>c, <2>1 DEF ApplyInv
  <1>7. CASE ApplyRestart
    BY <1>7, <1>b, <1>c DEF ApplyRestart
  <1>8. CASE Tick
    BY <1>8, <1>a DEF Tick
  <1>9. CASE Break
    <2>1. UNCHANGED <<shape, file, unit>> /\ apply' \in {apply, NoApply}
      BY <1>9, Zenon DEF Break
    <2>2. QED
      BY <1>a, <1>b, <2>1 DEF NoApply
  <1>10. ASSUME NEW target \in Shape, NEW given \in BOOLEAN, NEW edited \in BOOLEAN,
                Apply(target, given, edited)
         PROVE  ApplyInv'
    <2>1. apply'.pc = "stop"
      BY <1>10 DEF Apply
    <2>2. QED
      BY <2>1 DEF ApplyInv
  <1>11. ASSUME NEW reboot \in BOOLEAN, Restart(reboot) PROVE ApplyInv'
    <2>1. unit = "active" /\ UNCHANGED <<shape, file>> /\ apply' \in {apply, NoApply}
      BY <1>11 DEF Restart
    <2>2. QED
      BY <1>0, <1>b, <2>1 DEF ApplyInv, NoApply
  <1>12. CASE UNCHANGED vars
    BY <1>12, <1>a DEF vars, agent
  <1>13. QED
    BY <1>1, <1>2, <1>3, <1>4, <1>5, <1>6, <1>7, <1>8, <1>9, <1>10, <1>11, <1>12
       DEF Next, Progress

\* Time makes an outage and what shows it grow old together, a login ends both,
\* and a sample of an agent that is out shows one or the other.
LEMMA NextOutage == Inv /\ [Next]_vars => OutageInv'
  <1> SUFFICES ASSUME Inv, [Next]_vars PROVE OutageInv'
    OBVIOUS
  <1>0. TypeOK /\ AgentInv /\ OutageInv
    BY DEF Inv
  <1>00. /\ sink \in Absent .. SinkMax + 1 /\ errors \in 0 .. Window + 1
         /\ sampleAge \in 0 .. SampleMax + 1 /\ outage \in 0 .. SinkMax + 1
         /\ sample.sink \in Absent .. SinkMax + 1
    BY <1>0 DEF TypeOK, Sample
  <1> USE ThresholdAssumption
  <1>a. ASSUME outage' \in {0, outage}, UNCHANGED <<sample, sampleAge, errors>>,
               sink' \in {sink, Absent}, unit' = "active" => unit = "active" \/ outage' = 0
        PROVE  OutageInv'
    BY <1>0, <1>00, <1>a DEF OutageInv, Least, Absent
  <1>1. CASE Login
    <2>1. CASE CanLogIn
      <3>1. sink' = 0 /\ outage' = 0 /\ UNCHANGED <<sample, sampleAge>>
        BY <1>1, <2>1 DEF Login, metrics
      <3>2. QED
        BY <1>00, <3>1 DEF OutageInv, Least, Absent
    <2>2. CASE ~CanLogIn
      <3>1. errors' = 0 /\ UNCHANGED <<sink, outage, unit, sample, sampleAge>>
        BY <1>1, <2>2 DEF Login, metrics
      <3>2. QED
        BY <1>0, <3>1 DEF OutageInv
    <2>3. QED
      BY <2>1, <2>2
  <1>2. CASE Start
    <2>1. outage' = 0 /\ UNCHANGED <<sample, sampleAge, errors, sink>>
      BY <1>2 DEF Start, metrics
    <2>2. QED
      BY <1>a, <2>1
  <1>3. CASE Look \/ LookAgain
    <2>1. UNCHANGED <<sink, errors, outage, unit>>
      BY <1>3 DEF Look, LookAgain, agent, past
    <2>2. CASE Publish
      <3>1. /\ sampleAge' = 0 /\ sample'.active = (unit = "active") /\ sample'.sink = sink
            /\ sample'.errors = (IF ~journal THEN -1 ELSE IF errors <= Window THEN 1 ELSE 0)
        BY <1>0, <2>2, PublishedSample
      <3>2. outage > 0 => ~sample'.active \/ sample'.errors # 0
        <4>1. CASE unit = "active"
          <5>1. outage > 0 => errors <= Window
            BY <1>0, <1>00, <4>1 DEF OutageInv
          <5>2. errors <= Window => sample'.errors \in {-1, 1}
            BY <3>1
          <5>3. QED
            BY <5>1, <5>2
        <4>2. CASE unit # "active"
          BY <3>1, <4>2
        <4>3. QED
          BY <4>1, <4>2
      <3>3. QED
        BY <1>0, <1>00, <2>1, <3>1, <3>2 DEF OutageInv, Least, Absent
    <2>3. CASE UNCHANGED <<sample, sampleAge>>
      BY <1>0, <2>1, <2>3 DEF OutageInv
    <2>4. QED
      BY <1>3, <2>2, <2>3 DEF Look, LookAgain
  <1>4. CASE ApplyStop
    <2>1. UNCHANGED <<outage, sample, sampleAge, errors, sink>> /\ unit' \in {unit, "stopped"}
      BY <1>4 DEF ApplyStop, ApplyStep, metrics
    <2>2. QED
      BY <1>a, <2>1
  <1>5. CASE ApplyInstall
    BY <1>5, <1>a DEF ApplyInstall, ApplyStep, metrics
  <1>6. CASE ApplyConfig
    BY <1>6, <1>a DEF ApplyConfig, ApplyStep, agent, metrics
  <1>7. CASE ApplyRestart
    <2>1. UNCHANGED <<outage, sample, sampleAge, errors, sink>> /\ unit' \in {unit, "restarting"}
      BY <1>7 DEF ApplyRestart, ApplyStep, metrics
    <2>2. QED
      BY <1>a, <2>1
  <1>8. CASE Tick
    <2>1. /\ unit = "active" /\ ~token => done.tried
          /\ sink' = IF sink = Absent THEN sink ELSE Least(sink + 1, SinkMax + 1)
          /\ errors' = Least(errors + 1, Window + 1)
          /\ sampleAge' = Least(sampleAge + 1, SampleMax + 1)
          /\ outage' = IF token THEN 0 ELSE Least(outage + 1, SinkMax + 1)
          /\ UNCHANGED <<unit, sample>>
      BY <1>8 DEF Tick
    <2>2. sink' = Absent \/ sink' >= Least(outage', SinkMax + 1)
      BY <1>0, <1>00, <2>1 DEF OutageInv, Least, Absent
    <2>3. outage' > 0 /\ unit' = "active" => errors' <= 1
      BY <1>0, <1>00, <2>1 DEF AgentInv, Least
    <2>4. \/ sampleAge' > SampleMax \/ sample'.sink = Absent
          \/ sample'.sink + sampleAge' >= Least(outage', SinkMax + 1)
      BY <1>0, <1>00, <2>1 DEF OutageInv, Least, Absent
    <2>5. outage' > sampleAge' => ~sample'.active \/ sample'.errors # 0 \/ sampleAge' > SampleMax
      BY <1>0, <1>00, <2>1 DEF OutageInv, Least
    <2>6. QED
      BY <2>2, <2>3, <2>4, <2>5 DEF OutageInv
  <1>9. CASE Break
    BY <1>9, <1>a DEF Break, Fault, metrics
  <1>10. ASSUME NEW target \in Shape, NEW given \in BOOLEAN, NEW edited \in BOOLEAN,
                Apply(target, given, edited)
         PROVE  OutageInv'
    BY <1>10, <1>a DEF Apply, Fault, agent, metrics
  <1>11. ASSUME NEW reboot \in BOOLEAN, Restart(reboot) PROVE OutageInv'
    <2>1. UNCHANGED <<outage, sample, sampleAge, errors>> /\ sink' \in {sink, Absent}
          /\ unit' = "autostart"
      BY <1>11 DEF Restart, Fault
    <2>2. QED
      BY <1>a, <2>1
  <1>12. CASE UNCHANGED vars
    BY <1>12, <1>a DEF vars, agent, metrics, past
  <1>13. QED
    BY <1>1, <1>2, <1>3, <1>4, <1>5, <1>6, <1>7, <1>8, <1>9, <1>10, <1>11, <1>12
       DEF Next, Progress

\* A credential once spent is spent until a login that resets the count, so every
\* sample since has seen it.
LEMMA NextSpent == Inv /\ [Next]_vars => SpentInv'
  <1> SUFFICES ASSUME Inv, [Next]_vars PROVE SpentInv'
    OBVIOUS
  <1>0. TypeOK /\ SpentInv
    BY DEF Inv
  <1>00. sampleAge \in 0 .. SampleMax + 1 /\ spent \in 0 .. SampleMax + 1
    BY <1>0 DEF TypeOK
  <1> USE ThresholdAssumption
  <1>a. ASSUME UNCHANGED <<spent, shape, sample, sampleAge>>, file' = "none" => file = "none"
        PROVE  SpentInv'
    BY <1>0, <1>a DEF SpentInv
  <1>1. CASE Login
    <2>1. CASE CanLogIn
      BY <1>1, <2>1 DEF Login, SpentInv
    <2>2. CASE ~CanLogIn
      BY <1>1, <1>a, <2>2 DEF Login, metrics
    <2>3. QED
      BY <2>1, <2>2
  <1>2. CASE Start
    BY <1>2, <1>a DEF Start, metrics
  <1>3. CASE Look \/ LookAgain
    <2>1. UNCHANGED <<file, shape, spent>>
      BY <1>3 DEF Look, LookAgain, agent, past
    <2>2. CASE Publish
      <3>1. sample'.ephemeral = (shape = "wrapped") /\ sample'.file = (file # "none")
        BY <1>0, <2>2, PublishedSample
      <3>2. QED
        BY <1>0, <2>1, <3>1 DEF SpentInv
    <2>3. CASE UNCHANGED <<sample, sampleAge>>
      BY <1>a, <2>1, <2>3
    <2>4. QED
      BY <1>3, <2>2, <2>3 DEF Look, LookAgain
  <1>4. CASE ApplyStop
    BY <1>4, <1>a DEF ApplyStop, ApplyStep, metrics
  <1>5. CASE ApplyInstall
    <2>1. UNCHANGED <<spent, sample, sampleAge, shape>>
          /\ (file' = "none" => file = "none")
      BY <1>5 DEF ApplyInstall, ApplyStep, Readable, metrics
    <2>2. QED
      BY <1>a, <2>1
  <1>6. CASE ApplyConfig
    <2>1. UNCHANGED <<sample, sampleAge, file>> /\ shape' = apply.target
          /\ spent' = IF apply.target = "wrapped" THEN spent ELSE 0
      BY <1>6 DEF ApplyConfig, ApplyStep, agent, metrics
    <2>2. QED
      BY <1>0, <1>00, <2>1 DEF SpentInv
  <1>7. CASE ApplyRestart
    BY <1>7, <1>a DEF ApplyRestart, ApplyStep, metrics
  <1>8. CASE Tick
    <2>1. /\ sampleAge' = Least(sampleAge + 1, SampleMax + 1)
          /\ spent' = IF token /\ shape = "wrapped" /\ file = "none"
                      THEN Least(spent + 1, SampleMax + 1) ELSE 0
          /\ UNCHANGED <<file, shape, sample>>
      BY <1>8 DEF Tick
    <2>2. QED
      BY <1>0, <1>00, <2>1 DEF SpentInv, Least
  <1>9. CASE Break
    BY <1>9, <1>a DEF Break, Fault, metrics
  <1>10. ASSUME NEW target \in Shape, NEW given \in BOOLEAN, NEW edited \in BOOLEAN,
                Apply(target, given, edited)
         PROVE  SpentInv'
    BY <1>10, <1>a DEF Apply, Fault, agent, metrics
  <1>11. ASSUME NEW reboot \in BOOLEAN, Restart(reboot) PROVE SpentInv'
    BY <1>11, <1>a DEF Restart, Fault
  <1>12. CASE UNCHANGED vars
    BY <1>12, <1>a DEF vars, agent, metrics, past
  <1>13. QED
    BY <1>1, <1>2, <1>3, <1>4, <1>5, <1>6, <1>7, <1>8, <1>9, <1>10, <1>11, <1>12
       DEF Next, Progress

\* Only what ends calm can change what a calm agent's samples say of it.
LEMMA NextCalm == Inv /\ [Next]_vars => CalmInv'
  <1> SUFFICES ASSUME Inv, [Next]_vars PROVE CalmInv'
    OBVIOUS
  <1>0. TypeOK /\ AgentInv /\ CalmInv
    BY DEF Inv
  <1>00. /\ sink \in Absent .. SinkMax + 1 /\ errors \in 0 .. Window + 1
         /\ sampleAge \in 0 .. SampleMax + 1 /\ calm \in 0 .. Window + 2
         /\ Absent = -1
    BY <1>0 DEF TypeOK, Absent
  <1> USE ThresholdAssumption
  <1>a. ASSUME calm' = 0, sampleAge' \in 0 .. SampleMax + 1, errors' \in 0 .. Window + 1
        PROVE  CalmInv'
    <2>1. calm' = 0 /\ sampleAge' \in Nat /\ errors' \in Nat /\ Window \in Nat
      BY <1>a
    <2>2. ~(calm' > 0)
      BY <2>1
    <2>3. errors' >= Least(calm', Window + 1)
      BY <2>1 DEF Least
    <2>4. ~(calm' > sampleAge' + Window)
      <3>1. \A age \in Nat : ~(0 > age + Window)
        BY <2>1
      <3>2. QED
        BY <2>1, <3>1
    <2>5. QED
      BY <2>2, <2>3, <2>4 DEF CalmInv
  <1>k. ASSUME calm' = calm, UNCHANGED <<looking, rendered, errors, sink, shape, sample, sampleAge>>,
               calm > 0 => unit' \in {"active", "restarting"}
        PROVE  CalmInv'
    BY <1>0, <1>k DEF CalmInv
  <1>s. ASSUME NEW from, NEW to, ApplyStep(from, to), errors' = errors
        PROVE  \/ CalmInv'
               \/ /\ calm' = calm /\ shape = "durable" /\ apply.target = "durable"
                  /\ UNCHANGED <<looking, sample, sampleAge>>
    <2>1. UNCHANGED <<looking, sample, sampleAge>>
      BY <1>s DEF ApplyStep, metrics
    <2>2. calm' = 0 \/ (calm' = calm /\ shape = "durable" /\ apply.target = "durable")
      BY <1>s DEF ApplyStep, CalmUnder
    <2>3. QED
      BY <1>00, <1>a, <1>s, <2>1, <2>2
  <1>u. calm > 0 => unit \in {"active", "restarting"}
    BY <1>0 DEF CalmInv
  <1>1. CASE Login
    <2>1. CASE CanLogIn
      <3>1. /\ sink' = 0 /\ rendered' = TRUE
            /\ UNCHANGED <<errors, calm, unit, shape, looking, sample, sampleAge>>
        BY <1>1, <2>1 DEF Login, metrics
      <3>2. rendered'
        BY <3>1, Zenon
      <3>3. QED
        BY <1>0, <3>1, <3>2 DEF CalmInv
    <2>2. CASE ~CanLogIn
      <3>1. errors' = 0 /\ calm' = 0 /\ sampleAge' = sampleAge
        BY <1>1, <2>2 DEF Login, metrics
      <3>2. QED
        BY <1>00, <1>a, <3>1
    <2>3. QED
      BY <2>1, <2>2
  <1>2. CASE Start
    BY <1>k, <1>2 DEF Start, metrics
  <1>3. CASE Look \/ LookAgain
    <2>1. UNCHANGED <<errors, calm, unit, rendered, sink, shape>>
      BY <1>3 DEF Look, LookAgain, agent, past
    <2>2. CASE Publish
      <3>1. /\ sampleAge' = 0 /\ sample'.active = (unit = "active") /\ sample'.sink = sink
            /\ sample'.ephemeral = (shape = "wrapped") /\ sample'.rendered = rendered
            /\ sample'.errors = (IF ~journal THEN -1 ELSE IF errors <= Window THEN 1 ELSE 0)
            /\ looking' = "no"
        BY <1>0, <2>2, PublishedSample
      <3>0. calm > 0 => unit = "active"
        <4>1. CASE Look /\ ~(looking' # "no")
          BY <4>1, <3>1, <1>u DEF Look
        <4>2. CASE LookAgain
          BY <1>0, <4>2 DEF LookAgain, CalmInv, TypeOK
        <4>3. QED
          BY <1>3, <3>1, <4>1, <4>2
      <3>2. calm > Window =>
              /\ unit = "active" /\ rendered /\ sink \in 0 .. TokenTTL + 1 /\ errors > Window
        BY <1>0, <1>00, <3>0 DEF CalmInv, Least
      <3>3. errors > Window => sample'.errors <= 0
        BY <1>00, <3>1
      <3>4. calm' > sampleAge' + Window =>
              /\ sample'.active /\ sample'.errors <= 0 /\ sample'.sink \in 0 .. TokenTTL + 1
              /\ sample'.rendered /\ (sample'.ephemeral <=> shape' = "wrapped")
        <4> SUFFICES ASSUME calm' > sampleAge' + Window
                     PROVE  /\ sample'.active /\ sample'.errors <= 0
                            /\ sample'.sink \in 0 .. TokenTTL + 1
                            /\ sample'.rendered /\ (sample'.ephemeral <=> shape' = "wrapped")
          OBVIOUS
        <4>1. calm > Window
          BY <1>00, <2>1, <3>1
        <4>2. QED
          BY <2>1, <3>1, <3>2, <3>3, <4>1
      <3>5. QED
        BY <1>0, <2>1, <3>1, <3>4 DEF CalmInv
    <2>3. CASE /\ ~(unit = "active" /\ sink # Absent) /\ UNCHANGED <<sample, sampleAge>>
               /\ looking' = IF unit = "restarting" THEN "restart" ELSE "down"
      <3>1. calm > 0 => looking' = "restart"
        BY <1>0, <1>00, <2>3 DEF CalmInv
      <3>2. QED
        BY <1>0, <2>1, <2>3, <3>1 DEF CalmInv
    <2>4. QED
      BY <1>3, <2>2, <2>3 DEF Look, LookAgain
  <1>4. CASE ApplyStop
    <2>1. /\ ApplyStep("stop", "install") /\ UNCHANGED <<rendered, errors, sink, shape>>
          /\ (apply.target = "durable" => unit' = unit)
      BY <1>4 DEF ApplyStop
    <2>2. QED
      BY <1>k, <1>s, <1>u, <2>1
  <1>5. CASE ApplyInstall
    <2>1. /\ ApplyStep("install", "config")
          /\ UNCHANGED <<unit, rendered, errors, sink, shape>>
      BY <1>5 DEF ApplyInstall
    <2>2. QED
      BY <1>k, <1>s, <1>u, <2>1
  <1>6. CASE ApplyConfig
    <2>1. /\ ApplyStep("config", "restart") /\ shape' = apply.target
          /\ UNCHANGED <<unit, rendered, errors, sink>>
      BY <1>6 DEF ApplyConfig, agent
    <2>2. QED
      BY <1>k, <1>s, <1>u, <2>1
  <1>7. CASE ApplyRestart
    <2>1. ApplyStep("restart", "idle") \/ ApplyStep("restart", "failed")
      BY <1>7 DEF ApplyRestart
    <2>2. unit' \in {unit, "restarting"} /\ UNCHANGED <<rendered, errors, sink, shape>>
      BY <1>7 DEF ApplyRestart
    <2>3. QED
      BY <1>k, <1>s, <1>u, <2>1, <2>2
  <1>8. CASE Tick
    <2>1. /\ sink' = IF sink = Absent THEN sink ELSE Least(sink + 1, SinkMax + 1)
          /\ errors' = Least(errors + 1, Window + 1)
          /\ sampleAge' = Least(sampleAge + 1, SampleMax + 1)
          /\ calm' = IF token /\ rendered THEN Least(calm + 1, Window + 2) ELSE 0
          /\ looking' = "no"
          /\ UNCHANGED <<unit, rendered, shape, sample>>
      BY <1>8 DEF Tick
    <2>2. calm' > 0 => unit' = "active" /\ rendered' /\ sink' \in 0 .. TokenTTL + 1
      BY <1>0, <1>00, <2>1 DEF AgentInv, Least
    <2>3. errors' >= Least(calm', Window + 1)
      BY <1>0, <1>00, <2>1 DEF CalmInv, Least
    <2>4. calm' > sampleAge' + Window => calm > sampleAge + Window
      BY <1>00, <2>1 DEF Least
    <2>5. QED
      BY <1>0, <2>1, <2>2, <2>3, <2>4 DEF CalmInv
  <1>9. CASE Break
    BY <1>00, <1>a, <1>9 DEF Break, metrics
  <1>10. ASSUME NEW target \in Shape, NEW given \in BOOLEAN, NEW edited \in BOOLEAN,
                Apply(target, given, edited)
         PROVE  CalmInv'
    <2>1. /\ calm' \in {0, calm}
          /\ UNCHANGED <<unit, looking, rendered, errors, sink, shape, sample, sampleAge>>
      BY <1>10 DEF Apply, CalmUnder, agent, metrics
    <2>2. QED
      BY <1>00, <1>a, <1>k, <1>u, <2>1
  <1>11. ASSUME NEW reboot \in BOOLEAN, Restart(reboot) PROVE CalmInv'
    BY <1>00, <1>a, <1>11 DEF Restart
  <1>12. CASE UNCHANGED vars
    BY <1>0, <1>12 DEF vars, agent, metrics, past, CalmInv
  <1>13. QED
    BY <1>1, <1>2, <1>3, <1>4, <1>5, <1>6, <1>7, <1>8, <1>9, <1>10, <1>11, <1>12
       DEF Next, Progress

LEMMA InvAlways == Spec => []Inv
  <1>1. Inv /\ [Next]_vars => Inv'
    BY NextType, NextAgent, NextApply, NextOutage, NextSpent, NextCalm DEF Inv
  <1>2. QED
    BY InitInv, <1>1, PTL DEF Spec

-----------------------------------------------------------------------------
\* The theorems.

\* The agent, the role and the collector store nothing malformed, and every
\* counter stays within its cap.
THEOREM TypeCorrect == Spec => []TypeOK
  BY InvAlways, PTL DEF Inv

\* Nothing that can be OK is left of an agent without a token: the sink's age is
\* over the threshold in time, and before that its errors show.
THEOREM OutageNeverGreen == Spec => []OutageIsSeen
  <1>1. Inv => OutageIsSeen
    <2> SUFFICES ASSUME Inv PROVE OutageIsSeen
      OBVIOUS
    <2>0. /\ sampleAge \in 0 .. SampleMax + 1 /\ outage \in 0 .. SinkMax + 1
          /\ sample.sink \in Absent .. SinkMax + 1 /\ sample.errors \in {-1, 0, 1}
      BY DEF Inv, TypeOK, Sample
    <2>1. ASSUME outage > SinkMax PROVE Verdict # "OK"
      <3>1. \/ sampleAge > SampleMax \/ sample.sink = Absent
            \/ sample.sink + sampleAge > SinkMax
        BY <2>0, <2>1, ThresholdAssumption DEF Inv, OutageInv, Least
      <3>2. QED
        BY <3>1 DEF Verdict, Check, TokenStale
    <2>2. ASSUME outage > SampleMax, sample.errors >= 0 PROVE Verdict # "OK"
      <3>1. sampleAge > SampleMax \/ ~sample.active \/ sample.errors > 0
        BY <2>0, <2>2, ThresholdAssumption DEF Inv, OutageInv
      <3>2. QED
        BY <3>1 DEF Verdict, Check
    <2>3. QED
      BY <2>1, <2>2 DEF OutageIsSeen
  <1>2. QED
    BY <1>1, InvAlways, PTL

\* A wrapped agent whose credential is used up does not stay green until the
\* restart that it will not survive.
THEOREM SpentCredentialNeverGreen == Spec => []SpentCredentialIsSeen
  <1>1. Inv => SpentCredentialIsSeen
    <2> SUFFICES ASSUME Inv, file = "none", shape = "wrapped",
                        spent > IF timer THEN 1 ELSE SampleMax
                 PROVE  Verdict # "OK"
      BY DEF SpentCredentialIsSeen
    <2>0. sampleAge \in 0 .. SampleMax + 1 /\ spent \in 0 .. SampleMax + 1 /\ timer \in BOOLEAN
      BY DEF Inv, TypeOK
    <2>1. (sample.ephemeral /\ ~sample.file) \/ sampleAge >= spent
      BY <2>0, ThresholdAssumption DEF Inv, SpentInv
    <2>2. CASE sample.ephemeral /\ ~sample.file
      BY <2>2 DEF Verdict, Check, SpentCredential
    <2>3. CASE sampleAge >= spent
      <3>1. ~timer
        BY <2>0, <2>3 DEF Inv, AgentInv
      <3>2. sampleAge > SampleMax
        BY <2>0, <2>3, <3>1, ThresholdAssumption
      <3>3. QED
        BY <3>2 DEF Verdict, Check
    <2>4. QED
      BY <2>1, <2>2, <2>3
  <1>2. QED
    BY <1>1, InvAlways, PTL

\* What a calm agent's last sample says is nothing to worry about, nor is its age.
LEMMA CalmIsOK ==
    ASSUME Inv, calm > Window + 1, shape = "durable", timer
    PROVE  Verdict = "OK"
  <1>0. sampleAge \in 0 .. SampleMax + 1 /\ calm \in 0 .. Window + 2
    BY DEF Inv, TypeOK
  <1>1. sampleAge <= 1
    BY DEF Inv, AgentInv
  <1>2. calm > sampleAge + Window
    BY <1>0, <1>1, ThresholdAssumption
  <1>3. /\ sample.active /\ sample.errors <= 0 /\ sample.sink \in 0 .. TokenTTL + 1
        /\ sample.rendered /\ ~sample.ephemeral
    BY <1>2 DEF Inv, CalmInv
  <1>4. sample.sink # Absent /\ sample.sink + sampleAge <= SinkMax /\ sampleAge <= SampleMax
        /\ ~(sample.errors > 0)
    <2>1. sample.errors \in {-1, 0, 1}
      BY DEF Inv, TypeOK, Sample
    <2>2. QED
      BY <1>0, <1>1, <1>3, <2>1, ThresholdAssumption DEF Absent
  <1>5. ~(sampleAge > SampleMax) /\ ~TokenStale(sample, sampleAge)
    BY <1>0, <1>3, <1>4, ThresholdAssumption DEF TokenStale
  <1>6. QED
    BY <1>3, <1>4, <1>5 DEF Verdict, Check, SpentCredential

\* An agent at work on a durable credential raises no alarm, whether its sample
\* was taken before or after the last renewal of its token.
THEOREM NoFalseAlarm == Spec => []HealthyIsOK
  <1>1. Inv => HealthyIsOK
    BY CalmIsOK DEF HealthyIsOK
  <1>2. QED
    BY <1>1, InvAlways, PTL

\* Nor does one that an apply has just restarted: the collector's second look
\* comes after the restart, and the sample from before it is good enough.
THEOREM RestartIsNotPublished == Spec => []RestartIsNotAnOutage
  <1>1. Inv => RestartIsNotAnOutage
    BY CalmIsOK DEF RestartIsNotAnOutage
  <1>2. QED
    BY <1>1, InvAlways, PTL

\* A credential that an apply has brought is there, in the shape that the agent
\* will look for, when the apply restarts the agent.
THEOREM DeliveredIsReadable == Spec => []DeliveredCredentialIsReadable
  <1>1. Inv => DeliveredCredentialIsReadable
    BY DEF Inv, ApplyInv, DeliveredCredentialIsReadable
  <1>2. QED
    BY <1>1, InvAlways, PTL
=============================================================================
