-------------------------- MODULE Promotion_proofs --------------------------
(***************************************************************************)
(* The safety of promote-apps runs and of the pull request they keep, for  *)
(* any apps and commits and any number of requests, edits, failures and    *)
(* force-pushes.                                                           *)
(***************************************************************************)
EXTENDS Promotion, TLAPS

-----------------------------------------------------------------------------
\* The two scripts.

\* A pin moves with an app, the slave's with its driver's.
LEMMA PinMoves ==
    /\ \A k \in Pin : Moves(k) \in App
    /\ Driver \in App /\ Driver \in Pin /\ Slave \in Pin
    /\ Moves(Slave) = Driver /\ Moves(Driver) = Driver
    /\ \A a \in App : a \in Pin /\ Moves(a) = a
  BY PinAssumption DEF Pin, Moves

\* promote-app-pins.py writes commits.
LEMMA UpdatedPins ==
    ASSUME NEW pins \in Pins, NEW asked \in Asked
    PROVE  /\ Updated(pins, asked) \in Pins
           /\ \A a \in App : Updated(pins, asked)[a] = IF asked[a] # 0 THEN asked[a] ELSE pins[a]
  <1>1. ASSUME NEW k \in Pin
        PROVE  (IF asked[Moves(k)] # 0 THEN asked[Moves(k)] ELSE pins[k]) \in Commit
    BY <1>1, PinMoves, PromotionBounds DEF Asked, Pins, Commit
  <1>2. QED
    BY <1>1, PinMoves DEF Updated, Pins

\* Of the sidecar and its tunnel daemon, `to` moves neither or moves them to
\* one commit.
Follows(from, to) ==
    \/ to[Driver] = from[Driver] /\ to[Slave] = from[Slave]
    \/ to[Slave] = to[Driver]

\* promote-app-pins.py moves the slave with its driver.
LEMMA UpdatedFollows ==
    ASSUME NEW from, NEW pins \in Pins, NEW asked \in Asked, Follows(from, pins)
    PROVE  Follows(from, Updated(pins, asked))
  <1>1. /\ Updated(pins, asked)[Driver] = IF asked[Driver] # 0 THEN asked[Driver] ELSE pins[Driver]
        /\ Updated(pins, asked)[Slave] = IF asked[Driver] # 0 THEN asked[Driver] ELSE pins[Slave]
    BY PinMoves DEF Updated
  <1>2. QED
    BY <1>1 DEF Follows

\* pending-app-promotions.py carries forward commits that are ahead.
LEMMA CarriedAhead ==
    ASSUME NEW old \in Branch, NEW current \in Pins
    PROVE  /\ Carried(old, current) \in Asked
           /\ \A a \in App :
                 Carried(old, current)[a] # 0 => Carried(old, current)[a] > current[a]
  <1> DEFINE c(a) == IF old.exists /\ CompareStatus(a, current[a], old.pins[a]) = "ahead"
                     THEN old.pins[a] ELSE 0
  <1>1. ASSUME NEW a \in App PROVE c(a) \in 0 .. MaxCommit /\ (c(a) # 0 => c(a) > current[a])
    <2>1. current[a] \in Commit /\ old.pins[a] \in Commit
      BY <1>1, PinMoves DEF Branch, Pins
    <2>2. CompareStatus(a, current[a], old.pins[a]) = "ahead" => old.pins[a] > current[a]
      BY DEF CompareStatus
    <2>3. QED
      BY <2>1, <2>2, PromotionBounds DEF Commit
  <1>2. Carried(old, current) = [a \in App |-> c(a)]
    BY DEF Carried
  <1>3. QED
    BY <1>1, <1>2 DEF Asked

\* render_body lists each pin that moves, with its new and its old commit.
LEMMA RenderedMoves ==
    ASSUME NEW from \in Pins, NEW to \in Pins
    PROVE  LET moved == {k \in Pin : from[k] # to[k]}
           IN  /\ Rendered(Changes(from, to)).pinned = {<<k, to[k]>> : k \in moved}
               /\ Rendered(Changes(from, to)).rollback = {<<k, from[k]>> : k \in moved}
               /\ Rendered(Changes(from, to)) \in Body
  <1> DEFINE moved == {k \in Pin : from[k] # to[k]}
             changes == {<<k, from[k], to[k]>> : k \in moved}
  <1>1. {<<c[1], c[3]>> : c \in changes} = {<<k, to[k]>> : k \in moved}
    <2>1. ASSUME NEW k \in moved PROVE <<k, to[k]>> \in {<<c[1], c[3]>> : c \in changes}
      <3> DEFINE d == <<k, from[k], to[k]>>
      <3>1. d \in changes /\ d[1] = k /\ d[3] = to[k]
        BY <2>1
      <3> HIDE DEF d, changes
      <3>2. QED
        BY <3>1
    <2>2. ASSUME NEW c \in changes PROVE <<c[1], c[3]>> \in {<<k, to[k]>> : k \in moved}
      BY <2>2
    <2>3. QED
      BY <2>1, <2>2
  <1>2. {<<c[1], c[2]>> : c \in changes} = {<<k, from[k]>> : k \in moved}
    <2>1. ASSUME NEW k \in moved PROVE <<k, from[k]>> \in {<<c[1], c[2]>> : c \in changes}
      <3> DEFINE d == <<k, from[k], to[k]>>
      <3>1. d \in changes /\ d[1] = k /\ d[2] = from[k]
        BY <2>1
      <3> HIDE DEF d, changes
      <3>2. QED
        BY <3>1
    <2>2. ASSUME NEW c \in changes PROVE <<c[1], c[2]>> \in {<<k, from[k]>> : k \in moved}
      BY <2>2
    <2>3. QED
      BY <2>1, <2>2
  <1>3. /\ {<<k, to[k]>> : k \in moved} \in SUBSET (Pin \X Commit)
        /\ {<<k, from[k]>> : k \in moved} \in SUBSET (Pin \X Commit)
    BY DEF Pins
  <1>4. Changes(from, to) = changes
    BY DEF Changes
  <1>5. /\ Rendered(changes).pinned = {<<c[1], c[3]>> : c \in changes}
        /\ Rendered(changes).rollback = {<<c[1], c[2]>> : c \in changes}
        /\ Rendered(changes) = [pinned |-> {<<c[1], c[3]>> : c \in changes},
                                rollback |-> {<<c[1], c[2]>> : c \in changes}]
    BY DEF Rendered
  <1> HIDE DEF moved, changes
  <1>6. QED
    BY <1>1, <1>2, <1>3, <1>4, <1>5 DEF Body, moved

-----------------------------------------------------------------------------
\* The inductive invariant.

\* A run has a rebuilt branch in hand that it has yet to push.
Unpushed == run.phase \in {"loaded", "updated"}

\* A rebuilt branch that contains the tip of main was rebuilt from main, and its
\* pins are at or ahead of main's but for those that the run was asked for.
RunInv ==
    /\ Unpushed /\ run.new.current => run.base = main
    /\ run.phase = "loaded" => \A a \in App : run.new.pins[a] >= run.base[a]
    /\ run.phase = "updated" =>
          \A a \in App : \/ run.new.pins[a] >= run.base[a]
                         \/ run.asked[a] # 0 /\ run.new.pins[a] = run.asked[a]
    /\ Unpushed => /\ branch.exists => run.old.exists
                   /\ branch.own => run.old.own
    /\ run.phase = "pushed" /\ branch.exists /\ branch.current =>
          run.base = main /\ branch.pins = run.new.pins

\* An up-to-date branch moves a pin backwards only to what was asked for.
BranchInv ==
    branch.exists /\ branch.own /\ branch.current =>
        \A a \in App : branch.pins[a] >= main[a] \/ branch.pins[a] = wanted[a]

\* A rebuilt branch moves the sidecar and its tunnel daemon together, with
\* respect to the main it was rebuilt from.
SlaveInv ==
    /\ Unpushed => Follows(run.base, run.new.pins)
    /\ branch.exists /\ branch.own /\ branch.current => Follows(main, branch.pins)

Inv == TypeOK /\ SlaveInv /\ RunInv /\ BranchInv /\ BodyTellsTheMerge

-----------------------------------------------------------------------------
\* What holds when nothing has been asked.

LEMMA InitialTypes ==
    /\ FirstPins \in Pins /\ NothingAsked \in Asked
    /\ NoBranch \in Branch /\ NoBody \in Body
    /\ NoRequest \in [full : BOOLEAN, verified : BOOLEAN, asked : Asked]
    /\ NoRun \in [phase : Phase, asked : Asked, base : Pins, old : Branch, new : Branch]
  <1>1. FirstPins \in Pins
    BY PromotionBounds DEF FirstPins, Pins, Commit
  <1>2. NothingAsked \in Asked
    BY PromotionBounds DEF NothingAsked, Asked
  <1>3. NoBranch \in Branch
    BY <1>1 DEF NoBranch, Branch
  <1>4. NoBody \in Body
    BY DEF NoBody, Body
  <1>5. QED
    BY <1>1, <1>2, <1>3, <1>4 DEF NoRequest, NoRun, Phase

\* An edit on main writes commits.
LEMMA EditedPins ==
    ASSUME TypeOK, NEW ks, NEW c \in Commit
    PROVE  Edited(ks, c) \in Pins
  BY DEF Edited, TypeOK, Pins

LEMMA InitInv == Init => Inv
  <1> SUFFICES ASSUME Init PROVE Inv
    OBVIOUS
  <1> USE DEF Init
  <1>1. TypeOK
    <2>0. main \in Pins
      <3>1. PICK slave \in Commit : main = [FirstPins EXCEPT ![Slave] = slave]
        OBVIOUS
      <3>2. QED
        BY <3>1, InitialTypes DEF Pins
    <2>1. landed \subseteq Pin \X Commit
      BY <2>0 DEF Pins
    <2>2. /\ used \in [requests : 0 .. MaxRequests, edits : 0 .. MaxEdits,
                       failures : 0 .. MaxFailures]
          /\ pr \in [open : BOOLEAN, body : Body]
      BY InitialTypes, PromotionBounds
    <2>3. died \in BOOLEAN
      OBVIOUS
    <2>4. QED
      BY <2>0, <2>1, <2>2, <2>3, InitialTypes DEF TypeOK
  <1>4. ~branch.exists /\ run.phase = "idle"
    BY DEF NoBranch, NoRun
  <1>5. SlaveInv /\ RunInv /\ BranchInv /\ BodyTellsTheMerge
    BY <1>4 DEF SlaveInv, RunInv, BranchInv, BodyTellsTheMerge, Unpushed, Mergeable
  <1>6. QED
    BY <1>1, <1>5 DEF Inv

-----------------------------------------------------------------------------
\* Every step preserves the invariant, part by part.

\* No run, merge or edit stores anything of the wrong type.
LEMMA NextType == Inv /\ [Next]_vars => TypeOK'
  <1> SUFFICES ASSUME Inv, [Next]_vars PROVE TypeOK'
    OBVIOUS
  <1> USE InitialTypes DEF Inv, TypeOK
  <1>1. ASSUME NEW verified \in BOOLEAN, NEW asked \in Asked, Request(verified, asked)
        PROVE  TypeOK'
    BY <1>1, PromotionBounds DEF Request, Wait
  <1>2. CASE SelfHeal
    BY <1>2 DEF SelfHeal, Wait
  <1>3. CASE Resolve
    BY <1>3 DEF Resolve, Phase
  <1>4. CASE Load
    <2>1. Carried(branch, main) \in Asked /\ Updated(main, Carried(branch, main)) \in Pins
      BY CarriedAhead, UpdatedPins
    <2>2. run' \in [phase : Phase, asked : Asked, base : Pins, old : Branch, new : Branch]
      BY <1>4, <2>1 DEF Load, Phase, Branch
    <2>3. QED
      BY <1>4, <2>2 DEF Load
  <1>5. CASE Update
    <2>1. Updated(run.new.pins, run.asked) \in Pins
      BY UpdatedPins DEF Branch
    <2>2. run' \in [phase : Phase, asked : Asked, base : Pins, old : Branch, new : Branch]
      BY <1>5, <2>1 DEF Update, Phase, Branch
    <2>3. QED
      BY <1>5, <2>2 DEF Update
  <1>6. CASE Push
    <2>1. wanted' \in Asked
      BY <1>6, PromotionBounds DEF Push, Asked
    <2>2. died' \in BOOLEAN
      BY <1>6, Zenon DEF Push
    <2>3. branch' \in Branch /\ run' \in [phase : Phase, asked : Asked, base : Pins,
                                         old : Branch, new : Branch]
      BY <1>6 DEF Push, Phase
    <2>4. QED
      BY <1>6, <2>1, <2>2, <2>3 DEF Push
  <1>7. CASE OpenPR
    <2>1. Rendered(Changes(run.base, run.new.pins)) \in Body
      BY RenderedMoves DEF Branch
    <2>2. died' \in BOOLEAN
      BY <1>7, Zenon DEF OpenPR
    <2>3. QED
      BY <1>7, <2>1, <2>2 DEF OpenPR
  <1>8. CASE Die
    BY <1>8, PromotionBounds DEF Die
  <1>9. ASSUME NEW pins \in Pins, Land(pins)
        PROVE  /\ main' \in Pins /\ wanted' \in Asked /\ landed' \subseteq Pin \X Commit
               /\ run' \in [phase : Phase, asked : Asked, base : Pins, old : Branch, new : Branch]
    <2>1. wanted' \in Asked
      BY <1>9, PromotionBounds DEF Land, Asked
    <2>2. landed' \subseteq Pin \X Commit
      BY <1>9 DEF Land, Pins
    <2>3. run' \in [phase : Phase, asked : Asked, base : Pins, old : Branch, new : Branch]
      BY <1>9 DEF Land, Branch
    <2>4. QED
      BY <1>9, <2>1, <2>2, <2>3 DEF Land
  <1>10. CASE Merge
    <2>1. branch.pins \in Pins /\ branch' \in Branch
      BY <1>10 DEF Merge, Branch
    <2>2. QED
      BY <1>9, <1>10, <2>1 DEF Merge
  <1>11. ASSUME NEW ks \in Editable, NEW c \in Commit, EditPin(ks, c) PROVE TypeOK'
    <2>1. Edited(ks, c) \in Pins
      BY EditedPins
    <2>2. branch' \in Branch
      BY <1>11 DEF EditPin, Branch
    <2>3. used' \in [requests : 0 .. MaxRequests, edits : 0 .. MaxEdits,
                     failures : 0 .. MaxFailures]
      BY <1>11, PromotionBounds DEF EditPin
    <2>4. QED
      BY <1>9, <1>11, <2>1, <2>2, <2>3 DEF EditPin
  <1>12. ASSUME NEW a \in App, NEW c \in Commit, ForcePush(a, c) PROVE TypeOK'
    BY <1>12 DEF ForcePush
  <1>13. CASE UNCHANGED vars
    BY <1>13 DEF vars
  <1>14. QED
    BY <1>1, <1>2, <1>3, <1>4, <1>5, <1>6, <1>7, <1>8, <1>10, <1>11, <1>12, <1>13
       DEF Next, RunStep

\* Carrying forward and updating move the slave with its driver, and a branch
\* that was rebuilt from another main cannot be merged.
LEMMA NextSlave == Inv /\ [Next]_vars => SlaveInv'
  <1> SUFFICES ASSUME Inv, [Next]_vars PROVE SlaveInv'
    OBVIOUS
  <1>0. TypeOK /\ SlaveInv /\ RunInv
    BY DEF Inv
  <1>a. ASSUME UNCHANGED <<main, branch>>, ~Unpushed' PROVE SlaveInv'
    BY <1>0, <1>a DEF SlaveInv
  <1>b. ASSUME UNCHANGED <<main, branch, run>> PROVE SlaveInv'
    BY <1>0, <1>b DEF SlaveInv, Unpushed
  <1>1. ASSUME NEW verified \in BOOLEAN, NEW asked \in Asked, Request(verified, asked)
        PROVE  SlaveInv'
    BY <1>b, <1>1 DEF Request
  <1>2. CASE SelfHeal
    BY <1>b, <1>2 DEF SelfHeal
  <1>3. CASE Resolve
    <2>1. run'.phase \in {"idle", "resolved"}
      BY <1>0, <1>3 DEF Resolve, TypeOK
    <2>2. QED
      BY <1>a, <1>3, <2>1 DEF Resolve, Unpushed
  <1>4. CASE Load
    <2>1. Follows(main, Updated(main, Carried(branch, main)))
      <3>1. Follows(main, main)
        BY DEF Follows
      <3>2. QED
        BY <1>0, <3>1, CarriedAhead, UpdatedFollows DEF TypeOK
    <2>2. run'.new.pins = Updated(main, Carried(branch, main)) /\ run'.base = main
      BY <1>0, <1>4 DEF Load, TypeOK
    <2>3. UNCHANGED <<main, branch>>
      BY <1>4 DEF Load
    <2>4. QED
      BY <1>0, <2>1, <2>2, <2>3 DEF SlaveInv
  <1>5. CASE Update
    <2>1. run.phase = "loaded" /\ UNCHANGED <<main, branch>>
      BY <1>5 DEF Update
    <2>2. Follows(run.base, Updated(run.new.pins, run.asked))
      BY <1>0, <2>1, UpdatedFollows DEF TypeOK, Branch, SlaveInv, Unpushed
    <2>3. run'.new.pins = Updated(run.new.pins, run.asked) /\ run'.base = run.base
      BY <1>0, <1>5 DEF Update, TypeOK, Branch
    <2>4. QED
      BY <1>0, <2>1, <2>2, <2>3 DEF SlaveInv
  <1>6. CASE Push
    <2>1. run.phase = "updated" /\ main' = main /\ branch' \in {branch, run.new}
      BY <1>6 DEF Push
    <2>2. run'.phase \in {"idle", "pushed"}
      BY <1>0, <1>6 DEF Push, NoRun, TypeOK
    <2>3. CASE branch' = branch
      BY <1>a, <2>1, <2>2, <2>3 DEF Unpushed
    <2>4. CASE branch' = run.new
      <3>1. run.new.current => Follows(main, run.new.pins)
        BY <1>0, <2>1 DEF SlaveInv, RunInv, Unpushed
      <3>2. QED
        BY <2>1, <2>2, <2>4, <3>1 DEF SlaveInv, Unpushed
    <2>5. QED
      BY <2>1, <2>3, <2>4
  <1>7. CASE OpenPR
    BY <1>a, <1>7 DEF OpenPR, NoRun, Unpushed
  <1>8. CASE Die
    BY <1>a, <1>8 DEF Die, NoRun, Unpushed
  <1>9. ASSUME NEW pins, Land(pins),
               branch' \in {NoBranch, [branch EXCEPT !.current = FALSE]}
        PROVE  SlaveInv'
    <2>1. /\ run'.phase = run.phase /\ run'.base = run.base
          /\ run'.new.pins = run.new.pins
      BY <1>0, <1>9 DEF Land, TypeOK, Branch
    <2>2. ~branch'.current
      BY <1>0, <1>9 DEF TypeOK, Branch, NoBranch
    <2>3. QED
      BY <1>0, <2>1, <2>2 DEF SlaveInv, Unpushed
  <1>10. CASE Merge
    BY <1>9, <1>10 DEF Merge
  <1>11. ASSUME NEW ks \in Editable, NEW c \in Commit, EditPin(ks, c) PROVE SlaveInv'
    BY <1>9, <1>11 DEF EditPin
  <1>12. ASSUME NEW a \in App, NEW c \in Commit, ForcePush(a, c) PROVE SlaveInv'
    BY <1>0, <1>12 DEF ForcePush, SlaveInv, Unpushed
  <1>13. CASE UNCHANGED vars
    BY <1>b, <1>13 DEF vars
  <1>14. QED
    BY <1>1, <1>2, <1>3, <1>4, <1>5, <1>6, <1>7, <1>8, <1>10, <1>11, <1>12, <1>13
       DEF Next, RunStep

\* A rebuilt branch is main's pins with what is ahead of them, then what was
\* asked for; a push leaves exactly that.
LEMMA NextRun == Inv /\ [Next]_vars => RunInv'
  <1> SUFFICES ASSUME Inv, [Next]_vars PROVE RunInv'
    OBVIOUS
  <1>0. TypeOK /\ RunInv
    BY DEF Inv
  <1> USE DEF RunInv, Unpushed
  <1>1. ASSUME NEW verified \in BOOLEAN, NEW asked \in Asked, Request(verified, asked)
        PROVE  RunInv'
    BY <1>0, <1>1 DEF Request
  <1>2. CASE SelfHeal
    BY <1>0, <1>2 DEF SelfHeal
  <1>3. CASE Resolve
    <2>1. run'.phase \in {"idle", "resolved"}
      BY <1>0, <1>3 DEF Resolve, TypeOK
    <2>2. QED
      BY <2>1
  <1>4. CASE Load
    <2> DEFINE carried == Carried(branch, main)
               pins == Updated(main, carried)
    <2>1. /\ run'.phase = "loaded" /\ run'.base = main /\ run'.old = branch
          /\ run'.new.pins = pins
      BY <1>0, <1>4 DEF Load, TypeOK
    <2>2. ASSUME NEW a \in App PROVE pins[a] >= main[a]
      <3>1. main[a] \in Commit /\ carried[a] \in 0 .. MaxCommit
        BY <1>0, <2>2, PinMoves, CarriedAhead DEF TypeOK, Pins, Asked
      <3>2. pins[a] = IF carried[a] # 0 THEN carried[a] ELSE main[a]
        BY <1>0, <2>2, CarriedAhead, UpdatedPins DEF TypeOK
      <3>3. carried[a] # 0 => carried[a] > main[a]
        BY <1>0, <2>2, CarriedAhead DEF TypeOK
      <3> HIDE DEF pins, carried
      <3>4. QED
        BY <3>1, <3>2, <3>3, PromotionBounds DEF Commit
    <2>3. main' = main /\ branch' = branch
      BY <1>4 DEF Load
    <2> HIDE DEF pins
    <2>4. QED
      BY <2>1, <2>2, <2>3
  <1>5. CASE Update
    <2> DEFINE pins == Updated(run.new.pins, run.asked)
    <2>1. /\ run.phase = "loaded" /\ run'.phase = "updated" /\ run'.base = run.base
          /\ run'.old = run.old /\ run'.asked = run.asked
          /\ run'.new.pins = pins /\ run'.new.current = run.new.current
          /\ main' = main /\ branch' = branch
      BY <1>0, <1>5 DEF Update, TypeOK, Branch
    <2>2. ASSUME NEW a \in App
          PROVE  pins[a] = IF run.asked[a] # 0 THEN run.asked[a] ELSE run.new.pins[a]
      <3>1. run.new.pins \in Pins /\ run.asked \in Asked
        BY <1>0 DEF TypeOK, Branch
      <3>2. QED
        BY <2>2, <3>1, UpdatedPins
    <2> HIDE DEF pins
    <2>3. QED
      BY <1>0, <2>1, <2>2
  <1>6. CASE Push
    <2>1. run.phase = "updated" /\ main' = main
      BY <1>6 DEF Push
    <2>2. CASE run' = NoRun
      BY <2>2 DEF NoRun
    <2>3. CASE run' # NoRun
      <3>1. /\ run'.phase = "pushed" /\ run'.base = run.base /\ run'.new = run.new
            /\ branch' = run.new
        BY <1>0, <1>6, <2>3 DEF Push, TypeOK
      <3>2. QED
        BY <1>0, <2>1, <3>1
    <2>4. QED
      BY <2>2, <2>3
  <1>7. CASE OpenPR
    BY <1>7 DEF OpenPR, NoRun
  <1>8. CASE Die
    BY <1>8 DEF Die, NoRun
  <1>9. ASSUME NEW pins, Land(pins),
               branch' \in {NoBranch, [branch EXCEPT !.current = FALSE]}
        PROVE  RunInv'
    <2>1. /\ run'.phase = run.phase /\ run'.base = run.base /\ run'.old = run.old
          /\ run'.asked = run.asked /\ run'.new.pins = run.new.pins /\ ~run'.new.current
      BY <1>0, <1>9 DEF Land, TypeOK, Branch
    <2>2. /\ ~branch'.current
          /\ branch'.exists => branch.exists
          /\ branch'.own => branch.own
      BY <1>0, <1>9 DEF TypeOK, Branch, NoBranch
    <2>3. QED
      BY <1>0, <2>1, <2>2
  <1>10. CASE Merge
    BY <1>9, <1>10 DEF Merge
  <1>11. ASSUME NEW ks \in Editable, NEW c \in Commit, EditPin(ks, c) PROVE RunInv'
    BY <1>9, <1>11 DEF EditPin
  <1>12. ASSUME NEW a \in App, NEW c \in Commit, ForcePush(a, c) PROVE RunInv'
    BY <1>0, <1>12 DEF ForcePush
  <1>13. CASE UNCHANGED vars
    BY <1>0, <1>13 DEF vars
  <1>14. QED
    BY <1>1, <1>2, <1>3, <1>4, <1>5, <1>6, <1>7, <1>8, <1>10, <1>11, <1>12, <1>13
       DEF Next, RunStep

\* A run that pushes nothing leaves no branch with pins of its own behind.
LEMMA NothingToPush ==
    ASSUME Inv, Push, branch' # run.new, ~died'
    PROVE  ~(branch'.exists /\ branch'.own)
  <1> DEFINE needed == run.new.own \/ (run.old.exists /\ (run.old.own \/ ~run.old.current))
             rejected == needed /\ branch.exists # run.old.exists
  <1>1. branch' = branch /\ died' = rejected /\ ~(needed /\ ~rejected)
    BY DEF Push
  <1>2. ~needed
    BY <1>1
  <1>3. branch.exists /\ branch.own => run.old.exists /\ run.old.own
    BY DEF Inv, RunInv, Unpushed, Push
  <1>4. QED
    BY <1>1, <1>2, <1>3

\* A push writes a branch that runs backwards only where it was asked to.
LEMMA NextBranch == Inv /\ [Next]_vars => BranchInv'
  <1> SUFFICES ASSUME Inv, [Next]_vars PROVE BranchInv'
    OBVIOUS
  <1>0. TypeOK /\ RunInv /\ BranchInv
    BY DEF Inv
  <1>a. ASSUME UNCHANGED <<main, branch, wanted>> PROVE BranchInv'
    BY <1>0, <1>a DEF BranchInv
  <1>1. ASSUME NEW verified \in BOOLEAN, NEW asked \in Asked, Request(verified, asked)
        PROVE  BranchInv'
    BY <1>a, <1>1 DEF Request
  <1>2. CASE SelfHeal
    BY <1>a, <1>2 DEF SelfHeal
  <1>3. CASE Resolve
    BY <1>a, <1>3 DEF Resolve
  <1>4. CASE Load
    BY <1>a, <1>4 DEF Load
  <1>5. CASE Update
    BY <1>a, <1>5 DEF Update
  <1>6. CASE Push
    <2>1. CASE branch' = branch /\ died'
      <3>1. wanted' = wanted /\ main' = main
        <4>1. \A a \in App : wanted'[a] = wanted[a]
          BY <1>6, <2>1 DEF Push
        <4>2. QED
          BY <1>0, <1>6, <4>1 DEF Push, TypeOK, Asked
      <3>2. QED
        BY <1>a, <2>1, <3>1
    <2>2. CASE branch' # run.new /\ ~died'
      BY <1>6, <2>2, NothingToPush DEF BranchInv
    <2>3. CASE branch' = run.new /\ ~died'
      <3> SUFFICES ASSUME run.new.current, NEW a \in App
                   PROVE  run.new.pins[a] >= main[a] \/ run.new.pins[a] = wanted'[a]
        BY <1>6, <2>3 DEF BranchInv, Push
      <3>1. run.phase = "updated" /\ run.base = main
        BY <1>0, <1>6 DEF Push, RunInv, Unpushed
      <3>2. CASE run.new.pins[a] >= main[a]
        BY <3>2
      <3>3. CASE run.asked[a] # 0 /\ run.new.pins[a] = run.asked[a]
        <4>1. wanted'[a] = IF run.asked[a] = main[a] THEN 0 ELSE run.asked[a]
          BY <1>6, <2>3, <3>3 DEF Push
        <4>2. main[a] \in Commit
          BY <1>0, PinMoves DEF TypeOK, Pins
        <4>3. QED
          BY <3>3, <4>1, <4>2 DEF Commit
      <3>4. QED
        BY <1>0, <3>1, <3>2, <3>3 DEF RunInv
    <2>4. QED
      BY <1>6, <2>1, <2>2, <2>3 DEF Push
  <1>7. CASE OpenPR
    BY <1>a, <1>7 DEF OpenPR
  <1>8. CASE Die
    BY <1>a, <1>8 DEF Die
  <1>9. ASSUME branch' \in {NoBranch, [branch EXCEPT !.current = FALSE]}
        PROVE  BranchInv'
    BY <1>0, <1>9 DEF BranchInv, TypeOK, Branch, NoBranch
  <1>10. CASE Merge
    BY <1>9, <1>10 DEF Merge
  <1>11. ASSUME NEW ks \in Editable, NEW c \in Commit, EditPin(ks, c) PROVE BranchInv'
    BY <1>9, <1>11 DEF EditPin
  <1>12. ASSUME NEW a \in App, NEW c \in Commit, ForcePush(a, c) PROVE BranchInv'
    BY <1>a, <1>12 DEF ForcePush
  <1>13. CASE UNCHANGED vars
    BY <1>a, <1>13 DEF vars
  <1>14. QED
    BY <1>1, <1>2, <1>3, <1>4, <1>5, <1>6, <1>7, <1>8, <1>10, <1>11, <1>12, <1>13
       DEF Next, RunStep

\* Whatever makes the branch mergeable also writes the body, or has a run still
\* to write it, or has died.
LEMMA NextBody == Inv /\ [Next]_vars => BodyTellsTheMerge'
  <1> SUFFICES ASSUME Inv, [Next]_vars PROVE BodyTellsTheMerge'
    OBVIOUS
  <1>0. TypeOK /\ RunInv /\ BodyTellsTheMerge
    BY DEF Inv
  <1>a. ASSUME UNCHANGED <<main, branch, pr, run, died>> PROVE BodyTellsTheMerge'
    BY <1>0, <1>a DEF BodyTellsTheMerge, Mergeable
  <1>b. ASSUME run'.phase # "idle" PROVE BodyTellsTheMerge'
    BY <1>b DEF BodyTellsTheMerge
  <1>c. ASSUME died' PROVE BodyTellsTheMerge'
    BY <1>c DEF BodyTellsTheMerge
  <1>d. ASSUME ~Mergeable' PROVE BodyTellsTheMerge'
    BY <1>d DEF BodyTellsTheMerge
  <1>1. ASSUME NEW verified \in BOOLEAN, NEW asked \in Asked, Request(verified, asked)
        PROVE  BodyTellsTheMerge'
    BY <1>a, <1>1 DEF Request
  <1>2. CASE SelfHeal
    BY <1>a, <1>2 DEF SelfHeal
  <1>3. CASE Resolve
    <2>1. died' \/ run'.phase = "resolved"
      BY <1>0, <1>3 DEF Resolve, TypeOK
    <2>2. QED
      BY <1>b, <1>c, <2>1
  <1>4. CASE Load
    <2>1. run'.phase = "loaded"
      BY <1>0, <1>4 DEF Load, TypeOK
    <2>2. QED
      BY <1>b, <2>1
  <1>5. CASE Update
    <2>1. run'.phase = "updated"
      BY <1>0, <1>5 DEF Update, TypeOK
    <2>2. QED
      BY <1>b, <2>1
  <1>6. CASE Push
    <2>1. CASE branch' # run.new /\ ~died'
      BY <1>6, <1>d, <2>1, NothingToPush DEF Mergeable
    <2>2. CASE branch' = run.new /\ run.new.own /\ ~died'
      <3>1. run' = [run EXCEPT !.phase = "pushed"]
        BY <1>6, <2>2 DEF Push
      <3>2. QED
        BY <1>0, <1>b, <3>1 DEF TypeOK
    <2>3. CASE branch' = run.new /\ ~run.new.own
      BY <1>d, <2>3 DEF Mergeable
    <2>4. QED
      BY <1>c, <2>1, <2>2, <2>3
  <1>7. CASE OpenPR
    <2> SUFFICES ASSUME Mergeable' PROVE BodyTellsTheMerge'
      BY <1>d
    <2> DEFINE body == Rendered(Changes(run.base, run.new.pins))
    <2>1. /\ run.phase = "pushed" /\ branch' = branch /\ main' = main
          /\ branch.exists /\ branch.current /\ pr' = [open |-> TRUE, body |-> body]
      BY <1>7 DEF OpenPR, Mergeable
    <2>2. run.base = main /\ branch.pins = run.new.pins
      BY <1>0, <2>1 DEF RunInv
    <2>3. LET moved == {k \in Pin : main[k] # branch.pins[k]}
          IN  /\ body.pinned = {<<k, branch.pins[k]>> : k \in moved}
              /\ body.rollback = {<<k, main[k]>> : k \in moved}
      BY <1>0, <2>2, RenderedMoves DEF TypeOK, Branch
    <2>4. pr'.body = body
      BY <2>1
    <2> HIDE DEF body
    <2>5. QED
      BY <2>1, <2>3, <2>4 DEF BodyTellsTheMerge
  <1>8. CASE Die
    BY <1>c, <1>8 DEF Die
  <1>10. CASE Merge
    <2>1. ~pr'.open
      BY <1>10 DEF Merge
    <2>2. QED
      BY <1>d, <2>1 DEF Mergeable
  <1>11. ASSUME NEW ks \in Editable, NEW c \in Commit, EditPin(ks, c) PROVE BodyTellsTheMerge'
    <2>1. ~branch'.current
      BY <1>0, <1>11 DEF EditPin, TypeOK, Branch
    <2>2. QED
      BY <1>d, <2>1 DEF Mergeable
  <1>12. ASSUME NEW a \in App, NEW c \in Commit, ForcePush(a, c) PROVE BodyTellsTheMerge'
    BY <1>a, <1>12 DEF ForcePush
  <1>13. CASE UNCHANGED vars
    BY <1>a, <1>13 DEF vars
  <1>14. QED
    BY <1>1, <1>2, <1>3, <1>4, <1>5, <1>6, <1>7, <1>8, <1>10, <1>11, <1>12, <1>13
       DEF Next, RunStep

\* What every reachable state satisfies.
LEMMA InvAlways == Spec => []Inv
  <1>1. Inv /\ [Next]_vars => Inv'
    BY NextType, NextSlave, NextRun, NextBranch, NextBody DEF Inv
  <1>2. QED
    BY InitInv, <1>1, PTL DEF Spec

-----------------------------------------------------------------------------
\* The theorems.

\* Runs, merges and edits store nothing but well-formed branches, bodies and
\* requests.
THEOREM TypeCorrect == Spec => []TypeOK
  BY InvAlways, PTL DEF Inv

\* The body of a PR that can be merged lists what the merge moves and what to
\* roll back to, whichever requests, edits and merges came between the runs.
THEOREM BodyHolds == Spec => []BodyTellsTheMerge
  BY InvAlways, PTL DEF Inv

\* Only a merge closes the promotion PR.
LEMMA OnlyMergeCloses ==
    ASSUME Inv, [Next]_vars, pr.open, ~pr'.open
    PROVE  Merge
  <1> SUFFICES ASSUME ~Merge PROVE FALSE
    OBVIOUS
  <1>1. CASE OpenPR
    BY <1>1 DEF OpenPR
  <1>2. CASE SelfHeal \/ Resolve \/ Load \/ Update \/ Push \/ Die \/ UNCHANGED vars
    BY <1>2 DEF SelfHeal, Resolve, Load, Update, Push, Die, vars
  <1>3. ASSUME NEW verified \in BOOLEAN, NEW asked \in Asked, Request(verified, asked)
        PROVE  FALSE
    BY <1>3 DEF Request
  <1>4. ASSUME NEW ks \in Editable, NEW c \in Commit, EditPin(ks, c) PROVE FALSE
    BY <1>4 DEF EditPin
  <1>5. ASSUME NEW a \in App, NEW c \in Commit, ForcePush(a, c) PROVE FALSE
    BY <1>5 DEF ForcePush
  <1>6. QED
    BY <1>1, <1>2, <1>3, <1>4, <1>5 DEF Next, RunStep

\* No merge of the promotion PR leaves the sidecar and its tunnel daemon on
\* different commits, unless main had them there and it touches neither.
THEOREM SlaveFollows == Spec => SlaveFollowsDriver
  <1> DEFINE Together == pr.open /\ ~pr'.open =>
                           \/ main'[Driver] = main[Driver] /\ main'[Slave] = main[Slave]
                           \/ main'[Slave] = main'[Driver]
  <1>1. ASSUME Inv, [Next]_vars PROVE [Together]_vars
    <2> SUFFICES ASSUME pr.open, ~pr'.open PROVE Together
      OBVIOUS
    <2>1. main' = branch.pins /\ branch.exists /\ branch.own /\ branch.current
      BY <1>1, OnlyMergeCloses DEF Merge, Land, Mergeable
    <2>2. QED
      BY <1>1, <2>1 DEF Inv, SlaveInv, Follows
  <1>2. QED
    BY <1>1, InvAlways, PTL DEF Spec, SlaveFollowsDriver

\* Merging the promotion PR never undoes a newer deploy that nobody asked to undo.
THEOREM MergeNeverRegresses == Spec => PromotionNeverRegresses
  <1> DEFINE Closes == pr.open /\ ~pr'.open =>
                         \A a \in App : main'[a] >= main[a] \/ main'[a] = wanted[a]
  <1>1. ASSUME Inv, [Next]_vars PROVE [Closes]_vars
    <2> SUFFICES ASSUME pr.open, ~pr'.open PROVE Closes
      OBVIOUS
    <2>1. main' = branch.pins /\ branch.exists /\ branch.own /\ branch.current
      BY <1>1, OnlyMergeCloses DEF Merge, Land, Mergeable
    <2>2. QED
      BY <1>1, <2>1 DEF Inv, BranchInv
  <1>2. QED
    BY <1>1, InvAlways, PTL DEF Spec, PromotionNeverRegresses
=============================================================================
