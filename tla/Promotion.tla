----------------------------- MODULE Promotion -----------------------------
(***************************************************************************)
(* How an application commit gets its pin on main: the runs of             *)
(* .github/workflows/promote-apps.yml with scripts/ci/promote-app-pins.py  *)
(* and scripts/ci/pending-app-promotions.py, the one promotion branch they *)
(* rebuild, the promotion pull request, and the people who merge it, edit  *)
(* pins on main themselves and force-push in the app repositories.         *)
(*                                                                         *)
(* Main and the branch are what they pin; a commit is its position on the  *)
(* main branch of its app repository.  Runs are serial: one runs and one   *)
(* waits, and a newer request takes the place of the one that waits.       *)
(***************************************************************************)
EXTENDS Naturals, FiniteSets

CONSTANTS
    App,          \* the keys of PIN_TARGETS
    Driver,       \* the app whose repository has a second daemon
    Slave,        \* the pin of that daemon (_SLAVED_PINS)
    MaxCommit,    \* bound: commits are 1 .. MaxCommit in every app repository
    MaxRequests,  \* bound on promotion requests
    MaxEdits,     \* bound on pins edited on main by hand
    MaxFailures,  \* bound on runs that die
    MaxGone       \* bound on commits that are force-pushed away

ASSUME PinAssumption == Driver \in App /\ Slave \notin App

ASSUME PromotionBounds ==
    /\ MaxCommit \in Nat \ {0} /\ MaxRequests \in Nat
    /\ MaxEdits \in Nat /\ MaxFailures \in Nat /\ MaxGone \in Nat

Commit == 1 .. MaxCommit
Pin == App \cup {Slave}
Pins == [Pin -> Commit]

\* The SHA inputs of a run; 0 is an empty input.
Asked == [App -> 0 .. MaxCommit]
NothingAsked == [a \in App |-> 0]

\* A branch tip: its pins, whether it has commits of its own, and whether it
\* still contains the tip of main.
Branch == [exists : BOOLEAN, pins : Pins, own : BOOLEAN, current : BOOLEAN]

\* A PR body: the pins after the merge, and the values to roll back to.
Body == [pinned : SUBSET (Pin \X Commit), rollback : SUBSET (Pin \X Commit)]
NoBody == [pinned |-> {}, rollback |-> {}]

VARIABLES
    main,      \* the pins on main
    branch,    \* promotion/app-sha-pins on the remote
    pr,        \* the promotion PR and its body
    waiting,   \* the request that waits for the concurrency group
    run,       \* the run in progress
    gone,      \* commits that were force-pushed away
    used,      \* how much of each bound is used up
    \* what the properties need to know of the past
    wanted,    \* the commit last asked for each app and not yet superseded
    landed,    \* the pins main has had
    died       \* the last run died

vars == <<main, branch, pr, waiting, run, gone, used, wanted, landed, died>>

Phase == {"idle", "resolved", "loaded", "updated", "pushed"}

TypeOK ==
    /\ main \in Pins
    /\ branch \in Branch
    /\ pr \in [open : BOOLEAN, body : Body]
    /\ waiting \in [full : BOOLEAN, verified : BOOLEAN, asked : Asked]
    /\ run \in [phase : Phase, asked : Asked, base : Pins, old : Branch, new : Branch]
    /\ gone \subseteq App \X Commit
    /\ used \in [requests : 0 .. MaxRequests, edits : 0 .. MaxEdits,
                 failures : 0 .. MaxFailures]
    /\ wanted \in Asked
    /\ landed \subseteq Pin \X Commit
    /\ died \in BOOLEAN

\* The pins where there is no branch and no run.
FirstPins == [k \in Pin |-> 1]
NoBranch == [exists |-> FALSE, pins |-> FirstPins, own |-> FALSE, current |-> FALSE]
NoRequest == [full |-> FALSE, verified |-> FALSE, asked |-> NothingAsked]
NoRun == [phase |-> "idle", asked |-> NothingAsked, base |-> FirstPins,
          old |-> NoBranch, new |-> NoBranch]

\* There is no promotion branch; every app is at its first commit, and the
\* slave wherever its last hand edit left it (host_vars/netproxy.yml).
Init ==
    /\ \E slave \in Commit : main = [FirstPins EXCEPT ![Slave] = slave]
    /\ branch = NoBranch
    /\ pr = [open |-> FALSE, body |-> NoBody]
    /\ waiting = NoRequest
    /\ run = NoRun
    /\ gone = {}
    /\ used = [requests |-> 0, edits |-> 0, failures |-> 0]
    /\ wanted = NothingAsked
    /\ landed = {<<k, main[k]>> : k \in Pin}
    /\ died = FALSE

(***************************************************************************)
(* The two scripts                                                         *)
(***************************************************************************)

CompareAnything(a, base, head) == IF head = base THEN "identical" ELSE "ahead"

\* GitHub's compare API; a 404 for either commit is reported as "gone".
CompareStatus(a, base, head) ==
    IF {<<a, base>>, <<a, head>>} \cap gone # {} THEN "gone"
    ELSE IF head > base THEN "ahead"
    ELSE IF head = base THEN "identical" ELSE "behind"

CarriedNothing(old, current) == NothingAsked

\* pending-app-promotions.py: the pins of the old tip that are still ahead.
Carried(old, current) ==
    [a \in App |->
        IF old.exists /\ CompareStatus(a, current[a], old.pins[a]) = "ahead"
        THEN old.pins[a] ELSE 0]

\* promote-app-pins.py: the app a pin moves with, and the pins it writes.
Moves(k) == IF k = Slave THEN Driver ELSE k

UpdatedWithoutSlave(pins, asked) ==
    [k \in Pin |-> IF k \in App /\ asked[Moves(k)] # 0 THEN asked[k] ELSE pins[k]]

UpdatedWithEmpty(pins, asked) == [k \in Pin |-> asked[Moves(k)]]

Updated(pins, asked) ==
    [k \in Pin |-> IF asked[Moves(k)] # 0 THEN asked[Moves(k)] ELSE pins[k]]

\* ref_changes: the pins that differ, with the value to roll back to.
Changes(from, to) == {<<k, from[k], to[k]>> : k \in {j \in Pin : from[j] # to[j]}}

\* render_body: the new values and, in the rollback section, the old ones.
Rendered(changes) ==
    [pinned |-> {<<c[1], c[3]>> : c \in changes}, rollback |-> {<<c[1], c[2]>> : c \in changes}]

(***************************************************************************)
(* A run of promote-apps                                                   *)
(***************************************************************************)

\* A request joins the concurrency group and displaces the one that waits.
Wait(verified, asked) ==
    waiting' = [full |-> TRUE, verified |-> verified, asked |-> asked]

\* An app repository asks for one commit, or an operator for several.
Request(verified, asked) ==
    /\ used.requests < MaxRequests
    /\ verified => Cardinality({a \in App : asked[a] # 0}) = 1
    /\ Wait(verified, asked)
    /\ used' = [used EXCEPT !.requests = @ + 1]
    /\ UNCHANGED <<main, branch, pr, run, gone, wanted, landed, died>>

\* The PR can be merged: main is protected and wants an up-to-date branch.
Mergeable == pr.open /\ branch.exists /\ branch.own /\ branch.current

\* The runbook's self-heal: an operator runs the workflow with empty inputs
\* when the branch has pins to promote and its PR cannot be merged.
SelfHeal ==
    /\ run.phase = "idle" /\ ~waiting.full
    /\ branch.exists /\ branch.own /\ ~Mergeable
    /\ Wait(FALSE, NothingAsked)
    /\ UNCHANGED <<main, branch, pr, run, gone, used, wanted, landed, died>>

\* The waiting run starts and resolves its request: the commit of an app
\* repository's dispatch must still exist, an operator's input is trusted.
Resolve ==
    LET found == ~waiting.verified
                 \/ \A a \in App : <<a, waiting.asked[a]>> \notin gone
    IN  /\ run.phase = "idle" /\ waiting.full
        /\ run' = IF found THEN [run EXCEPT !.phase = "resolved", !.asked = waiting.asked] ELSE run
        /\ died' = ~found
        /\ waiting' = NoRequest
        /\ UNCHANGED <<main, branch, pr, gone, used, wanted, landed>>

\* The branch is rebuilt from main, with the pins still pending on the old
\* tip in a commit of their own.
Load ==
    LET carried == Carried(branch, main)
    IN  /\ run.phase = "resolved"
        /\ run' = [run EXCEPT !.phase = "loaded", !.base = main, !.old = branch,
                   !.new = [exists |-> TRUE, pins |-> Updated(main, carried),
                            own |-> carried # NothingAsked, current |-> TRUE]]
        /\ UNCHANGED <<main, branch, pr, waiting, gone, used, wanted, landed, died>>

\* The requested pins, committed when they change anything.
Update ==
    LET pins == Updated(run.new.pins, run.asked)
    IN  /\ run.phase = "loaded"
        /\ run' = [run EXCEPT !.phase = "updated", !.new.pins = pins,
                   !.new.own = @ \/ pins # run.new.pins]
        /\ UNCHANGED <<main, branch, pr, waiting, gone, used, wanted, landed, died>>

\* The push, with a lease on the tip that was fetched.  A branch without
\* commits of its own is pushed only to heal a stale one, and needs no PR.
Push ==
    LET needed == run.new.own \/ (run.old.exists /\ (run.old.own \/ ~run.old.current))
        rejected == needed /\ branch.exists # run.old.exists
    IN  /\ run.phase = "updated"
        /\ branch' = IF needed /\ ~rejected THEN run.new ELSE branch
        /\ run' = IF run.new.own /\ ~rejected THEN [run EXCEPT !.phase = "pushed"] ELSE NoRun
        /\ died' = rejected
        /\ wanted' = [a \in App |-> IF run.asked[a] = 0 \/ rejected THEN wanted[a]
                                 ELSE IF run.asked[a] = main[a] THEN 0 ELSE run.asked[a]]
        /\ UNCHANGED <<main, pr, waiting, gone, used, landed>>

RequestedChanges(from, to) ==
    {c \in Changes(from, to) : c[1] \in App /\ run.asked[c[1]] # 0}

OpenPRForRequest ==
    /\ run.phase = "pushed"
    /\ pr' = [open |-> TRUE, body |-> Rendered(RequestedChanges(run.base, run.new.pins))]
    /\ run' = NoRun
    /\ died' = FALSE
    /\ UNCHANGED <<main, branch, waiting, gone, used, wanted, landed>>

\* The PR is opened or edited, its body rendered from the whole difference
\* to the main that was fetched.  A PR cannot be opened for a deleted branch.
OpenPR ==
    /\ run.phase = "pushed"
    /\ pr' = IF pr.open \/ branch.exists
             THEN [open |-> TRUE, body |-> Rendered(Changes(run.base, run.new.pins))] ELSE pr
    /\ died' = (pr' = pr /\ ~pr.open)
    /\ run' = NoRun
    /\ UNCHANGED <<main, branch, waiting, gone, used, wanted, landed>>

\* The run dies between two steps: an API error, a failed validation, the
\* job's timeout, the runner.
Die ==
    /\ run.phase # "idle" /\ used.failures < MaxFailures
    /\ run' = NoRun
    /\ died' = TRUE
    /\ used' = [used EXCEPT !.failures = @ + 1]
    /\ UNCHANGED <<main, branch, pr, waiting, gone, wanted, landed>>

(***************************************************************************)
(* People and repositories                                                 *)
(***************************************************************************)

\* Main gets new pins and a new tip; what was wanted and main has reached is settled.
Land(pins) ==
    /\ main' = pins
    /\ run' = [run EXCEPT !.new.current = FALSE]
    /\ landed' = landed \cup {<<k, pins[k]>> : k \in Pin}
    /\ wanted' = [a \in App |->
                    IF pins[a] = wanted[a] \/ (pins[a] # main[a] /\ pins[a] > wanted[a])
                    THEN 0 ELSE wanted[a]]

\* The promotion PR is merged; its branch may be deleted.
Merge ==
    /\ Mergeable
    /\ Land(branch.pins)
    /\ pr' = [open |-> FALSE, body |-> NoBody]
    /\ \E kept \in BOOLEAN : branch' = IF kept THEN [branch EXCEPT !.current = FALSE] ELSE NoBranch
    /\ UNCHANGED <<waiting, gone, used, died>>

\* What a person edits at once: one pin, or a driver together with its slave.
Editable == {{k} : k \in Pin} \cup {{Driver, Slave}}

Edited(ks, c) == [k \in Pin |-> IF k \in ks THEN c ELSE main[k]]

\* Pins edited on main with a PR of its own: a deploy or a rollback.  Nothing
\* makes the slave follow here.
EditPin(ks, c) ==
    /\ used.edits < MaxEdits /\ Edited(ks, c) # main
    /\ Land(Edited(ks, c))
    /\ branch' = [branch EXCEPT !.current = FALSE]
    /\ used' = [used EXCEPT !.edits = @ + 1]
    /\ UNCHANGED <<pr, waiting, gone, died>>

\* A commit disappears from its app repository.
ForcePush(a, c) ==
    /\ <<a, c>> \notin gone /\ Cardinality(gone) < MaxGone
    /\ gone' = gone \cup {<<a, c>>}
    /\ UNCHANGED <<main, branch, pr, waiting, run, used, wanted, landed, died>>

RunStep == Resolve \/ Load \/ Update \/ Push \/ OpenPR

Next ==
    \/ \E verified \in BOOLEAN, asked \in Asked : Request(verified, asked)
    \/ SelfHeal \/ RunStep \/ Die \/ Merge
    \/ \E ks \in Editable, c \in Commit : EditPin(ks, c)
    \/ \E a \in App, c \in Commit : ForcePush(a, c)

Spec == Init /\ [][Next]_vars

\* GitHub runs the jobs, and operators heal and merge.
LiveSpec == Spec /\ WF_vars(RunStep) /\ WF_vars(SelfHeal) /\ WF_vars(Merge)

(***************************************************************************)
(* Properties                                                              *)
(***************************************************************************)

\* A promotion never moves the sidecar without its tunnel daemon (the comment
\* on _SLAVED_PINS): a merge leaves both pins as main has them or at one
\* commit, though people edit either of them alone and the branch is rebuilt
\* while main moves.
SlaveFollowsDriver ==
    [][pr.open /\ ~pr'.open =>
        \/ main'[Driver] = main[Driver] /\ main'[Slave] = main[Slave]
        \/ main'[Slave] = main'[Driver]]_vars

\* A PR that can be merged lists exactly the pins the merge changes and the
\* value main has now for each, unless a run died after its push or is still
\* about to edit the PR.
BodyTellsTheMerge ==
    Mergeable /\ run.phase = "idle" /\ ~died =>
        LET moved == {k \in Pin : main[k] # branch.pins[k]}
        IN  /\ pr.body.pinned = {<<k, branch.pins[k]>> : k \in moved}
            /\ pr.body.rollback = {<<k, main[k]>> : k \in moved}

\* A merge moves a pin backwards only to a commit somebody asked for after
\* main's: rebuilding and carrying forward never undo a newer deploy.
PromotionNeverRegresses ==
    [][pr.open /\ ~pr'.open =>
        \A a \in App : main'[a] >= main[a] \/ main'[a] = wanted[a]]_vars

\* What reached the branch is promoted whatever runs for other apps rebuild
\* the branch, whichever run dies and whoever edits main, unless somebody
\* asks for another commit of the app or the app repository loses one.
Promoted ==
    \A a \in App, c \in Commit :
        (branch.exists /\ branch.own /\ branch.pins[a] = c /\ wanted[a] = c /\ c > main[a])
            ~> (wanted[a] # c \/ {<<a, c>>, <<a, main[a]>>} \cap gone # {})

\* The pins a run carries forward are promotions that are still pending:
\* main has not had them yet (pending-app-promotions.py, lines 6-8).
CarriedPinsArePending ==
    [][run'.phase = "loaded" /\ run.phase # "loaded" =>
        \A a \in App : run'.new.pins[a] # main[a] => <<a, run'.new.pins[a]>> \notin landed]_vars
=============================================================================
