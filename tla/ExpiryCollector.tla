--------------------------- MODULE ExpiryCollector ---------------------------
(***************************************************************************)
(* The OVH expiry collector of extmon (ovh-expiry-collector.py), its timer *)
(* and the three alert rules that read what it writes.                     *)
(*                                                                         *)
(* Time is counted in timer intervals; an expiry date is near or far.      *)
(***************************************************************************)
EXTENDS Naturals, FiniteSets

CONSTANTS
    FailoverIPs,   \* how many FAILOVER_IPS
    Bills,         \* how many invoices this month has
    Unpaid,        \* how many of them, the first, are unpaid
    StaleAfter,    \* intervals in the 3600 seconds of OVHCollectorStale
    ErrorsFor      \* intervals in the 30 minutes of OVHCollectorErrors

ASSUME CollectorAssumption ==
    /\ FailoverIPs \in Nat /\ Bills \in Nat /\ Unpaid \in 0 .. Bills
    /\ StaleAfter \in Nat /\ ErrorsFor \in Nat

\* The dedicated server is 0, looked up first, then the failover IPs.
Service == 0 .. FailoverIPs
Absent == Bills + 1

VARIABLES
    expiring,   \* services whose expiry date is near
    step,       \* where main is
    next,       \* the service, or the invoice, it looks up next
    metrics,    \* what the run has collected
    file,       \* ovh_expiry.prom
    age,        \* intervals since the timestamp in the file
    pending     \* intervals for which the error count has been positive

collectorVars == <<expiring, step, next, metrics, file, age, pending>>

NoMetrics == [expiry |-> [s \in Service |-> "absent"], unpaid |-> Absent, errors |-> 0]
NoFile == [expiry |-> <<>>, unpaid |-> Absent, errors |-> 0]

CollectorInit ==
    /\ expiring \in SUBSET Service
    /\ step = "idle" /\ next = 0 /\ metrics = NoMetrics
    /\ file = NoFile /\ age = 0 /\ pending = 0

(***************************************************************************)
(* A run of the collector                                                  *)
(***************************************************************************)

\* An interval passes; the timer starts a run unless one is in progress.
Tick ==
    /\ age' = IF file = NoFile \/ age > StaleAfter THEN age ELSE age + 1
    /\ pending' = IF file.errors = 0 \/ pending = ErrorsFor THEN pending ELSE pending + 1
    /\ step' = IF step = "idle" THEN "load" ELSE step
    /\ UNCHANGED <<expiring, next, metrics, file>>

\* load_creds finds the credentials.
Load ==
    /\ step = "load" /\ step' = "services"
    /\ next' = 0 /\ metrics' = NoMetrics
    /\ UNCHANGED <<expiring, file, age, pending>>

Expiry(s) == IF s \in expiring THEN "near" ELSE "far"

LookUpQuietly(found) ==
    /\ step = "services"
    /\ metrics' = IF found THEN [metrics EXCEPT !.expiry[next] = Expiry(next)] ELSE metrics
    /\ IF next = FailoverIPs THEN step' = "list" /\ next' = 0
                             ELSE next' = next + 1 /\ UNCHANGED step
    /\ UNCHANGED <<expiring, file, age, pending>>

\* One serviceInfos request: its expiry, or one more error and no series.
LookUp(found) ==
    /\ step = "services"
    /\ metrics' = IF found THEN [metrics EXCEPT !.expiry[next] = Expiry(next)]
                           ELSE [metrics EXCEPT !.errors = @ + 1]
    /\ IF next = FailoverIPs THEN step' = "list" /\ next' = 0
                             ELSE next' = next + 1 /\ UNCHANGED step
    /\ UNCHANGED <<expiring, file, age, pending>>

\* The list of this month's invoices; then each of them is read and counted.
ListBills ==
    /\ step = "list" /\ step' = "bills" /\ next' = 1
    /\ UNCHANGED <<expiring, metrics, file, age, pending>>

ReadBill ==
    /\ step = "bills" /\ next <= Bills
    /\ next' = next + 1
    /\ UNCHANGED <<expiring, step, metrics, file, age, pending>>

\* The unpaid invoices among those that were read.
Counted == IF next - 1 < Unpaid THEN next - 1 ELSE Unpaid

CountBills ==
    /\ step = "bills" /\ next > Bills
    /\ metrics' = [metrics EXCEPT !.unpaid = Counted]
    /\ step' = "write" /\ next' = 0
    /\ UNCHANGED <<expiring, file, age, pending>>

PartialBills ==
    /\ step \in {"list", "bills"} /\ next <= Bills
    /\ metrics' = [metrics EXCEPT !.unpaid = Counted, !.errors = @ + 1]
    /\ step' = "write" /\ next' = 0
    /\ UNCHANGED <<expiring, file, age, pending>>

\* A request for the list or for an invoice fails: one error, and no count.
BillsFail ==
    /\ step \in {"list", "bills"} /\ next <= Bills
    /\ metrics' = [metrics EXCEPT !.errors = @ + 1]
    /\ step' = "write" /\ next' = 0
    /\ UNCHANGED <<expiring, file, age, pending>>

\* The textfile is replaced, with the time of the run, whatever failed.
Publish ==
    /\ step = "write" /\ step' = "idle"
    /\ file' = metrics /\ age' = 0
    /\ pending' = IF metrics.errors = 0 THEN 0 ELSE pending
    /\ metrics' = NoMetrics /\ next' = 0
    /\ UNCHANGED expiring

\* The run ends without a new file: no credentials, a full disk, a kill.
Abort ==
    /\ step # "idle" /\ step' = "idle"
    /\ metrics' = NoMetrics /\ next' = 0
    /\ UNCHANGED <<expiring, file, age, pending>>

\* A service's date comes near, or somebody renews it.
Approach(s) ==
    /\ expiring' = IF s \in expiring THEN expiring \ {s} ELSE expiring \cup {s}
    /\ UNCHANGED <<step, next, metrics, file, age, pending>>

CollectorNext ==
    \/ Tick \/ Load \/ ListBills \/ ReadBill \/ CountBills \/ BillsFail
    \/ \E found \in BOOLEAN : LookUp(found)
    \/ Publish \/ Abort
    \/ \E s \in Service : Approach(s)

\* Time passes; nothing is asked of the runs.
CollectorFairness == WF_collectorVars(Tick)

(***************************************************************************)
(* The alert rules                                                         *)
(***************************************************************************)

\* OVHServiceExpiryCritical, for ten minutes.
Critical(s) == file # NoFile /\ file.expiry[s] = "near" /\ age > 0

\* OVHCollectorErrors, for thirty minutes.
Errors == file.errors > 0 /\ pending = ErrorsFor

\* OVHCollectorStale.
Stale == age > StaleAfter

(***************************************************************************)
(* Properties                                                              *)
(***************************************************************************)

\* The file accounts for everything: each service and the invoice count are
\* there or are an error, and a count that is there is of all the invoices.
FailuresAreCounted ==
    file # NoFile =>
        /\ file.errors = Cardinality({s \in Service : file.expiry[s] = "absent"})
                           + (IF file.unpaid = Absent THEN 1 ELSE 0)
        /\ file.unpaid \in {Absent, Unpaid}

\* Once there is a file, a service does not come to its expiry silently,
\* whichever requests fail and whether the collector runs at all: its own
\* alert fires, or one of the two that say the coverage is gone
\* (the comment on OVHCollectorErrors in alerts.yml).
LapseIsNeverSilent ==
    \A s \in Service :
        (s \in expiring /\ file # NoFile) ~> (s \notin expiring \/ Critical(s) \/ Errors \/ Stale)
=============================================================================
