------------------------------- MODULE Ledger --------------------------------
(***************************************************************************)
(* The state that the processes of the hosted service share, and the       *)
(* helpers they share: the SQLite rows and outbox (service/app/db.py), the *)
(* locks, the recovery marker, and what GitHub stores for the service:     *)
(* source tags, bot comments and the record on the submissions main        *)
(* branch.  Admission, Delivery, Worker and Resync are the programs that   *)
(* act on it; Service puts them together.                                  *)
(*                                                                         *)
(* One track is modelled.  "rejected" stands for the three verdicts        *)
(* rejected, policy_rejected and timeout, which every statement of the     *)
(* service treats alike.  Every row is a hosted one (it has a source_ref). *)
(***************************************************************************)
EXTENDS Records, Sequences, FiniteSets

CONSTANTS
    Heads,          \* submission ids: one commit of one pull request
    NoHead,         \* stands for "no submission"
    Metric,         \* Metric[h]: what the verifier measures of h's commit
    Author,         \* Author[h]: the GitHub user behind the pull request
    Commit,         \* Commit[h]: the commit h names
    Epoch,          \* Epoch[h]: the contract fingerprint in the id h
    Contracts,      \* contract fingerprints, numbered as they are deployed
    MaxInflight,    \* settings.max_inflight_per_user
    QueueCap,       \* settings.queue_cap
    Resubmittable,  \* bound: the heads whose failure is followed by a retry
    ClockRollback,  \* TRUE if the host's clock may step back
    MaxClock,       \* bound: no admission starts after this many events
    MaxVersion,     \* bound: outbox versions wrap after this many
    MaxFaults       \* bound: crashes, refusals and lost answers

ASSUME HeadsAssumption == IsFiniteSet(Heads) /\ NoHead \notin Heads
ASSUME MetricAssumption == Metric \in [Heads -> Metrics]
ASSUME EpochAssumption ==
    /\ Contracts \subseteq Nat \ {0}
    /\ 1 \in Contracts
    /\ Epoch \in [Heads -> Contracts]
ASSUME BoundAssumption ==
    /\ MaxInflight \in Nat \ {0}
    /\ QueueCap \in Nat \ {0}
    /\ MaxVersion \in Nat \ {0, 1}
    /\ MaxClock \in Nat
    /\ MaxFaults \in Nat
    /\ ClockRollback \in BOOLEAN
    /\ Resubmittable \subseteq Heads

VARIABLES
    row,         \* submissions table: row[h]
    outbox,      \* github_reports table: outbox[h] is the version, 0 if none
    comments,    \* bot comments on GitHub: comments[h] in posting order
    tags,        \* heads whose source tag exists on GitHub
    main,        \* the record that records.json on submissions main names
    contract,    \* the fingerprint of the deployed contract
    marker,      \* recovery.incomplete exists on disk
    web,         \* the web process: "up" or "down"
    resyncDue,   \* the web process has still to run its startup resync
    recovery,    \* a running resync: it holds the exclusive recovery lock
    admission,   \* admission[h]: the webhook handler that works on h
    delivery,    \* the report loop's current delivery
    job,         \* the worker process
    clock,       \* the largest timestamp given out so far
    faults       \* how many faults have happened

database == <<row, outbox>>
github   == <<comments, tags, main>>
processes == <<web, resyncDue, recovery, admission, delivery, job>>

(***************************************************************************)
(* Rows                                                                    *)
(***************************************************************************)
InFlight  == {"admitting", "pending", "verifying", "publishing"}
Finished  == {"verified", "rejected", "failed"}
Statuses  == {"absent"} \cup InFlight \cup Finished

(* The JSON column `detail`: it is read and written as one value.          *)
Details == [contract : Contracts \cup {0},   \* 0: none
            receipt  : Nat,                  \* receipt.created_at
            comment  : Nat,                  \* github_comment_id, 0 if none
            verdict  : Finished \cup {"none"},  \* publication_status
            snapshot : BOOLEAN]              \* record_snapshot is present

Rows == [status : Statuses, created : Nat, finished : Nat,
         record : BOOLEAN, detail : Details]

NoDetail == [contract |-> 0, receipt |-> 0, comment |-> 0,
             verdict |-> "none", snapshot |-> FALSE]

AbsentRow == [status |-> "absent", created |-> 0, finished |-> 0,
              record |-> FALSE, detail |-> NoDetail]

(* A verdict entry in a bot comment.                                       *)
Entries == [status : {"pending"} \cup Finished, admitted : Nat,
            finished : Nat, record : BOOLEAN, contract : Contracts \cup {0}]

NoEntry == [status |-> "pending", admitted |-> 0, finished |-> 0,
            record |-> FALSE, contract |-> 0]

Current(r) == r.detail.contract = contract

Status(h) == row[h].status

(* The results lock is held by a delivery from its first read to its       *)
(* commit; every other critical section under it is a single step.         *)
ResultsFree == delivery.pc = "idle"

(* The recovery lock is exclusive while a resync runs.                     *)
Recovering == recovery.pc # "idle"

(***************************************************************************)
(* The outbox                                                              *)
(***************************************************************************)

(* schedule_report: a new report, or a newer version of the queued one.    *)
(* A version is only ever compared with the one a running delivery read,   *)
(* so it may wrap.                                                         *)
Scheduled(version) == IF version = MaxVersion THEN 1 ELSE version + 1

(***************************************************************************)
(* Records                                                                 *)
(***************************************************************************)
TrackRecords ==
    {r \in Heads : Status(r) = "verified" /\ row[r].record /\ Current(row[r])}

MetricsOf(S) == {Metric[h] : h \in S}

(* Seeded fault: only a new best score is promoted.                        *)
PromotesLead(h, verdict) ==
    /\ verdict = "verified"
    /\ Current(row[h])
    /\ \A r \in TrackRecords \ {h} : Leads(Metric[h], Metric[r])

(* beats_record and promote, for a head whose verdict is `verdict`.        *)
Promotes(h, verdict) ==
    /\ verdict = "verified"
    /\ Current(row[h])
    /\ Improves(MetricsOf(TrackRecords \ {h}), Metric[h])

(* Seeded fault: every new record is taken for the best score.             *)
TakesLeadUnranked(h) == h \notin TrackRecords

(* takes_lead: strictly precedes every other record.                       *)
TakesLead(h) == \A r \in TrackRecords \ {h} : Leads(Metric[h], Metric[r])

(***************************************************************************)
(* Time and faults                                                         *)
(***************************************************************************)

(* What the host's clock may read: later than everything so far, or, after *)
(* a step back, any earlier time.                                          *)
Readings == IF ClockRollback THEN 1 .. clock + 1 ELSE {clock + 1}

Fault == faults < MaxFaults /\ faults' = faults + 1

Later(a, b) == IF a < b THEN b ELSE a

(* next_finish_time: after every recorded finish time, whatever the clock. *)
FinishTimes == {row[h].finished : h \in Heads}

NextFinishTime(now) ==
    IF \E t \in FinishTimes : t >= now
    THEN 1 + CHOOSE t \in FinishTimes : \A u \in FinishTimes : u <= t
    ELSE now
==============================================================================
