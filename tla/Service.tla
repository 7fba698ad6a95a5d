-------------------------------- MODULE Service ------------------------------
(***************************************************************************)
(* The hosted service of sig.golf: webhook handlers, report loop, worker   *)
(* and resync over one database and one GitHub repository, with crashes of *)
(* either process, failing or unanswered GitHub calls, and a contract that *)
(* is replaced while heads are queued.                                     *)
(***************************************************************************)
EXTENDS Admission, Delivery, Worker, Resync

vars == <<row, outbox, comments, tags, main, contract, marker, web, resyncDue,
          recovery, admission, delivery, job, clock, faults>>

Init ==
    /\ row = [h \in Heads |-> AbsentRow]
    /\ outbox = [h \in Heads |-> 0]
    /\ comments = [h \in Heads |-> <<>>]
    /\ tags = {}
    /\ main = NoRegistry
    /\ contract = 1
    /\ marker = FALSE
    /\ web = "down"
    /\ resyncDue = FALSE
    /\ recovery = RecoveryIdle
    /\ admission = NoHandler
    /\ delivery = DeliveryIdle
    /\ job = WorkerDown
    /\ clock = 0
    /\ faults = 0

(* The web process starts: its lifespan schedules a resync and the report  *)
(* loop side by side.                                                      *)
WebStart ==
    /\ web = "down"
    /\ web' = "up"
    /\ resyncDue' = TRUE
    /\ UNCHANGED <<row, outbox, comments, tags, main, contract, marker,
                   recovery, admission, delivery, job, clock, faults>>

(* The web process dies with everything that runs in it.  Its flocks are   *)
(* released; the database, GitHub and the marker file stay as they are.    *)
WebCrash ==
    /\ web = "up"
    /\ Fault
    /\ web' = "down"
    /\ resyncDue' = FALSE
    /\ recovery' = RecoveryIdle
    /\ admission' = NoHandler
    /\ delivery' = DeliveryIdle
    /\ UNCHANGED <<row, outbox, comments, tags, main, contract, marker, job,
                   clock>>

(* A maintainer deploys the next contract.  Neither process is told.       *)
DeployContract ==
    /\ contract + 1 \in Contracts
    /\ contract' = contract + 1
    /\ UNCHANGED <<row, outbox, comments, tags, main, marker, web, resyncDue,
                   recovery, admission, delivery, job, clock, faults>>

Next ==
    \/ \E h \in Heads : AdmitCheck(h)
    \/ \E h \in Heads : AdmitRetain(h)
    \/ \E h \in Heads : AdmitCommit(h)
    \/ \E h \in Heads : DeliverStart(h)
    \/ DeliverComment
    \/ DeliverSupplement
    \/ DeliverReread
    \/ DeliverCommit
    \/ WorkerStart
    \/ \E h \in Heads : WorkerPick(h)
    \/ ProcessBegin
    \/ ProcessFinish
    \/ WorkerCrash
    \/ ResyncBegin
    \/ \E h \in Heads, c \in Contracts : ResyncImport(h, c)
    \/ ResyncEnd
    \/ WebStart
    \/ WebCrash
    \/ DeployContract

Spec == Init /\ [][Next]_vars

(* The services are restarted when they stop (systemd), the report loop    *)
(* and the worker loop poll for ever, a running handler or resync goes on. *)
(* Nothing obliges anybody to submit, to deploy, or anything to fail.      *)
Fairness ==
    /\ WF_vars(WebStart)
    /\ WF_vars(\E h \in Heads : AdmissionStep(h))
    /\ WF_vars(\E h \in Heads : DeliverStart(h))
    /\ WF_vars(DeliveryStep)
    /\ WF_vars(WorkerStep)
    /\ WF_vars(ResyncStep)

FairSpec == Spec /\ Fairness

(***************************************************************************)
(* Types                                                                   *)
(***************************************************************************)
TypeOK ==
    /\ row \in [Heads -> Rows]
    /\ outbox \in [Heads -> Nat]
    /\ comments \in [Heads -> Seq(Entries)]
    /\ tags \subseteq Heads
    /\ main \in [head : Heads \cup {NoHead}, finished : Nat,
                 contract : Contracts \cup {0}]
    /\ contract \in Contracts
    /\ marker \in BOOLEAN
    /\ web \in {"up", "down"}
    /\ resyncDue \in BOOLEAN
    /\ recovery \in Recoveries
    /\ admission \in [Heads -> Handlers]
    /\ delivery \in Deliveries
    /\ job \in Jobs
    /\ clock \in Nat
    /\ faults \in 0 .. MaxFaults

(***************************************************************************)
(* Safety                                                                  *)
(***************************************************************************)

(* Some bot comment carries an entry of h's admission number a.            *)
ReceiptPublished(h, a) ==
    \E i \in DOMAIN comments[h] : comments[h][i].admitted = a

(* The worker never touches a head before GitHub holds its source tag and  *)
(* the receipt of this very admission, across retries of a failed head,    *)
(* lost answers and crashes between the comment and the commit             *)
(* (service/README: the worker cannot start until GitHub confirms it).     *)
NoProofBeforeReceipt ==
    \A h \in Heads : Status(h) \in {"pending", "verifying", "publishing"} =>
        h \in tags /\ ReceiptPublished(h, row[h].detail.receipt)

(* A verdict that the database shows as final can be read back from        *)
(* GitHub: some comment has the same verdict, completion time and, while   *)
(* the contract is current, the same record flag.                          *)
VerdictIsDurable ==
    \A h \in Heads : Status(h) \in Finished =>
        \E i \in DOMAIN comments[h] :
            LET e == comments[h][i]
            IN /\ e.status = Status(h)
               /\ e.finished = row[h].finished
               /\ e.admitted = row[h].detail.receipt
               /\ Current(row[h]) /\ ~Recovering /\ ~marker =>
                      e.record = row[h].record

(* The record flags in the database are those a replay of its verdicts in  *)
(* completion order gives: what the report loop decided one by one, a      *)
(* resync decides again (resync.replay_records).                           *)
RecordsReplayable ==
    ~Recovering /\ ~marker => TrackRecords = Replayed

(* At most one head is between the start of its proof and its published    *)
(* verdict; and a verdict that waits is later than every final one.  This  *)
(* is what makes the order of completion the order of record decisions.    *)
OneUndecided ==
    /\ \A h, k \in Heads :
          /\ Status(h) \in {"verifying", "publishing"}
          /\ Status(k) \in {"verifying", "publishing"}
          => h = k
    /\ \A h, k \in Heads :
          Status(h) = "publishing" /\ Status(k) \in Finished =>
              row[k].finished < row[h].finished

(* While a result awaits its comment, a report of it is queued: no crash   *)
(* and no later submission may lose it (GithubReport: "must not lose a     *)
(* proof's verdict").                                                      *)
VerdictHasReport ==
    \A h \in Heads : Status(h) = "publishing" => outbox[h] # 0

(* The same of an admitted head whose receipt is not yet confirmed.        *)
ReceiptHasReport ==
    \A h \in Heads : Status(h) = "admitting" => outbox[h] # 0

(* records.json names only a result that some comment already carries as   *)
(* verified, with the same completion time and contract, even if the web   *)
(* process dies between the two; and while that contract is deployed the   *)
(* comment says that it is a record.  (A delivery that is repeated under   *)
(* the next contract edits the flag out of the comment, worker.py:291-293, *)
(* and records.json keeps the entry until that contract has a record.)     *)
MainIsDurable ==
    main.head # NoHead =>
        \E i \in DOMAIN comments[main.head] :
            LET e == comments[main.head][i]
            IN /\ e.status = "verified"
               /\ e.finished = main.finished
               /\ e.contract = main.contract
               /\ e.contract = contract => e.record

(* The entry of records.json is that of a head whose verdict is verified   *)
(* now, with its completion time and contract: no resubmission, resync or  *)
(* deployment leaves it behind (record_snapshot._entry).                   *)
RegistryNamesResult ==
    main.head # NoHead =>
        /\ ReportedStatus(row[main.head]) = "verified"
        /\ main.finished = row[main.head].finished
        /\ main.contract = row[main.head].detail.contract

(* publish_record is called as its docstring asks and RecordSnapshot       *)
(* assumes ("caller decides that it is still the track's best"): for the   *)
(* best record of the database, or for the one result that waits and is    *)
(* later and better than all of them, until the commit or a deployment.    *)
(* And GitHub never has another entry of the same submission.              *)
SnapshotCallsInOrder ==
    LET h == delivery.head
    IN delivery.pc # "idle" /\ delivery.lead /\ Current(row[h]) =>
        /\ ~RegistryConflict
        /\ \A r \in TrackRecords \ {h} : Leads(Metric[h], Metric[r])
        /\ \/ h \in TrackRecords
           \/ /\ Status(h) = "publishing"
              /\ \A r \in TrackRecords : row[r].finished < row[h].finished

(* The heads that some comment announces as records of the contract.       *)
PublicRecords ==
    {h \in Heads : \E i \in DOMAIN comments[h] :
        comments[h][i].record /\ comments[h][i].contract = contract}

(* The head that records.json names leads every public record that was     *)
(* completed before it, retries of older snapshots, calls that failed and  *)
(* calls that were lost with the process included: publish_record itself   *)
(* compares with the registered entry only, which may be none, or of an    *)
(* older contract.                                                         *)
RegistryLeads ==
    main.contract = contract =>
        \A r \in PublicRecords \ {main.head} :
            row[r].finished < main.finished => Leads(Metric[main.head], Metric[r])

(* records.json names h, or has given way to a head that leads h.          *)
Snapshotted(h) ==
    /\ main.contract = contract
    /\ main.head = h \/ Leads(Metric[main.head], Metric[h])

(* A resync trusts detail.record_snapshot and reports such a head no more  *)
(* (reconcile_record_snapshots).  The flag is copied from one session to   *)
(* the next around three GitHub calls; it must never be there for a head   *)
(* of the deployed contract that records.json neither names nor has passed *)
(* over for a better one.                                                  *)
SnapshotFlagIsTrue ==
    \A h \in Heads : row[h].detail.snapshot /\ Current(row[h]) => Snapshotted(h)

(* The caps on heads in flight, per author and in all, hold although a     *)
(* handler counts, calls GitHub and only then inserts.                     *)
CapsRespected ==
    /\ Cardinality(InFlightHeads) <= QueueCap
    /\ \A h \in Heads :
          Cardinality({k \in InFlightHeads : Author[k] = Author[h]}) <= MaxInflight

(* A commit is in flight or decided through one pull request at a time.    *)
NoDuplicateCommit ==
    \A h, k \in Heads :
        /\ Commit[h] = Commit[k]
        /\ Current(row[h]) /\ Status(h) \notin {"absent", "failed"}
        /\ Current(row[k]) /\ Status(k) \notin {"absent", "failed"}
        => h = k

(***************************************************************************)
(* Steps                                                                   *)
(***************************************************************************)

(* A proof's verdict, once public, is never withdrawn or changed, by a     *)
(* retry, a late delivery or a resync from old comments.                   *)
VerdictsAreFinal ==
    [][\A h \in Heads : Status(h) \in {"verified", "rejected"} =>
          /\ row'[h].status = Status(h)
          /\ row'[h].finished = row[h].finished]_vars

(* A head that was decided stays decided until it is admitted again: the   *)
(* receipt of its own admission, copied or left over in another comment,   *)
(* never erases the later verdict (resync.latest_verdicts).                *)
ReceiptNeverErasesVerdict ==
    [][\A h \in Heads :
          /\ Status(h) \in Finished
          /\ row'[h].detail.receipt = row[h].detail.receipt
          => row'[h].status \in Finished]_vars

(***************************************************************************)
(* Liveness                                                                *)
(***************************************************************************)

(* Every admitted head is decided, whatever crashes and failures happen in *)
(* between, as long as they stop.                                          *)
AdmittedIsDecided ==
    \A h \in Heads : Status(h) \in InFlight ~> Status(h) \in Finished

(* In the end records.json names the best record of the current contract.  *)
MainFollowsBest ==
    <>[](\A h \in BestOf(TrackRecords) : main.head = h)

(***************************************************************************)
(* The service implements the competition it promises.  A verdict counts   *)
(* from the moment a comment carries it, not from the commit that follows. *)
(***************************************************************************)
VerdictOf(h) ==
    {comments[h][i].status : i \in
        {j \in DOMAIN comments[h] : /\ comments[h][j].admitted = row[h].detail.receipt
                                    /\ IsTerminal(comments[h][j])}}

PublicVerdict ==
    [h \in Heads |->
        IF Status(h) = "absent" THEN "none"
        ELSE IF VerdictOf(h) = {} THEN "open"
        ELSE CHOOSE v \in VerdictOf(h) : TRUE]

PublicSeason == [h \in Heads |-> row[h].detail.contract]

Public == INSTANCE Competition WITH Seasons <- Contracts,
                                    verdict <- PublicVerdict,
                                    entered <- PublicSeason,
                                    records <- PublicRecords,
                                    season  <- contract

ImplementsCompetition == Public!CompetitionSpec
==============================================================================
