---------------------------- MODULE Durable_proofs ---------------------------
(***************************************************************************)
(* What GitHub remembers for the service, for all heads, contracts and     *)
(* caps and any number of crashes, failed calls and lost answers, as long  *)
(* as the host's clock does not step back: every verdict can be read back, *)
(* the record flags can be decided again, records.json names what a        *)
(* comment carries, and no commit is decided twice; and with that, that    *)
(* the service implements Competition step by step; at the end, that it    *)
(* calls publish_record as that asks, and that records.json then leads     *)
(* every earlier record.                                                   *)
(*                                                                         *)
(* DurableInv, the inductive invariant, relates four copies of a verdict:  *)
(* the row, the comments, the body of the running delivery and main.  A    *)
(* comment speaks for a head if it is a verdict of the head's current      *)
(* admission; all that speak say what the row says (EntriesAgree), and     *)
(* their record flag is the one the records that finished earlier give     *)
(* (EntryFlags), whichever delivery wrote them.                            *)
(***************************************************************************)
EXTENDS Service_proofs

(* What the row tells the public: a receipt or a verdict.                  *)
Said(h) == ReportedStatus(row[h])

(* e is a verdict of the current admission of h.                           *)
Speaks(h, e) == e.status \in Finished /\ e.admitted = row[h].detail.receipt

EarlierRecords(h) == {k \in PublicRecords : row[k].finished < row[h].finished}

(* h improves on the public records that finished before it.               *)
Earns(h) == /\ Said(h) = "verified"
            /\ Improves(MetricsOf(EarlierRecords(h)), Metric[h])

(* Nothing was admitted under a contract that is yet to come.              *)
OldContracts ==
    \A h \in Heads :
        /\ row[h].detail.contract <= contract
        /\ \A i \in 1 .. Len(comments[h]) : comments[h][i].contract <= contract

RowShape ==
    \A h \in Heads :
        /\ row[h].record => Status(h) = "verified"
        /\ Status(h) \in Finished => row[h].detail.comment # 0
        /\ row[h].detail.snapshot => Said(h) = "verified"
        /\ Said(h) \in {"absent", "pending"} => row[h].finished = 0

(* A handler's head stays new or failed, and its commit stays unclaimed.   *)
HandlerReads ==
    \A h \in Heads : admission[h].pc # "idle" =>
        Status(h) \in {"absent", "failed"} /\ ~SameCommitSubmitted(h)

(* Deliveries stop before the marker is set.                               *)
MarkerStops == (Recovering => marker) /\ (marker => ResultsFree)

(* The running delivery says what the row says ...                         *)
BodySpeaks ==
    /\ ~Readmitted
    /\ delivery.body.admitted = row[delivery.head].detail.receipt
    /\ delivery.body.status = Said(delivery.head)
    /\ delivery.body.finished = row[delivery.head].finished
    /\ delivery.body.contract = row[delivery.head].detail.contract
    /\ delivery.known = row[delivery.head].detail.comment

(* ... or it reports the failure of an admission that is over.             *)
BodyIsPast ==
    /\ Readmitted
    /\ delivery.orig = "failed"
    /\ delivery.body.status = "failed"
    /\ delivery.body.admitted < row[delivery.head].detail.receipt

(* What it commits at the end is not a stale detail.                       *)
CommitIsFresh ==
    delivery.pc = "commit" =>
        \/ delivery.seen.detail = row[delivery.head].detail
        \/ Readmitted /\ DetailAfter = delivery.seen.detail

DeliveryReports ==
    Delivering =>
        /\ BodySpeaks \/ BodyIsPast
        /\ delivery.body.contract <= contract
        /\ delivery.snapshot => delivery.body.status = "verified"
        /\ delivery.lead => delivery.body.record
        /\ delivery.body.record => delivery.body.status = "verified"
        /\ delivery.orig \in Finished => delivery.known # 0
        /\ delivery.cid # 0 /\ delivery.known # 0 => delivery.cid = delivery.known
        /\ delivery.pc = "supplement" => delivery.cid # 0
        /\ CommitIsFresh

EntriesAgree ==
    \A h \in Heads : \A i \in 1 .. Len(comments[h]) :
        LET e == comments[h][i]
        IN /\ e.record => e.status = "verified"
           /\ e.status \in {"verified", "rejected"} =>
                  e.admitted = row[h].detail.receipt
           /\ e.admitted = row[h].detail.receipt =>
                  e.contract = row[h].detail.contract
           /\ Speaks(h, e) => e.status = Said(h) /\ e.finished = row[h].finished

VerdictsWritten ==
    \A h \in Heads : Status(h) \in Finished =>
        \E i \in 1 .. Len(comments[h]) : Speaks(h, comments[h][i])

(* While their contract is deployed, the record flags follow the rule.     *)
EntryFlags ==
    \A h \in Heads : \A i \in 1 .. Len(comments[h]) :
        LET e == comments[h][i]
        IN Speaks(h, e) /\ e.contract = contract => (e.record <=> Earns(h))

BodyFlag ==
    /\ Delivering /\ BodySpeaks
    /\ delivery.body.contract = contract
    /\ delivery.body.status \in Finished
    => (delivery.body.record <=> Earns(delivery.head))

RowFlags ==
    ~marker => \A h \in Heads :
        Status(h) \in Finished /\ Current(row[h]) => (row[h].record <=> Earns(h))

(* What does not depend on the running processes.                          *)
HistoryInv ==
    /\ OldContracts
    /\ HandlerReads
    /\ EntriesAgree
    /\ EntryFlags
    /\ MainIsDurable
    /\ NoDuplicateCommit

DurableInv ==
    /\ HistoryInv
    /\ RowShape
    /\ VerdictsWritten
    /\ RowFlags
    /\ MarkerStops
    /\ DeliveryReports
    /\ BodyFlag

(***************************************************************************)
(* Facts about single definitions                                          *)
(***************************************************************************)

(* reported_status, by the status of the row.                              *)
LEMMA ReportedCases ==
    ASSUME NEW r \in Rows
    PROVE  /\ r.status \in {"admitting", "pending", "verifying"} =>
                  ReportedStatus(r) = "pending"
           /\ r.status = "publishing" => ReportedStatus(r) = r.detail.verdict
           /\ r.status \in {"absent"} \cup Finished => ReportedStatus(r) = r.status
BY DEF ReportedStatus, Rows, Statuses, InFlight, Finished

LEMMA SaidCases ==
    ASSUME BaseInv, NEW h \in Heads
    PROVE  /\ Status(h) \in {"admitting", "pending", "verifying"} <=>
                  Said(h) = "pending"
           /\ Status(h) = "publishing" => /\ Said(h) \in Finished
                                          /\ Said(h) = row[h].detail.verdict
           /\ Status(h) \in Finished => Said(h) = Status(h)
           /\ Status(h) = "absent" <=> Said(h) = "absent"
           /\ Said(h) \in Finished => Status(h) \in {"publishing", Said(h)}
           /\ Said(h) \in {"absent", "pending"} \cup Finished
<1>1. row[h] \in Rows /\ Status(h) = row[h].status /\ Said(h) = ReportedStatus(row[h])
    BY DEF BaseInv, TypeOK, Status, Said
<1>2. Status(h) = "publishing" => row[h].detail.verdict \in Finished
    BY <1>1 DEF BaseInv, WaitsWithVerdict, Rows, Details
<1>3. Status(h) \in {"absent", "admitting", "pending", "verifying", "publishing"}
                    \cup Finished
    BY <1>1 DEF Rows, Statuses, InFlight
<1> QED
    BY <1>1, <1>2, <1>3, ReportedCases DEF Finished

(* The same of the next state.                                             *)
LEMMA SaidNext ==
    ASSUME BaseInv', NEW h \in Heads
    PROVE  /\ row'[h].status \in {"admitting", "pending", "verifying"} <=>
                  Said(h)' = "pending"
           /\ row'[h].status = "publishing" =>
                  /\ Said(h)' \in Finished
                  /\ Said(h)' = row'[h].detail.verdict
           /\ row'[h].status \in Finished => Said(h)' = row'[h].status
           /\ row'[h].status = "absent" <=> Said(h)' = "absent"
           /\ Said(h)' \in Finished => row'[h].status \in {"publishing", Said(h)'}
           /\ Said(h)' \in {"absent", "pending"} \cup Finished
<1>1. row'[h] \in Rows /\ Said(h)' = ReportedStatus(row'[h])
    BY DEF BaseInv, TypeOK, Said, ReportedStatus
<1>2. row'[h].status = "publishing" => row'[h].detail.verdict \in Finished
    BY <1>1 DEF BaseInv, WaitsWithVerdict, Rows, Details, Status
<1>3. row'[h].status \in {"absent", "admitting", "pending", "verifying",
                          "publishing"} \cup Finished
    BY <1>1 DEF Rows, Statuses, InFlight
<1> QED
    BY <1>1, <1>2, <1>3, ReportedCases DEF Finished

LEMMA EntryTypes ==
    ASSUME BaseInv
    PROVE  \A h \in Heads : \A i \in 1 .. Len(comments[h]) :
               /\ comments[h][i] \in Entries
               /\ comments[h][i].admitted \in Nat
               /\ comments[h][i].finished \in Nat
               /\ comments[h][i].contract \in Nat
<1>1. \A h \in Heads : \A i \in 1 .. Len(comments[h]) : comments[h][i] \in Entries
    BY ElementOfSeq DEF BaseInv, TypeOK
<1>2. Contracts \cup {0} \subseteq Nat
    BY EpochAssumption
<1> QED
    BY <1>1, <1>2 DEF Entries

LEMMA ContractTypes ==
    ASSUME BaseInv
    PROVE  /\ contract \in Nat
           /\ \A h \in Heads : row[h].detail.contract \in Nat
<1>1. Contracts \cup {0} \subseteq Nat
    BY EpochAssumption
<1> QED
    BY <1>1 DEF BaseInv, TypeOK, Rows, Details

(* The public records, comment by comment.                                 *)
LEMMA RecordsAreComments ==
    ASSUME BaseInv, NEW h \in Heads
    PROVE  h \in PublicRecords <=>
               \E i \in 1 .. Len(comments[h]) :
                   comments[h][i].record /\ comments[h][i].contract = contract
BY CommentDomain DEF PublicRecords

(* A public record was verified in its current admission, under the        *)
(* current contract, and earned it.                                        *)
LEMMA RecordsSpeak ==
    ASSUME BaseInv, HistoryInv, NEW h \in PublicRecords
    PROVE  /\ h \in Heads
           /\ Said(h) = "verified"
           /\ Status(h) \in {"publishing", "verified"}
           /\ Current(row[h])
           /\ Earns(h)
           /\ \E i \in 1 .. Len(comments[h]) :
                 /\ comments[h][i].record
                 /\ comments[h][i].contract = contract
                 /\ Speaks(h, comments[h][i])
<1>1. h \in Heads
    BY DEF PublicRecords
<1>2. PICK i \in 1 .. Len(comments[h]) :
          comments[h][i].record /\ comments[h][i].contract = contract
    BY <1>1, RecordsAreComments
<1>3. /\ comments[h][i].status = "verified"
      /\ comments[h][i].admitted = row[h].detail.receipt
      /\ comments[h][i].contract = row[h].detail.contract
    BY <1>1, <1>2 DEF HistoryInv, EntriesAgree
<1>4. Speaks(h, comments[h][i])
    BY <1>3 DEF Speaks, Finished
<1>5. Said(h) = "verified" /\ Earns(h)
    BY <1>1, <1>2, <1>3, <1>4 DEF HistoryInv, EntriesAgree, EntryFlags
<1> QED
    BY <1>1, <1>2, <1>3, <1>4, <1>5, SaidCases DEF Current, Finished

(* A decided head of the current contract is a public record exactly if it *)
(* earned it.                                                              *)
LEMMA DecidedByComments ==
    ASSUME BaseInv, HistoryInv, VerdictsWritten, NEW h \in Heads,
           Status(h) \in Finished, Current(row[h])
    PROVE  h \in PublicRecords <=> Earns(h)
<1>1. PICK i \in 1 .. Len(comments[h]) : Speaks(h, comments[h][i])
    BY DEF VerdictsWritten
<1>2. comments[h][i].contract = contract
    BY <1>1 DEF Speaks, HistoryInv, EntriesAgree, Current
<1>3. comments[h][i].record <=> Earns(h)
    BY <1>1, <1>2 DEF HistoryInv, EntryFlags
<1> QED
    BY <1>2, <1>3, RecordsAreComments, RecordsSpeak

(***************************************************************************)
(* What a step keeps that changes nothing of what rows and comments say    *)
(***************************************************************************)
SameHistory ==
    \A h \in Heads :
        /\ Said(h)' = Said(h)
        /\ row'[h].finished = row[h].finished
        /\ row'[h].detail.receipt = row[h].detail.receipt
        /\ row'[h].detail.contract = row[h].detail.contract
        /\ Status(h) \in {"absent"} \cup Finished => Status(h)' = Status(h)

LEMMA SameEarns ==
    ASSUME PublicRecords' = PublicRecords, NEW h \in Heads,
           Said(h)' = Said(h),
           row'[h].finished = row[h].finished,
           \A k \in PublicRecords : row'[k].finished = row[k].finished
    PROVE  Earns(h)' <=> Earns(h)
<1>1. EarlierRecords(h)' = EarlierRecords(h)
    BY DEF EarlierRecords
<1>2. MetricsOf(EarlierRecords(h))' = MetricsOf(EarlierRecords(h))
    BY <1>1 DEF MetricsOf
<1> QED
    BY <1>2 DEF Earns, Improves

LEMMA HistoryFrame ==
    ASSUME BaseInv, HistoryInv, SameHistory,
           UNCHANGED <<comments, contract>>,
           main' = main \/ MainIsDurable',
           \A h \in Heads : admission'[h].pc # "idle" =>
               Status(h) \in {"absent", "failed"} /\ ~SameCommitSubmitted(h)
    PROVE  /\ HistoryInv'
           /\ PublicRecords' = PublicRecords
           /\ \A h \in Heads : Earns(h)' <=> Earns(h)
<1>1. PublicRecords' = PublicRecords
    BY DEF PublicRecords
<1>2. \A h \in Heads : Earns(h)' <=> Earns(h)
    <2>1. PublicRecords \subseteq Heads
        BY DEF PublicRecords
    <2> QED
        BY <1>1, <2>1, SameEarns DEF SameHistory
<1>3. OldContracts'
    BY DEF SameHistory, HistoryInv, OldContracts
<1>4. \A h \in Heads : \A e : Speaks(h, e)' <=> Speaks(h, e)
    BY DEF SameHistory, Speaks
<1>5. EntriesAgree'
    BY <1>4 DEF SameHistory, HistoryInv, EntriesAgree
<1>6. EntryFlags'
    BY <1>2, <1>4 DEF HistoryInv, EntryFlags
<1>7. MainIsDurable'
    BY DEF HistoryInv, MainIsDurable
<1>8. \A h \in Heads : Current(row[h])' <=> Current(row[h])
    BY DEF SameHistory, Current
<1>9. \A h \in Heads : Status(h) \in {"absent", "failed"} => Status(h)' = Status(h)
    BY DEF SameHistory, Finished
<1>10. HandlerReads'
    <2>1. \A h \in Heads : ~SameCommitSubmitted(h) => ~SameCommitSubmitted(h)'
        <3> SUFFICES ASSUME NEW h \in Heads, SameCommitSubmitted(h)'
                     PROVE  SameCommitSubmitted(h)
            OBVIOUS
        <3>1. PICK k \in Heads :
                  /\ Commit[k] = Commit[h]
                  /\ Status(k)' \in InFlight \cup {"verified", "rejected"}
                  /\ Current(row[k])'
            BY DEF SameCommitSubmitted
        <3>2. Status(k) \in Statuses
            BY RowFacts
        <3>3. Status(k) \notin {"absent", "failed"}
            BY <1>9, <3>1 DEF InFlight
        <3>4. Status(k) \in InFlight \cup {"verified", "rejected"}
            BY <3>2, <3>3 DEF Statuses, Finished
        <3> QED
            BY <1>8, <3>1, <3>4 DEF SameCommitSubmitted
    <2> QED
        BY <1>9, <2>1 DEF HandlerReads
<1>11. NoDuplicateCommit'
    BY <1>8, <1>9 DEF HistoryInv, NoDuplicateCommit
<1> QED
    BY <1>1, <1>2, <1>3, <1>5, <1>6, <1>7, <1>10, <1>11 DEF HistoryInv

LEMMA SameRowsHistory ==
    ASSUME UNCHANGED row
    PROVE  SameHistory
BY DEF SameHistory, Said, Status, ReportedStatus

(* Rows and comments are left alone, and the marker is not removed.        *)
LEMMA RowsKept ==
    ASSUME BaseInv, DurableInv, UNCHANGED <<row, comments, contract>>,
           main' = main \/ MainIsDurable',
           marker => marker',
           \A h \in Heads : admission'[h].pc # "idle" =>
               Status(h) \in {"absent", "failed"} /\ ~SameCommitSubmitted(h)
    PROVE  /\ HistoryInv' /\ RowShape' /\ VerdictsWritten' /\ RowFlags'
           /\ \A h \in Heads : Earns(h)' <=> Earns(h)
<1>1. SameHistory
    BY SameRowsHistory
<1>2. HistoryInv' /\ \A h \in Heads : Earns(h)' <=> Earns(h)
    BY <1>1, HistoryFrame DEF DurableInv
<1>3. RowShape'
    BY DEF DurableInv, RowShape, Said, Status, ReportedStatus
<1>4. VerdictsWritten'
    BY DEF DurableInv, VerdictsWritten, Speaks, Status
<1>5. RowFlags'
    BY <1>2 DEF DurableInv, RowFlags, Status, Current
<1> QED
    BY <1>2, <1>3, <1>4, <1>5

(* The running delivery goes on as it is.                                  *)
LEMMA DeliveryKept ==
    ASSUME BaseInv, DurableInv, delivery' = delivery, contract' = contract,
           SameHistory, \A h \in Heads : Earns(h)' <=> Earns(h),
           \A h \in Heads : row'[h].detail = row[h].detail,
           Delivering => Readmitted' = Readmitted
    PROVE  DeliveryReports' /\ BodyFlag'
<1>1. Delivering => delivery.head \in Heads
    BY DEF BaseInv, CommentIds
<1>2. Delivering' = Delivering
    BY DEF Delivering
<1>3. Delivering => /\ BodySpeaks' <=> BodySpeaks
                    /\ BodyIsPast => BodyIsPast'
    BY <1>1 DEF SameHistory, BodySpeaks, BodyIsPast
<1>4. DetailAfter' = DetailAfter
    BY DEF DetailAfter, Published, SameVersion, Advances
<1>5. Delivering /\ CommitIsFresh => CommitIsFresh'
    BY <1>1, <1>4 DEF CommitIsFresh
<1>6. DeliveryReports'
    BY <1>2, <1>3, <1>5 DEF DurableInv, DeliveryReports
<1>7. BodyFlag'
    BY <1>1, <1>2, <1>3 DEF DurableInv, BodyFlag
<1> QED
    BY <1>6, <1>7

LEMMA DeliveryEnded ==
    ASSUME delivery' = DeliveryIdle
    PROVE  DeliveryReports' /\ BodyFlag' /\ (ResultsFree)'
BY DeliveryIdleType DEF DeliveryReports, BodyFlag, Delivering, ResultsFree, DeliveryIdle

(***************************************************************************)
(* Initially                                                               *)
(***************************************************************************)
LEMMA DurableInit == Init => DurableInv
<1> SUFFICES ASSUME Init PROVE DurableInv
    OBVIOUS
<1> USE DEF Init
<1>1. /\ \A h \in Heads : /\ row[h] = AbsentRow
                          /\ comments[h] = <<>>
                          /\ Len(comments[h]) = 0
                          /\ admission[h].pc = "idle"
      /\ ~Delivering /\ ResultsFree /\ ~Recovering /\ ~marker
    BY EmptySeq DEF NoHandler, HandlerIdle, Delivering, ResultsFree, Recovering,
                    RecoveryIdle, DeliveryIdle
<1>2. \A h \in Heads : Status(h) = "absent" /\ Said(h) = "absent"
    BY <1>1 DEF Status, Said, ReportedStatus, AbsentRow
<1>3. \A h \in Heads : /\ row[h].record = FALSE
                       /\ row[h].finished = 0
                       /\ row[h].detail.contract = 0
                       /\ row[h].detail.snapshot = FALSE
    BY <1>1 DEF AbsentRow, NoDetail
<1>4. OldContracts
    BY <1>1, <1>3 DEF OldContracts
<1>5. HandlerReads /\ EntriesAgree /\ EntryFlags
    BY <1>1 DEF HandlerReads, EntriesAgree, EntryFlags
<1>6. MainIsDurable /\ NoDuplicateCommit
    BY <1>2 DEF MainIsDurable, NoRegistry, NoDuplicateCommit
<1>7. RowShape /\ VerdictsWritten /\ RowFlags
    BY <1>2, <1>3 DEF RowShape, VerdictsWritten, RowFlags, Finished
<1>8. MarkerStops /\ DeliveryReports /\ BodyFlag
    BY <1>1 DEF MarkerStops, DeliveryReports, BodyFlag
<1> QED
    BY <1>4, <1>5, <1>6, <1>7, <1>8 DEF DurableInv, HistoryInv

(***************************************************************************)
(* Steps that leave rows and comments alone                                *)
(***************************************************************************)

(* Nothing that is delivered, recovered or remembered changes.             *)
LEMMA DurableQuiet ==
    ASSUME BaseInv, DurableInv,
           UNCHANGED <<row, comments, contract, main, marker, recovery>>,
           delivery' \in {delivery, DeliveryIdle},
           \A h \in Heads : admission'[h].pc # "idle" =>
               Status(h) \in {"absent", "failed"} /\ ~SameCommitSubmitted(h)
    PROVE  DurableInv'
<1>1. /\ HistoryInv' /\ RowShape' /\ VerdictsWritten' /\ RowFlags'
      /\ \A h \in Heads : Earns(h)' <=> Earns(h)
    BY RowsKept
<1>2. SameHistory
    BY SameRowsHistory
<1>3. DeliveryReports' /\ BodyFlag'
    BY <1>1, <1>2, DeliveryKept, DeliveryEnded DEF Readmitted, Status
<1>4. MarkerStops'
    BY DeliveryEnded DEF DurableInv, MarkerStops, Recovering, ResultsFree
<1> QED
    BY <1>1, <1>3, <1>4 DEF DurableInv

LEMMA HandlersRead ==
    ASSUME DurableInv
    PROVE  \A h \in Heads : admission[h].pc # "idle" =>
               Status(h) \in {"absent", "failed"} /\ ~SameCommitSubmitted(h)
BY DEF DurableInv, HistoryInv, HandlerReads

LEMMA DurableAdmitCheck ==
    ASSUME BaseInv, DurableInv, NEW h \in Heads, AdmitCheck(h)
    PROVE  DurableInv'
<1>1. PICK now \in Readings :
          admission' = [admission EXCEPT ![h] =
                          [pc |-> "retain", old |-> row[h], at |-> now]]
    BY DEF AdmitCheck, BeginHandler
<1>2. UNCHANGED <<row, comments, contract, main, marker, recovery, delivery>>
    BY DEF AdmitCheck, BeginHandler
<1>3. \A k \in Heads : k # h => admission'[k] = admission[k]
    BY <1>1 DEF BaseInv, TypeOK
<1>4. Status(h) \in {"absent", "failed"} /\ ~SameCommitSubmitted(h)
    BY DEF AdmitCheck
<1> QED
    BY <1>2, <1>3, <1>4, HandlersRead, DurableQuiet

LEMMA DurableAdmitRetain ==
    ASSUME BaseInv, DurableInv, NEW h \in Heads, AdmitRetain(h)
    PROVE  DurableInv'
<1>1. UNCHANGED <<row, comments, contract, main, marker, recovery, delivery>>
    BY DEF AdmitRetain
<1>2. \A k \in Heads : k # h => admission'[k] = admission[k]
    BY DEF AdmitRetain, BaseInv, TypeOK
<1>3. admission[h].pc # "idle"
    BY DEF AdmitRetain
<1> QED
    BY <1>1, <1>2, <1>3, HandlersRead, DurableQuiet

LEMMA DurableOutside ==
    ASSUME BaseInv, DurableInv,
           \/ \E h \in Heads : WorkerPick(h)
           \/ WorkerCrash \/ WebStart \/ UNCHANGED vars
    PROVE  DurableInv'
<1>1. UNCHANGED <<row, comments, contract, main, marker, recovery, delivery,
                  admission>>
    BY DEF WorkerPick, WorkerCrash, WebStart, vars
<1> QED
    BY <1>1, HandlersRead, DurableQuiet

LEMMA DurableWebCrash ==
    ASSUME BaseInv, DurableInv, WebCrash
    PROVE  DurableInv'
<1>1. /\ UNCHANGED <<row, comments, contract, main, marker>>
      /\ delivery' = DeliveryIdle /\ recovery' = RecoveryIdle
      /\ \A h \in Heads : admission'[h].pc = "idle"
    BY DEF WebCrash, NoHandler, HandlerIdle
<1>2. HistoryInv' /\ RowShape' /\ VerdictsWritten' /\ RowFlags'
    BY <1>1, RowsKept
<1>3. MarkerStops'
    BY <1>1, DeliveryEnded DEF MarkerStops, Recovering, RecoveryIdle
<1> QED
    BY <1>1, <1>2, <1>3, DeliveryEnded DEF DurableInv

LEMMA DurableResyncBegin ==
    ASSUME BaseInv, DurableInv, ResyncBegin
    PROVE  DurableInv'
<1>1. /\ UNCHANGED <<row, comments, contract, main, delivery, admission>>
      /\ marker' = TRUE /\ ResultsFree
    BY DEF ResyncBegin
<1>2. /\ HistoryInv' /\ RowShape' /\ VerdictsWritten' /\ RowFlags'
      /\ \A h \in Heads : Earns(h)' <=> Earns(h)
    BY <1>1, HandlersRead, RowsKept
<1>3. SameHistory
    BY <1>1, SameRowsHistory
<1>4. DeliveryReports' /\ BodyFlag'
    BY <1>1, <1>2, <1>3, DeliveryKept DEF Readmitted, Status
<1>5. MarkerStops'
    BY <1>1 DEF MarkerStops, ResultsFree
<1> QED
    BY <1>2, <1>4, <1>5 DEF DurableInv

(***************************************************************************)
(* Delivery                                                                *)
(***************************************************************************)

(* beats_record compares a waiting verdict with the record flags of the    *)
(* database; they are the public records that finished before it.          *)
LEMMA RecordsInRows ==
    ASSUME BaseInv, SafeInv, DurableInv, ~marker, NEW h \in Heads,
           Status(h) = "publishing"
    PROVE  TrackRecords \ {h} = EarlierRecords(h)
<1>1. ASSUME NEW k \in TrackRecords \ {h}
      PROVE  k \in EarlierRecords(h)
    <2>1. /\ k \in Heads /\ k # h
          /\ Status(k) \in Finished /\ row[k].record /\ Current(row[k])
        BY DEF TrackRecords, Finished
    <2>2. Earns(k)
        BY <2>1 DEF DurableInv, RowFlags
    <2>3. k \in PublicRecords
        BY <2>1, <2>2, DecidedByComments DEF DurableInv
    <2>4. row[k].finished < row[h].finished
        BY <2>1 DEF SafeInv, WaitingIsLast
    <2> QED
        BY <2>3, <2>4 DEF EarlierRecords
<1>2. ASSUME NEW k \in EarlierRecords(h)
      PROVE  k \in TrackRecords \ {h}
    <2>1. k \in PublicRecords /\ row[k].finished < row[h].finished
        BY DEF EarlierRecords
    <2>2. /\ k \in Heads /\ Current(row[k]) /\ Earns(k)
          /\ Status(k) \in {"publishing", "verified"}
        BY <2>1, RecordsSpeak DEF DurableInv
    <2>3. row[k].finished \in Nat /\ row[h].finished \in Nat
        BY <2>2, RowFacts
    <2>4. k # h
        BY <2>1, <2>3
    <2>5. Status(k) = "verified"
        BY <2>2, <2>4 DEF SafeInv, RowInv, OneAtATime, Undecided
    <2>6. row[k].record
        BY <2>2, <2>5 DEF DurableInv, RowFlags, Finished
    <2> QED
        BY <2>2, <2>4, <2>5, <2>6 DEF TrackRecords
<1> QED
    BY <1>1, <1>2

(* verdict_entry tells the record flag that the rule gives.                *)
LEMMA EntryEarned ==
    ASSUME BaseInv, SafeInv, DurableInv, ~marker, NEW h \in Heads,
           Said(h) \in Finished, Current(row[h])
    PROVE  ReportedRecord(h) <=> Earns(h)
<1>1. CASE Status(h) = "publishing"
    BY <1>1, RecordsInRows DEF ReportedRecord, Promotes, Earns, Said
<1>2. CASE Status(h) # "publishing"
    <2>1. Status(h) \in Finished
        BY <1>2, SaidCases
    <2> QED
        BY <1>2, <2>1 DEF ReportedRecord, DurableInv, RowFlags
<1> QED
    BY <1>1, <1>2

LEMMA DurableDeliverStart ==
    ASSUME BaseInv, SafeInv, DurableInv, NEW h \in Heads, DeliverStart(h)
    PROVE  DurableInv'
<1>1. /\ UNCHANGED <<row, comments, contract, main, marker, recovery, admission>>
      /\ ~marker /\ ~Recovering /\ Status(h) # "absent"
    BY DEF DeliverStart
<1>2. /\ HistoryInv' /\ RowShape' /\ VerdictsWritten' /\ RowFlags'
      /\ \A k \in Heads : Earns(k)' <=> Earns(k)
    BY <1>1, HandlersRead, RowsKept
<1>3. /\ delivery'.pc = "comment"
      /\ delivery'.head = h
      /\ delivery'.cid = 0
      /\ delivery'.orig = Status(h)
      /\ delivery'.known = row[h].detail.comment
      /\ delivery'.body = Entry(h)
      /\ delivery'.lead = MayPublishSnapshot(h)
      /\ delivery'.snapshot = row[h].detail.snapshot
    BY DEF DeliverStart, DeliveryIdle
<1>4. /\ Entry(h).status = Said(h)
      /\ Entry(h).admitted = row[h].detail.receipt
      /\ Entry(h).finished = row[h].finished
      /\ Entry(h).record = ReportedRecord(h)
      /\ Entry(h).contract = row[h].detail.contract
    BY DEF Entry, Said
<1>5. /\ Status(h)' = Status(h)
      /\ Said(h)' = Said(h)
      /\ ~Readmitted'
    BY <1>1, <1>3 DEF Status, Said, ReportedStatus, Readmitted, Finished
<1>6. BodySpeaks'
    BY <1>1, <1>3, <1>4, <1>5 DEF BodySpeaks
<1>7. ReportedRecord(h) => Said(h) = "verified"
    <2>1. CASE Status(h) = "publishing"
        BY <2>1 DEF ReportedRecord, Promotes, Said
    <2>2. CASE Status(h) # "publishing"
        BY <2>2, SaidCases DEF ReportedRecord, DurableInv, RowShape, Finished
    <2> QED
        BY <2>1, <2>2
<1>8. DeliveryReports'
    <2>1. row[h].detail.contract <= contract
        BY DEF DurableInv, HistoryInv, OldContracts
    <2>2. MayPublishSnapshot(h) => ReportedRecord(h)
        BY <1>4 DEF MayPublishSnapshot
    <2>3. row[h].detail.snapshot => Said(h) = "verified"
        BY DEF DurableInv, RowShape
    <2>4. Status(h) \in Finished => row[h].detail.comment # 0
        BY DEF DurableInv, RowShape
    <2> QED
        BY <1>1, <1>3, <1>4, <1>6, <1>7, <2>1, <2>2, <2>3, <2>4
           DEF DeliveryReports, CommitIsFresh
<1>9. BodyFlag'
    <2> SUFFICES ASSUME Entry(h).contract = contract, Entry(h).status \in Finished
                 PROVE  Entry(h).record <=> Earns(h)
        BY <1>1, <1>2, <1>3 DEF BodyFlag
    <2> QED
        BY <1>1, <1>4, EntryEarned DEF Current
<1>10. MarkerStops'
    BY <1>1 DEF MarkerStops, Recovering
<1> QED
    BY <1>2, <1>8, <1>9, <1>10 DEF DurableInv

(* What the calls after the comment leave of the delivery and of main.     *)
LEMMA SupplementKeeps ==
    ASSUME BaseInv, DeliverSupplement
    PROVE  /\ delivery'.pc = "reread"
           /\ delivery'.head = delivery.head
           /\ delivery'.orig = delivery.orig
           /\ delivery'.known = delivery.known
           /\ delivery'.body = delivery.body
           /\ delivery'.lead = delivery.lead
           /\ delivery'.cid = delivery.cid
           /\ delivery'.snapshot => delivery.snapshot \/ delivery.lead
           /\ main' = main \/ (/\ delivery.lead
                              /\ delivery.body.contract = contract
                              /\ main' = MainAfter)
<1> DEFINE publish == delivery.lead /\ delivery.body.contract = contract
<1>0. delivery \in Deliveries
    BY DEF BaseInv, TypeOK
<1>1. CASE /\ main' = IF publish THEN MainAfter ELSE main
           /\ delivery' = [delivery EXCEPT !.pc = "reread",
                                           !.snapshot = @ \/ publish]
    BY <1>0, <1>1 DEF Deliveries
<1>2. CASE /\ delivery' = [delivery EXCEPT !.pc = "reread", !.error = TRUE]
           /\ UNCHANGED main
    BY <1>0, <1>2 DEF Deliveries
<1>3. CASE /\ publish
           /\ main' = MainAfter
           /\ \E confirmed \in BOOLEAN :
                 delivery' = [delivery EXCEPT !.pc = "reread", !.error = TRUE,
                                              !.snapshot = @ \/ confirmed]
    <2>1. PICK confirmed \in BOOLEAN :
              delivery' = [delivery EXCEPT !.pc = "reread", !.error = TRUE,
                                           !.snapshot = @ \/ confirmed]
        BY <1>3
    <2>2. publish => delivery.lead /\ delivery.body.contract = contract
        OBVIOUS
    <2> HIDE DEF publish
    <2> QED
        BY <1>0, <1>3, <2>1, <2>2 DEF Deliveries
<1> QED
    BY <1>1, <1>2, <1>3 DEF DeliverSupplement

(* publish_record names the delivered head, and only a verified one.       *)
LEMMA DurableDeliverSupplement ==
    ASSUME BaseInv, SafeInv, DurableInv, DeliverSupplement
    PROVE  DurableInv'
<1>1. /\ UNCHANGED <<row, comments, contract, marker, recovery, admission>>
      /\ delivery.pc = "supplement" /\ Delivering
      /\ delivery \in Deliveries
    BY DEF DeliverSupplement, Delivering, BaseInv, TypeOK
<1>2. delivery.head \in Heads
    BY <1>1 DEF BaseInv, CommentIds
<1>3. SameHistory
    BY <1>1, SameRowsHistory
<1> DEFINE publish == delivery.lead /\ delivery.body.contract = contract
<1>4. /\ delivery'.pc = "reread"
      /\ delivery'.head = delivery.head
      /\ delivery'.orig = delivery.orig
      /\ delivery'.known = delivery.known
      /\ delivery'.body = delivery.body
      /\ delivery'.lead = delivery.lead
      /\ delivery'.cid = delivery.cid
      /\ delivery'.snapshot => delivery.snapshot \/ delivery.lead
      /\ main' = main \/ (publish /\ main' = MainAfter)
    BY SupplementKeeps
<1> HIDE DEF publish
<1>5. /\ BodySpeaks \/ BodyIsPast
      /\ delivery.body.contract <= contract
      /\ delivery.snapshot => delivery.body.status = "verified"
      /\ delivery.lead => delivery.body.record
      /\ delivery.body.record => delivery.body.status = "verified"
      /\ delivery.orig \in Finished => delivery.known # 0
      /\ delivery.cid # 0 /\ delivery.known # 0 => delivery.cid = delivery.known
      /\ delivery.cid # 0
    BY <1>1 DEF DurableInv, DeliveryReports
<1>6. MainIsDurable'
    <2>1. CASE main' = main
        BY <1>1, <2>1 DEF DurableInv, HistoryInv, MainIsDurable
    <2>2. CASE publish /\ main' = Registry
        <3>1. /\ delivery.body.status = "verified" /\ delivery.body.record
              /\ main'.head = delivery.head
              /\ main'.finished = delivery.body.finished
              /\ main'.contract = delivery.body.contract
            BY <1>5, <2>2 DEF publish, Registry
        <3>2. comments[delivery.head][delivery.cid] = delivery.body
            BY <1>1, <1>5 DEF SafeInv, DeliveryFollowsRow
        <3>3. delivery.cid \in DOMAIN comments[delivery.head]
            <4>1. delivery.cid \in Nat /\ delivery.cid <= Len(comments[delivery.head])
                BY <1>1 DEF BaseInv, CommentIds, Deliveries
            <4> QED
                BY <1>2, <1>5, <4>1, CommentDomain
        <3> QED
            BY <1>1, <3>1, <3>2, <3>3 DEF MainIsDurable
    <2> QED
        BY <1>4, <2>1, <2>2 DEF MainAfter
<1>7. /\ HistoryInv' /\ RowShape' /\ VerdictsWritten' /\ RowFlags'
      /\ \A k \in Heads : Earns(k)' <=> Earns(k)
    BY <1>1, <1>6, HandlersRead, RowsKept
<1>8. /\ Delivering'
      /\ BodySpeaks' <=> BodySpeaks
      /\ BodyIsPast => BodyIsPast'
    BY <1>1, <1>3, <1>4
       DEF Delivering, BodySpeaks, BodyIsPast, Readmitted, Status, Said,
           ReportedStatus
<1>9. DeliveryReports'
    BY <1>1, <1>4, <1>5, <1>8 DEF DeliveryReports, CommitIsFresh
<1>10. BodyFlag'
    BY <1>1, <1>2, <1>4, <1>7, <1>8 DEF DurableInv, BodyFlag
<1>11. MarkerStops'
    BY <1>1, <1>4 DEF DurableInv, MarkerStops, Recovering, ResultsFree, Delivering
<1> QED
    BY <1>7, <1>9, <1>10, <1>11 DEF DurableInv

LEMMA DurableDeliverReread ==
    ASSUME BaseInv, SafeInv, DurableInv, DeliverReread
    PROVE  DurableInv'
<1>1. /\ UNCHANGED <<row, comments, contract, main, marker, recovery, admission>>
      /\ delivery.pc = "reread" /\ Delivering
      /\ delivery \in Deliveries
    BY DEF DeliverReread, Delivering, BaseInv, TypeOK
<1>2. CASE delivery' = DeliveryIdle
    BY <1>1, <1>2, HandlersRead, DurableQuiet
<1>3. CASE delivery' = [delivery EXCEPT
                           !.pc   = "commit",
                           !.seen = [version |-> outbox[delivery.head],
                                     status  |-> Status(delivery.head),
                                     detail  |-> row[delivery.head].detail]]
    <2>1. /\ HistoryInv' /\ RowShape' /\ VerdictsWritten' /\ RowFlags'
          /\ \A k \in Heads : Earns(k)' <=> Earns(k)
        BY <1>1, HandlersRead, RowsKept
    <2>2. /\ delivery'.pc = "commit"
          /\ delivery'.head = delivery.head
          /\ delivery'.orig = delivery.orig
          /\ delivery'.known = delivery.known
          /\ delivery'.body = delivery.body
          /\ delivery'.lead = delivery.lead
          /\ delivery'.cid = delivery.cid
          /\ delivery'.snapshot = delivery.snapshot
          /\ delivery'.seen.detail = row[delivery.head].detail
        BY <1>1, <1>3 DEF Deliveries
    <2>3. /\ Delivering'
          /\ BodySpeaks' <=> BodySpeaks
          /\ BodyIsPast => BodyIsPast'
        BY <1>1, <2>2 DEF Delivering, BodySpeaks, BodyIsPast, Readmitted, Status,
                          Said, ReportedStatus
    <2>4. delivery.head \in Heads
        BY <1>1 DEF BaseInv, CommentIds
    <2>5. DeliveryReports'
        BY <1>1, <2>2, <2>3 DEF DurableInv, DeliveryReports, CommitIsFresh
    <2>6. BodyFlag'
        BY <1>1, <2>1, <2>2, <2>3, <2>4 DEF DurableInv, BodyFlag
    <2>7. MarkerStops'
        BY <1>1, <2>2 DEF DurableInv, MarkerStops, Recovering, ResultsFree
    <2> QED
        BY <2>1, <2>5, <2>6, <2>7 DEF DurableInv
<1> QED
    BY <1>2, <1>3 DEF DeliverReread

(***************************************************************************)
(* The comment                                                             *)
(***************************************************************************)

(* A delivery that reports an admission that is over finds no verdict of   *)
(* the current one.                                                        *)
LEMMA PastIsUnspoken ==
    ASSUME BaseInv, SafeInv, DurableInv, Delivering, BodyIsPast,
           NEW i \in 1 .. Len(comments[delivery.head])
    PROVE  comments[delivery.head][i].admitted < row[delivery.head].detail.receipt
<1>1. delivery.head \in Heads /\ delivery \in Deliveries
    BY DEF BaseInv, TypeOK, CommentIds
<1>2. /\ comments[delivery.head][i].admitted <= delivery.body.admitted
      /\ delivery.body.admitted < row[delivery.head].detail.receipt
    BY DEF SafeInv, DeliveryFollowsRow, BodyIsPast
<1>3. /\ comments[delivery.head][i].admitted \in Nat
      /\ delivery.body.admitted \in Nat
      /\ row[delivery.head].detail.receipt \in Nat
    BY <1>1, EntryTypes, RowFacts DEF Deliveries, Entries
<1> QED
    BY <1>2, <1>3

(* If the head has a verdict of its admission already, the body repeats    *)
(* it, with the same record flag while its contract is deployed.           *)
LEMMA BodyRepeats ==
    ASSUME BaseInv, SafeInv, DurableInv, Delivering,
           NEW i \in 1 .. Len(comments[delivery.head]),
           Speaks(delivery.head, comments[delivery.head][i])
    PROVE  /\ BodySpeaks
           /\ delivery.body.status = comments[delivery.head][i].status
           /\ delivery.body.finished = comments[delivery.head][i].finished
           /\ delivery.body.contract = comments[delivery.head][i].contract
           /\ delivery.body.contract = contract =>
                  (delivery.body.record <=> comments[delivery.head][i].record)
<1> DEFINE d == delivery.head
           e == comments[d][i]
<1>1. d \in Heads
    BY DEF BaseInv, CommentIds
<1>2. BodySpeaks
    <2>1. e.admitted = row[d].detail.receipt /\ row[d].detail.receipt \in Nat
        BY <1>1, RowFacts DEF Speaks
    <2>2. BodySpeaks \/ BodyIsPast
        BY DEF DurableInv, DeliveryReports
    <2>3. ~BodyIsPast
        BY <2>1, PastIsUnspoken
    <2> QED
        BY <2>2, <2>3
<1>3. /\ e.status = Said(d) /\ e.finished = row[d].finished
      /\ e.contract = row[d].detail.contract /\ e.status \in Finished
    BY <1>1 DEF DurableInv, HistoryInv, EntriesAgree, Speaks
<1>4. /\ delivery.body.status = e.status
      /\ delivery.body.finished = e.finished
      /\ delivery.body.contract = e.contract
    BY <1>2, <1>3 DEF BodySpeaks
<1>5. delivery.body.contract = contract => (delivery.body.record <=> e.record)
    BY <1>1, <1>2, <1>3, <1>4 DEF DurableInv, HistoryInv, EntryFlags, BodyFlag
<1> QED
    BY <1>2, <1>4, <1>5

(* The comment makes the delivered head a public record if its verdict     *)
(* earned it, and changes nothing for any other head.                      *)
NewRecord == /\ BodySpeaks
             /\ delivery.body.contract = contract
             /\ delivery.body.record

LEMMA RecordsAfterComment ==
    ASSUME BaseInv, BaseInv', SafeInv, DurableInv, Delivering, UNCHANGED contract,
           comments' = WithComment
    PROVE  PublicRecords' = IF NewRecord THEN PublicRecords \cup {delivery.head}
                                         ELSE PublicRecords
<1> DEFINE d == delivery.head
<1>1. d \in Heads
    BY DEF BaseInv, CommentIds
<1>2. /\ \A h \in Heads : \A i \in 1 .. Len(comments[h]) :
             /\ i \in 1 .. Len(comments'[h])
             /\ \/ comments'[h][i] = comments[h][i]
                \/ h = d /\ comments'[h][i] = delivery.body
      /\ \A h \in Heads : \A i \in 1 .. Len(comments'[h]) :
             \/ i \in 1 .. Len(comments[h]) /\ comments'[h][i] = comments[h][i]
             \/ h = d /\ comments'[h][i] = delivery.body
      /\ CommentId \in 1 .. Len(comments'[d])
      /\ comments'[d][CommentId] = delivery.body
    BY CommentWritten, LengthsGrow
<1>3. \A h \in Heads : h \in PublicRecords' <=>
          \E i \in 1 .. Len(comments'[h]) :
              comments'[h][i].record /\ comments'[h][i].contract = contract
    <2>1. \A h \in Heads : DOMAIN comments'[h] = 1 .. Len(comments'[h])
        BY LenProperties DEF BaseInv, TypeOK
    <2> QED
        BY <2>1 DEF PublicRecords
<1>4. ASSUME NEW h \in Heads, h # d
      PROVE  h \in PublicRecords' <=> h \in PublicRecords
    <2>1. comments'[h] = comments[h]
        BY <1>1, <1>4 DEF WithComment, BaseInv, TypeOK
    <2> QED
        BY <1>3, <2>1, RecordsAreComments
<1>5. NewRecord => d \in PublicRecords'
    BY <1>1, <1>2, <1>3 DEF NewRecord
<1>6. ASSUME d \in PublicRecords
      PROVE  NewRecord
    <2>1. PICK i \in 1 .. Len(comments[d]) :
              /\ comments[d][i].record
              /\ comments[d][i].contract = contract
              /\ Speaks(d, comments[d][i])
        BY <1>6, RecordsSpeak DEF DurableInv
    <2> QED
        BY <2>1, BodyRepeats DEF NewRecord
<1>7. ASSUME d \in PublicRecords', d \notin PublicRecords
      PROVE  NewRecord
    <2>1. PICK i \in 1 .. Len(comments'[d]) :
              comments'[d][i].record /\ comments'[d][i].contract = contract
        BY <1>1, <1>3, <1>7
    <2>2. comments'[d][i] = delivery.body
        BY <1>1, <1>2, <1>7, <2>1, RecordsAreComments
    <2>3. BodySpeaks
        BY <2>1, <2>2 DEF DurableInv, DeliveryReports, BodyIsPast
    <2> QED
        BY <2>1, <2>2, <2>3 DEF NewRecord
<1>8. PublicRecords \subseteq Heads /\ PublicRecords' \subseteq Heads
    BY DEF PublicRecords
<1> QED
    BY <1>1, <1>4, <1>5, <1>6, <1>7, <1>8

(* A new public record waits for this very delivery.                       *)
LEMMA NewRecordWaits ==
    ASSUME BaseInv, SafeInv, DurableInv, Delivering, NewRecord,
           delivery.head \notin PublicRecords
    PROVE  Status(delivery.head) = "publishing"
<1> DEFINE d == delivery.head
<1> SUFFICES ASSUME Status(d) # "publishing" PROVE FALSE
    OBVIOUS
<1>1. d \in Heads
    BY DEF BaseInv, CommentIds
<1>2. delivery.body.status = "verified"
    BY DEF NewRecord, DurableInv, DeliveryReports
<1>3. Said(d) = "verified" /\ row[d].detail.contract = contract
    BY <1>2 DEF NewRecord, BodySpeaks
<1>4. Status(d) \in Finished
    BY <1>1, <1>3, SaidCases DEF Finished
<1>5. ~Earns(d)
    BY <1>1, <1>3, <1>4, DecidedByComments DEF DurableInv, Current
<1>6. Earns(d)
    BY <1>2 DEF NewRecord, DurableInv, BodyFlag, Finished
<1> QED
    BY <1>5, <1>6

(* A verdict is new to the public only while it waits, and then it is the  *)
(* last: no flag that was decided earlier changes with it.                 *)
LEMMA EarnedStays ==
    ASSUME BaseInv, BaseInv', SafeInv, DurableInv, Delivering,
           UNCHANGED <<row, contract>>, comments' \in {comments, WithComment},
           NEW h \in Heads
    PROVE  Earns(h)' <=> Earns(h)
<1> DEFINE d == delivery.head
<1>1. d \in Heads
    BY DEF BaseInv, CommentIds
<1>2. Said(h)' = Said(h)
    BY DEF Said, ReportedStatus
<1>3. CASE PublicRecords' = PublicRecords
    BY <1>2, <1>3, SameEarns
<1>4. CASE PublicRecords' # PublicRecords
    <2>1. comments' = WithComment
        BY <1>4 DEF PublicRecords
    <2>2. /\ PublicRecords' = PublicRecords \cup {d}
          /\ d \notin PublicRecords /\ NewRecord
        BY <1>4, <2>1, RecordsAfterComment
    <2>3. Status(d) = "publishing"
        BY <2>2, NewRecordWaits
    <2>4. ~(row[d].finished < row[h].finished)
        <3>1. row[d].finished \in Nat /\ row[h].finished \in Nat
            BY <1>1, RowFacts
        <3>2. h # d => row[h].finished < row[d].finished
            BY <1>1, <2>3 DEF SafeInv, WaitingIsLast
        <3> QED
            BY <3>1, <3>2
    <2>5. EarlierRecords(h)' = EarlierRecords(h)
        BY <2>2, <2>4 DEF EarlierRecords
    <2>6. MetricsOf(EarlierRecords(h))' = MetricsOf(EarlierRecords(h))
        BY <2>5 DEF MetricsOf
    <2> QED
        BY <1>2, <2>6 DEF Earns, Improves
<1> QED
    BY <1>3, <1>4

LEMMA CommentHistory ==
    ASSUME BaseInv, BaseInv', SafeInv, DurableInv, Delivering,
           UNCHANGED <<row, contract, main, marker, admission>>,
           comments' \in {comments, WithComment}
    PROVE  HistoryInv' /\ RowShape' /\ VerdictsWritten' /\ RowFlags'
<1> DEFINE d == delivery.head
<1>1. d \in Heads /\ delivery \in Deliveries
    BY DEF BaseInv, CommentIds, TypeOK
<1>2. /\ \A h \in Heads : \A i \in 1 .. Len(comments[h]) :
             /\ i \in 1 .. Len(comments'[h])
             /\ \/ comments'[h][i] = comments[h][i]
                \/ h = d /\ comments'[h][i] = delivery.body
      /\ \A h \in Heads : \A i \in 1 .. Len(comments'[h]) :
             \/ i \in 1 .. Len(comments[h]) /\ comments'[h][i] = comments[h][i]
             \/ h = d /\ comments'[h][i] = delivery.body
    BY CommentWritten, LengthsGrow
<1>3. \A h \in Heads : /\ Earns(h)' <=> Earns(h)
                       /\ Status(h)' = Status(h)
                       /\ Said(h)' = Said(h)
    BY EarnedStays DEF Status, Said, ReportedStatus
<1>4. \A h \in Heads : \A e : Speaks(h, e)' <=> Speaks(h, e)
    BY DEF Speaks
<1>5. /\ BodySpeaks \/ BodyIsPast
      /\ delivery.body.contract <= contract
      /\ delivery.body.record => delivery.body.status = "verified"
    BY DEF DurableInv, DeliveryReports
<1>6. ASSUME BodyIsPast
      PROVE  /\ delivery.body.status = "failed"
             /\ delivery.body.admitted # row[d].detail.receipt
    <2>1. row[d].detail.receipt \in Nat
        BY <1>1, RowFacts
    <2> QED
        BY <1>6, <2>1 DEF BodyIsPast
<1>7. OldContracts'
    BY <1>2, <1>5 DEF DurableInv, HistoryInv, OldContracts
<1>8. EntriesAgree'
    <2>1. LET e == delivery.body
          IN /\ e.record => e.status = "verified"
             /\ e.status \in {"verified", "rejected"} =>
                    e.admitted = row[d].detail.receipt
             /\ e.admitted = row[d].detail.receipt =>
                    e.contract = row[d].detail.contract
             /\ Speaks(d, e) => e.status = Said(d) /\ e.finished = row[d].finished
        BY <1>5, <1>6 DEF BodySpeaks, Speaks
    <2> SUFFICES ASSUME NEW h \in Heads, NEW i \in 1 .. Len(comments'[h])
                 PROVE  LET e == comments'[h][i]
                        IN /\ e.record => e.status = "verified"
                           /\ e.status \in {"verified", "rejected"} =>
                                  e.admitted = row[h].detail.receipt
                           /\ e.admitted = row[h].detail.receipt =>
                                  e.contract = row[h].detail.contract
                           /\ Speaks(h, e) => /\ e.status = Said(h)
                                              /\ e.finished = row[h].finished
        BY <1>3, <1>4 DEF EntriesAgree
    <2>2. CASE i \in 1 .. Len(comments[h]) /\ comments'[h][i] = comments[h][i]
        BY <2>2 DEF DurableInv, HistoryInv, EntriesAgree
    <2>3. CASE h = d /\ comments'[h][i] = delivery.body
        BY <2>1, <2>3
    <2> QED
        BY <1>2, <2>2, <2>3
<1>9. EntryFlags'
    <2>1. Speaks(d, delivery.body) /\ delivery.body.contract = contract =>
              (delivery.body.record <=> Earns(d))
        BY <1>5, <1>6 DEF Speaks, DurableInv, BodyFlag
    <2> QED
        BY <1>2, <1>3, <1>4, <2>1 DEF DurableInv, HistoryInv, EntryFlags
<1>10. MainIsDurable'
    <2> SUFFICES ASSUME main.head # NoHead
                 PROVE  \E j \in DOMAIN comments'[main.head] :
                            LET e == comments'[main.head][j]
                            IN /\ e.status = "verified"
                               /\ e.finished = main.finished
                               /\ e.contract = main.contract
                               /\ e.contract = contract => e.record
        BY DEF MainIsDurable
    <2>1. main.head \in Heads
        BY DEF BaseInv, TypeOK
    <2>2. PICK i \in 1 .. Len(comments[main.head]) :
              /\ comments[main.head][i].status = "verified"
              /\ comments[main.head][i].finished = main.finished
              /\ comments[main.head][i].contract = main.contract
              /\ main.contract = contract => comments[main.head][i].record
        BY <2>1, CommentDomain DEF DurableInv, HistoryInv, MainIsDurable
    <2>3. Speaks(main.head, comments[main.head][i])
        BY <2>1, <2>2 DEF DurableInv, HistoryInv, EntriesAgree, Speaks, Finished
    <2>4. /\ comments'[main.head][i].status = "verified"
          /\ comments'[main.head][i].finished = main.finished
          /\ comments'[main.head][i].contract = main.contract
          /\ main.contract = contract => comments'[main.head][i].record
        BY <1>2, <2>1, <2>2, <2>3, BodyRepeats
    <2>5. DOMAIN comments'[main.head] = 1 .. Len(comments'[main.head])
        BY <2>1, LenProperties DEF BaseInv, TypeOK
    <2> QED
        BY <1>2, <2>1, <2>4, <2>5
<1>11. HandlerReads' /\ NoDuplicateCommit'
    BY DEF DurableInv, HistoryInv, HandlerReads, NoDuplicateCommit,
           SameCommitSubmitted, Current, Status
<1>12. VerdictsWritten'
    <2> SUFFICES ASSUME NEW h \in Heads, Status(h) \in Finished
                 PROVE  \E i \in 1 .. Len(comments'[h]) : Speaks(h, comments'[h][i])
        BY <1>3, <1>4 DEF VerdictsWritten
    <2>1. PICK i \in 1 .. Len(comments[h]) : Speaks(h, comments[h][i])
        BY DEF DurableInv, VerdictsWritten
    <2>2. CASE comments'[h][i] = comments[h][i]
        BY <1>2, <2>1, <2>2
    <2>3. CASE h = d /\ comments'[h][i] = delivery.body
        <3>1. Speaks(d, delivery.body)
            BY <2>1, <2>3, BodyRepeats DEF Speaks, BodySpeaks
        <3> QED
            BY <1>2, <2>3, <3>1
    <2> QED
        BY <1>2, <2>2, <2>3
<1>13. RowShape'
    BY <1>3 DEF DurableInv, RowShape
<1>14. RowFlags'
    BY <1>3 DEF DurableInv, RowFlags, Current
<1> QED
    BY <1>7, <1>8, <1>9, <1>10, <1>11, <1>12, <1>13, <1>14 DEF HistoryInv

LEMMA DurableDeliverComment ==
    ASSUME BaseInv, BaseInv', SafeInv, DurableInv, DeliverComment
    PROVE  DurableInv'
<1>1. /\ UNCHANGED <<row, contract, main, marker, recovery, admission>>
      /\ delivery.pc = "comment" /\ Delivering
      /\ delivery \in Deliveries
      /\ comments' \in {comments, WithComment}
    BY DEF DeliverComment, Delivering, BaseInv, TypeOK
<1>2. HistoryInv' /\ RowShape' /\ VerdictsWritten' /\ RowFlags'
    BY <1>1, CommentHistory
<1>3. /\ delivery'.pc \in {"supplement", "reread"}
      /\ delivery'.pc = "supplement" => delivery'.cid = CommentId
      /\ delivery'.cid \in {delivery.cid, CommentId}
      /\ delivery'.head = delivery.head
      /\ delivery'.orig = delivery.orig
      /\ delivery'.known = delivery.known
      /\ delivery'.body = delivery.body
      /\ delivery'.lead = delivery.lead
      /\ delivery'.snapshot = delivery.snapshot
    <2>1. CASE delivery' = [delivery EXCEPT !.pc = "supplement", !.cid = CommentId]
        BY <1>1, <2>1 DEF Deliveries
    <2>2. CASE delivery' = [delivery EXCEPT !.pc = AfterCommentError,
                                            !.error = TRUE]
        BY <1>1, <2>2 DEF Deliveries, AfterCommentError
    <2> QED
        BY <2>1, <2>2 DEF DeliverComment
<1>4. CommentId # 0 /\ (delivery.known # 0 => CommentId = delivery.known)
    <2>1. delivery.head \in Heads
        BY <1>1 DEF BaseInv, CommentIds
    <2> QED
        BY <2>1, CommentDomain DEF CommentId
<1>5. /\ Delivering'
      /\ BodySpeaks' <=> BodySpeaks
      /\ BodyIsPast => BodyIsPast'
    BY <1>1, <1>3 DEF Delivering, BodySpeaks, BodyIsPast, Readmitted, Status, Said,
                      ReportedStatus
<1>6. DeliveryReports'
    BY <1>1, <1>3, <1>4, <1>5 DEF DurableInv, DeliveryReports, CommitIsFresh
<1>7. BodyFlag'
    <2>1. delivery.head \in Heads
        BY <1>1 DEF BaseInv, CommentIds
    <2>2. \A h \in Heads : Earns(h)' <=> Earns(h)
        BY <1>1, EarnedStays
    <2> QED
        BY <1>1, <1>3, <1>5, <2>1, <2>2 DEF DurableInv, BodyFlag
<1>8. MarkerStops'
    BY <1>1 DEF DurableInv, MarkerStops, Recovering, ResultsFree, Delivering
<1> QED
    BY <1>2, <1>6, <1>7, <1>8 DEF DurableInv

(***************************************************************************)
(* The commit of a delivery                                                *)
(***************************************************************************)
LEMMA DetailAfterKeeps ==
    ASSUME BaseInv, delivery.pc = "commit"
    PROVE  /\ DetailAfter.receipt = delivery.seen.detail.receipt
           /\ DetailAfter.contract = delivery.seen.detail.contract
           /\ DetailAfter.comment = IF Published THEN delivery.cid
                                    ELSE delivery.seen.detail.comment
           /\ DetailAfter.snapshot =>
                  delivery.seen.detail.snapshot \/ delivery.snapshot
           /\ ~(Advances /\ delivery.orig = "publishing") =>
                  DetailAfter.verdict = delivery.seen.detail.verdict
<1>1. delivery.seen.detail \in Details
    BY DEF BaseInv, TypeOK, Deliveries
<1> QED
    BY <1>1 DEF DetailAfter, Details

(* What a delivery leaves in the row: never an older detail, and a final   *)
(* verdict only with the comment that carries it.                          *)
LEMMA DeliveredRow ==
    ASSUME BaseInv, SafeInv, DurableInv, DeliverCommit
    PROVE  \E h \in Heads, r \in Rows :
              /\ h = delivery.head
              /\ row' = [row EXCEPT ![h] = r]
              /\ r.finished = row[h].finished
              /\ r.detail.receipt = row[h].detail.receipt
              /\ r.detail.contract = row[h].detail.contract
              /\ row[h].detail.comment # 0 => r.detail.comment # 0
              /\ r.detail.snapshot => row[h].detail.snapshot \/ delivery.snapshot
              /\ r.detail.snapshot => Said(h) = "verified"
              /\ \/ /\ r.status = Status(h)
                    /\ r.record = row[h].record
                    /\ r.detail.verdict = row[h].detail.verdict
                 \/ /\ Status(h) = "admitting" /\ r.status = "pending"
                    /\ r.record = row[h].record
                 \/ /\ Status(h) = "publishing"
                    /\ r.status = Said(h) /\ r.status \in Finished
                    /\ r.record = delivery.body.record
                    /\ BodySpeaks
                    /\ r.detail.comment # 0
                    /\ delivery.cid \in 1 .. Len(comments[h])
                    /\ comments[h][delivery.cid] = delivery.body
<1>0. PICK h \in Heads : h = delivery.head
    BY DEF DeliverCommit, Delivering, BaseInv, CommentIds
<1>1. /\ delivery.pc = "commit" /\ Delivering
      /\ row[h] \in Rows /\ delivery \in Deliveries
    BY DEF DeliverCommit, Delivering, BaseInv, TypeOK
<1>2. /\ Moved(delivery.orig, Status(h)) /\ delivery.orig # "absent"
      /\ delivery.cid # 0 => comments[h][delivery.cid] = delivery.body
      /\ Moved(delivery.seen.status, Status(h))
    BY <1>0, <1>1 DEF SafeInv, DeliveryFollowsRow, CommitFollowsRow
<1>3. /\ BodySpeaks \/ BodyIsPast
      /\ delivery.snapshot => delivery.body.status = "verified"
      /\ delivery.seen.detail = row[h].detail
         \/ (Readmitted /\ DetailAfter = delivery.seen.detail)
    BY <1>0, <1>1 DEF DurableInv, DeliveryReports, CommitIsFresh
<1>4. delivery.snapshot => Said(h) = "verified"
    BY <1>0, <1>3 DEF BodySpeaks, BodyIsPast
<1> DEFINE d == IF DetailAfter = delivery.seen.detail THEN row[h].detail
                                                      ELSE DetailAfter
           kept == [row[h] EXCEPT !.detail = d]
<1>5. /\ d \in Details
      /\ d.receipt = row[h].detail.receipt
      /\ d.contract = row[h].detail.contract
      /\ row[h].detail.comment # 0 => d.comment # 0
      /\ d.snapshot => row[h].detail.snapshot \/ delivery.snapshot
      /\ d.snapshot => Said(h) = "verified"
      /\ ~(Advances /\ delivery.orig = "publishing") =>
             d.verdict = row[h].detail.verdict
      /\ Published /\ ~Readmitted => d.comment # 0
    <2>1. row[h].detail \in Details /\ DetailAfter \in Details
        BY <1>1, DetailAfterType DEF Rows
    <2>2. row[h].detail.snapshot => Said(h) = "verified"
        BY DEF DurableInv, RowShape
    <2>3. CASE DetailAfter = delivery.seen.detail
        <3>1. d = row[h].detail
            BY <2>3
        <3>2. Published /\ ~Readmitted => row[h].detail.comment # 0
            BY <1>1, <1>3, <2>3, DetailAfterKeeps DEF Published
        <3> HIDE DEF d
        <3> QED
            BY <2>1, <2>2, <3>1, <3>2
    <2>4. CASE DetailAfter # delivery.seen.detail
        <3>1. d = DetailAfter /\ delivery.seen.detail = row[h].detail
            BY <1>3, <2>4
        <3> HIDE DEF d
        <3> QED
            BY <1>1, <1>4, <2>1, <2>2, <3>1, DetailAfterKeeps DEF Published
    <2> QED
        BY <2>3, <2>4
<1>6. kept \in Rows /\ kept.status = Status(h) /\ kept.finished = row[h].finished
      /\ kept.record = row[h].record /\ kept.detail = d
    <2> HIDE DEF d
    <2> QED
        BY <1>1, <1>5 DEF Rows, Status
<1> HIDE DEF d, kept
<1>7. CASE Advances /\ delivery.orig = "admitting"
    <2> DEFINE r == [kept EXCEPT !.status = "pending"]
    <2>1. row' = [row EXCEPT ![h] = r]
        BY <1>0, <1>7 DEF DeliverCommit, kept, d
    <2>2. r \in Rows /\ r.status = "pending" /\ r.finished = row[h].finished
          /\ r.record = row[h].record /\ r.detail = d
        BY <1>6 DEF Rows, Statuses, InFlight
    <2>3. Status(h) = "admitting"
        BY <1>2, <1>7 DEF Moved, Finished
    <2> HIDE DEF r
    <2> QED
        BY <1>0, <1>5, <2>1, <2>2, <2>3
<1>8. CASE Advances /\ delivery.orig = "publishing"
    <2> DEFINE r == [kept EXCEPT !.status = delivery.body.status,
                                 !.record = delivery.body.record]
    <2>1. row' = [row EXCEPT ![h] = r]
        BY <1>0, <1>8 DEF DeliverCommit, kept, d
    <2>2. Status(h) = "publishing" /\ ~Readmitted
        BY <1>2, <1>8 DEF Moved, Finished, Readmitted
    <2>3. BodySpeaks /\ delivery.body.status = Said(h) /\ Said(h) \in Finished
        BY <1>0, <1>3, <2>2, SaidCases DEF BodySpeaks, BodyIsPast
    <2>4. delivery.body \in Entries
        BY <1>1 DEF Deliveries
    <2>5. r \in Rows /\ r.status = Said(h) /\ r.finished = row[h].finished
          /\ r.record = delivery.body.record /\ r.detail = d
        BY <1>6, <2>3, <2>4 DEF Rows, Entries, Statuses, Finished
    <2>6. /\ d.comment # 0
          /\ delivery.cid \in 1 .. Len(comments[h])
          /\ comments[h][delivery.cid] = delivery.body
        <3>1. Published /\ delivery.cid # 0
            BY <1>8 DEF Advances, Published
        <3>2. delivery.cid \in Nat /\ delivery.cid <= Len(comments[h])
            BY <1>0, <1>1 DEF BaseInv, CommentIds, Deliveries
        <3> QED
            BY <1>2, <1>5, <2>2, <3>1, <3>2, CommentDomain
    <2> HIDE DEF r
    <2> QED
        BY <1>0, <1>5, <2>1, <2>2, <2>3, <2>5, <2>6
<1>9. CASE ~(Advances /\ delivery.orig \in {"admitting", "publishing"})
    <2>1. row' = [row EXCEPT ![h] = kept]
        BY <1>0, <1>9 DEF DeliverCommit, kept, d
    <2> QED
        BY <1>0, <1>5, <1>6, <1>9, <2>1
<1> QED
    BY <1>7, <1>8, <1>9

LEMMA DurableDeliverCommit ==
    ASSUME BaseInv, SafeInv, DurableInv, DeliverCommit
    PROVE  DurableInv' /\ SameHistory
<1>1. /\ UNCHANGED <<comments, contract, main, marker, recovery, admission>>
      /\ delivery.pc = "commit" /\ Delivering
      /\ delivery' = DeliveryIdle
    BY DEF DeliverCommit, Delivering
<1>2. PICK h \in Heads, r \in Rows :
          /\ h = delivery.head
          /\ row' = [row EXCEPT ![h] = r]
          /\ r.finished = row[h].finished
          /\ r.detail.receipt = row[h].detail.receipt
          /\ r.detail.contract = row[h].detail.contract
          /\ row[h].detail.comment # 0 => r.detail.comment # 0
          /\ r.detail.snapshot => Said(h) = "verified"
          /\ \/ /\ r.status = Status(h)
                /\ r.record = row[h].record
                /\ r.detail.verdict = row[h].detail.verdict
             \/ /\ Status(h) = "admitting" /\ r.status = "pending"
                /\ r.record = row[h].record
             \/ /\ Status(h) = "publishing"
                /\ r.status = Said(h) /\ r.status \in Finished
                /\ r.record = delivery.body.record
                /\ BodySpeaks
                /\ r.detail.comment # 0
                /\ delivery.cid \in 1 .. Len(comments[h])
                /\ comments[h][delivery.cid] = delivery.body
    BY DeliveredRow
<1>3. /\ row'[h] = r
      /\ \A k \in Heads : k # h => row'[k] = row[k]
    BY <1>2 DEF BaseInv, TypeOK
<1>4. Said(h)' = Said(h)
    <2>1. Said(h)' = ReportedStatus(r) /\ Said(h) = ReportedStatus(row[h])
        BY <1>3 DEF Said, ReportedStatus
    <2>2. CASE r.status = Status(h) /\ r.detail.verdict = row[h].detail.verdict
        BY <2>1, <2>2 DEF ReportedStatus, Status
    <2>3. CASE Status(h) = "admitting" /\ r.status = "pending"
        BY <2>1, <2>3, ReportedCases, SaidCases
    <2>4. CASE r.status = Said(h) /\ r.status \in Finished
        BY <2>1, <2>4, ReportedCases
    <2> QED
        BY <1>2, <2>2, <2>3, <2>4
<1>5. SameHistory
    <2>1. \A k \in Heads : k # h => Said(k)' = Said(k) /\ Status(k)' = Status(k)
        BY <1>3 DEF Said, ReportedStatus, Status
    <2>2. Status(h)' = r.status
        BY <1>3 DEF Status
    <2> QED
        BY <1>2, <1>3, <1>4, <2>1, <2>2 DEF SameHistory, Finished
<1>6. HistoryInv' /\ \A k \in Heads : Earns(k)' <=> Earns(k)
    BY <1>1, <1>5, HandlersRead, HistoryFrame DEF DurableInv
<1>7. BodySpeaks =>
          /\ delivery.body.status = Said(h)
          /\ delivery.body.admitted = row[h].detail.receipt
          /\ delivery.body.contract = row[h].detail.contract
    BY <1>2 DEF BodySpeaks
<1>8. RowShape'
    <2>1. r.record => r.status = "verified"
        <3>1. row[h].record => Status(h) = "verified"
            BY DEF DurableInv, RowShape
        <3>2. delivery.body.record => delivery.body.status = "verified"
            BY <1>1 DEF DurableInv, DeliveryReports
        <3> QED
            BY <1>2, <1>7, <3>1, <3>2
    <2>2. r.status \in Finished => r.detail.comment # 0
        BY <1>2 DEF DurableInv, RowShape, Finished
    <2>3. r.detail.snapshot => Said(h)' = "verified"
        BY <1>2, <1>4
    <2>4. Said(h)' \in {"absent", "pending"} => r.finished = 0
        BY <1>2, <1>4 DEF DurableInv, RowShape
    <2>5. ASSUME NEW k \in Heads, k # h
          PROVE  row'[k] = row[k] /\ Status(k)' = Status(k) /\ Said(k)' = Said(k)
        BY <1>3, <1>5, <2>5 DEF SameHistory, Status
    <2>6. Status(h)' = r.status /\ row'[h] = r
        BY <1>3 DEF Status
    <2> QED
        BY <2>1, <2>2, <2>3, <2>4, <2>5, <2>6 DEF DurableInv, RowShape
<1>9. VerdictsWritten'
    <2>1. \A k \in Heads : \A e : Speaks(k, e)' <=> Speaks(k, e)
        BY <1>5 DEF SameHistory, Speaks
    <2>2. \A k \in Heads : Status(k)' \in Finished =>
              \/ Status(k) \in Finished
              \/ /\ k = h /\ BodySpeaks /\ Said(h) \in Finished
                 /\ delivery.cid \in 1 .. Len(comments[h])
                 /\ comments[h][delivery.cid] = delivery.body
        BY <1>2, <1>3 DEF Status, Finished
    <2>3. BodySpeaks /\ Said(h) \in Finished => Speaks(h, delivery.body)
        BY <1>7 DEF Speaks
    <2> QED
        BY <1>1, <2>1, <2>2, <2>3 DEF DurableInv, VerdictsWritten
<1>10. RowFlags'
    <2> SUFFICES ASSUME ~marker, NEW k \in Heads,
                        Status(k)' \in Finished, Current(row[k])'
                 PROVE  row'[k].record <=> Earns(k)
        BY <1>1, <1>6 DEF RowFlags
    <2>1. Current(row[k])
        BY <1>1, <1>5 DEF Current, SameHistory
    <2>2. CASE Status(k) \in Finished
        <3>1. row'[k].record = row[k].record
            BY <1>2, <1>3, <2>2 DEF Finished
        <3> QED
            BY <2>1, <2>2, <3>1 DEF DurableInv, RowFlags
    <2>3. CASE Status(k) \notin Finished
        <3>1. /\ k = h /\ BodySpeaks /\ Said(h) \in Finished
              /\ row'[h].record = delivery.body.record
            BY <1>2, <1>3, <2>3 DEF Status, Finished
        <3> QED
            BY <1>1, <1>2, <1>7, <2>1, <3>1 DEF DurableInv, BodyFlag, Current
    <2> QED
        BY <2>2, <2>3
<1>11. MarkerStops'
    BY <1>1, DeliveryEnded DEF DurableInv, MarkerStops, Recovering, ResultsFree
<1> QED
    BY <1>1, <1>5, <1>6, <1>8, <1>9, <1>10, <1>11, DeliveryEnded DEF DurableInv

(***************************************************************************)
(* Admission                                                               *)
(***************************************************************************)

(* A resubmission leaves the public history of the other heads alone, and  *)
(* finds no verdict of its head that counts: only failures of admissions   *)
(* that are over.                                                          *)
LEMMA DurableAdmitWrite ==
    ASSUME BaseInv, SafeInv, DurableInv, NEW h \in Heads, AdmitCommit(h),
           row' = [row EXCEPT ![h] = AdmittedRow(h)]
    PROVE  /\ DurableInv'
           /\ Status(h) \in {"absent", "failed"}
           /\ PublicRecords' = PublicRecords
<1>1. /\ UNCHANGED <<comments, contract, main, marker, recovery, delivery>>
      /\ admission[h].pc # "idle"
      /\ admission' = [admission EXCEPT ![h] = HandlerIdle]
    BY DEF AdmitCommit
<1>2. \A k \in Heads : admission'[k].pc = "idle"
    <2>1. \A k \in Heads : k # h => admission[k].pc = "idle"
        BY <1>1 DEF SafeInv, HandlerWindow
    <2> QED
        BY <1>1, <2>1, HandlerIdleType DEF BaseInv, TypeOK
<1>3. /\ row'[h].status = "admitting"
      /\ row'[h].finished = 0
      /\ row'[h].record = FALSE
      /\ row'[h].detail.contract = contract
      /\ row'[h].detail.receipt = admission[h].at
      /\ row'[h].detail.snapshot = FALSE
      /\ \A k \in Heads : k # h => row'[k] = row[k]
    BY DEF AdmittedRow, BaseInv, TypeOK
<1>4. /\ Status(h)' = "admitting" /\ Said(h)' = "pending"
      /\ \A k \in Heads : k # h => Status(k)' = Status(k) /\ Said(k)' = Said(k)
    BY <1>3 DEF Status, Said, ReportedStatus
<1>5. Status(h) \in {"absent", "failed"} /\ ~SameCommitSubmitted(h)
    BY <1>1, HandlersRead
<1>6. Said(h) = Status(h)
    BY <1>5, SaidCases DEF Finished
<1>7. /\ row[h].detail.receipt < admission[h].at
      /\ row[h].detail.receipt \in Nat /\ admission[h].at \in Nat
    BY <1>1, RowFacts DEF SafeInv, HandlerWindow
<1>8. \A i \in 1 .. Len(comments[h]) :
          /\ comments[h][i].admitted # admission[h].at
          /\ comments[h][i].status \notin {"verified", "rejected"}
          /\ ~comments[h][i].record
    <2> SUFFICES ASSUME NEW i \in 1 .. Len(comments[h])
                 PROVE  /\ comments[h][i].admitted # admission[h].at
                        /\ comments[h][i].status \notin {"verified", "rejected"}
                        /\ ~comments[h][i].record
        OBVIOUS
    <2>1. /\ comments[h][i].admitted <= row[h].detail.receipt
          /\ comments[h][i].admitted \in Nat
        BY EntryTypes DEF SafeInv, RowInv, NoLaterReceipt
    <2>2. comments[h][i].status \notin {"verified", "rejected"}
        BY <1>5, <1>6 DEF DurableInv, HistoryInv, EntriesAgree, Speaks, Finished
    <2>3. ~comments[h][i].record
        BY <2>2 DEF DurableInv, HistoryInv, EntriesAgree
    <2> QED
        BY <1>7, <2>1, <2>2, <2>3
<1>9. PublicRecords' = PublicRecords /\ h \notin PublicRecords
      /\ PublicRecords \subseteq Heads
    BY <1>1, <1>8, RecordsAreComments DEF PublicRecords
<1>10. \A k \in Heads : k # h => (Earns(k)' <=> Earns(k))
    <2>1. \A k \in PublicRecords : row'[k].finished = row[k].finished
        BY <1>3, <1>9
    <2> QED
        BY <1>3, <1>4, <1>9, <2>1, SameEarns
<1>11. /\ \A k \in Heads : \A e : k # h => (Speaks(k, e)' <=> Speaks(k, e))
       /\ \A i \in 1 .. Len(comments[h]) : ~Speaks(h, comments[h][i])'
    BY <1>1, <1>3, <1>8 DEF Speaks
<1>12. OldContracts'
    BY <1>1, <1>3, ContractTypes DEF DurableInv, HistoryInv, OldContracts
<1>13. HandlerReads' /\ MainIsDurable'
    BY <1>1, <1>2 DEF HandlerReads, DurableInv, HistoryInv, MainIsDurable
<1>14. EntriesAgree'
    <2> SUFFICES ASSUME NEW k \in Heads, NEW i \in 1 .. Len(comments[k])
                 PROVE  LET e == comments[k][i]
                        IN /\ e.record => e.status = "verified"
                           /\ e.status \in {"verified", "rejected"} =>
                                  e.admitted = row'[k].detail.receipt
                           /\ e.admitted = row'[k].detail.receipt =>
                                  e.contract = row'[k].detail.contract
                           /\ Speaks(k, e)' => /\ e.status = Said(k)'
                                               /\ e.finished = row'[k].finished
        BY <1>1 DEF EntriesAgree
    <2>1. CASE k = h
        BY <1>1, <1>3, <1>8, <1>11, <2>1
    <2>2. CASE k # h
        BY <1>1, <1>3, <1>4, <1>11, <2>2 DEF DurableInv, HistoryInv, EntriesAgree
    <2> QED
        BY <2>1, <2>2
<1>15. EntryFlags'
    <2> SUFFICES ASSUME NEW k \in Heads, NEW i \in 1 .. Len(comments[k]),
                        Speaks(k, comments[k][i])',
                        comments[k][i].contract = contract
                 PROVE  comments[k][i].record <=> Earns(k)'
        BY <1>1 DEF EntryFlags
    <2>1. k # h /\ Speaks(k, comments[k][i])
        BY <1>1, <1>11
    <2> QED
        BY <1>10, <2>1 DEF DurableInv, HistoryInv, EntryFlags
<1>16. NoDuplicateCommit'
    <2>1. ASSUME NEW k \in Heads, k # h, Commit[k] = Commit[h], Current(row[k]),
                 Status(k) \notin {"absent", "failed"}
          PROVE  FALSE
        <3>1. Status(k) \in InFlight \cup {"verified", "rejected"}
            BY <2>1, RowFacts DEF Statuses, Finished
        <3> QED
            BY <1>5, <2>1, <3>1 DEF SameCommitSubmitted
    <2>2. \A k \in Heads : k # h => (Current(row[k])' <=> Current(row[k]))
        BY <1>1, <1>3 DEF Current
    <2>3. ASSUME NEW g \in Heads, NEW k \in Heads, Commit[g] = Commit[k],
                 Current(row[g])', Status(g)' \notin {"absent", "failed"},
                 Current(row[k])', Status(k)' \notin {"absent", "failed"}
          PROVE  g = k
        <3>1. CASE g # h /\ k # h
            BY <1>4, <2>2, <2>3, <3>1 DEF DurableInv, HistoryInv, NoDuplicateCommit
        <3>2. CASE g = h \/ k = h
            BY <1>4, <2>1, <2>2, <2>3, <3>2
        <3> QED
            BY <3>1, <3>2
    <2> QED
        BY <2>3 DEF NoDuplicateCommit
<1>17. HistoryInv'
    BY <1>12, <1>13, <1>14, <1>15, <1>16 DEF HistoryInv
<1>18. RowShape'
    BY <1>3, <1>4 DEF DurableInv, RowShape, Finished
<1>19. VerdictsWritten' /\ RowFlags'
    <2>1. \A k \in Heads : Status(k)' \in Finished => k # h
        BY <1>4 DEF Finished
    <2>2. VerdictsWritten'
        BY <1>1, <1>4, <1>11, <2>1 DEF DurableInv, VerdictsWritten
    <2>3. RowFlags'
        BY <1>1, <1>3, <1>4, <1>10, <2>1 DEF DurableInv, RowFlags, Current
    <2> QED
        BY <2>2, <2>3
<1>20. MarkerStops'
    BY <1>1 DEF DurableInv, MarkerStops, Recovering, ResultsFree
<1>21. ASSUME Delivering, delivery.head = h
       PROVE  DeliveryReports' /\ BodyFlag'
    <2>1. delivery \in Deliveries
        BY DEF BaseInv, TypeOK
    <2>2. ~Readmitted
        BY <1>5, <1>21 DEF Readmitted
    <2>3. BodySpeaks
        BY <1>21, <2>2 DEF DurableInv, DeliveryReports, BodyIsPast
    <2>4. delivery.orig = "failed" /\ Status(h) = "failed"
        BY <1>5, <1>21 DEF SafeInv, DeliveryFollowsRow, Moved, Finished
    <2>5. /\ delivery.body.status = "failed"
          /\ delivery.body.admitted = row[h].detail.receipt
          /\ delivery.known = row[h].detail.comment
        BY <1>6, <1>21, <2>3, <2>4 DEF BodySpeaks
    <2>6. Readmitted'
        BY <1>1, <1>4, <1>21, <2>4 DEF Readmitted, Status, Finished
    <2>7. BodyIsPast'
        BY <1>1, <1>3, <1>7, <1>21, <2>4, <2>5, <2>6 DEF BodyIsPast
    <2>8. delivery.pc = "commit" => DetailAfter = delivery.seen.detail
        <3> SUFFICES ASSUME delivery.pc = "commit"
                     PROVE  DetailAfter = delivery.seen.detail
            OBVIOUS
        <3>1. delivery.seen.detail = row[h].detail
            BY <1>21, <2>2 DEF DurableInv, DeliveryReports, CommitIsFresh
        <3>2. delivery.known # 0 /\ (Published => delivery.cid = delivery.known)
              /\ delivery.snapshot = FALSE
            BY <1>21, <2>1, <2>4, <2>5
               DEF DurableInv, DeliveryReports, Published, Finished, Deliveries
        <3>3. Published => delivery.cid = delivery.seen.detail.comment
            BY <2>5, <3>1, <3>2
        <3>4. delivery.seen.detail \in Details
            BY <2>1 DEF Deliveries
        <3> QED
            BY <2>4, <3>2, <3>3, <3>4 DEF DetailAfter, Details
    <2>9. DetailAfter' = DetailAfter
        BY <1>1 DEF DetailAfter, Published, SameVersion, Advances
    <2>10. DeliveryReports'
        BY <1>1, <1>21, <2>6, <2>7, <2>8, <2>9
           DEF DurableInv, DeliveryReports, CommitIsFresh, Delivering
    <2>11. BodyFlag'
        BY <2>6 DEF BodyFlag, BodySpeaks
    <2> QED
        BY <2>10, <2>11
<1>22. ASSUME Delivering, delivery.head # h
       PROVE  DeliveryReports' /\ BodyFlag'
    <2>1. PICK g \in Heads : g = delivery.head
        BY <1>22 DEF BaseInv, CommentIds
    <2>2. /\ row'[g] = row[g] /\ Status(g)' = Status(g) /\ Said(g)' = Said(g)
          /\ Earns(g)' <=> Earns(g)
        BY <1>3, <1>4, <1>10, <1>22, <2>1
    <2>3. /\ Readmitted' = Readmitted
          /\ BodySpeaks' = BodySpeaks
          /\ BodyIsPast' = BodyIsPast
          /\ DetailAfter' = DetailAfter
        BY <1>1, <2>1, <2>2
           DEF Readmitted, Status, BodySpeaks, BodyIsPast, Said, ReportedStatus,
               DetailAfter, Published, SameVersion, Advances
    <2>4. DeliveryReports'
        BY <1>1, <2>1, <2>2, <2>3
           DEF DurableInv, DeliveryReports, CommitIsFresh, Delivering
    <2>5. BodyFlag'
        BY <1>1, <2>1, <2>2, <2>3 DEF DurableInv, BodyFlag, Delivering
    <2> QED
        BY <2>4, <2>5
<1>23. ASSUME ~Delivering
       PROVE  DeliveryReports' /\ BodyFlag'
    BY <1>1, <1>23 DEF DeliveryReports, BodyFlag, Delivering
<1> QED
    BY <1>5, <1>9, <1>17, <1>18, <1>19, <1>20, <1>21, <1>22, <1>23 DEF DurableInv

LEMMA DurableAdmitCommit ==
    ASSUME BaseInv, SafeInv, DurableInv, NEW h \in Heads, AdmitCommit(h)
    PROVE  DurableInv'
<1>1. /\ UNCHANGED <<comments, contract, main, marker, recovery, delivery>>
      /\ admission' = [admission EXCEPT ![h] = HandlerIdle]
    BY DEF AdmitCommit
<1>2. CASE UNCHANGED row
    <2>1. \A k \in Heads : admission'[k].pc # "idle" => admission[k].pc # "idle"
        BY <1>1, HandlerIdleType DEF BaseInv, TypeOK
    <2> QED
        BY <1>1, <1>2, <2>1, HandlersRead, DurableQuiet
<1>3. CASE row' = [row EXCEPT ![h] = AdmittedRow(h)]
    BY <1>3, DurableAdmitWrite
<1> QED
    BY <1>2, <1>3 DEF AdmitCommit

(***************************************************************************)
(* The worker                                                              *)
(***************************************************************************)

(* A job is taken up, or queued again after a crash: nobody outside the    *)
(* server is told.                                                         *)
LEMMA JobsMove ==
    ASSUME BaseInv, DurableInv,
           UNCHANGED <<comments, contract, main, marker, recovery, admission,
                       delivery>>,
           \A h \in Heads :
               /\ row'[h].finished = row[h].finished
               /\ row'[h].record = row[h].record
               /\ row'[h].detail = row[h].detail
               /\ \/ Status(h)' = Status(h)
                  \/ /\ Status(h) \in {"pending", "verifying"}
                     /\ Status(h)' \in {"pending", "verifying"}
    PROVE  DurableInv' /\ SameHistory
<1>1. \A h \in Heads : Said(h)' = Said(h)
    BY DEF Said, ReportedStatus, Status
<1>2. SameHistory
    BY <1>1 DEF SameHistory, Finished
<1>3. HistoryInv' /\ \A h \in Heads : Earns(h)' <=> Earns(h)
    BY <1>2, HandlersRead, HistoryFrame DEF DurableInv
<1>4. \A h \in Heads : \A e : Speaks(h, e)' <=> Speaks(h, e)
    BY DEF Speaks
<1>5. \A h \in Heads : Status(h)' \in Finished => Status(h) \in Finished
    BY DEF Finished
<1>6. RowShape'
    BY <1>1, <1>5 DEF DurableInv, RowShape
<1>7. VerdictsWritten' /\ RowFlags'
    BY <1>3, <1>4, <1>5 DEF DurableInv, VerdictsWritten, RowFlags, Current
<1>8. Delivering => Readmitted' = Readmitted
    BY DEF Readmitted, BaseInv, CommentIds
<1>9. DeliveryReports' /\ BodyFlag'
    BY <1>2, <1>3, <1>8, DeliveryKept
<1>10. MarkerStops'
    BY DEF DurableInv, MarkerStops, Recovering, ResultsFree
<1> QED
    BY <1>2, <1>3, <1>6, <1>7, <1>9, <1>10 DEF DurableInv

LEMMA DurableWorkerStart ==
    ASSUME BaseInv, DurableInv, WorkerStart
    PROVE  DurableInv' /\ SameHistory
<1>1. UNCHANGED <<comments, contract, main, marker, recovery, admission, delivery>>
    BY DEF WorkerStart
<1>2. ASSUME NEW h \in Heads
      PROVE  /\ row'[h].finished = row[h].finished
             /\ row'[h].record = row[h].record
             /\ row'[h].detail = row[h].detail
             /\ Status(h)' = IF Status(h) = "verifying" THEN "pending"
                                                        ELSE Status(h)
    <2>1. row'[h] = IF Status(h) = "verifying"
                    THEN [row[h] EXCEPT !.status = "pending"] ELSE row[h]
        BY DEF WorkerStart, Requeued
    <2>2. row[h] \in Rows
        BY RowFacts
    <2> QED
        BY <2>1, <2>2 DEF Rows, Status
<1> QED
    BY <1>1, <1>2, JobsMove

LEMMA DurableProcessBegin ==
    ASSUME BaseInv, DurableInv, ProcessBegin
    PROVE  DurableInv' /\ SameHistory
<1>1. UNCHANGED <<comments, contract, main, marker, recovery, admission, delivery>>
    BY DEF ProcessBegin
<1>2. CASE UNCHANGED row
    BY <1>1, <1>2, JobsMove DEF Status
<1>3. CASE /\ Status(job.head) = "pending"
           /\ row' = [row EXCEPT ![job.head].status = "verifying"]
    <2>1. ASSUME NEW h \in Heads
          PROVE  /\ row'[h].finished = row[h].finished
                 /\ row'[h].record = row[h].record
                 /\ row'[h].detail = row[h].detail
                 /\ \/ Status(h)' = Status(h)
                    \/ Status(h) = "pending" /\ Status(h)' = "verifying"
        <3>1. row'[h] = IF h = job.head THEN [row[h] EXCEPT !.status = "verifying"]
                                        ELSE row[h]
            BY <1>3 DEF BaseInv, TypeOK
        <3>2. row[h] \in Rows
            BY RowFacts
        <3> QED
            BY <1>3, <3>1, <3>2 DEF Rows, Status
    <2> QED
        BY <1>1, <2>1, JobsMove
<1> QED
    BY <1>2, <1>3 DEF ProcessBegin, MayBegin

(* The result waits: it is later than every verdict, and it says nothing   *)
(* in public yet.                                                          *)
LEMMA DurableProcessFinish ==
    ASSUME BaseInv, SafeInv, DurableInv, ~ClockRollback, ProcessFinish
    PROVE  /\ DurableInv'
           /\ PublicRecords' = PublicRecords
           /\ \A h \in Heads :
                  /\ row'[h].detail.receipt = row[h].detail.receipt
                  /\ row'[h].detail.contract = row[h].detail.contract
                  /\ Status(h) \in {"absent"} \cup Finished => row'[h] = row[h]
                  /\ Status(h) = "absent" <=> Status(h)' = "absent"
<1>1. /\ UNCHANGED <<comments, contract, main, marker, recovery, admission, delivery>>
      /\ ~Delivering /\ job.pc = "running"
    BY DEF ProcessFinish, ResultsFree, Delivering
<1>2. PICK h \in Heads : h = job.head
    BY <1>1 DEF BaseInv, WorkerHasHead
<1>3. Status(h) = "verifying"
    BY <1>1, <1>2 DEF SafeInv, JobIsVerifying
<1>4. PICK now \in Readings, result \in Results :
          row' = [row EXCEPT ![job.head].status         = "publishing",
                             ![job.head].finished       = NextFinishTime(now),
                             ![job.head].record         = FALSE,
                             ![job.head].detail.verdict = result]
    BY DEF ProcessFinish
<1>5. NextFinishTime(now) = clock + 1 /\ clock \in Nat
    BY NextTime DEF BaseInv, TypeOK
<1>6. \A k \in Heads : k # h => row'[k] = row[k]
    BY <1>2, <1>4 DEF BaseInv, TypeOK
<1>7. /\ row'[h].status = "publishing"
      /\ row'[h].finished = clock + 1
      /\ row'[h].record = FALSE
      /\ row'[h].detail = [row[h].detail EXCEPT !.verdict = result]
    <2>1. row[h] \in Rows
        BY RowFacts
    <2>2. row'[h] = [row[h] EXCEPT !.status         = "publishing",
                                   !.finished       = NextFinishTime(now),
                                   !.record         = FALSE,
                                   !.detail.verdict = result]
        BY <1>2, <1>4 DEF BaseInv, TypeOK
    <2> QED
        BY <1>5, <2>1, <2>2 DEF Rows
<1>8. /\ row'[h].detail.receipt = row[h].detail.receipt
      /\ row'[h].detail.contract = row[h].detail.contract
      /\ row'[h].detail.snapshot = row[h].detail.snapshot
      /\ row'[h].detail.verdict = result
    <2>1. row[h].detail \in Details
        BY RowFacts DEF Rows
    <2> QED
        BY <1>7, <2>1 DEF Details
<1>9. /\ Status(h)' = "publishing"
      /\ Said(h)' = result /\ result \in Finished
      /\ \A k \in Heads : k # h => Status(k)' = Status(k) /\ Said(k)' = Said(k)
    <2>1. result \in Finished
        BY DEF Results, Finished
    <2> QED
        BY <1>6, <1>7, <1>8, <2>1 DEF Status, Said, ReportedStatus
<1>10. Said(h) = "pending"
    BY <1>3, SaidCases
<1>11. \A i \in 1 .. Len(comments[h]) : ~Speaks(h, comments[h][i])
    BY <1>10 DEF DurableInv, HistoryInv, EntriesAgree, Speaks, Finished
<1>12. h \notin PublicRecords /\ PublicRecords' = PublicRecords
       /\ PublicRecords \subseteq Heads
    <2>1. h \notin PublicRecords
        BY <1>10, RecordsSpeak DEF DurableInv
    <2> QED
        BY <1>1, <2>1 DEF PublicRecords
<1>13. \A k \in Heads : k # h => (Earns(k)' <=> Earns(k))
    <2>1. \A k \in PublicRecords : row'[k].finished = row[k].finished
        BY <1>6, <1>12
    <2> QED
        BY <1>6, <1>9, <1>12, <2>1, SameEarns
<1>14. \A k \in Heads : \A e : Speaks(k, e)' <=> Speaks(k, e)
    BY <1>6, <1>8 DEF Speaks
<1>15. \A k \in Heads : Current(row[k])' <=> Current(row[k])
    BY <1>1, <1>6, <1>8 DEF Current
<1>16. OldContracts' /\ MainIsDurable'
    BY <1>1, <1>6, <1>8 DEF DurableInv, HistoryInv, OldContracts, MainIsDurable
<1>17. NoDuplicateCommit'
    BY <1>3, <1>9, <1>15 DEF DurableInv, HistoryInv, NoDuplicateCommit
<1>18. HandlerReads'
    <2>1. \A k \in Heads : SameCommitSubmitted(k)' => SameCommitSubmitted(k)
        BY <1>3, <1>9, <1>15 DEF SameCommitSubmitted, InFlight
    <2>2. admission[h].pc = "idle"
        BY <1>3, HandlersRead
    <2> QED
        BY <1>1, <1>9, <2>1, <2>2, HandlersRead DEF HandlerReads
<1>19. EntriesAgree'
    <2> SUFFICES ASSUME NEW k \in Heads, NEW i \in 1 .. Len(comments[k])
                 PROVE  LET e == comments[k][i]
                        IN /\ e.record => e.status = "verified"
                           /\ e.status \in {"verified", "rejected"} =>
                                  e.admitted = row'[k].detail.receipt
                           /\ e.admitted = row'[k].detail.receipt =>
                                  e.contract = row'[k].detail.contract
                           /\ Speaks(k, e)' => /\ e.status = Said(k)'
                                               /\ e.finished = row'[k].finished
        BY <1>1 DEF EntriesAgree
    <2>1. Speaks(k, comments[k][i])' => k # h
        BY <1>1, <1>11, <1>14
    <2> QED
        BY <1>1, <1>6, <1>8, <1>9, <1>14, <2>1
           DEF DurableInv, HistoryInv, EntriesAgree
<1>20. EntryFlags'
    <2> SUFFICES ASSUME NEW k \in Heads, NEW i \in 1 .. Len(comments[k]),
                        Speaks(k, comments[k][i])',
                        comments[k][i].contract = contract
                 PROVE  comments[k][i].record <=> Earns(k)'
        BY <1>1 DEF EntryFlags
    <2>1. k # h /\ Speaks(k, comments[k][i])
        BY <1>1, <1>11, <1>14
    <2> QED
        BY <1>13, <2>1 DEF DurableInv, HistoryInv, EntryFlags
<1>21. RowShape'
    <2>1. row[h].detail.snapshot = FALSE
        BY <1>10, RowFacts DEF DurableInv, RowShape, Rows, Details
    <2>2. ASSUME NEW k \in Heads, k # h
          PROVE  row'[k] = row[k] /\ Status(k)' = Status(k) /\ Said(k)' = Said(k)
        BY <1>6, <1>9, <2>2
    <2>3. /\ row'[h].record = FALSE
          /\ Status(h)' \notin Finished
          /\ row'[h].detail.snapshot = FALSE
          /\ Said(h)' \notin {"absent", "pending"}
        BY <1>7, <1>8, <1>9, <2>1 DEF Finished
    <2> QED
        BY <2>2, <2>3 DEF DurableInv, RowShape
<1>22. VerdictsWritten' /\ RowFlags'
    <2>1. \A k \in Heads : Status(k)' \in Finished => k # h
        BY <1>9 DEF Finished
    <2>2. VerdictsWritten'
        BY <1>1, <1>9, <1>14, <2>1 DEF DurableInv, VerdictsWritten
    <2>3. RowFlags'
        BY <1>1, <1>6, <1>9, <1>13, <1>15, <2>1 DEF DurableInv, RowFlags
    <2> QED
        BY <2>2, <2>3
<1>23. MarkerStops' /\ DeliveryReports' /\ BodyFlag'
    BY <1>1 DEF DurableInv, MarkerStops, Recovering, ResultsFree, DeliveryReports,
                BodyFlag, Delivering
<1>24. DurableInv'
    BY <1>16, <1>17, <1>18, <1>19, <1>20, <1>21, <1>22, <1>23
       DEF DurableInv, HistoryInv
<1> QED
    BY <1>3, <1>6, <1>8, <1>9, <1>12, <1>24 DEF Finished

(***************************************************************************)
(* Recovery                                                                *)
(***************************************************************************)

(* The comments tell a resync nothing new: it may only publish a verdict   *)
(* that waits and is on GitHub already, or confirm a receipt.              *)
LEMMA ImportKeeps ==
    ASSUME BaseInv, SafeInv, DurableInv, NEW h \in Heads, NEW c \in Contracts,
           ResyncImport(h, c), ~ UNCHANGED row
    PROVE  \E i \in 1 .. Len(comments[h]) :
              /\ comments[h][i].admitted = row[h].detail.receipt
              /\ \A k \in Heads : k # h => row'[k] = row[k]
              /\ row'[h].status = comments[h][i].status
              /\ row'[h].status = Said(h)
              /\ row'[h].finished = row[h].finished
              /\ row'[h].record = FALSE
              /\ row'[h].detail.receipt = row[h].detail.receipt
              /\ row'[h].detail.contract = row[h].detail.contract
              /\ row'[h].detail.snapshot = FALSE
              /\ row'[h].detail.comment # 0
              /\ \/ Status(h) = "publishing" /\ Said(h) \in Finished
                 \/ Status(h) = "admitting" /\ Said(h) = "pending"
<1> DEFINE i == Latest(h, c)
           e == comments[h][i]
<1>1. <<h, c>> \in Histories
    BY DEF ResyncImport, BaseInv, RecoveryReads, Recovering
<1>2. i \in 1 .. Len(comments[h]) /\ e \in Entries
    BY <1>1, LatestIsComment
<1>3. Accepts(h, e) /\ row' = [row EXCEPT ![h] = Restored(e, i)]
    BY DEF ResyncImport
<1>4. /\ \A k \in Heads : k # h => row'[k] = row[k]
      /\ row'[h] = Restored(e, i)
    BY <1>3 DEF BaseInv, TypeOK
<1>5. /\ e.admitted \in Nat /\ e.finished \in Nat
      /\ e.status \in {"pending"} \cup Finished
      /\ row[h].detail.receipt \in Nat /\ row[h].finished \in Nat
    BY <1>2, RowFacts DEF Entries
<1>6. /\ Status(h) # "absent"
      /\ e.admitted <= row[h].detail.receipt
    BY <1>2 DEF SafeInv, RowInv, NoLaterReceipt
<1>7. e.admitted = row[h].detail.receipt
    <2> HIDE DEF i, e
    <2> QED
        BY <1>3, <1>5, <1>6 DEF Accepts
<1>8. /\ e.contract = row[h].detail.contract
      /\ e.status \in Finished => e.status = Said(h) /\ e.finished = row[h].finished
    BY <1>2, <1>7 DEF DurableInv, HistoryInv, EntriesAgree, Speaks
<1>9. /\ row'[h].status = e.status
      /\ row'[h].finished = IF e.status \in Finished THEN e.finished ELSE 0
      /\ row'[h].record = FALSE
      /\ row'[h].detail.receipt = e.admitted
      /\ row'[h].detail.contract = e.contract
      /\ row'[h].detail.snapshot = FALSE
      /\ row'[h].detail.comment = i /\ i # 0
    BY <1>2, <1>4 DEF Restored, IsTerminal
<1> HIDE DEF i, e
<1>10. CASE e.status \in Finished
    <2>1. Status(h) = "publishing"
        <3>1. \/ Status(h) \in Finished /\ e.finished > row[h].finished
              \/ Status(h) \in {"pending", "admitting", "publishing"}
            BY <1>3, <1>6, <1>10 DEF Accepts, IsTerminal
        <3>2. Status(h) \in {"pending", "admitting", "publishing"}
            BY <1>5, <1>8, <1>10, <3>1
        <3> QED
            BY <1>8, <1>10, <3>2, SaidCases DEF Finished
    <2> QED
        BY <1>2, <1>4, <1>7, <1>8, <1>9, <1>10, <2>1 DEF e
<1>11. CASE e.status = "pending"
    <2>1. \/ Status(h) = "admitting"
          \/ Status(h) \in Finished /\ e.admitted > row[h].finished
        BY <1>3, <1>6, <1>11 DEF Accepts, IsTerminal, Finished
    <2>2. Status(h) \in Finished => row[h].detail.receipt <= row[h].finished
        BY DEF SafeInv, RowInv, CompletesAfterReceipt
    <2>3. Status(h) = "admitting"
        BY <1>5, <1>7, <2>1, <2>2
    <2>4. Said(h) = "pending" /\ row[h].finished = 0
        BY <2>3, SaidCases DEF DurableInv, RowShape
    <2> QED
        BY <1>2, <1>4, <1>7, <1>8, <1>9, <1>11, <2>3, <2>4 DEF e, Finished
<1> QED
    BY <1>5, <1>10, <1>11

LEMMA DurableResyncImport ==
    ASSUME BaseInv, SafeInv, DurableInv, NEW h \in Heads, NEW c \in Contracts,
           ResyncImport(h, c)
    PROVE  DurableInv' /\ SameHistory
<1>1. /\ UNCHANGED <<comments, contract, main, marker, admission, delivery>>
      /\ Recovering /\ ~Delivering /\ marker
    BY DEF ResyncImport, BaseInv, RecoveryReads, Recovering, ResultsFree,
           Delivering, DurableInv, MarkerStops
<1>2. MarkerStops' /\ DeliveryReports' /\ BodyFlag' /\ RowFlags'
    BY <1>1 DEF DurableInv, MarkerStops, Recovering, ResultsFree, DeliveryReports,
                BodyFlag, Delivering, RowFlags
<1>3. CASE UNCHANGED row
    <2>1. SameHistory
        BY <1>3, SameRowsHistory
    <2>2. HistoryInv' /\ RowShape' /\ VerdictsWritten'
        BY <1>1, <1>3, HandlersRead, RowsKept
    <2> QED
        BY <1>2, <2>1, <2>2 DEF DurableInv
<1>4. CASE ~ UNCHANGED row
    <2>1. PICK i \in 1 .. Len(comments[h]) :
              /\ comments[h][i].admitted = row[h].detail.receipt
              /\ \A k \in Heads : k # h => row'[k] = row[k]
              /\ row'[h].status = comments[h][i].status
              /\ row'[h].status = Said(h)
              /\ row'[h].finished = row[h].finished
              /\ row'[h].record = FALSE
              /\ row'[h].detail.receipt = row[h].detail.receipt
              /\ row'[h].detail.contract = row[h].detail.contract
              /\ row'[h].detail.snapshot = FALSE
              /\ row'[h].detail.comment # 0
              /\ \/ Status(h) = "publishing" /\ Said(h) \in Finished
                 \/ Status(h) = "admitting" /\ Said(h) = "pending"
        BY <1>4, ImportKeeps
    <2>2. /\ Status(h)' = Said(h) /\ Said(h)' = Said(h)
          /\ \A k \in Heads : k # h => Status(k)' = Status(k) /\ Said(k)' = Said(k)
        BY <2>1 DEF Status, Said, ReportedStatus, Finished
    <2>3. SameHistory
        BY <2>1, <2>2 DEF SameHistory, Finished
    <2>4. HistoryInv'
        BY <1>1, <2>3, HandlersRead, HistoryFrame DEF DurableInv
    <2>5. RowShape'
        BY <2>1, <2>2 DEF DurableInv, RowShape
    <2>6. VerdictsWritten'
        <3>1. \A k \in Heads : \A e : Speaks(k, e)' <=> Speaks(k, e)
            BY <2>3 DEF SameHistory, Speaks
        <3>2. Said(h) \in Finished => Speaks(h, comments[h][i])
            BY <2>1 DEF Speaks
        <3> QED
            BY <1>1, <2>1, <2>2, <3>1, <3>2 DEF DurableInv, VerdictsWritten
    <2> QED
        BY <1>2, <2>3, <2>4, <2>5, <2>6 DEF DurableInv
<1> QED
    BY <1>3, <1>4

(* Among some heads there is one that finished first.                      *)
LEMMA FirstFinished ==
    ASSUME BaseInv, NEW S \in SUBSET Heads, S # {}
    PROVE  \E h \in S : \A k \in S : row[h].finished <= row[k].finished
<1> DEFINE T == {row[h].finished : h \in S}
<1>1. T \subseteq Nat /\ T # {}
    BY RowFacts
<1>2. PICK x \in T : \A y \in T : ~ (<<y, x>> \in OpToRel(<, Nat))
    <2> HIDE DEF T
    <2> QED
        BY <1>1, NatLessThanWellFounded, WFMin
<1>3. \A y \in T : ~ (y < x)
    <2> SUFFICES ASSUME NEW y \in T, y < x
                 PROVE  <<y, x>> \in OpToRel(<, Nat)
        BY <1>2
    <2> HIDE DEF T
    <2>1. <<y, x>> \in Nat \X Nat
        BY <1>1
    <2> QED
        BY <2>1 DEF OpToRel
<1>4. PICK h \in S : x = row[h].finished
    OBVIOUS
<1>5. ASSUME NEW k \in S
      PROVE  row[h].finished <= row[k].finished
    <2>1. row[k].finished \in T /\ row[h].finished \in T
        OBVIOUS
    <2>2. ~ (row[k].finished < row[h].finished)
        BY <1>3, <1>4, <2>1
    <2>3. row[k].finished \in Nat /\ row[h].finished \in Nat
        BY <1>1, <2>1
    <2> HIDE DEF T
    <2> QED
        BY <2>2, <2>3
<1> QED
    BY <1>5

(* replay_records has one outcome: two that differ would differ at a head  *)
(* that finished first, where both compare with the same records.          *)
LEMMA ReplayUnique ==
    ASSUME BaseInv, NEW Q \in SUBSET Candidates, NEW R \in SUBSET Candidates,
           IsReplay(Q), IsReplay(R)
    PROVE  Q = R
<1> DEFINE D == {h \in Candidates : ~(h \in Q <=> h \in R)}
<1>1. Candidates \subseteq Heads
    BY DEF Candidates
<1>2. SUFFICES ASSUME D # {}
               PROVE  FALSE
    OBVIOUS
<1>3. PICK h \in D : \A k \in D : row[h].finished <= row[k].finished
    <2>1. D \in SUBSET Heads
        BY <1>1
    <2> HIDE DEF D
    <2> QED
        BY <1>2, <2>1, FirstFinished
<1>4. ASSUME NEW k \in Candidates, row[k].finished < row[h].finished
      PROVE  k \in Q <=> k \in R
    <2>1. row[k].finished \in Nat /\ row[h].finished \in Nat
        BY <1>1, RowFacts
    <2>2. k \notin D
        BY <1>3, <1>4, <2>1
    <2> QED
        BY <2>2
<1>5. {k \in Q : row[k].finished < row[h].finished} =
          {k \in R : row[k].finished < row[h].finished}
    BY <1>4
<1>6. /\ h \in Q <=> Improves(MetricsOf({k \in Q : row[k].finished < row[h].finished}),
                              Metric[h])
      /\ h \in R <=> Improves(MetricsOf({k \in R : row[k].finished < row[h].finished}),
                              Metric[h])
    BY DEF IsReplay
<1> QED
    BY <1>5, <1>6

(* The replay decides what the comments say.                               *)
LEMMA ReplayIsPublic ==
    ASSUME BaseInv, SafeInv, HistoryInv, VerdictsWritten
    PROVE  /\ Replayed = PublicRecords \cap Candidates
           /\ \A h \in Candidates : h \in Replayed <=> Earns(h)
<1> DEFINE P == PublicRecords \cap Candidates
<1>1. ASSUME NEW h \in Candidates
      PROVE  /\ h \in P <=> Earns(h)
             /\ Earns(h) <=>
                    Improves(MetricsOf({k \in P : row[k].finished < row[h].finished}),
                             Metric[h])
    <2>1. /\ h \in Heads /\ Status(h) = "verified" /\ Current(row[h])
          /\ Status(h) \in Finished
        BY DEF Candidates, Finished
    <2>2. h \in P <=> Earns(h)
        BY <2>1, DecidedByComments
    <2>3. ASSUME NEW k \in PublicRecords, row[k].finished < row[h].finished
          PROVE  k \in Candidates
        <3>1. k \in Heads /\ Status(k) \in {"publishing", "verified"} /\ Current(row[k])
            BY RecordsSpeak
        <3>2. row[k].finished \in Nat /\ row[h].finished \in Nat
            BY <2>1, <3>1, RowFacts
        <3>3. Status(k) # "publishing"
            BY <2>1, <2>3, <3>1, <3>2 DEF SafeInv, WaitingIsLast
        <3> QED
            BY <3>1, <3>3 DEF Candidates
    <2>4. EarlierRecords(h) = {k \in P : row[k].finished < row[h].finished}
        BY <2>3 DEF EarlierRecords
    <2>5. Said(h) = "verified"
        BY <2>1, SaidCases
    <2> HIDE DEF P
    <2> QED
        BY <2>2, <2>4, <2>5 DEF Earns
<1>2. P \in SUBSET Candidates /\ IsReplay(P)
    BY <1>1 DEF IsReplay
<1> HIDE DEF P
<1>3. Replayed \in SUBSET Candidates /\ IsReplay(Replayed)
    BY <1>2 DEF Replayed
<1>4. Replayed = P
    BY <1>2, <1>3, ReplayUnique
<1> QED
    BY <1>1, <1>4 DEF P

LEMMA DurableResyncEnd ==
    ASSUME BaseInv, SafeInv, DurableInv, ResyncEnd
    PROVE  DurableInv' /\ SameHistory
<1>1. /\ UNCHANGED <<comments, contract, main, admission, delivery>>
      /\ row' = WithRecords(Replayed)
      /\ recovery' = RecoveryIdle
      /\ Recovering /\ ~Delivering
    BY DEF ResyncEnd, Recovering, BaseInv, RecoveryReads, ResultsFree, Delivering
<1>2. ASSUME NEW h \in Heads
      PROVE  /\ Status(h)' = Status(h)
             /\ row'[h].finished = row[h].finished
             /\ row'[h].detail = row[h].detail
             /\ row'[h].record = IF h \in Candidates THEN h \in Replayed
                                                     ELSE row[h].record
    <2>1. row'[h] = IF h \in Candidates
                    THEN [row[h] EXCEPT !.record = h \in Replayed] ELSE row[h]
        BY <1>1 DEF WithRecords
    <2>2. row[h] \in Rows
        BY RowFacts
    <2> QED
        BY <2>1, <2>2 DEF Rows, Status
<1>3. \A h \in Heads : Said(h)' = Said(h)
    BY <1>2 DEF Said, ReportedStatus, Status
<1>4. SameHistory
    BY <1>2, <1>3 DEF SameHistory
<1>5. HistoryInv' /\ \A h \in Heads : Earns(h)' <=> Earns(h)
    BY <1>1, <1>4, HandlersRead, HistoryFrame DEF DurableInv
<1>6. RowShape'
    BY <1>2, <1>3 DEF DurableInv, RowShape, Candidates
<1>7. VerdictsWritten'
    <2>1. \A h \in Heads : \A e : Speaks(h, e)' <=> Speaks(h, e)
        BY <1>2 DEF Speaks
    <2> QED
        BY <1>1, <1>2, <2>1 DEF DurableInv, VerdictsWritten
<1>8. RowFlags'
    <2> SUFFICES ASSUME NEW h \in Heads, Status(h) \in Finished, Current(row[h])
                 PROVE  row'[h].record <=> Earns(h)
        BY <1>1, <1>2, <1>5 DEF RowFlags, Current
    <2>1. CASE h \in Candidates
        BY <1>2, <2>1, ReplayIsPublic DEF DurableInv
    <2>2. CASE h \notin Candidates
        <3>1. Said(h) # "verified" /\ Status(h) # "verified"
            BY <2>2, SaidCases DEF Candidates
        <3> QED
            BY <1>2, <2>2, <3>1 DEF DurableInv, RowShape, Earns
    <2> QED
        BY <2>1, <2>2
<1>9. MarkerStops' /\ DeliveryReports' /\ BodyFlag'
    BY <1>1 DEF MarkerStops, Recovering, RecoveryIdle, ResultsFree,
                DeliveryReports, BodyFlag, Delivering
<1> QED
    BY <1>4, <1>5, <1>6, <1>7, <1>8, <1>9 DEF DurableInv

(***************************************************************************)
(* Contracts, all steps, and the inductive invariant                       *)
(***************************************************************************)

(* The records of the last contract are history.                           *)
LEMMA DurableDeployContract ==
    ASSUME BaseInv, DurableInv, DeployContract
    PROVE  DurableInv' /\ PublicRecords' = {}
<1>1. /\ UNCHANGED <<row, comments, main, marker, recovery, admission, delivery>>
      /\ contract' = contract + 1
    BY DEF DeployContract
<1>2. contract \in Nat /\ \A h \in Heads : row[h].detail.contract \in Nat
    BY ContractTypes
<1>3. \A h \in Heads : \A i \in 1 .. Len(comments[h]) :
          /\ comments[h][i].contract \in Nat
          /\ comments[h][i].contract <= contract
    BY EntryTypes DEF DurableInv, HistoryInv, OldContracts
<1>4. \A h \in Heads : row[h].detail.contract <= contract /\ ~Current(row[h])'
    BY <1>1, <1>2 DEF DurableInv, HistoryInv, OldContracts, Current
<1>5. PublicRecords' = {}
    <2>1. \A h \in Heads : \A i \in DOMAIN comments[h] :
              comments[h][i].contract # contract + 1
        BY <1>2, <1>3, CommentDomain
    <2> QED
        BY <1>1, <2>1 DEF PublicRecords
<1>6. OldContracts'
    BY <1>1, <1>2, <1>3, <1>4 DEF OldContracts
<1>7. HandlerReads' /\ NoDuplicateCommit' /\ RowFlags'
    BY <1>1, <1>4, HandlersRead
       DEF HandlerReads, SameCommitSubmitted, NoDuplicateCommit, RowFlags, Status
<1>8. EntriesAgree' /\ VerdictsWritten'
    BY <1>1 DEF DurableInv, HistoryInv, EntriesAgree,
                VerdictsWritten, Speaks, Said, ReportedStatus, Status
<1>9. EntryFlags'
    <2>1. \A h \in Heads : \A i \in 1 .. Len(comments[h]) :
              comments[h][i].contract # contract + 1
        BY <1>2, <1>3
    <2> QED
        BY <1>1, <2>1 DEF EntryFlags
<1>10. RowShape' /\ MarkerStops'
    BY <1>1 DEF DurableInv, RowShape, Said, ReportedStatus, Status, MarkerStops,
                Recovering, ResultsFree
<1>11. Delivering => delivery.body.contract <= contract
                     /\ delivery.body.contract \in Nat
    <2>1. Contracts \cup {0} \subseteq Nat
        BY EpochAssumption
    <2> QED
        BY <2>1 DEF DurableInv, DeliveryReports, BaseInv, TypeOK, Deliveries, Entries
<1>12. DeliveryReports'
    <2>1. /\ Delivering' = Delivering
          /\ BodySpeaks' = BodySpeaks
          /\ BodyIsPast' = BodyIsPast
          /\ CommitIsFresh' = CommitIsFresh
        BY <1>1 DEF Delivering, BodySpeaks, BodyIsPast, CommitIsFresh, Readmitted,
                    Status, Said, ReportedStatus, DetailAfter, Published,
                    SameVersion, Advances
    <2>2. Delivering => delivery.body.contract <= contract'
        BY <1>1, <1>2, <1>11
    <2> QED
        BY <1>1, <2>1, <2>2 DEF DurableInv, DeliveryReports
<1>13. BodyFlag'
    BY <1>1, <1>2, <1>11 DEF BodyFlag, Delivering
<1>14. MainIsDurable'
    <2> SUFFICES ASSUME main.head # NoHead
                 PROVE  \E i \in DOMAIN comments[main.head] :
                            LET e == comments[main.head][i]
                            IN /\ e.status = "verified"
                               /\ e.finished = main.finished
                               /\ e.contract = main.contract
                               /\ e.contract = contract' => e.record
        BY <1>1 DEF MainIsDurable
    <2>1. main.head \in Heads
        BY DEF BaseInv, TypeOK
    <2>2. PICK i \in DOMAIN comments[main.head] :
              /\ comments[main.head][i].status = "verified"
              /\ comments[main.head][i].finished = main.finished
              /\ comments[main.head][i].contract = main.contract
        BY DEF DurableInv, HistoryInv, MainIsDurable
    <2>3. comments[main.head][i].contract # contract'
        BY <1>1, <1>2, <1>3, <2>1, CommentDomain
    <2> QED
        BY <2>2, <2>3
<1> QED
    BY <1>5, <1>6, <1>7, <1>8, <1>9, <1>10, <1>12, <1>13, <1>14
       DEF DurableInv, HistoryInv

LEMMA DurableStep ==
    ASSUME BaseInv, BaseInv', SafeInv, DurableInv, ~ClockRollback, [Next]_vars
    PROVE  DurableInv'
<1>1. ASSUME NEW h \in Heads,
             AdmitCheck(h) \/ AdmitRetain(h) \/ AdmitCommit(h) \/ DeliverStart(h)
      PROVE  DurableInv'
    BY <1>1, DurableAdmitCheck, DurableAdmitRetain, DurableAdmitCommit,
       DurableDeliverStart
<1>2. CASE DeliverComment \/ DeliverSupplement \/ DeliverReread \/ DeliverCommit
    BY <1>2, DurableDeliverComment, DurableDeliverSupplement,
       DurableDeliverReread, DurableDeliverCommit
<1>3. CASE WorkerStart \/ ProcessBegin \/ ProcessFinish
    BY <1>3, DurableWorkerStart, DurableProcessBegin, DurableProcessFinish
<1>4. CASE ResyncBegin \/ ResyncEnd
           \/ (\E h \in Heads, c \in Contracts : ResyncImport(h, c))
    BY <1>4, DurableResyncBegin, DurableResyncImport, DurableResyncEnd
<1>5. CASE (\E h \in Heads : WorkerPick(h))
           \/ WorkerCrash \/ WebStart \/ UNCHANGED vars
    BY <1>5, DurableOutside
<1>6. CASE WebCrash \/ DeployContract
    BY <1>6, DurableWebCrash, DurableDeployContract
<1> QED
    BY <1>1, <1>2, <1>3, <1>4, <1>5, <1>6 DEF Next

(* The inductive invariant: the rows, the comments on GitHub, the report   *)
(* that is being delivered and records.json tell one history, between any  *)
(* two steps of the handlers, the report loop, the worker and a resync, as *)
(* long as the host's clock goes on.                                       *)
THEOREM DurableInvariant ==
    ASSUME ~ClockRollback
    PROVE  Spec => []DurableInv
<1>1. Init => DurableInv
    BY DurableInit
<1>2. BaseInv /\ BaseInv' /\ SafeInv /\ DurableInv /\ [Next]_vars => DurableInv'
    BY DurableStep
<1> QED
    BY <1>1, <1>2, BaseInvariant, SafeInvariant, PTL DEF Spec

(***************************************************************************)
(* What the service can rely on                                            *)
(***************************************************************************)

(* A verdict that the database shows as final can be read back from a bot  *)
(* comment, with its completion time and, in the deployed contract, with   *)
(* its record flag, although row and comment are written in two steps      *)
(* that may be interrupted, repeated or reordered with a resubmission      *)
(* (worker.deliver_durable_report, resync.py).                             *)
THEOREM VerdictsCanBeReadBack ==
    ASSUME ~ClockRollback
    PROVE  Spec => []VerdictIsDurable
<1>1. BaseInv /\ DurableInv => VerdictIsDurable
    <2> SUFFICES ASSUME BaseInv, DurableInv, NEW h \in Heads, Status(h) \in Finished
                 PROVE  \E i \in DOMAIN comments[h] :
                          LET e == comments[h][i]
                          IN /\ e.status = Status(h)
                             /\ e.finished = row[h].finished
                             /\ e.admitted = row[h].detail.receipt
                             /\ Current(row[h]) /\ ~Recovering /\ ~marker =>
                                    e.record = row[h].record
        BY DEF VerdictIsDurable
    <2>1. PICK i \in 1 .. Len(comments[h]) : Speaks(h, comments[h][i])
        BY DEF DurableInv, VerdictsWritten
    <2>2. /\ comments[h][i].status = Said(h)
          /\ comments[h][i].finished = row[h].finished
          /\ comments[h][i].admitted = row[h].detail.receipt
          /\ comments[h][i].contract = row[h].detail.contract
        BY <2>1 DEF DurableInv, HistoryInv, EntriesAgree, Speaks
    <2>3. Said(h) = Status(h)
        BY SaidCases
    <2>4. Current(row[h]) => (comments[h][i].record <=> Earns(h))
        BY <2>1, <2>2 DEF DurableInv, HistoryInv, EntryFlags, Current
    <2>5. Current(row[h]) /\ ~marker => (row[h].record <=> Earns(h))
        BY DEF DurableInv, RowFlags
    <2>6. comments[h][i].record \in BOOLEAN /\ row[h].record \in BOOLEAN
        BY EntryTypes, RowFacts DEF Entries, Rows
    <2>7. Current(row[h]) /\ ~marker => comments[h][i].record = row[h].record
        BY <2>4, <2>5, <2>6
    <2> QED
        BY <2>2, <2>3, <2>7, CommentDomain
<1> QED
    BY <1>1, BaseInvariant, DurableInvariant, PTL

(* The record flags of the database are those that a replay of all final   *)
(* verdicts in completion order decides: a rebuilt server shows the same   *)
(* records (resync.replay_records, worker.promote).                        *)
THEOREM ReplayChangesNothing ==
    ASSUME ~ClockRollback
    PROVE  Spec => []RecordsReplayable
<1>1. BaseInv /\ SafeInv /\ DurableInv => RecordsReplayable
    <2> SUFFICES ASSUME BaseInv, SafeInv, DurableInv, ~marker
                 PROVE  TrackRecords = Replayed
        BY DEF RecordsReplayable
    <2>1. /\ Replayed \subseteq Candidates
          /\ \A h \in Candidates : h \in Replayed <=> Earns(h)
        BY ReplayIsPublic DEF DurableInv
    <2>2. \A h \in Candidates : h \in Heads /\ (row[h].record <=> Earns(h))
        BY DEF DurableInv, RowFlags, Candidates, Finished
    <2>3. TrackRecords = {h \in Candidates : row[h].record}
        BY DEF TrackRecords, Candidates
    <2> QED
        BY <2>1, <2>2, <2>3
<1> QED
    BY <1>1, BaseInvariant, SafeInvariant, DurableInvariant, PTL

(* records.json never names a head without a comment that carries its      *)
(* verified verdict of that time and contract, as a record while that      *)
(* contract is deployed, even if the web process dies between the two      *)
(* calls (worker.report: the snapshot follows the confirmed comment).      *)
THEOREM RegistryFollowsComment ==
    ASSUME ~ClockRollback
    PROVE  Spec => []MainIsDurable
<1>1. DurableInv => MainIsDurable
    BY DEF DurableInv, HistoryInv
<1> QED
    BY <1>1, DurableInvariant, PTL

(* A commit is in flight or decided through one pull request at a time,    *)
(* although the handler checks it first, then calls GitHub and then        *)
(* inserts, with results and resyncs in between (main._queue_submission).  *)
THEOREM OnePullRequestPerCommit ==
    ASSUME ~ClockRollback
    PROVE  Spec => []NoDuplicateCommit
<1>1. DurableInv => NoDuplicateCommit
    BY DEF DurableInv, HistoryInv
<1> QED
    BY <1>1, DurableInvariant, PTL

(***************************************************************************)
(* Steps                                                                   *)
(***************************************************************************)

(* What a step may do to the public history: nothing, write the comment of *)
(* the running delivery, admit a head, finish a proof, or begin a season.  *)
LEMMA StepKinds ==
    ASSUME BaseInv, SafeInv, DurableInv, ~ClockRollback, [Next]_vars
    PROVE  \/ SameHistory /\ UNCHANGED <<comments, contract>>
           \/ DeliverComment
           \/ \E h \in Heads : /\ AdmitCommit(h)
                               /\ row' = [row EXCEPT ![h] = AdmittedRow(h)]
           \/ ProcessFinish
           \/ DeployContract
<1>1. ASSUME UNCHANGED <<row, comments, contract>>
      PROVE  SameHistory /\ UNCHANGED <<comments, contract>>
    BY <1>1, SameRowsHistory
<1>2. ASSUME NEW h \in Heads,
             AdmitCheck(h) \/ AdmitRetain(h) \/ DeliverStart(h) \/ WorkerPick(h)
      PROVE  UNCHANGED <<row, comments, contract>>
    BY <1>2 DEF AdmitCheck, BeginHandler, AdmitRetain, DeliverStart, WorkerPick
<1>3. ASSUME DeliverSupplement \/ DeliverReread \/ WorkerCrash \/ ResyncBegin
             \/ WebStart \/ WebCrash \/ UNCHANGED vars
      PROVE  UNCHANGED <<row, comments, contract>>
    BY <1>3 DEF DeliverSupplement, DeliverReread, WorkerCrash, ResyncBegin,
                WebStart, WebCrash, vars
<1>4. ASSUME NEW h \in Heads, AdmitCommit(h)
      PROVE  \/ UNCHANGED <<row, comments, contract>>
             \/ row' = [row EXCEPT ![h] = AdmittedRow(h)]
    BY <1>4 DEF AdmitCommit
<1>5. ASSUME DeliverCommit \/ WorkerStart \/ ProcessBegin \/ ResyncEnd
             \/ (\E h \in Heads, c \in Contracts : ResyncImport(h, c))
      PROVE  SameHistory /\ UNCHANGED <<comments, contract>>
    <2>1. SameHistory
        BY <1>5, DurableDeliverCommit, DurableWorkerStart, DurableProcessBegin,
           DurableResyncEnd, DurableResyncImport
    <2>2. UNCHANGED <<comments, contract>>
        BY <1>5 DEF DeliverCommit, WorkerStart, ProcessBegin, ResyncEnd, ResyncImport
    <2> QED
        BY <2>1, <2>2
<1> QED
    BY <1>1, <1>2, <1>3, <1>4, <1>5 DEF Next

(* A final row keeps status and completion time, unless its head failed    *)
(* and is admitted again.                                                  *)
LEMMA FinalRowStays ==
    ASSUME BaseInv, SafeInv, DurableInv, ~ClockRollback, [Next]_vars,
           NEW h \in Heads, Status(h) \in Finished
    PROVE  \/ /\ row'[h].status = Status(h)
              /\ row'[h].finished = row[h].finished
           \/ /\ Status(h) = "failed"
              /\ row'[h].detail.receipt # row[h].detail.receipt
<1>1. CASE SameHistory
    BY <1>1 DEF SameHistory, Status
<1>2. CASE DeliverComment \/ DeployContract
    BY <1>2 DEF DeliverComment, DeployContract, Status
<1>3. ASSUME NEW k \in Heads, AdmitCommit(k),
             row' = [row EXCEPT ![k] = AdmittedRow(k)]
      PROVE  \/ /\ row'[h].status = Status(h)
                /\ row'[h].finished = row[h].finished
             \/ /\ Status(h) = "failed"
                /\ row'[h].detail.receipt # row[h].detail.receipt
    <2>1. CASE k # h
        BY <1>3, <2>1 DEF BaseInv, TypeOK, Status
    <2>2. CASE k = h
        <3>1. Status(h) = "failed"
            BY <1>3, <2>2, DurableAdmitWrite DEF Finished
        <3>2. row'[h].detail.receipt = admission[h].at
            BY <1>3, <2>2 DEF BaseInv, TypeOK, AdmittedRow
        <3>3. row[h].detail.receipt < admission[h].at
            BY <1>3, <2>2 DEF AdmitCommit, SafeInv, HandlerWindow
        <3> QED
            BY <3>1, <3>2, <3>3, RowFacts
    <2> QED
        BY <2>1, <2>2
<1>4. CASE ProcessFinish
    BY <1>4, DurableProcessFinish DEF Status
<1> QED
    BY <1>1, <1>2, <1>3, <1>4, StepKinds

(* A verdict of the proof, once it is public, is never withdrawn or        *)
(* changed, by a retry, a late delivery or a resync from old comments      *)
(* (worker.deliver_durable_report, resync.restore_submission).             *)
THEOREM VerdictsStay ==
    ASSUME ~ClockRollback
    PROVE  Spec => VerdictsAreFinal
<1>1. BaseInv /\ SafeInv /\ DurableInv /\ [Next]_vars =>
          [\A h \in Heads : Status(h) \in {"verified", "rejected"} =>
              /\ row'[h].status = Status(h)
              /\ row'[h].finished = row[h].finished]_vars
    BY FinalRowStays DEF Finished
<1> QED
    BY <1>1, BaseInvariant, SafeInvariant, DurableInvariant, PTL
       DEF Spec, VerdictsAreFinal

(* While the clock goes on, a decided head stays decided until it is       *)
(* admitted again: no receipt erases a verdict (resync.latest_verdicts).   *)
(* With a step back of the clock the code breaks this.                     *)
THEOREM ReceiptsEraseNothing ==
    ASSUME ~ClockRollback
    PROVE  Spec => ReceiptNeverErasesVerdict
<1>1. BaseInv /\ SafeInv /\ DurableInv /\ [Next]_vars =>
          [\A h \in Heads :
              /\ Status(h) \in Finished
              /\ row'[h].detail.receipt = row[h].detail.receipt
              => row'[h].status \in Finished]_vars
    BY FinalRowStays
<1> QED
    BY <1>1, BaseInvariant, SafeInvariant, DurableInvariant, PTL
       DEF Spec, ReceiptNeverErasesVerdict

(* Only the calls after a confirmed comment change the registry.           *)
LEMMA OnlyCallsMoveRegistry ==
    ASSUME [Next]_vars, ~DeliverSupplement
    PROVE  main' = main
<1>1. ASSUME NEW h \in Heads,
             \/ AdmitCheck(h) \/ AdmitRetain(h) \/ AdmitCommit(h)
             \/ DeliverStart(h) \/ WorkerPick(h)
             \/ \E c \in Contracts : ResyncImport(h, c)
      PROVE  main' = main
    BY <1>1 DEF AdmitCheck, BeginHandler, AdmitRetain, AdmitCommit,
                DeliverStart, WorkerPick, ResyncImport
<1>2. ASSUME DeliverComment \/ DeliverReread \/ DeliverCommit
             \/ WorkerStart \/ ProcessBegin \/ ProcessFinish \/ WorkerCrash
             \/ ResyncBegin \/ ResyncEnd \/ WebStart \/ WebCrash
             \/ DeployContract \/ UNCHANGED vars
      PROVE  main' = main
    BY <1>2 DEF DeliverComment, DeliverReread, DeliverCommit, WorkerStart,
                ProcessBegin, ProcessFinish, WorkerCrash, ResyncBegin,
                ResyncEnd, WebStart, WebCrash, DeployContract, vars
<1> QED
    BY <1>1, <1>2 DEF Next

(***************************************************************************)
(* The service implements the competition                                  *)
(***************************************************************************)
Spoken(h) == \E i \in 1 .. Len(comments[h]) : Speaks(h, comments[h][i])

(* The public verdict of h: all comments that speak for it agree.          *)
Told(h) == IF Status(h) = "absent" THEN "none"
           ELSE IF Spoken(h) THEN Said(h) ELSE "open"

VerdictsTold == PublicVerdict = [h \in Heads |-> Told(h)]

LEMMA ToldVerdict == BaseInv /\ EntriesAgree => VerdictsTold
<1> SUFFICES ASSUME BaseInv, EntriesAgree, NEW h \in Heads
             PROVE  PublicVerdict[h] = Told(h)
    BY DEF VerdictsTold, PublicVerdict
<1>1. VerdictOf(h) = {comments[h][i].status :
                         i \in {j \in 1 .. Len(comments[h]) :
                                   Speaks(h, comments[h][j])}}
    BY CommentDomain DEF VerdictOf, Speaks, IsTerminal
<1>2. \A i \in 1 .. Len(comments[h]) :
          Speaks(h, comments[h][i]) => comments[h][i].status = Said(h)
    BY DEF EntriesAgree
<1>3. VerdictOf(h) = IF Spoken(h) THEN {Said(h)} ELSE {}
    <2>1. CASE Spoken(h)
        BY <1>1, <1>2, <2>1 DEF Spoken
    <2>2. CASE ~Spoken(h)
        BY <1>1, <2>2 DEF Spoken
    <2> QED
        BY <2>1, <2>2
<1> QED
    BY <1>3 DEF PublicVerdict, Told

PublicStep ==
    [Public!CompetitionNext]_<<PublicVerdict, PublicSeason, PublicRecords, contract>>

(* No comment, no admission, no new contract: the public sees nothing.     *)
LEMMA PublicStutter ==
    ASSUME DurableInv, DurableInv',
           VerdictsTold, VerdictsTold',
           UNCHANGED <<comments, contract>>,
           \A h \in Heads :
               /\ row'[h].detail.receipt = row[h].detail.receipt
               /\ row'[h].detail.contract = row[h].detail.contract
               /\ Status(h) = "absent" <=> Status(h)' = "absent"
    PROVE  UNCHANGED <<PublicVerdict, PublicSeason, PublicRecords, contract>>
<1>1. ASSUME NEW h \in Heads
      PROVE  Told(h)' = Told(h)
    <2>1. \A e : Speaks(h, e)' <=> Speaks(h, e)
        BY DEF Speaks
    <2>2. Spoken(h)' <=> Spoken(h)
        BY <2>1 DEF Spoken
    <2>3. Spoken(h) => Said(h)' = Said(h)
        <3> SUFFICES ASSUME NEW i \in 1 .. Len(comments[h]), Speaks(h, comments[h][i])
                     PROVE  Said(h)' = Said(h)
            BY DEF Spoken
        <3>1. comments[h][i].status = Said(h)
            BY DEF DurableInv, HistoryInv, EntriesAgree
        <3>2. comments[h][i].status = Said(h)'
            BY <2>1 DEF DurableInv, HistoryInv, EntriesAgree
        <3> QED
            BY <3>1, <3>2
    <2> QED
        BY <2>2, <2>3 DEF Told
<1>2. PublicSeason' = PublicSeason
    BY DEF PublicSeason
<1>3. PublicRecords' = PublicRecords
    BY DEF PublicRecords
<1> QED
    BY <1>1, <1>2, <1>3 DEF VerdictsTold

LEMMA PublicSubmit ==
    ASSUME BaseInv, SafeInv, DurableInv, DurableInv',
           VerdictsTold, VerdictsTold',
           NEW h \in Heads, AdmitCommit(h),
           row' = [row EXCEPT ![h] = AdmittedRow(h)]
    PROVE  Public!Submit(h)
<1>1. /\ UNCHANGED <<comments, contract>>
      /\ Status(h) \in {"absent", "failed"}
      /\ PublicRecords' = PublicRecords
    BY DurableAdmitWrite DEF AdmitCommit
<1>2. /\ row'[h].status = "admitting"
      /\ row'[h].detail.contract = contract
      /\ \A k \in Heads : k # h => row'[k] = row[k]
    BY DEF BaseInv, TypeOK, AdmittedRow
<1>3. Told(h) \in {"none", "failed"}
    <2>1. CASE Status(h) = "absent"
        BY <2>1 DEF Told
    <2>2. CASE Status(h) = "failed"
        <3>1. Spoken(h)
            BY <2>2 DEF DurableInv, VerdictsWritten, Spoken, Finished
        <3>2. Said(h) = "failed"
            BY <2>2, SaidCases DEF Finished
        <3> QED
            BY <2>2, <3>1, <3>2 DEF Told
    <2> QED
        BY <1>1, <2>1, <2>2
<1>4. Told(h)' = "open"
    <2>1. Status(h)' = "admitting" /\ Said(h)' = "pending"
        BY <1>2 DEF Status, Said, ReportedStatus
    <2>2. ~Spoken(h)'
        BY <1>1, <2>1
           DEF Spoken, Speaks, DurableInv, HistoryInv, EntriesAgree, Finished
    <2> QED
        BY <2>1, <2>2 DEF Told
<1>5. \A k \in Heads : k # h => Told(k)' = Told(k)
    BY <1>1, <1>2 DEF Told, Spoken, Speaks, Said, ReportedStatus, Status
<1>6. PublicVerdict' = [PublicVerdict EXCEPT ![h] = "open"]
    BY <1>4, <1>5 DEF VerdictsTold
<1>7. PublicSeason' = [PublicSeason EXCEPT ![h] = contract]
    <2>1. \A k \in Heads : row'[k].detail.contract =
              IF k = h THEN contract ELSE row[k].detail.contract
        BY <1>2
    <2> QED
        BY <2>1 DEF PublicSeason
<1> QED
    BY <1>1, <1>3, <1>6, <1>7 DEF Public!Submit, VerdictsTold

(* The first comment that carries the verdict of an admission decides the  *)
(* head; every other comment repeats what is known.                        *)
LEMMA PublicDecide ==
    ASSUME BaseInv, BaseInv', SafeInv, DurableInv,
           VerdictsTold, VerdictsTold',
           DeliverComment
    PROVE  PublicStep
<1>1. /\ UNCHANGED <<row, contract>> /\ Delivering
      /\ comments' \in {comments, WithComment}
    BY DEF DeliverComment, Delivering
<1>2. PublicSeason' = PublicSeason
    BY <1>1 DEF PublicSeason
<1>3. CASE comments' = comments
    <2>1. PublicVerdict' = PublicVerdict
        BY <1>1, <1>3 DEF VerdictsTold, Told, Spoken, Speaks, Said, ReportedStatus, Status
    <2>2. PublicRecords' = PublicRecords
        BY <1>1, <1>3 DEF PublicRecords
    <2> QED
        BY <1>1, <1>2, <2>1, <2>2 DEF PublicStep
<1>4. CASE comments' = WithComment
    <2>1. PICK d \in Heads : d = delivery.head
        BY <1>1 DEF BaseInv, CommentIds
    <2>2. PublicRecords' = IF NewRecord THEN PublicRecords \cup {d}
                                        ELSE PublicRecords
        BY <1>1, <1>4, <2>1, RecordsAfterComment
    <2>3. \A h \in Heads : /\ Status(h)' = Status(h)
                           /\ Said(h)' = Said(h)
                           /\ \A e : Speaks(h, e)' <=> Speaks(h, e)
        BY <1>1 DEF Status, Said, ReportedStatus, Speaks
    <2>4. /\ \A h \in Heads : \A i \in 1 .. Len(comments[h]) :
                 /\ i \in 1 .. Len(comments'[h])
                 /\ \/ comments'[h][i] = comments[h][i]
                    \/ h = d /\ comments'[h][i] = delivery.body
          /\ \A h \in Heads : \A i \in 1 .. Len(comments'[h]) :
                 \/ i \in 1 .. Len(comments[h]) /\ comments'[h][i] = comments[h][i]
                 \/ h = d /\ comments'[h][i] = delivery.body
          /\ CommentId \in 1 .. Len(comments'[d])
          /\ comments'[d][CommentId] = delivery.body
        BY <1>1, <1>4, <2>1, CommentWritten, LengthsGrow
    <2>5. \A h \in Heads : h # d => Told(h)' = Told(h)
        BY <2>3, <2>4 DEF Told, Spoken
    <2>6. Spoken(d) => /\ Speaks(d, delivery.body) /\ Spoken(d)'
                       /\ NewRecord => d \in PublicRecords
        <3> SUFFICES ASSUME NEW i \in 1 .. Len(comments[d]),
                            Speaks(d, comments[d][i])
                     PROVE  /\ Speaks(d, delivery.body) /\ Spoken(d)'
                            /\ NewRecord => d \in PublicRecords
            BY DEF Spoken
        <3>1. /\ BodySpeaks
              /\ delivery.body.status = comments[d][i].status
              /\ delivery.body.contract = comments[d][i].contract
              /\ delivery.body.contract = contract =>
                     (delivery.body.record <=> comments[d][i].record)
            BY <1>1, <2>1, BodyRepeats
        <3>2. Speaks(d, delivery.body)
            BY <2>1, <3>1 DEF Speaks, BodySpeaks
        <3>3. Spoken(d)'
            BY <2>3, <2>4, <3>2 DEF Spoken
        <3>4. NewRecord => d \in PublicRecords
            BY <3>1, RecordsAreComments DEF NewRecord
        <3> QED
            BY <3>2, <3>3, <3>4
    <2>7. CASE ~Spoken(d) /\ Speaks(d, delivery.body)
        <3>1. BodySpeaks
            <4>1. row[d].detail.receipt \in Nat
                BY RowFacts
            <4> QED
                BY <1>1, <2>1, <2>7, <4>1
                   DEF DurableInv, DeliveryReports, BodyIsPast, Speaks
        <3>2. /\ delivery.body.status = Said(d) /\ Said(d) \in Finished
              /\ delivery.body.contract = row[d].detail.contract
            BY <2>1, <2>7, <3>1 DEF BodySpeaks, Speaks
        <3>3. Status(d) = "publishing"
            <4>1. Status(d) \notin Finished
                BY <2>7 DEF DurableInv, VerdictsWritten, Spoken
            <4> QED
                BY <3>2, <4>1, SaidCases
        <3>4. EarlierRecords(d) = PublicRecords
            <4> SUFFICES ASSUME NEW k \in PublicRecords
                         PROVE  row[k].finished < row[d].finished
                BY DEF EarlierRecords
            <4>1. k \in Heads /\ Spoken(k)
                BY RecordsSpeak DEF DurableInv, Spoken
            <4> QED
                BY <2>7, <3>3, <4>1 DEF SafeInv, WaitingIsLast
        <3>5. NewRecord <=> /\ Said(d) = "verified"
                            /\ row[d].detail.contract = contract
                            /\ Improves(MetricsOf(PublicRecords), Metric[d])
            BY <1>1, <2>1, <3>1, <3>2, <3>4 DEF NewRecord, DurableInv, BodyFlag, Earns
        <3>6. Told(d) = "open" /\ Told(d)' = Said(d)
            <4>1. Spoken(d)'
                BY <2>3, <2>4, <2>7 DEF Spoken
            <4> QED
                BY <2>3, <2>7, <3>3, <4>1 DEF Told
        <3>7. PublicVerdict' = [PublicVerdict EXCEPT ![d] = Said(d)]
            BY <2>5, <3>6 DEF VerdictsTold
        <3>8. PublicSeason[d] = row[d].detail.contract
            BY DEF PublicSeason
        <3>9. Public!Decide(d, Said(d))
            BY <1>1, <1>2, <2>2, <3>5, <3>6, <3>7, <3>8
               DEF VerdictsTold, Public!Decide, Public!RecordMetrics, MetricsOf, Public!Improves,
                   Improves, Public!Score, Score, Public!Covers, Covers
        <3>10. Said(d) \in Public!Verdicts
            BY <3>2 DEF Finished, Public!Verdicts
        <3> QED
            BY <3>9, <3>10 DEF PublicStep, Public!CompetitionNext
    <2>8. CASE Spoken(d) \/ ~Speaks(d, delivery.body)
        <3>1. Spoken(d)' <=> Spoken(d)
            BY <2>3, <2>4, <2>6, <2>8 DEF Spoken
        <3>2. Told(d)' = Told(d)
            BY <2>3, <3>1 DEF Told
        <3>3. PublicVerdict' = PublicVerdict
            BY <2>5, <3>2 DEF VerdictsTold
        <3>4. NewRecord => Speaks(d, delivery.body)
            BY <1>1, <2>1
               DEF NewRecord, BodySpeaks, DurableInv, DeliveryReports, Speaks, Finished
        <3>5. PublicRecords' = PublicRecords
            BY <2>2, <2>6, <2>8, <3>4
        <3> QED
            BY <1>1, <1>2, <3>3, <3>5 DEF PublicStep
    <2> QED
        BY <2>7, <2>8
<1> QED
    BY <1>1, <1>3, <1>4

LEMMA PublicSimulates ==
    ASSUME BaseInv, BaseInv', SafeInv, DurableInv, DurableInv', ~ClockRollback,
           VerdictsTold, VerdictsTold',
           [Next]_vars
    PROVE  PublicStep
<1>1. CASE SameHistory /\ UNCHANGED <<comments, contract>>
    <2>1. \A h \in Heads : /\ Said(h)' = Said(h)
                           /\ row'[h].detail.receipt = row[h].detail.receipt
                           /\ row'[h].detail.contract = row[h].detail.contract
        BY <1>1 DEF SameHistory
    <2>2. \A h \in Heads : Status(h) = "absent" <=> Status(h)' = "absent"
        BY <2>1, SaidCases, SaidNext DEF Status
    <2> QED
        BY <1>1, <2>1, <2>2, PublicStutter DEF PublicStep
<1>2. CASE DeliverComment
    BY <1>2, PublicDecide
<1>3. ASSUME NEW h \in Heads, AdmitCommit(h),
             row' = [row EXCEPT ![h] = AdmittedRow(h)]
      PROVE  PublicStep
    BY <1>3, PublicSubmit DEF PublicStep, Public!CompetitionNext
<1>4. CASE ProcessFinish
    <2>1. UNCHANGED <<comments, contract>>
        BY <1>4 DEF ProcessFinish
    <2> QED
        BY <1>4, <2>1, DurableProcessFinish, PublicStutter DEF PublicStep
<1>5. CASE DeployContract
    <2>1. /\ UNCHANGED <<row, comments>>
          /\ contract + 1 \in Contracts /\ contract' = contract + 1
        BY <1>5 DEF DeployContract
    <2>2. PublicSeason' = PublicSeason
        BY <2>1 DEF PublicSeason
    <2>3. PublicVerdict' = PublicVerdict
        BY <2>1 DEF VerdictsTold, Told, Spoken, Speaks, Said, ReportedStatus, Status
    <2>4. PublicRecords' = {}
        BY <1>5, DurableDeployContract
    <2> QED
        BY <2>1, <2>2, <2>3, <2>4
           DEF PublicStep, Public!CompetitionNext, Public!NewSeason
<1> QED
    BY <1>1, <1>2, <1>3, <1>4, <1>5, StepKinds

LEMMA PublicStart == Init => Public!CompetitionInit
<1> SUFFICES ASSUME Init PROVE Public!CompetitionInit
    OBVIOUS
<1>1. \A h \in Heads : /\ row[h] = AbsentRow /\ comments[h] = <<>>
                       /\ DOMAIN comments[h] = {}
    BY EmptySeq DEF Init
<1>2. PublicVerdict = [h \in Heads |-> "none"]
    BY <1>1 DEF PublicVerdict, Status, AbsentRow
<1>3. PublicSeason = [h \in Heads |-> 0]
    BY <1>1 DEF PublicSeason, AbsentRow, NoDetail
<1>4. PublicRecords = {}
    BY <1>1 DEF PublicRecords
<1> QED
    BY <1>2, <1>3, <1>4 DEF Init, Public!CompetitionInit

(* The service, with its database, its comments on GitHub, its crashes and *)
(* its retries, does what Competition promises: every step is one of the   *)
(* competition, or nothing the public sees.  A verdict counts from the     *)
(* first comment that carries it, and is a record exactly if it improves   *)
(* on the records that are public then (worker.promote).                   *)
THEOREM ServiceImplementsCompetition ==
    ASSUME ~ClockRollback
    PROVE  Spec => ImplementsCompetition
<1>1. BaseInv /\ EntriesAgree => VerdictsTold
    BY ToldVerdict
<1>2. BaseInv' /\ EntriesAgree' => VerdictsTold'
    BY <1>1, PTL
<1>3. BaseInv /\ BaseInv' /\ SafeInv /\ DurableInv /\ DurableInv' /\ [Next]_vars
          => PublicStep
    BY <1>1, <1>2, PublicSimulates DEF DurableInv, HistoryInv
<1> QED
    BY <1>3, PublicStart, BaseInvariant, SafeInvariant, DurableInvariant, PTL
       DEF Spec, PublicStep, ImplementsCompetition, Public!CompetitionSpec,
           Public!competition

(***************************************************************************)
(* The record rule in the service: what Competition says of its records    *)
(* holds of what GitHub shows.                                             *)
(***************************************************************************)
PublicInv ==
    /\ Public!CompetitionTypeOK
    /\ \A h \in Heads : PublicSeason[h] <= contract
    /\ Public!RecordsAreVerified
    /\ Public!RecordsCoverVerified
    /\ Public!NoDuplicateRecord

LEMMA PublicInitInv == Public!CompetitionInit => PublicInv
BY EpochAssumption
   DEF Public!CompetitionInit, PublicInv, Public!CompetitionTypeOK,
       Public!RecordsAreVerified, Public!RecordsCoverVerified,
       Public!NoDuplicateRecord, Public!Verified, Public!Verdicts

LEMMA PublicSubmitInv ==
    ASSUME PublicInv, NEW h \in Heads, Public!Submit(h)
    PROVE  PublicInv'
<1> USE DEF PublicInv
<1>1. Public!CompetitionTypeOK'
    <2> contract \in Contracts /\ contract # 0
        BY EpochAssumption DEF Public!CompetitionTypeOK
    <2>1. /\ PublicVerdict' \in [Heads -> {"none", "open"} \cup Public!Verdicts]
          /\ PublicSeason' \in [Heads -> Contracts \cup {0}]
          /\ PublicRecords' \subseteq Heads
          /\ contract' \in Contracts
        BY DEF Public!CompetitionTypeOK, Public!Submit
    <2>2. \A k \in Heads : PublicSeason'[k] = 0 <=> PublicVerdict'[k] = "none"
        BY DEF Public!CompetitionTypeOK, Public!Submit
    <2> QED
        BY <2>1, <2>2 DEF Public!CompetitionTypeOK
<1>2. \A k \in Heads : PublicSeason'[k] <= contract'
    BY EpochAssumption DEF Public!CompetitionTypeOK, Public!Submit
<1>3. Public!Verified' = Public!Verified
    BY DEF Public!CompetitionTypeOK, Public!Verified, Public!Submit
<1>4. PublicRecords' = PublicRecords
    BY DEF Public!Submit
<1> QED
    BY <1>1, <1>2, <1>3, <1>4
       DEF Public!RecordsAreVerified, Public!RecordsCoverVerified, Public!NoDuplicateRecord

(* A head that does not improve is covered: by its equal or by another.    *)
LEMMA PublicDecideInv ==
    ASSUME PublicInv, NEW h \in Heads, NEW v \in Public!Verdicts, Public!Decide(h, v)
    PROVE  PublicInv'
<1> USE DEF PublicInv
<1> DEFINE Wins == /\ v = "verified"
                   /\ PublicSeason[h] = contract
                   /\ Public!Improves(Public!RecordMetrics, Metric[h])
<1>1. Public!CompetitionTypeOK'
    BY DEF Public!CompetitionTypeOK, Public!Decide, Public!Verdicts
<1>2. \A k \in Heads : PublicSeason'[k] <= contract'
    BY DEF Public!Decide
<1>3. \A k \in Heads : k \in Public!Verified' <=>
          \/ k # h /\ k \in Public!Verified
          \/ k = h /\ v = "verified" /\ PublicSeason[h] = contract
    BY DEF Public!CompetitionTypeOK, Public!Verified, Public!Decide
<1>4. h \notin Public!Verified /\ h \notin PublicRecords
    BY DEF Public!Verified, Public!Decide, Public!RecordsAreVerified
<1>5. Public!Covers(Metric[h], Metric[h])
    BY MetricAssumption DEF Public!Covers, Metrics
<1>6. PublicRecords' = IF Wins THEN PublicRecords \cup {h} ELSE PublicRecords
    BY DEF Public!Decide
<1>7. Public!RecordsAreVerified'
    BY <1>3, <1>4, <1>6 DEF Public!RecordsAreVerified, Public!CompetitionTypeOK
<1>8. Public!RecordsCoverVerified'
    <2>1. ASSUME v = "verified", PublicSeason[h] = contract
          PROVE  \E r \in PublicRecords' : Public!Covers(Metric[r], Metric[h])
        <3>1. CASE Wins
            BY <1>5, <1>6, <3>1
        <3>2. CASE ~Wins
            BY <1>5, <1>6, <2>1, <3>2 DEF Public!Improves, Public!RecordMetrics
        <3> QED
            BY <3>1, <3>2
    <2> QED
        BY <1>3, <1>6, <2>1 DEF Public!RecordsCoverVerified, Public!Verified
<1>9. Public!NoDuplicateRecord'
    BY <1>6 DEF Public!NoDuplicateRecord, Public!Improves, Public!RecordMetrics
<1> QED
    BY <1>1, <1>2, <1>7, <1>8, <1>9

LEMMA PublicSeasonInv ==
    ASSUME PublicInv, Public!NewSeason
    PROVE  PublicInv'
<1> USE DEF PublicInv
<1>1. Public!CompetitionTypeOK'
    BY DEF Public!CompetitionTypeOK, Public!NewSeason
<1>2. contract \in Nat /\ \A h \in Heads : PublicSeason[h] \in Nat
    <2>1. \A s \in Contracts \cup {0} : s \in Nat
        BY EpochAssumption
    <2>2. /\ contract \in Contracts
          /\ \A h \in Heads : PublicSeason[h] \in Contracts \cup {0}
        BY DEF Public!CompetitionTypeOK
    <2> QED
        BY <2>1, <2>2
<1>3. \A h \in Heads : PublicSeason'[h] <= contract'
    BY <1>2 DEF Public!NewSeason
<1>4. Public!Verified' = {} /\ PublicRecords' = {}
    BY <1>2 DEF Public!NewSeason, Public!Verified
<1> QED
    BY <1>1, <1>3, <1>4
       DEF Public!RecordsAreVerified, Public!RecordsCoverVerified, Public!NoDuplicateRecord

LEMMA PublicStepInv == PublicInv /\ PublicStep => PublicInv'
<1> SUFFICES ASSUME PublicInv, PublicStep
             PROVE  PublicInv'
    OBVIOUS
<1>1. CASE Public!CompetitionNext
    BY <1>1, PublicSubmitInv, PublicDecideInv, PublicSeasonInv
       DEF Public!CompetitionNext
<1>2. CASE UNCHANGED <<PublicVerdict, PublicSeason, PublicRecords, contract>>
    BY <1>2 DEF PublicInv, Public!CompetitionTypeOK, Public!RecordsAreVerified,
                Public!RecordsCoverVerified, Public!NoDuplicateRecord, Public!Verified
<1> QED
    BY <1>1, <1>2 DEF PublicStep

(* Every public verdict "verified" of the deployed contract is covered by  *)
(* a public record that is as good in both coordinates, every public       *)
(* record has such a verdict, and no two have the same metrics: no crash,  *)
(* retry, resubmission or rebuild costs the board a point of its frontier  *)
(* or gives it one that was not earned (worker.promote, records.improves). *)
THEOREM BoardIsComplete ==
    ASSUME ~ClockRollback
    PROVE  Spec => [](/\ Public!RecordsAreVerified
                      /\ Public!RecordsCoverVerified
                      /\ Public!NoDuplicateRecord)
<1>1. PublicInv => /\ Public!RecordsAreVerified
                   /\ Public!RecordsCoverVerified
                   /\ Public!NoDuplicateRecord
    BY DEF PublicInv
<1> QED
    BY <1>1, ServiceImplementsCompetition, PublicInitInv, PublicStepInv, PTL
       DEF ImplementsCompetition, Public!CompetitionSpec, PublicStep, Public!competition

(***************************************************************************)
(* The service as the caller of publish_record                             *)
(***************************************************************************)

(* Results complete one after the other, and those of a later contract     *)
(* later: what Registry!ResultsOrdered says of the results of              *)
(* RecordSnapshot, of the heads whose verdict is "verified".               *)
ResultsInOrder ==
    \A h, k \in Heads : Said(h) = "verified" /\ Said(k) = "verified" =>
        /\ row[h].finished = row[k].finished => h = k
        /\ row[h].detail.contract < row[k].detail.contract =>
               row[h].finished < row[k].finished

(* While a snapshot may be published, the head leads all other records of  *)
(* its contract, and is one of them once it is verified.                   *)
CallsFollowLead ==
    Delivering /\ delivery.lead /\ Current(row[delivery.head]) =>
        /\ \A r \in TrackRecords \ {delivery.head} :
               Leads(Metric[delivery.head], Metric[r])
        /\ Status(delivery.head) = "verified" => row[delivery.head].record

CallerInv == ResultsInOrder /\ RegistryNamesResult /\ CallsFollowLead

(* A new verdict completes last, and is "verified" only under the contract *)
(* that is deployed.                                                       *)
LEMMA FinishesLast ==
    ASSUME BaseInv, SafeInv, DurableInv, ~ClockRollback, ProcessFinish
    PROVE  \E h \in Heads :
               /\ Said(h) = "pending"
               /\ \A k \in Heads : k # h => row'[k] = row[k]
               /\ row'[h].finished = clock + 1
               /\ Said(h)' = "verified" => row'[h].detail.contract = contract
<1>1. PICK h \in Heads : h = job.head /\ job.pc = "running"
    BY DEF ProcessFinish, BaseInv, WorkerHasHead
<1>2. PICK now \in Readings, result \in Results :
          row' = [row EXCEPT ![job.head].status         = "publishing",
                             ![job.head].finished       = NextFinishTime(now),
                             ![job.head].record         = FALSE,
                             ![job.head].detail.verdict = result]
    BY DEF ProcessFinish
<1>3. Said(h) = "pending"
    <2>1. Status(h) = "verifying"
        BY <1>1 DEF SafeInv, JobIsVerifying
    <2> QED
        BY <2>1, SaidCases
<1>4. \A k \in Heads : k # h => row'[k] = row[k]
    BY <1>1, <1>2 DEF BaseInv, TypeOK
<1>5. row[h] \in Rows /\ row[h].detail \in Details
    BY RowFacts DEF Rows
<1>6. row'[h] = [row[h] EXCEPT !.status         = "publishing",
                               !.finished       = NextFinishTime(now),
                               !.record         = FALSE,
                               !.detail.verdict = result]
    BY <1>1, <1>2 DEF BaseInv, TypeOK
<1>7. /\ row'[h].status = "publishing"
      /\ row'[h].finished = clock + 1
      /\ row'[h].detail = [row[h].detail EXCEPT !.verdict = result]
    BY <1>5, <1>6, NextTime DEF Rows
<1>8. /\ row'[h].detail.contract = row[h].detail.contract
      /\ row'[h].detail.verdict = result
    BY <1>5, <1>7 DEF Details
<1>9. Said(h)' = result
    BY <1>7, <1>8 DEF Said, ReportedStatus
<1>10. result = "verified" => row[h].detail.contract = contract
    BY <1>1 DEF Results
<1> QED
    BY <1>3, <1>4, <1>7, <1>8, <1>9, <1>10

LEMMA ResultsStayInOrder ==
    ASSUME BaseInv, BaseInv', SafeInv, DurableInv, ~ClockRollback, [Next]_vars,
           ResultsInOrder
    PROVE  ResultsInOrder'
<1>1. CASE SameHistory
    BY <1>1 DEF SameHistory, ResultsInOrder
<1>2. CASE DeliverComment \/ DeployContract
    <2>1. row' = row
        BY <1>2 DEF DeliverComment, DeployContract
    <2> QED
        BY <2>1 DEF ResultsInOrder, Said, ReportedStatus
<1>3. ASSUME NEW h \in Heads, row' = [row EXCEPT ![h] = AdmittedRow(h)]
      PROVE  ResultsInOrder'
    <2>1. Said(h)' # "verified"
        BY <1>3 DEF BaseInv, TypeOK, AdmittedRow, Said, ReportedStatus
    <2>2. \A k \in Heads : k # h => row'[k] = row[k] /\ Said(k)' = Said(k)
        BY <1>3 DEF BaseInv, TypeOK, Said, ReportedStatus
    <2> QED
        BY <2>1, <2>2 DEF ResultsInOrder
<1>4. CASE ProcessFinish
    <2>1. PICK h \in Heads :
              /\ \A k \in Heads : k # h => row'[k] = row[k]
              /\ row'[h].finished = clock + 1
              /\ Said(h)' = "verified" => row'[h].detail.contract = contract
        BY <1>4, FinishesLast
    <2>2. \A k \in Heads : k # h => Said(k)' = Said(k)
        BY <2>1 DEF Said, ReportedStatus
    <2>3. \A k \in Heads : /\ row[k].finished \in Nat /\ row[k].finished <= clock
                           /\ row[k].detail.contract \in Nat
                           /\ row[k].detail.contract <= contract
        BY RowFacts, ContractTypes
           DEF BaseInv, ClockBounds, RowTimes, DurableInv, HistoryInv, OldContracts
    <2>4. clock \in Nat /\ contract \in Nat
        BY ContractTypes DEF BaseInv, TypeOK
    <2> SUFFICES ASSUME NEW a \in Heads, NEW b \in Heads,
                        Said(a)' = "verified", Said(b)' = "verified"
                 PROVE  /\ row'[a].finished = row'[b].finished => a = b
                        /\ row'[a].detail.contract < row'[b].detail.contract =>
                               row'[a].finished < row'[b].finished
        BY DEF ResultsInOrder
    <2>5. CASE a # h /\ b # h
        BY <2>1, <2>2, <2>5 DEF ResultsInOrder
    <2>6. CASE a = h /\ b # h
        BY <2>1, <2>3, <2>4, <2>6
    <2>7. CASE a # h /\ b = h
        BY <2>1, <2>3, <2>4, <2>7
    <2>8. CASE a = h /\ b = h
        BY <2>1, <2>4, <2>8
    <2> QED
        BY <2>5, <2>6, <2>7, <2>8
<1> QED
    BY <1>1, <1>2, <1>3, <1>4, StepKinds

(* A delivery that may publish reports a verified verdict of its row.      *)
LEMMA LeadSpeaks ==
    ASSUME BaseInv, DurableInv, Delivering, delivery.lead
    PROVE  /\ delivery.head \in Heads
           /\ Said(delivery.head) = "verified"
           /\ delivery.body.finished = row[delivery.head].finished
           /\ delivery.body.contract = row[delivery.head].detail.contract
<1>1. delivery.head \in Heads
    BY DEF BaseInv, CommentIds
<1>2. delivery.body.status = "verified" /\ BodySpeaks
    BY DEF DurableInv, DeliveryReports, BodyIsPast
<1> QED
    BY <1>1, <1>2 DEF BodySpeaks

(* The registry is left alone, or it names the delivered head.             *)
LEMMA RegistryMoves ==
    ASSUME [Next]_vars
    PROVE  \/ main' = main
           \/ /\ Delivering /\ delivery.lead
              /\ row' = row
              /\ main' = Registry
<1>1. CASE DeliverSupplement
    <2>1. MainAfter \in {main, Registry}
        BY DEF MainAfter
    <2>2. row' = row /\ Delivering
        BY <1>1 DEF DeliverSupplement, Delivering
    <2>3. main' = main \/ (delivery.lead /\ main' = MainAfter)
        BY <1>1 DEF DeliverSupplement
    <2> QED
        BY <2>1, <2>2, <2>3
<1> QED
    BY <1>1, OnlyCallsMoveRegistry

LEMMA RegistryStaysTrue ==
    ASSUME BaseInv, SafeInv, DurableInv, ~ClockRollback, [Next]_vars,
           RegistryNamesResult
    PROVE  RegistryNamesResult'
<1>1. CASE main' = main
    <2> DEFINE m == main.head
    <2> SUFFICES ASSUME m # NoHead
                 PROVE  /\ Said(m)' = Said(m)
                        /\ row'[m].finished = row[m].finished
                        /\ row'[m].detail.contract = row[m].detail.contract
        BY <1>1 DEF RegistryNamesResult, Said, ReportedStatus
    <2>1. m \in Heads /\ Said(m) = "verified"
        BY DEF BaseInv, TypeOK, RegistryNamesResult, Said
    <2>2. CASE SameHistory
        <3>1. ReportedStatus(row'[m]) = ReportedStatus(row[m])
            BY <2>1, <2>2 DEF SameHistory, Said, ReportedStatus
        <3> QED
            BY <1>1, <2>1, <2>2, <3>1 DEF SameHistory, Said, ReportedStatus
    <2>3. ASSUME row'[m] = row[m]
          PROVE  /\ Said(m)' = Said(m)
                 /\ row'[m].finished = row[m].finished
                 /\ row'[m].detail.contract = row[m].detail.contract
        BY <1>1, <2>3 DEF Said, ReportedStatus
    <2>4. CASE DeliverComment \/ DeployContract
        BY <2>3, <2>4 DEF DeliverComment, DeployContract
    <2>5. ASSUME NEW h \in Heads, AdmitCommit(h),
                 row' = [row EXCEPT ![h] = AdmittedRow(h)]
          PROVE  row'[m] = row[m]
        <3>1. Status(h) \in {"absent", "failed"}
            BY <2>5, DurableAdmitWrite
        <3>2. h # m
            BY <2>1, <3>1, SaidCases DEF Finished
        <3> QED
            BY <2>1, <2>5, <3>2 DEF BaseInv, TypeOK
    <2>6. CASE ProcessFinish
        <3>1. PICK h \in Heads : /\ Said(h) = "pending"
                                 /\ \A k \in Heads : k # h => row'[k] = row[k]
            BY <2>6, FinishesLast
        <3> QED
            BY <2>1, <2>3, <3>1
    <2> QED
        BY <2>2, <2>3, <2>4, <2>5, <2>6, StepKinds
<1>2. CASE Delivering /\ delivery.lead /\ row' = row /\ main' = Registry
    BY <1>2, LeadSpeaks DEF RegistryNamesResult, Registry, Said, ReportedStatus
<1> QED
    BY <1>1, <1>2, RegistryMoves

(* While a delivery runs, no row becomes verified but by its own commit.   *)
LEMMA CallsKept ==
    ASSUME BaseInv, DurableInv, CallsFollowLead,
           Delivering, contract' = contract,
           delivery'.head = delivery.head, delivery'.lead = delivery.lead,
           \A k \in Heads : \/ row'[k] = row[k]
                            \/ /\ row'[k].status # "verified"
                               /\ k = delivery.head =>
                                      row'[k].detail.contract = row[k].detail.contract
    PROVE  CallsFollowLead'
<1> DEFINE h == delivery.head
<1> SUFFICES ASSUME delivery.lead, Current(row[h])'
             PROVE  /\ \A r \in TrackRecords' \ {h} : Leads(Metric[h], Metric[r])
                    /\ row'[h].status = "verified" => row'[h].record
    BY DEF CallsFollowLead, Status
<1>1. h \in Heads
    BY DEF BaseInv, CommentIds
<1>2. Current(row[h])
    BY <1>1 DEF Current
<1>3. TrackRecords' \subseteq TrackRecords
    BY DEF TrackRecords, Status, Current
<1> QED
    BY <1>1, <1>2, <1>3 DEF CallsFollowLead, Status

LEMMA CallsFollow ==
    ASSUME BaseInv, SafeInv, DurableInv, ~ClockRollback, [Next]_vars,
           CallsFollowLead
    PROVE  CallsFollowLead'
<1>1. ASSUME delivery' = delivery, UNCHANGED <<row, contract>>
      PROVE  CallsFollowLead'
    BY <1>1 DEF CallsFollowLead, Delivering, Current, TrackRecords, Status
<1>2. ASSUME ~Delivering'
      PROVE  CallsFollowLead'
    BY <1>2 DEF CallsFollowLead
<1>3. ASSUME NEW h \in Heads, AdmitCheck(h) \/ AdmitRetain(h) \/ WorkerPick(h)
      PROVE  CallsFollowLead'
    BY <1>1, <1>3 DEF AdmitCheck, BeginHandler, AdmitRetain, WorkerPick
<1>4. CASE WorkerCrash \/ WebStart \/ UNCHANGED vars
    BY <1>1, <1>4 DEF WorkerCrash, WebStart, vars
<1>5. ASSUME NEW h \in Heads, AdmitCommit(h)
      PROVE  CallsFollowLead'
    <2>1. delivery' = delivery /\ contract' = contract
        BY <1>5 DEF AdmitCommit
    <2>2. CASE UNCHANGED row
        BY <1>1, <2>1, <2>2
    <2>3. CASE row' = [row EXCEPT ![h] = AdmittedRow(h)] /\ ~(Delivering /\ delivery.lead)
        BY <2>1, <2>3 DEF CallsFollowLead, Delivering
    <2>4. CASE row' = [row EXCEPT ![h] = AdmittedRow(h)] /\ Delivering /\ delivery.lead
        <3>1. Status(h) \in {"absent", "failed"}
            BY <1>5, <2>4, DurableAdmitWrite
        <3>2. h # delivery.head
            BY <2>4, <3>1, LeadSpeaks, SaidCases DEF Finished
        <3>3. \A k \in Heads : k # h => row'[k] = row[k]
            BY <2>4 DEF BaseInv, TypeOK
        <3>4. row'[h].status = "admitting"
            BY <2>4 DEF BaseInv, TypeOK, AdmittedRow
        <3> QED
            BY <2>1, <2>4, <3>2, <3>3, <3>4, CallsKept
    <2> QED
        BY <1>5, <2>2, <2>3, <2>4 DEF AdmitCommit
<1>6. ASSUME NEW h \in Heads, DeliverStart(h)
      PROVE  CallsFollowLead'
    <2>1. /\ UNCHANGED <<row, contract>>
          /\ delivery'.head = h
          /\ delivery'.lead = MayPublishSnapshot(h)
        BY <1>6 DEF DeliverStart, DeliveryIdle
    <2> SUFFICES ASSUME MayPublishSnapshot(h)
                 PROVE  /\ \A r \in TrackRecords \ {h} : Leads(Metric[h], Metric[r])
                        /\ Status(h) = "verified" => row[h].record
        BY <2>1 DEF CallsFollowLead, TrackRecords, Status, Current
    <2> QED
        BY DEF MayPublishSnapshot, TakesLead, Entry, ReportedRecord
<1>7. CASE DeliverComment \/ DeliverSupplement \/ DeliverReread
    <2>1. /\ UNCHANGED <<row, contract>>
          /\ Delivering
        BY <1>7 DEF DeliverComment, DeliverSupplement, DeliverReread, Delivering
    <2>2. CASE delivery' = DeliveryIdle
        BY <1>2, <2>2 DEF Delivering, DeliveryIdle
    <2>3. CASE delivery'.head = delivery.head /\ delivery'.lead = delivery.lead
        BY <2>1, <2>3, CallsKept
    <2>4. delivery \in Deliveries
        BY DEF BaseInv, TypeOK
    <2>5. \/ delivery' = DeliveryIdle
          \/ delivery'.head = delivery.head /\ delivery'.lead = delivery.lead
        <3>1. CASE DeliverComment
            BY <2>4, <3>1 DEF DeliverComment, Deliveries
        <3>2. CASE DeliverSupplement
            BY <3>2, SupplementKeeps
        <3>3. CASE DeliverReread
            BY <2>4, <3>3 DEF DeliverReread, Deliveries
        <3> QED
            BY <1>7, <3>1, <3>2, <3>3
    <2> QED
        BY <2>2, <2>3, <2>5
<1>8. CASE DeliverCommit \/ WebCrash
    BY <1>2, <1>8 DEF DeliverCommit, WebCrash, Delivering, DeliveryIdle
<1>9. CASE WorkerStart
    <2>1. /\ delivery' = delivery /\ contract' = contract
          /\ row' = Requeued
        BY <1>9 DEF WorkerStart
    <2>2. \A k \in Heads : \/ row'[k] = row[k]
                           \/ /\ row'[k].status # "verified"
                              /\ row'[k].detail.contract = row[k].detail.contract
        BY <2>1, RowFacts DEF Requeued, Rows
    <2>3. CASE Delivering
        BY <2>1, <2>2, <2>3, CallsKept
    <2>4. CASE ~Delivering
        BY <1>2, <2>1, <2>4 DEF Delivering
    <2> QED
        BY <2>3, <2>4
<1>10. CASE ProcessBegin \/ ProcessFinish \/ ResyncBegin
    BY <1>2, <1>10 DEF ProcessBegin, ProcessFinish, ResyncBegin, ResultsFree, Delivering
<1>11. CASE ResyncEnd \/ (\E h \in Heads, c \in Contracts : ResyncImport(h, c))
    <2>1. delivery' = delivery /\ Recovering
        BY <1>11 DEF ResyncEnd, ResyncImport, Recovering
    <2>2. ~Delivering
        BY <2>1 DEF BaseInv, RecoveryReads, ResultsFree, Delivering
    <2> QED
        BY <1>2, <2>1, <2>2 DEF Delivering
<1>12. CASE DeployContract
    <2>1. UNCHANGED <<row, delivery>> /\ contract' = contract + 1
        BY <1>12 DEF DeployContract
    <2>2. Delivering => delivery.head \in Heads
        BY DEF BaseInv, CommentIds
    <2>3. \A k \in Heads : ~Current(row[k])'
        BY <2>1, ContractTypes DEF DurableInv, HistoryInv, OldContracts, Current
    <2> QED
        BY <2>1, <2>2, <2>3 DEF CallsFollowLead, Delivering
<1> QED
    BY <1>3, <1>4, <1>5, <1>6, <1>7, <1>8, <1>9, <1>10, <1>11, <1>12 DEF Next

LEMMA CallerInit == Init => CallerInv
<1> SUFFICES ASSUME Init PROVE CallerInv
    OBVIOUS
<1>1. \A h \in Heads : Said(h) # "verified"
    BY DEF Init, Said, ReportedStatus, AbsentRow
<1>2. ~Delivering /\ main.head = NoHead
    BY DEF Init, Delivering, DeliveryIdle, NoRegistry
<1> QED
    BY <1>1, <1>2 DEF CallerInv, ResultsInOrder, RegistryNamesResult, CallsFollowLead

(* The invariant behind the calls of publish_record, for the whole service *)
(* with its handlers, worker, resyncs and crashes.                         *)
THEOREM CallerInvariant ==
    ASSUME ~ClockRollback
    PROVE  Spec => []CallerInv
<1>1. BaseInv /\ BaseInv' /\ SafeInv /\ DurableInv /\ CallerInv /\ [Next]_vars
          => CallerInv'
    BY ResultsStayInOrder, RegistryStaysTrue, CallsFollow DEF CallerInv
<1> QED
    BY <1>1, CallerInit, BaseInvariant, SafeInvariant, DurableInvariant, PTL DEF Spec

(* Two verified results never have the same completion time, and those of  *)
(* a later contract complete later, across restarts of the worker and of   *)
(* the contract (worker.next_finish_time).  RecordSnapshot assumes this of *)
(* the results it is called with (Registry!ResultsOrdered).                *)
THEOREM ResultsCompleteInOrder ==
    ASSUME ~ClockRollback
    PROVE  Spec => []ResultsInOrder
<1>1. CallerInv => ResultsInOrder
    BY DEF CallerInv
<1> QED
    BY <1>1, CallerInvariant, PTL

(* The entry of records.json is that of a head whose verdict is verified   *)
(* now, with its completion time and contract, although the row, the       *)
(* comment and the registry are written by different calls that may fail   *)
(* one by one (record_snapshot._entry, worker.report).                     *)
THEOREM RegistryNamesItsResult ==
    ASSUME ~ClockRollback
    PROVE  Spec => []RegistryNamesResult
<1>1. CallerInv => RegistryNamesResult
    BY DEF CallerInv
<1> QED
    BY <1>1, CallerInvariant, PTL

(* From the decision to the commit, with a comment call in between, the    *)
(* head that publish_record is called for leads every other record of the  *)
(* deployed contract, and is one of them or the one later result that      *)
(* waits; and records.json never holds another entry of the same           *)
(* submission, so the call is not refused (worker.takes_lead,              *)
(* record_snapshot.publish_record).                                        *)
THEOREM SnapshotCallsAreInOrder ==
    ASSUME ~ClockRollback
    PROVE  Spec => []SnapshotCallsInOrder
<1>1. BaseInv /\ SafeInv /\ DurableInv /\ CallerInv => SnapshotCallsInOrder
    <2> DEFINE h == delivery.head
    <2> SUFFICES ASSUME BaseInv, SafeInv, DurableInv, CallerInv,
                        Delivering, delivery.lead, Current(row[h])
                 PROVE  /\ ~RegistryConflict
                        /\ \A r \in TrackRecords \ {h} : Leads(Metric[h], Metric[r])
                        /\ \/ h \in TrackRecords
                           \/ /\ Status(h) = "publishing"
                              /\ \A r \in TrackRecords :
                                    row[r].finished < row[h].finished
        BY DEF SnapshotCallsInOrder, Delivering
    <2>1. /\ h \in Heads /\ h # NoHead
          /\ Said(h) = "verified"
          /\ delivery.body.finished = row[h].finished
          /\ delivery.body.contract = row[h].detail.contract
        BY LeadSpeaks, HeadsAssumption
    <2>2. ~RegistryConflict
        <3> SUFFICES ASSUME main.head = h
                     PROVE  main = Registry
            BY DEF RegistryConflict
        <3>1. /\ main.finished = row[h].finished
              /\ main.contract = row[h].detail.contract
            BY <2>1 DEF CallerInv, RegistryNamesResult
        <3>2. main \in [head : Heads \cup {NoHead}, finished : Nat,
                        contract : Contracts \cup {0}]
            BY DEF BaseInv, TypeOK
        <3> QED
            BY <2>1, <3>1, <3>2 DEF Registry
    <2>3. \A r \in TrackRecords \ {h} : Leads(Metric[h], Metric[r])
        BY DEF CallerInv, CallsFollowLead
    <2>4. CASE Status(h) = "publishing"
        BY <2>1, <2>2, <2>3, <2>4 DEF SafeInv, WaitingIsLast, TrackRecords
    <2>5. CASE Status(h) = "verified"
        BY <2>1, <2>2, <2>3, <2>5 DEF CallerInv, CallsFollowLead, TrackRecords
    <2> QED
        BY <2>1, <2>4, <2>5, SaidCases DEF Finished
<1> QED
    BY <1>1, BaseInvariant, SafeInvariant, DurableInvariant, CallerInvariant, PTL

(***************************************************************************)
(* The registry and the flag record_snapshot                               *)
(***************************************************************************)

(* The running delivery carries the flag only for a head that records.json *)
(* names or has passed over for a better one.                              *)
CallRemembered ==
    Delivering /\ delivery.snapshot /\ Current(row[delivery.head]) =>
        Snapshotted(delivery.head)

SnapshotInv ==
    /\ main.head = NoHead => main = NoRegistry
    /\ RegistryLeads
    /\ SnapshotFlagIsTrue
    /\ CallRemembered

LEMMA LeadsTransitive ==
    ASSUME NEW a \in Heads, NEW b \in Heads, NEW c \in Heads,
           Leads(Metric[a], Metric[b]), Leads(Metric[b], Metric[c])
    PROVE  Leads(Metric[a], Metric[c])
<1>1. \A h \in Heads : Metric[h].sigma \in Nat /\ Score(Metric[h]) \in Nat
    BY MetricAssumption DEF Metrics, Score
<1> QED
    BY <1>1 DEF Leads

(* Of the other public records, those that wait for their own delivery     *)
(* complete after the head of a snapshot call; it leads all others.        *)
LEMMA LastIsLead ==
    ASSUME BaseInv, SafeInv, DurableInv, CallsFollowLead,
           Delivering, delivery.lead, Current(row[delivery.head]),
           NEW r \in PublicRecords \ {delivery.head},
           row[r].finished < row[delivery.head].finished
    PROVE  Leads(Metric[delivery.head], Metric[r])
<1>1. delivery.head \in Heads
    BY DEF BaseInv, CommentIds
<1>2. /\ r \in Heads /\ r # delivery.head
      /\ Status(r) \in {"publishing", "verified"}
      /\ Current(row[r]) /\ Earns(r)
    BY RecordsSpeak DEF DurableInv
<1>3. Status(r) = "verified"
    <2>1. row[r].finished \in Nat /\ row[delivery.head].finished \in Nat
        BY <1>1, <1>2, RowFacts
    <2>2. Status(r) = "publishing" => row[delivery.head].finished < row[r].finished
        BY <1>1, <1>2 DEF SafeInv, WaitingIsLast
    <2> QED
        BY <1>2, <2>1, <2>2
<1>4. ~marker
    BY DEF DurableInv, MarkerStops, ResultsFree, Delivering
<1>5. r \in TrackRecords
    BY <1>2, <1>3, <1>4 DEF DurableInv, RowFlags, Finished, TrackRecords
<1> QED
    BY <1>2, <1>5 DEF CallsFollowLead

(* A call of publish_record for the lead leaves the head, and whatever was *)
(* settled before, named or passed over for a better one, and the entry    *)
(* leading what was completed before it.                                   *)
LEMMA CallSettles ==
    ASSUME BaseInv, SafeInv, DurableInv, CallerInv, SnapshotInv,
           delivery.pc = "supplement", delivery.lead,
           delivery.body.contract = contract, ~RegistryConflict,
           UNCHANGED <<row, comments, contract>>, main' = MainAfter
    PROVE  /\ RegistryLeads'
           /\ \A h \in Heads : h = delivery.head \/ Snapshotted(h) => Snapshotted(h)'
<1> DEFINE m == main.head
<1>0. PICK d \in Heads : d = delivery.head
    BY DEF BaseInv, CommentIds, Delivering
<1>1. /\ d # NoHead
      /\ Delivering
      /\ Said(d) = "verified"
      /\ delivery.body.finished = row[d].finished
      /\ row[d].detail.contract = contract /\ Current(row[d])
    BY <1>0, LeadSpeaks, HeadsAssumption DEF Delivering, Current
<1>2. /\ Registry.head = d
      /\ Registry.finished = row[d].finished
      /\ Registry.contract = contract
    BY <1>0, <1>1 DEF Registry
<1>3. \A r \in PublicRecords \ {d} :
          row[r].finished < row[d].finished => Leads(Metric[d], Metric[r])
    BY <1>0, <1>1, LastIsLead DEF CallerInv
<1>4. PublicRecords' = PublicRecords
    BY DEF PublicRecords
<1>5. contract \in Contracts /\ contract \in Nat /\ contract # 0
    BY EpochAssumption, ContractTypes DEF BaseInv, TypeOK
<1>6. m \in Heads \cup {NoHead} /\ main.finished \in Nat
    BY DEF BaseInv, TypeOK
<1>7. m = NoHead => main.contract # contract
    BY <1>5 DEF SnapshotInv, NoRegistry
<1>8. CASE main' = Registry
    <2>1. RegistryLeads'
        BY <1>2, <1>3, <1>4, <1>8 DEF RegistryLeads
    <2>2. Snapshotted(d)'
        BY <1>2, <1>8 DEF Snapshotted
    <2>3. ASSUME NEW h \in Heads, Snapshotted(h)
          PROVE  Snapshotted(h)'
        <3>1. m \in Heads /\ main.contract = contract
            BY <1>6, <1>7, <2>3 DEF Snapshotted
        <3>2. CASE m = d
            BY <1>0, <1>8, <2>3, <3>2 DEF RegistryConflict, Snapshotted
        <3>3. CASE m # d
            <4>1. CASE Leads(Metric[d], Metric[m])
                <5>1. d = h \/ Leads(Metric[d], Metric[h])
                    BY <1>1, <2>3, <3>1, <4>1, LeadsTransitive DEF Snapshotted
                <5> QED
                    BY <1>2, <1>8, <5>1 DEF Snapshotted
            <4>2. CASE main = Registry
                BY <1>2, <3>3, <4>2
            <4> QED
                BY <1>0, <1>2, <1>6, <1>8, <3>1, <3>3, <4>1, <4>2, HeadsAssumption
                   DEF MainAfter, Superseded
        <3> QED
            BY <3>2, <3>3
    <2> QED
        BY <1>0, <2>1, <2>2, <2>3
<1>9. CASE main' = main /\ main # Registry
    <2>1. /\ m \in Heads /\ m # NoHead /\ m # d
          /\ Superseded(main, Registry)
        BY <1>0, <1>6, <1>9 DEF MainAfter
    <2>2. /\ Said(m) = "verified"
          /\ main.finished = row[m].finished
          /\ main.contract = row[m].detail.contract
        BY <2>1 DEF CallerInv, RegistryNamesResult, Said
    <2>3. row[m].detail.contract <= contract /\ row[m].detail.contract \in Nat
        BY <2>1, ContractTypes DEF DurableInv, HistoryInv, OldContracts
    <2>4. row[m].finished \in Nat /\ row[d].finished \in Nat
        BY <1>1, <2>1, RowFacts
    <2>5. row[m].finished # row[d].finished
        BY <1>1, <2>1, <2>2 DEF CallerInv, ResultsInOrder
    <2>6. CASE main.finished >= row[d].finished
        <3>1. main.contract = contract
            <4>1. ~(row[m].detail.contract < row[d].detail.contract)
                BY <1>1, <2>1, <2>2, <2>4, <2>6 DEF CallerInv, ResultsInOrder
            <4> QED
                BY <1>1, <1>5, <2>2, <2>3, <4>1
        <3>2. d \in PublicRecords
            <4>1. /\ delivery.body.record
                  /\ delivery.cid # 0
                BY <1>1 DEF DurableInv, DeliveryReports
            <4>2. comments[d][delivery.cid] = delivery.body
                BY <1>0, <1>1, <4>1 DEF SafeInv, DeliveryFollowsRow
            <4>3. delivery.cid \in 1 .. Len(comments[d])
                <5>1. delivery.cid \in Nat /\ delivery.cid <= Len(comments[d])
                    BY <1>0, <1>1 DEF BaseInv, TypeOK, CommentIds, Deliveries
                <5> QED
                    BY <1>1, <4>1, <5>1, CommentDomain
            <4> QED
                BY <1>1, <4>1, <4>2, <4>3, RecordsAreComments
        <3>3. row[d].finished < main.finished
            BY <2>2, <2>4, <2>5, <2>6
        <3>4. Leads(Metric[m], Metric[d])
            BY <2>1, <3>1, <3>2, <3>3 DEF SnapshotInv, RegistryLeads
        <3>5. RegistryLeads'
            <4>1. RegistryLeads
                BY DEF SnapshotInv
            <4> QED
                BY <1>4, <1>9, <4>1 DEF RegistryLeads
        <3>6. \A h \in Heads : Snapshotted(h)' <=> Snapshotted(h)
            BY <1>9 DEF Snapshotted
        <3>7. Snapshotted(d)
            BY <3>1, <3>4 DEF Snapshotted
        <3> QED
            BY <1>0, <3>5, <3>6, <3>7
    <2>7. CASE ~(main.finished >= row[d].finished)
        <3>1. main.contract = contract /\ ~Leads(Metric[d], Metric[m])
            BY <1>2, <2>1, <2>7 DEF Superseded
        <3>2. m \in PublicRecords
            <4>1. \E i \in DOMAIN comments[m] :
                      /\ comments[m][i].contract = main.contract
                      /\ comments[m][i].contract = contract => comments[m][i].record
                BY <2>1 DEF DurableInv, HistoryInv, MainIsDurable
            <4> QED
                BY <2>1, <3>1, <4>1 DEF PublicRecords
        <3>3. row[m].finished < row[d].finished
            BY <2>2, <2>4, <2>7
        <3> QED
            BY <1>3, <2>1, <3>1, <3>2, <3>3
    <2> QED
        BY <2>6, <2>7
<1> QED
    BY <1>8, <1>9 DEF MainAfter

(* records.json and the flag of the running delivery after a step.         *)
LEMMA SnapshotMoves ==
    ASSUME BaseInv, SafeInv, DurableInv, CallerInv, SnapshotInv, [Next]_vars
    PROVE  \/ main' = main
           \/ /\ DeliverSupplement
              /\ RegistryLeads'
              /\ main'.head # NoHead
              /\ \A h \in Heads :
                    h = delivery.head \/ Snapshotted(h) => Snapshotted(h)'
<1>1. CASE DeliverSupplement
    <2> DEFINE publish == delivery.lead /\ delivery.body.contract = contract
    <2>1. CASE publish /\ ~RegistryConflict /\ main' = MainAfter
        <3>1. /\ delivery.pc = "supplement"
              /\ UNCHANGED <<row, comments, contract>>
            BY <1>1 DEF DeliverSupplement
        <3>2. delivery.head \in Heads
            BY <3>1 DEF BaseInv, CommentIds, Delivering
        <3>3. MainAfter.head # NoHead
            BY <3>2, HeadsAssumption DEF MainAfter, Registry
        <3> QED
            BY <1>1, <2>1, <3>1, <3>3, CallSettles
    <2>2. main' = main \/ (publish /\ ~RegistryConflict /\ main' = MainAfter)
        BY <1>1 DEF DeliverSupplement
    <2> QED
        BY <2>1, <2>2
<1> QED
    BY <1>1, OnlyCallsMoveRegistry

(* A delivery comes to the flag only by a call that found no conflict.     *)
LEMMA SnapshotIsCalled ==
    ASSUME BaseInv, DeliverSupplement, delivery'.snapshot, ~delivery.snapshot
    PROVE  /\ delivery.lead /\ delivery.body.contract = contract
           /\ ~RegistryConflict /\ main' = MainAfter
<1> DEFINE publish == delivery.lead /\ delivery.body.contract = contract
<1>0. delivery \in Deliveries
    BY DEF BaseInv, TypeOK
<1>1. CASE /\ ~(publish /\ RegistryConflict)
           /\ main' = IF publish THEN MainAfter ELSE main
           /\ delivery' = [delivery EXCEPT !.pc = "reread",
                                           !.snapshot = @ \/ publish]
    <2>1. publish
        BY <1>0, <1>1 DEF Deliveries
    <2> QED
        BY <1>1, <2>1
<1>2. CASE delivery' = [delivery EXCEPT !.pc = "reread", !.error = TRUE]
    BY <1>0, <1>2 DEF Deliveries
<1>3. CASE publish /\ ~RegistryConflict /\ main' = MainAfter
    BY <1>3
<1> QED
    BY <1>1, <1>2, <1>3 DEF DeliverSupplement

(* The public records after a step: those of before, and the head whose    *)
(* comment is written, if its verdict waited; a new contract has none.     *)
LEMMA RecordsMove ==
    ASSUME BaseInv, BaseInv', SafeInv, DurableInv, ~ClockRollback, [Next]_vars
    PROVE  \A r \in PublicRecords' :
               /\ r \in Heads
               /\ contract' = contract
               /\ row'[r].finished = row[r].finished
               /\ r \in PublicRecords \/ Status(r) = "publishing"
<1> SUFFICES ASSUME NEW r \in PublicRecords'
             PROVE  /\ r \in Heads
                    /\ contract' = contract
                    /\ row'[r].finished = row[r].finished
                    /\ r \in PublicRecords \/ Status(r) = "publishing"
    OBVIOUS
<1>0. r \in Heads
    BY DEF PublicRecords
<1>1. CASE SameHistory /\ UNCHANGED <<comments, contract>>
    BY <1>0, <1>1 DEF SameHistory, PublicRecords
<1>2. CASE DeliverComment
    <2>1. /\ UNCHANGED <<row, contract>> /\ Delivering
          /\ comments' \in {comments, WithComment}
        BY <1>2 DEF DeliverComment, Delivering
    <2>2. CASE comments' = comments
        BY <1>0, <2>1, <2>2 DEF PublicRecords
    <2>3. CASE comments' = WithComment
        <3>1. r \in PublicRecords \/ (NewRecord /\ r = delivery.head)
            BY <2>1, <2>3, RecordsAfterComment
        <3> QED
            BY <1>0, <2>1, <3>1, NewRecordWaits
    <2> QED
        BY <2>1, <2>2, <2>3
<1>3. ASSUME NEW h \in Heads, AdmitCommit(h),
             row' = [row EXCEPT ![h] = AdmittedRow(h)]
      PROVE  /\ contract' = contract
             /\ row'[r].finished = row[r].finished
             /\ r \in PublicRecords
    <2>1. Status(h) \in {"absent", "failed"} /\ PublicRecords' = PublicRecords
        BY <1>3, DurableAdmitWrite
    <2>2. r # h
        BY <2>1, RecordsSpeak DEF DurableInv
    <2> QED
        BY <1>0, <1>3, <2>1, <2>2 DEF AdmitCommit, BaseInv, TypeOK
<1>4. CASE ProcessFinish
    <2>1. UNCHANGED <<comments, contract>>
        BY <1>4 DEF ProcessFinish
    <2>2. r \in PublicRecords
        BY <2>1 DEF PublicRecords
    <2>3. PICK h \in Heads : /\ Said(h) = "pending"
                             /\ \A k \in Heads : k # h => row'[k] = row[k]
        BY <1>4, FinishesLast
    <2>4. r # h
        BY <2>2, <2>3, RecordsSpeak DEF DurableInv
    <2> QED
        BY <1>0, <2>1, <2>2, <2>3, <2>4
<1>5. CASE DeployContract
    BY <1>5, DurableDeployContract
<1> QED
    BY <1>0, <1>1, <1>2, <1>3, <1>4, <1>5, StepKinds

LEMMA RegistryStaysLead ==
    ASSUME BaseInv, BaseInv', SafeInv, DurableInv, CallerInv, SnapshotInv,
           ~ClockRollback, [Next]_vars
    PROVE  RegistryLeads'
<1>1. CASE main' = main
    <2> DEFINE m == main.head
    <2> SUFFICES ASSUME main.contract = contract',
                        NEW r \in PublicRecords', r # m,
                        row'[r].finished < main.finished
                 PROVE  Leads(Metric[m], Metric[r])
        BY <1>1 DEF RegistryLeads
    <2>1. /\ r \in Heads
          /\ contract' = contract
          /\ row'[r].finished = row[r].finished
          /\ r \in PublicRecords \/ Status(r) = "publishing"
        BY RecordsMove
    <2>2. CASE r \in PublicRecords
        BY <2>1, <2>2 DEF SnapshotInv, RegistryLeads
    <2>3. CASE Status(r) = "publishing"
        <3>1. m \in Heads
            <4>1. contract \in Contracts /\ 0 \notin Contracts
                BY EpochAssumption DEF BaseInv, TypeOK
            <4>2. m # NoHead
                BY <2>1, <4>1 DEF SnapshotInv, NoRegistry
            <4> QED
                BY <4>2 DEF BaseInv, TypeOK
        <3>2. m # NoHead
            BY <3>1, HeadsAssumption
        <3>3. main.finished = row[m].finished
            BY <3>2 DEF CallerInv, RegistryNamesResult
        <3>4. row[m].finished < row[r].finished
            BY <2>1, <2>3, <3>1 DEF SafeInv, WaitingIsLast
        <3>5. row[m].finished \in Nat /\ row[r].finished \in Nat
            BY <2>1, <3>1, RowFacts
        <3> QED
            BY <2>1, <3>3, <3>4, <3>5
    <2> QED
        BY <2>1, <2>2, <2>3
<1> QED
    BY <1>1, SnapshotMoves

(* A flag in a row was there before the step, for the same contract, or    *)
(* comes from the running delivery.                                        *)
LEMMA FlagsMove ==
    ASSUME BaseInv, SafeInv, DurableInv, ~ClockRollback, [Next]_vars, NEW h \in Heads
    PROVE  row'[h].detail.snapshot =>
               /\ row'[h].detail.contract = row[h].detail.contract
               /\ \/ row[h].detail.snapshot
                  \/ /\ DeliverCommit /\ Delivering
                     /\ h = delivery.head /\ delivery.snapshot
<1>1. CASE row'[h] = row[h]
    BY <1>1
<1>2. ASSUME NEW k \in Heads,
             AdmitCheck(k) \/ AdmitRetain(k) \/ DeliverStart(k) \/ WorkerPick(k)
      PROVE  row' = row
    BY <1>2 DEF AdmitCheck, BeginHandler, AdmitRetain, DeliverStart, WorkerPick
<1>3. ASSUME DeliverComment \/ DeliverSupplement \/ DeliverReread \/ WorkerCrash
             \/ ResyncBegin \/ WebStart \/ WebCrash \/ DeployContract
             \/ UNCHANGED vars
      PROVE  row' = row
    BY <1>3 DEF DeliverComment, DeliverSupplement, DeliverReread, WorkerCrash,
                ResyncBegin, WebStart, WebCrash, DeployContract, vars
<1>4. ASSUME NEW k \in Heads, AdmitCommit(k)
      PROVE  row'[h] = row[h] \/ row'[h].detail.snapshot = FALSE
    BY <1>4 DEF AdmitCommit, AdmittedRow, BaseInv, TypeOK
<1>5. CASE DeliverCommit
    <2>1. PICK k \in Heads, r \in Rows :
              /\ k = delivery.head
              /\ row' = [row EXCEPT ![k] = r]
              /\ r.detail.contract = row[k].detail.contract
              /\ r.detail.snapshot => row[k].detail.snapshot \/ delivery.snapshot
        BY <1>5, DeliveredRow
    <2>2. row'[h] = IF h = k THEN r ELSE row[h]
        BY <2>1 DEF BaseInv, TypeOK
    <2>3. Delivering
        BY <1>5 DEF DeliverCommit, Delivering
    <2> QED
        BY <1>5, <2>1, <2>2, <2>3
<1>6. ASSUME WorkerStart \/ ProcessBegin \/ ProcessFinish \/ ResyncEnd
      PROVE  /\ row'[h].detail.snapshot = row[h].detail.snapshot
             /\ row'[h].detail.contract = row[h].detail.contract
    <2>0. row[h] \in Rows /\ row[h].detail \in Details
        BY RowFacts DEF Rows
    <2>1. CASE WorkerStart
        BY <2>0, <2>1 DEF WorkerStart, Requeued, Rows
    <2>2. CASE ProcessBegin
        <3>1. row'[h] = row[h]
              \/ row'[h] = [row[h] EXCEPT !.status = "verifying"]
            BY <2>2 DEF ProcessBegin, BaseInv, TypeOK
        <3> QED
            BY <2>0, <3>1 DEF Rows
    <2>3. CASE ProcessFinish
        <3>1. PICK now \in Readings, result \in Results :
                  row' = [row EXCEPT ![job.head].status         = "publishing",
                                     ![job.head].finished       = NextFinishTime(now),
                                     ![job.head].record         = FALSE,
                                     ![job.head].detail.verdict = result]
            BY <2>3 DEF ProcessFinish
        <3>2. row'[h] = row[h]
              \/ row'[h] = [row[h] EXCEPT !.status         = "publishing",
                                          !.finished       = NextFinishTime(now),
                                          !.record         = FALSE,
                                          !.detail.verdict = result]
            BY <3>1 DEF BaseInv, TypeOK
        <3>3. row'[h].detail = row[h].detail
              \/ row'[h].detail = [row[h].detail EXCEPT !.verdict = result]
            BY <2>0, <3>2 DEF Rows
        <3> QED
            BY <2>0, <3>3 DEF Details
    <2>4. CASE ResyncEnd
        BY <2>0, <2>4 DEF ResyncEnd, WithRecords, Rows
    <2> QED
        BY <1>6, <2>1, <2>2, <2>3, <2>4
<1>7. ASSUME NEW k \in Heads, NEW c \in Contracts, ResyncImport(k, c)
      PROVE  row'[h] = row[h] \/ row'[h].detail.snapshot = FALSE
    BY <1>7, ImportKeeps
<1> QED
    BY <1>1, <1>2, <1>3, <1>4, <1>5, <1>6, <1>7 DEF Next

(* What was settled stays settled while its contract is deployed.          *)
LEMMA SettledStays ==
    ASSUME BaseInv, SafeInv, DurableInv, CallerInv, SnapshotInv, [Next]_vars,
           contract' = contract, NEW h \in Heads, Snapshotted(h)
    PROVE  Snapshotted(h)'
<1>1. CASE main' = main
    BY <1>1 DEF Snapshotted
<1> QED
    BY <1>1, SnapshotMoves

(* Only a deployment changes the contract.                                 *)
LEMMA OnlyDeployMovesContract ==
    ASSUME [Next]_vars, ~DeployContract
    PROVE  contract' = contract
<1>1. ASSUME NEW h \in Heads,
             \/ AdmitCheck(h) \/ AdmitRetain(h) \/ AdmitCommit(h)
             \/ DeliverStart(h) \/ WorkerPick(h)
             \/ \E c \in Contracts : ResyncImport(h, c)
      PROVE  contract' = contract
    BY <1>1 DEF AdmitCheck, BeginHandler, AdmitRetain, AdmitCommit,
                DeliverStart, WorkerPick, ResyncImport
<1>2. ASSUME DeliverComment \/ DeliverSupplement \/ DeliverReread
             \/ DeliverCommit \/ WorkerStart \/ ProcessBegin \/ ProcessFinish
             \/ WorkerCrash \/ ResyncBegin \/ ResyncEnd \/ WebStart \/ WebCrash
             \/ UNCHANGED vars
      PROVE  contract' = contract
    BY <1>2 DEF DeliverComment, DeliverSupplement, DeliverReread, DeliverCommit,
                WorkerStart, ProcessBegin, ProcessFinish, WorkerCrash,
                ResyncBegin, ResyncEnd, WebStart, WebCrash, vars
<1> QED
    BY <1>1, <1>2 DEF Next

(* After a deployment no head is of the deployed contract.                 *)
LEMMA SameContract ==
    ASSUME BaseInv, DurableInv, [Next]_vars, NEW h \in Heads,
           row'[h].detail.contract = row[h].detail.contract,
           row'[h].detail.contract = contract'
    PROVE  contract' = contract /\ Current(row[h])
<1>1. CASE DeployContract
    <2>1. contract' = contract + 1
        BY <1>1 DEF DeployContract
    <2>2. row[h].detail.contract <= contract
        BY DEF DurableInv, HistoryInv, OldContracts
    <2>3. row[h].detail.contract \in Nat /\ contract \in Nat
        BY ContractTypes
    <2> QED
        BY <2>1, <2>2, <2>3
<1>2. CASE ~DeployContract
    BY <1>2, OnlyDeployMovesContract DEF Current
<1> QED
    BY <1>1, <1>2

LEMMA FlagStaysTrue ==
    ASSUME BaseInv, SafeInv, DurableInv, CallerInv, SnapshotInv,
           ~ClockRollback, [Next]_vars
    PROVE  SnapshotFlagIsTrue'
<1> SUFFICES ASSUME NEW h \in Heads, row'[h].detail.snapshot,
                    row'[h].detail.contract = contract'
             PROVE  Snapshotted(h)'
    BY DEF SnapshotFlagIsTrue, Current
<1>1. /\ row'[h].detail.contract = row[h].detail.contract
      /\ \/ row[h].detail.snapshot
         \/ Delivering /\ h = delivery.head /\ delivery.snapshot
    BY FlagsMove
<1>2. contract' = contract /\ Current(row[h])
    BY <1>1, SameContract
<1>3. Snapshotted(h)
    BY <1>1, <1>2 DEF SnapshotInv, SnapshotFlagIsTrue, CallRemembered
<1> QED
    BY <1>2, <1>3, SettledStays

(* A delivery takes the flag from the row it reads, or from its call.      *)
LEMMA CallStaysRemembered ==
    ASSUME BaseInv, BaseInv', SafeInv, DurableInv, CallerInv, SnapshotInv,
           ~ClockRollback, [Next]_vars
    PROVE  CallRemembered'
<1> SUFFICES ASSUME Delivering', delivery'.snapshot,
                    NEW d \in Heads, d = delivery'.head,
                    row'[d].detail.contract = contract'
             PROVE  Snapshotted(d)'
    BY DEF CallRemembered, Current, Snapshotted, BaseInv, CommentIds
<1>1. ASSUME row'[d].detail.contract = row[d].detail.contract,
             Current(row[d]) => Snapshotted(d)
      PROVE  Snapshotted(d)'
    <2>1. contract' = contract /\ Current(row[d])
        BY <1>1, SameContract
    <2> QED
        BY <1>1, <2>1, SettledStays
<1>2. ASSUME delivery' = delivery,
             row'[d].detail.contract = row[d].detail.contract
      PROVE  Snapshotted(d)'
    <2>1. Delivering
        BY <1>2 DEF Delivering
    <2> QED
        BY <1>1, <1>2, <2>1 DEF SnapshotInv, CallRemembered
<1>3. ASSUME NEW h \in Heads, DeliverStart(h)
      PROVE  Snapshotted(d)'
    <2>1. row' = row /\ d = h /\ row[h].detail.snapshot
        BY <1>3 DEF DeliverStart, DeliveryIdle
    <2> QED
        BY <1>1, <2>1 DEF SnapshotInv, SnapshotFlagIsTrue
<1>4. CASE DeliverComment \/ DeliverReread
    <2>1. /\ row' = row /\ Delivering
          /\ d = delivery.head /\ delivery'.snapshot = delivery.snapshot
        <3>1. delivery \in Deliveries
            BY DEF BaseInv, TypeOK
        <3>2. CASE DeliverComment
            BY <3>1, <3>2 DEF DeliverComment, Delivering, Deliveries
        <3>3. CASE DeliverReread
            <4>1. delivery' # DeliveryIdle
                BY DEF DeliveryIdle
            <4> QED
                BY <3>1, <3>3, <4>1 DEF DeliverReread, Delivering, Deliveries
        <3> QED
            BY <1>4, <3>2, <3>3
    <2> QED
        BY <1>1, <2>1 DEF SnapshotInv, CallRemembered
<1>5. CASE DeliverSupplement
    <2>1. row' = row /\ Delivering /\ d = delivery.head
        BY <1>5, SupplementKeeps DEF DeliverSupplement, Delivering
    <2>2. CASE delivery.snapshot
        BY <1>1, <2>1, <2>2 DEF SnapshotInv, CallRemembered
    <2>3. CASE ~delivery.snapshot
        <3>1. /\ delivery.pc = "supplement" /\ delivery.lead
              /\ delivery.body.contract = contract
              /\ ~RegistryConflict /\ main' = MainAfter
              /\ UNCHANGED <<row, comments, contract>>
            BY <1>5, <2>3, SnapshotIsCalled DEF DeliverSupplement
        <3>2. \A h \in Heads : h = delivery.head => Snapshotted(h)'
            BY <3>1, CallSettles
        <3> QED
            BY <2>1, <3>2
    <2> QED
        BY <2>2, <2>3
<1>6. CASE DeliverCommit \/ WebCrash
    BY <1>6 DEF DeliverCommit, WebCrash, Delivering, DeliveryIdle
<1>7. CASE DeployContract
    BY <1>2, <1>7 DEF DeployContract
<1>8. ASSUME NEW h \in Heads, AdmitCommit(h),
             row' = [row EXCEPT ![h] = AdmittedRow(h)]
      PROVE  Snapshotted(d)'
    <2>1. delivery' = delivery /\ Delivering
        BY <1>8 DEF AdmitCommit, Delivering
    <2>2. Said(d) = "verified"
        BY <2>1 DEF DurableInv, DeliveryReports, BodySpeaks, BodyIsPast
    <2>3. Status(h) \in {"absent", "failed"}
        BY <1>8, DurableAdmitWrite
    <2>4. d # h
        BY <2>2, <2>3, SaidCases DEF Finished
    <2>5. row'[d] = row[d]
        BY <1>8, <2>4 DEF BaseInv, TypeOK
    <2> QED
        BY <1>2, <2>1, <2>5
<1>9. CASE ProcessFinish \/ ProcessBegin \/ ResyncBegin
    <2>1. delivery' = delivery /\ ~Delivering
        BY <1>9 DEF ProcessFinish, ProcessBegin, ResyncBegin, ResultsFree, Delivering
    <2> QED
        BY <2>1 DEF Delivering
<1>10. CASE SameHistory /\ delivery' = delivery
    BY <1>2, <1>10 DEF SameHistory
<1>11. delivery' = delivery
       \/ (\E h \in Heads : DeliverStart(h))
       \/ DeliverComment \/ DeliverReread \/ DeliverSupplement
       \/ DeliverCommit \/ WebCrash
    <2>1. ASSUME NEW h \in Heads,
                 \/ AdmitCheck(h) \/ AdmitRetain(h) \/ AdmitCommit(h)
                 \/ WorkerPick(h) \/ \E c \in Contracts : ResyncImport(h, c)
          PROVE  delivery' = delivery
        BY <2>1 DEF AdmitCheck, BeginHandler, AdmitRetain, AdmitCommit,
                    WorkerPick, ResyncImport
    <2>2. ASSUME WorkerStart \/ ProcessBegin \/ ProcessFinish \/ WorkerCrash
                 \/ ResyncBegin \/ ResyncEnd \/ WebStart \/ DeployContract
                 \/ UNCHANGED vars
          PROVE  delivery' = delivery
        BY <2>2 DEF WorkerStart, ProcessBegin, ProcessFinish, WorkerCrash,
                    ResyncBegin, ResyncEnd, WebStart, DeployContract, vars
    <2> QED
        BY <2>1, <2>2 DEF Next
<1> QED
    BY <1>3, <1>4, <1>5, <1>6, <1>7, <1>8, <1>9, <1>10, <1>11, StepKinds

LEMMA SnapshotInit == Init => SnapshotInv
<1> SUFFICES ASSUME Init PROVE SnapshotInv
    OBVIOUS
<1>1. contract = 1 /\ main = NoRegistry /\ main.contract = 0
    BY DEF Init, NoRegistry
<1>2. \A h \in Heads : row[h].detail.snapshot = FALSE
    BY DEF Init, AbsentRow, NoDetail
<1>3. ~Delivering
    BY DEF Init, Delivering, DeliveryIdle
<1> QED
    BY <1>1, <1>2, <1>3 DEF SnapshotInv, RegistryLeads, SnapshotFlagIsTrue,
                            CallRemembered

(* The registry, the public records and the flags, for the whole service.  *)
THEOREM SnapshotInvariant ==
    ASSUME ~ClockRollback
    PROVE  Spec => []SnapshotInv
<1>1. BaseInv /\ BaseInv' /\ SafeInv /\ DurableInv /\ CallerInv /\ SnapshotInv
          /\ [Next]_vars => SnapshotInv'
    <2> SUFFICES ASSUME BaseInv, BaseInv', SafeInv, DurableInv, CallerInv,
                        SnapshotInv, [Next]_vars
                 PROVE  SnapshotInv'
        OBVIOUS
    <2>1. main'.head = NoHead => main' = NoRegistry
        BY SnapshotMoves DEF SnapshotInv
    <2> QED
        BY <2>1, RegistryStaysLead, FlagStaysTrue, CallStaysRemembered
           DEF SnapshotInv
<1> QED
    BY <1>1, SnapshotInit, BaseInvariant, SafeInvariant, DurableInvariant,
       CallerInvariant, PTL DEF Spec

(* The head that records.json names leads every public record of its       *)
(* contract that was completed before it, although publish_record compares *)
(* it with the entry it replaces only, which a failed call or a deployment *)
(* may have left behind (worker.takes_lead, record_snapshot._superseded).  *)
THEOREM RegistryLeadsRecords ==
    ASSUME ~ClockRollback
    PROVE  Spec => []RegistryLeads
<1>1. SnapshotInv => RegistryLeads
    BY DEF SnapshotInv
<1> QED
    BY <1>1, SnapshotInvariant, PTL

(* A resync that passes over a head because its row has record_snapshot    *)
(* loses nothing: records.json names the head or one that leads it         *)
(* (resync.reconcile_record_snapshots, worker.deliver_durable_report).     *)
THEOREM SnapshotFlagsTrue ==
    ASSUME ~ClockRollback
    PROVE  Spec => []SnapshotFlagIsTrue
<1>1. SnapshotInv => SnapshotFlagIsTrue
    BY DEF SnapshotInv
<1> QED
    BY <1>1, SnapshotInvariant, PTL

(***************************************************************************)
(* The service uses records.json as Registry describes it, which is what   *)
(* RecordSnapshot is shown to implement: the one step that Delivery takes  *)
(* for a call of publish_record stands for the whole protocol.             *)
(***************************************************************************)
ResultOf(entry) == [metric   |-> Metric[entry.head],
                    contract |-> entry.contract,
                    finished |-> entry.finished]

Board == INSTANCE Registry
         WITH Results       <- [metric : Metrics, contract : Nat, finished : Nat],
              NoResult      <- NoRegistry,
              registered    <- IF main.head = NoHead THEN NoRegistry
                                                     ELSE ResultOf(main),
              contributions <- 0

(* A call that publishes is a step of Registry, or finds its own entry.    *)
LEMMA CallRegisters ==
    ASSUME BaseInv, Delivering, ~RegistryConflict, main' = MainAfter
    PROVE  Board!RegistryNext \/ UNCHANGED Board!registry
<1>1. delivery.head \in Heads /\ delivery.head # NoHead
    BY HeadsAssumption DEF BaseInv, CommentIds
<1>2. /\ main.head \in Heads \cup {NoHead}
      /\ main.contract \in Nat /\ main.finished \in Nat
      /\ delivery.body.contract \in Nat /\ delivery.body.finished \in Nat
    <2>1. Contracts \cup {0} \subseteq Nat
        BY EpochAssumption
    <2> QED
        BY <2>1 DEF BaseInv, TypeOK, Deliveries, Entries
<1>3. /\ Registry.head = delivery.head
      /\ Registry.finished = delivery.body.finished
      /\ Registry.contract = delivery.body.contract
    BY DEF Registry
<1>4. ResultOf(Registry) \in [metric : Metrics, contract : Nat, finished : Nat]
    BY <1>1, <1>2, <1>3, MetricAssumption DEF ResultOf
<1>5. CASE main' = main
    BY <1>5 DEF Board!registry
<1>6. CASE /\ main' = Registry
           /\ main.head = NoHead \/ ~Superseded(main, Registry)
    <2>1. main.head # NoHead =>
              ~Board!Superseded(ResultOf(main), ResultOf(Registry))
        BY <1>6 DEF Superseded, Board!Superseded, ResultOf, Leads, Board!Leads,
                    Score, Board!Score
    <2>2. Board!Register(ResultOf(Registry))
        BY <1>1, <1>3, <1>6, <2>1 DEF Board!Register, Board!Replaces
    <2> QED
        BY <1>4, <2>2 DEF Board!RegistryNext
<1>7. main' = main
      \/ (main' = Registry /\ (main.head = NoHead \/ ~Superseded(main, Registry)))
    BY DEF MainAfter, RegistryConflict
<1> QED
    BY <1>5, <1>6, <1>7

(* Whatever the report loop, a crash or the clock does, records.json in    *)
(* the service changes only as Registry says: the atomic call of           *)
(* publish_record that Delivery makes is one that the protocol of          *)
(* record_snapshot.publish_record implements.                              *)
THEOREM ServiceUsesRegistry == Spec => Board!RegistrySpec
<1>1. Init => Board!RegistryInit
    BY DEF Init, NoRegistry, Board!RegistryInit
<1>2. BaseInv /\ [Next]_vars => [Board!RegistryNext]_(Board!registry)
    <2> SUFFICES ASSUME BaseInv, [Next]_vars
                 PROVE  Board!RegistryNext \/ UNCHANGED Board!registry
        OBVIOUS
    <2>1. main' = main \/ (Delivering /\ ~RegistryConflict /\ main' = MainAfter)
        <3>1. CASE DeliverSupplement
            BY <3>1 DEF DeliverSupplement, Delivering
        <3>2. CASE ~DeliverSupplement
            BY <3>2, OnlyCallsMoveRegistry
        <3> QED
            BY <3>1, <3>2
    <2>2. CASE main' = main
        BY <2>2 DEF Board!registry
    <2> QED
        BY <2>1, <2>2, CallRegisters
<1> QED
    BY <1>1, <1>2, BaseInvariant, PTL DEF Spec, Board!RegistrySpec
==============================================================================
