---------------------------- MODULE Service_proofs ---------------------------
(***************************************************************************)
(* Safety of the service, for all heads, authors, caps and contracts and   *)
(* for any number of crashes, failed calls and lost answers, as long as    *)
(* the host's clock does not step back (without that a resync may return a *)
(* decided head to the queue while a handler works on it).                 *)
(*                                                                         *)
(* SafeInv is inductive together with BaseInv.  Its core is what each      *)
(* process may rely on although it holds no lock that the others respect:  *)
(* a handler that its head stays out of flight, under the caps and behind  *)
(* the admission it is about to write (HandlerWindow); the worker that its *)
(* head stays "verifying" (JobIsVerifying); a delivery that its head       *)
(* moves at most from a verdict to a new admission, or from a dead job     *)
(* back to the queue (DeliveryFollowsRow, CommitFollowsRow).               *)
(***************************************************************************)
EXTENDS Base_proofs, FiniteSetTheorems

(* A head that left any trace has its source tag.                          *)
Tagged ==
    \A h \in Heads :
        Status(h) # "absent" \/ admission[h].pc = "commit" => h \in tags

(* GitHub knows no later admission of a head than the database does.       *)
NoLaterReceipt ==
    \A h \in Heads : \A i \in 1 .. Len(comments[h]) :
        /\ comments[h][i].admitted <= row[h].detail.receipt
        /\ Status(h) # "absent"

(* A handler works alone, on a head that is not in flight and within the   *)
(* caps, and for a later admission than any before.                        *)
HandlerWindow ==
    \A h \in Heads : admission[h].pc # "idle" =>
        /\ Status(h) \in {"absent"} \cup Finished
        /\ row[h].detail.receipt < admission[h].at
        /\ UnderCaps(h)
        /\ \A k \in Heads \ {h} : admission[k].pc = "idle"

(* A running job is the one head that is being verified; after a crash of  *)
(* the worker its head waits for the restart.                              *)
JobIsVerifying ==
    /\ job.pc = "running" => Status(job.head) = "verifying"
    /\ \A h \in Heads : Status(h) = "verifying" =>
           job.pc = "down" \/ (job.pc = "running" /\ job.head = h)

(* How far a head may move while a report of it is delivered: a decided    *)
(* head may be admitted again, and a restarted worker requeues its job.    *)
Moved(from, to) == \/ to = from
                   \/ from \in Finished /\ to = "admitting"
                   \/ from = "verifying" /\ to = "pending"

Readmitted == delivery.orig \in Finished /\ Status(delivery.head) = "admitting"

DeliveryFollowsRow ==
    Delivering =>
        /\ Moved(delivery.orig, Status(delivery.head))
        /\ delivery.orig # "absent"
        /\ delivery.body.admitted = row[delivery.head].detail.receipt \/ Readmitted
        /\ delivery.body.admitted <= row[delivery.head].detail.receipt
        /\ \A i \in 1 .. Len(comments[delivery.head]) :
               comments[delivery.head][i].admitted <= delivery.body.admitted
        /\ delivery.cid # 0 =>
               comments[delivery.head][delivery.cid] = delivery.body
        /\ delivery.pc = "comment" => delivery.cid = 0

CommitFollowsRow ==
    delivery.pc = "commit" =>
        /\ Moved(delivery.seen.status, Status(delivery.head))
        /\ delivery.seen.detail = row[delivery.head].detail \/ Readmitted
        /\ delivery.body.admitted <= delivery.seen.detail.receipt
        /\ delivery.seen.detail.receipt <= row[delivery.head].detail.receipt

(* A head completes after it was admitted.                                 *)
CompletesAfterReceipt ==
    \A h \in Heads : Status(h) \in {"publishing"} \cup Finished =>
        row[h].detail.receipt <= row[h].finished

(* The verdict that waits is later than every other completion that the    *)
(* database, GitHub or the running delivery knows of.                      *)
WaitingIsLast ==
    \A h \in Heads : Status(h) = "publishing" =>
        /\ 0 < row[h].finished
        /\ \A k \in Heads \ {h} :
               /\ row[k].finished < row[h].finished
               /\ \A i \in 1 .. Len(comments[k]) :
                      comments[k][i].finished < row[h].finished
        /\ Delivering /\ delivery.head # h =>
               delivery.body.finished < row[h].finished

Undecided == {h \in Heads : Status(h) \in {"verifying", "publishing"}}

OneAtATime == \A h, k \in Undecided : h = k

RowInv ==
    /\ NoLaterReceipt
    /\ CompletesAfterReceipt
    /\ OneAtATime
    /\ NoProofBeforeReceipt
    /\ VerdictHasReport
    /\ CapsRespected

SafeInv ==
    /\ Tagged
    /\ HandlerWindow
    /\ JobIsVerifying
    /\ DeliveryFollowsRow
    /\ CommitFollowsRow
    /\ WaitingIsLast
    /\ RowInv

(***************************************************************************)
(* Facts about single definitions                                          *)
(***************************************************************************)
LEMMA CommentDomain ==
    ASSUME BaseInv
    PROVE  \A h \in Heads : /\ DOMAIN comments[h] = 1 .. Len(comments[h])
                            /\ Len(comments[h]) \in Nat
BY LenProperties DEF BaseInv, TypeOK

LEMMA RowFacts ==
    ASSUME BaseInv, NEW h \in Heads
    PROVE  /\ row[h] \in Rows
           /\ Status(h) \in Statuses
           /\ row[h].finished \in Nat
           /\ row[h].detail.receipt \in Nat
           /\ admission[h].at \in Nat
BY DEF BaseInv, TypeOK, Rows, Details, Status, Handlers

(* Without a step back the clock gives out the next time, also for a       *)
(* completion.                                                             *)
LEMMA NextTime ==
    ASSUME BaseInv, ~ClockRollback, NEW now \in Readings
    PROVE  /\ now = clock + 1
           /\ NextFinishTime(now) = clock + 1
           /\ Later(clock, now) = clock + 1
<1>1. clock \in Nat /\ now = clock + 1
    BY DEF BaseInv, TypeOK, Readings
<1>2. \A t \in FinishTimes : t \in Nat /\ t <= clock
    BY RowFacts DEF FinishTimes, BaseInv, ClockBounds, RowTimes
<1>3. ~ \E t \in FinishTimes : t >= now
    BY <1>1, <1>2
<1> QED
    BY <1>1, <1>3 DEF NextFinishTime, Later

(* Fewer heads in flight stay under the caps.                              *)
LEMMA CapsShrink ==
    ASSUME InFlightHeads' \subseteq InFlightHeads
    PROVE  /\ CapsRespected => CapsRespected'
           /\ \A h \in Heads : UnderCaps(h) => UnderCaps(h)'
<1> DEFINE by(h) == {k \in InFlightHeads : Author[k] = Author[h]}
           by2(h) == {k \in InFlightHeads' : Author[k] = Author[h]}
<1>1. InFlightHeads \subseteq Heads
    BY DEF InFlightHeads
<1>2. IsFiniteSet(InFlightHeads)
    BY <1>1, HeadsAssumption, FS_Subset
<1>3. /\ Cardinality(InFlightHeads) \in Nat
      /\ IsFiniteSet(InFlightHeads')
      /\ Cardinality(InFlightHeads') \in Nat
      /\ Cardinality(InFlightHeads') <= Cardinality(InFlightHeads)
    BY <1>2, FS_Subset, FS_CardinalityType
<1>4. \A h : /\ Cardinality(by(h)) \in Nat
             /\ Cardinality(by2(h)) \in Nat
             /\ Cardinality(by2(h)) <= Cardinality(by(h))
    <2> TAKE h
    <2>1. by(h) \in SUBSET InFlightHeads /\ by2(h) \in SUBSET by(h)
        OBVIOUS
    <2> HIDE DEF by, by2
    <2>2. IsFiniteSet(by(h))
        BY <1>2, <2>1, FS_Subset
    <2> QED
        BY <2>1, <2>2, FS_Subset, FS_CardinalityType
<1>5. QueueCap \in Nat /\ MaxInflight \in Nat
    BY BoundAssumption
<1>6. ASSUME CapsRespected
      PROVE  CapsRespected'
    <2>1. Cardinality(InFlightHeads') <= QueueCap
        BY <1>3, <1>5, <1>6 DEF CapsRespected
    <2>2. ASSUME NEW h \in Heads
          PROVE  Cardinality(by2(h)) <= MaxInflight
        <3>1. Cardinality(by(h)) <= MaxInflight
            BY <1>6 DEF CapsRespected
        <3> HIDE DEF by, by2
        <3> QED
            BY <1>4, <1>5, <3>1
    <2> QED
        BY <2>1, <2>2 DEF CapsRespected
<1>7. ASSUME NEW h \in Heads, UnderCaps(h)
      PROVE  UnderCaps(h)'
    BY <1>3, <1>4, <1>5, <1>7 DEF UnderCaps
<1> QED
    BY <1>6, <1>7

(* One more head in flight, that was under the caps, respects them.        *)
LEMMA CapsGrow ==
    ASSUME NEW h \in Heads, CapsRespected, UnderCaps(h),
           InFlightHeads' = InFlightHeads \cup {h}
    PROVE  CapsRespected'
<1> DEFINE by(g) == {k \in InFlightHeads : Author[k] = Author[g]}
           by2(g) == {k \in InFlightHeads' : Author[k] = Author[g]}
<1>1. InFlightHeads \subseteq Heads
    BY DEF InFlightHeads
<1>2. IsFiniteSet(InFlightHeads) /\ Cardinality(InFlightHeads) \in Nat
    BY <1>1, HeadsAssumption, FS_Subset, FS_CardinalityType
<1>3. QueueCap \in Nat /\ MaxInflight \in Nat
    BY BoundAssumption
<1>4. Cardinality(InFlightHeads') <= QueueCap
    <2>1. Cardinality(InFlightHeads') =
              IF h \in InFlightHeads THEN Cardinality(InFlightHeads)
                                     ELSE Cardinality(InFlightHeads) + 1
        BY <1>2, FS_AddElement
    <2>2. Cardinality(InFlightHeads) < QueueCap
        BY DEF UnderCaps
    <2> QED
        BY <1>2, <1>3, <2>1, <2>2
<1>5. ASSUME NEW g \in Heads
      PROVE  Cardinality(by2(g)) <= MaxInflight
    <2>1. by(g) \in SUBSET InFlightHeads
        OBVIOUS
    <2>2. IsFiniteSet(by(g)) /\ Cardinality(by(g)) \in Nat
        <3> HIDE DEF by
        <3> QED
            BY <1>2, <2>1, FS_Subset, FS_CardinalityType
    <2>3. CASE Author[g] = Author[h]
        <3>1. by2(g) = by(g) \cup {h} /\ by(g) = by(h)
            BY <2>3
        <3>2. Cardinality(by(h)) < MaxInflight
            BY DEF UnderCaps
        <3> HIDE DEF by, by2
        <3>3. Cardinality(by2(g)) = IF h \in by(g) THEN Cardinality(by(g))
                                                   ELSE Cardinality(by(g)) + 1
            BY <2>2, <3>1, FS_AddElement
        <3> QED
            BY <1>3, <2>2, <3>1, <3>2, <3>3
    <2>4. CASE Author[g] # Author[h]
        <3>1. by2(g) = by(g)
            BY <2>4
        <3>2. Cardinality(by(g)) <= MaxInflight
            BY DEF CapsRespected
        <3> HIDE DEF by, by2
        <3> QED
            BY <3>1, <3>2
    <2> QED
        BY <2>3, <2>4
<1> QED
    BY <1>4, <1>5 DEF CapsRespected

(***************************************************************************)
(* What a step keeps that leaves comments, statuses, times and details of  *)
(* all heads alone                                                         *)
(***************************************************************************)
SameRows == \A h \in Heads : /\ row'[h].status = row[h].status
                             /\ row'[h].finished = row[h].finished
                             /\ row'[h].detail = row[h].detail

LEMMA SameStatus ==
    ASSUME SameRows
    PROVE  /\ \A h \in Heads : Status(h)' = Status(h)
           /\ InFlightHeads' = InFlightHeads
           /\ Undecided' = Undecided
BY DEF SameRows, Status, InFlightHeads, Undecided

LEMMA RowFrame ==
    ASSUME SafeInv, SameRows, comments' = comments, tags \subseteq tags',
           \A h \in Heads : outbox[h] # 0 => outbox'[h] # 0
    PROVE  RowInv'
<1> USE DEF SafeInv, RowInv
<1>1. /\ \A h \in Heads : Status(h)' = Status(h)
      /\ InFlightHeads' = InFlightHeads
      /\ Undecided' = Undecided
    BY SameStatus
<1>2. NoLaterReceipt' /\ CompletesAfterReceipt'
    BY <1>1 DEF SameRows, NoLaterReceipt, CompletesAfterReceipt
<1>3. OneAtATime'
    BY <1>1 DEF OneAtATime
<1>4. NoProofBeforeReceipt'
    BY <1>1 DEF SameRows, NoProofBeforeReceipt, ReceiptPublished
<1>5. VerdictHasReport'
    BY <1>1 DEF VerdictHasReport
<1>6. CapsRespected'
    BY <1>1, CapsShrink
<1> QED
    BY <1>2, <1>3, <1>4, <1>5, <1>6

LEMMA HandlerFrame ==
    ASSUME SafeInv, SameRows, tags \subseteq tags', admission' = admission
    PROVE  Tagged' /\ HandlerWindow'
<1>1. /\ \A h \in Heads : Status(h)' = Status(h)
      /\ InFlightHeads' = InFlightHeads
    BY SameStatus
<1>2. Tagged'
    BY <1>1 DEF SafeInv, Tagged
<1>3. \A h \in Heads : UnderCaps(h) => UnderCaps(h)'
    BY <1>1, CapsShrink
<1>4. HandlerWindow'
    BY <1>1, <1>3 DEF SafeInv, SameRows, HandlerWindow
<1> QED
    BY <1>2, <1>4

LEMMA JobFrame ==
    ASSUME BaseInv, SafeInv, SameRows, job' = job
    PROVE  JobIsVerifying'
BY SameStatus DEF BaseInv, WorkerHasHead, SafeInv, JobIsVerifying

LEMMA DeliveryFrame ==
    ASSUME BaseInv, SafeInv, SameRows, comments' = comments, delivery' = delivery
    PROVE  DeliveryFollowsRow' /\ CommitFollowsRow' /\ WaitingIsLast'
<1>1. \A h \in Heads : Status(h)' = Status(h)
    BY SameStatus
<1>2. Delivering => delivery.head \in Heads
    BY DEF BaseInv, CommentIds
<1>3. Delivering =>
          /\ Status(delivery.head)' = Status(delivery.head)
          /\ row'[delivery.head].detail = row[delivery.head].detail
          /\ Readmitted' = Readmitted
    BY <1>1, <1>2 DEF SameRows, Readmitted
<1>4. Delivering' = Delivering
    BY DEF Delivering
<1>5. DeliveryFollowsRow'
    BY <1>3, <1>4 DEF SafeInv, DeliveryFollowsRow, Moved
<1>6. CommitFollowsRow'
    BY <1>3, <1>4 DEF SafeInv, CommitFollowsRow, Moved, Delivering
<1>7. WaitingIsLast'
    BY <1>1, <1>4 DEF SafeInv, SameRows, WaitingIsLast
<1> QED
    BY <1>5, <1>6, <1>7

LEMMA DeliveryGone ==
    ASSUME SafeInv, SameRows, comments' = comments, delivery' = DeliveryIdle
    PROVE  DeliveryFollowsRow' /\ CommitFollowsRow' /\ WaitingIsLast'
<1>1. \A h \in Heads : Status(h)' = Status(h)
    BY SameStatus
<1>2. ~ Delivering' /\ delivery'.pc # "commit"
    BY DeliveryIdleType DEF Delivering
<1> QED
    BY <1>1, <1>2 DEF SafeInv, SameRows, DeliveryFollowsRow, CommitFollowsRow,
                      WaitingIsLast

(***************************************************************************)
(* Initially                                                               *)
(***************************************************************************)
LEMMA SafeInit == Init => SafeInv
<1> SUFFICES ASSUME Init PROVE SafeInv
    OBVIOUS
<1> USE DEF Init
<1>1. /\ \A h \in Heads : Status(h) = "absent" /\ comments[h] = <<>>
      /\ \A h \in Heads : Len(comments[h]) = 0
      /\ \A h \in Heads : admission[h].pc = "idle"
      /\ ~ Delivering /\ delivery.pc # "commit" /\ job.pc = "down"
    BY EmptySeq DEF Status, AbsentRow, NoHandler, HandlerIdle, Delivering,
                    DeliveryIdle, WorkerDown
<1>2. InFlightHeads = {}
    BY <1>1 DEF InFlightHeads, InFlight
<1>3. CapsRespected
    <2>1. \A h : {k \in InFlightHeads : Author[k] = Author[h]} = {}
        BY <1>2
    <2>2. Cardinality({}) = 0
        BY FS_EmptySet
    <2> QED
        BY <1>2, <2>1, <2>2, BoundAssumption DEF CapsRespected
<1>4. Tagged /\ HandlerWindow /\ JobIsVerifying
    BY <1>1 DEF Tagged, HandlerWindow, JobIsVerifying
<1>5. DeliveryFollowsRow /\ CommitFollowsRow /\ WaitingIsLast
    BY <1>1 DEF DeliveryFollowsRow, CommitFollowsRow, WaitingIsLast
<1>6. RowInv
    BY <1>1, <1>3
       DEF RowInv, NoLaterReceipt, CompletesAfterReceipt, OneAtATime, Undecided,
           NoProofBeforeReceipt, VerdictHasReport, Finished
<1> QED
    BY <1>4, <1>5, <1>6 DEF SafeInv

(***************************************************************************)
(* Admission                                                               *)
(***************************************************************************)
LEMMA SafeAdmitCheck ==
    ASSUME BaseInv, SafeInv, ~ClockRollback, NEW h \in Heads, AdmitCheck(h)
    PROVE  SafeInv'
<1>1. PICK now \in Readings :
          admission' = [admission EXCEPT ![h] =
                          [pc |-> "retain", old |-> row[h], at |-> now]]
    BY DEF AdmitCheck, BeginHandler
<1>2. UNCHANGED <<row, outbox, comments, tags, delivery, job>>
    BY DEF AdmitCheck, BeginHandler
<1>3. SameRows
    BY <1>2 DEF SameRows
<1>4. RowInv' /\ JobIsVerifying'
      /\ DeliveryFollowsRow' /\ CommitFollowsRow' /\ WaitingIsLast'
    BY <1>2, <1>3, RowFrame, JobFrame, DeliveryFrame
<1>5. \A k \in Heads : admission'[k] =
          IF k = h THEN [pc |-> "retain", old |-> row[h], at |-> now]
                   ELSE admission[k]
    BY <1>1 DEF BaseInv, TypeOK
<1>6. Tagged'
    BY <1>2, <1>5 DEF SafeInv, Tagged, Status
<1>7. HandlerWindow'
    <2>1. Status(h) \in {"absent"} \cup Finished
        BY DEF AdmitCheck, Finished
    <2>2. row[h].detail.receipt < now
        BY NextTime, RowFacts DEF BaseInv, TypeOK, ClockBounds, RowTimes
    <2>3. UnderCaps(h) /\ \A k \in Heads : admission[k].pc = "idle"
        BY DEF AdmitCheck, AdmissionLockFree
    <2>4. UnderCaps(h)' /\ Status(h)' = Status(h)
        BY <1>3, <2>3, CapsShrink, SameStatus
    <2> QED
        BY <1>2, <1>5, <2>1, <2>2, <2>3, <2>4 DEF HandlerWindow
<1> QED
    BY <1>4, <1>6, <1>7 DEF SafeInv

LEMMA SafeAdmitRetain ==
    ASSUME BaseInv, SafeInv, NEW h \in Heads, AdmitRetain(h)
    PROVE  SafeInv'
<1>1. UNCHANGED <<row, outbox, comments, delivery, job>> /\ tags \subseteq tags'
    BY DEF AdmitRetain
<1>2. SameRows
    BY <1>1 DEF SameRows
<1>3. RowInv' /\ JobIsVerifying'
      /\ DeliveryFollowsRow' /\ CommitFollowsRow' /\ WaitingIsLast'
    BY <1>1, <1>2, RowFrame, JobFrame, DeliveryFrame
<1>4. admission[h].pc = "retain" /\ admission[h] \in Handlers
    BY DEF AdmitRetain, BaseInv, TypeOK
<1>5. \A k \in Heads \ {h} : admission'[k] = admission[k]
    BY DEF AdmitRetain, BaseInv, TypeOK
<1>6. \/ /\ admission'[h].pc = "commit"
         /\ admission'[h].at = admission[h].at
         /\ h \in tags'
      \/ admission'[h].pc = "idle"
    <2>1. CASE /\ tags' = tags \cup {h}
               /\ admission' = [admission EXCEPT ![h].pc = "commit"]
        BY <1>4, <2>1 DEF BaseInv, TypeOK, Handlers
    <2>2. CASE admission' = [admission EXCEPT ![h] = HandlerIdle]
        BY <2>2, HandlerIdleType DEF BaseInv, TypeOK
    <2> QED
        BY <2>1, <2>2 DEF AdmitRetain
<1>7. \A k \in Heads : Status(k)' = Status(k) /\ (UnderCaps(k) => UnderCaps(k)')
    BY <1>2, SameStatus, CapsShrink
<1>8. Tagged'
    BY <1>1, <1>5, <1>6, <1>7 DEF SafeInv, Tagged
<1>9. HandlerWindow'
    BY <1>1, <1>4, <1>5, <1>6, <1>7 DEF SafeInv, HandlerWindow
<1> QED
    BY <1>3, <1>8, <1>9 DEF SafeInv

LEMMA SafeAdmitCommit ==
    ASSUME BaseInv, SafeInv, NEW h \in Heads, AdmitCommit(h)
    PROVE  SafeInv'
<1>1. UNCHANGED <<comments, tags, delivery, job>>
    BY DEF AdmitCommit
<1>2. admission' = [admission EXCEPT ![h] = HandlerIdle]
    BY DEF AdmitCommit
<1>3. \A k \in Heads : admission'[k].pc # "idle" =>
          k # h /\ admission[k].pc # "idle"
    BY <1>2, HandlerIdleType DEF BaseInv, TypeOK
<1>4. \A k \in Heads : admission'[k].pc = "idle"
    BY <1>3 DEF SafeInv, HandlerWindow, AdmitCommit
<1>5. HandlerWindow'
    BY <1>4 DEF HandlerWindow
<1>6. CASE UNCHANGED <<row, outbox>>
    <2>1. SameRows
        BY <1>6 DEF SameRows
    <2>2. RowInv' /\ JobIsVerifying'
          /\ DeliveryFollowsRow' /\ CommitFollowsRow' /\ WaitingIsLast'
        BY <1>1, <1>6, <2>1, RowFrame, JobFrame, DeliveryFrame
    <2>3. Tagged'
        BY <1>1, <1>4, <1>6 DEF SafeInv, Tagged, Status
    <2> QED
        BY <1>5, <2>2, <2>3 DEF SafeInv
<1>7. CASE /\ row' = [row EXCEPT ![h] = AdmittedRow(h)]
           /\ outbox' = [outbox EXCEPT ![h] = Scheduled(@)]
    <2>1. /\ \A k \in Heads \ {h} : row'[k] = row[k] /\ outbox'[k] = outbox[k]
          /\ row'[h] = AdmittedRow(h)
        BY <1>7 DEF BaseInv, TypeOK
    <2>2. /\ row'[h].status = "admitting"
          /\ row'[h].finished = 0
          /\ row'[h].detail.receipt = admission[h].at
        BY <2>1 DEF AdmittedRow
    <2>3. /\ \A k \in Heads \ {h} : Status(k)' = Status(k)
          /\ Status(h)' = "admitting"
        BY <2>1, <2>2 DEF Status
    <2>4. /\ Status(h) \in {"absent"} \cup Finished
          /\ row[h].detail.receipt < admission[h].at
          /\ UnderCaps(h)
          /\ h \in tags
        BY DEF SafeInv, HandlerWindow, Tagged, AdmitCommit
    <2>5. /\ row[h].detail.receipt \in Nat /\ admission[h].at \in Nat
          /\ \A k \in Heads : \A i \in 1 .. Len(comments[k]) :
                 comments[k][i] \in Entries
        BY RowFacts, ElementOfSeq DEF BaseInv, TypeOK
    <2>6. NoLaterReceipt'
        <3>1. SUFFICES ASSUME NEW k \in Heads, NEW i \in 1 .. Len(comments[k])
              PROVE  /\ comments[k][i].admitted <= row'[k].detail.receipt
                     /\ Status(k)' # "absent"
            BY <1>1 DEF NoLaterReceipt
        <3>2. /\ comments[k][i].admitted <= row[k].detail.receipt
              /\ Status(k) # "absent"
              /\ comments[k][i].admitted \in Nat
            BY <2>5 DEF SafeInv, RowInv, NoLaterReceipt, Entries
        <3>3. CASE k = h
            BY <2>2, <2>3, <2>4, <2>5, <3>2, <3>3
        <3>4. CASE k # h
            BY <2>1, <2>3, <3>2, <3>4
        <3> QED
            BY <3>3, <3>4
    <2>7. CompletesAfterReceipt'
        BY <2>1, <2>3 DEF SafeInv, RowInv, CompletesAfterReceipt, Finished
    <2>8. OneAtATime'
        BY <2>3 DEF SafeInv, RowInv, OneAtATime, Undecided
    <2>9. NoProofBeforeReceipt'
        BY <1>1, <2>1, <2>3
           DEF SafeInv, RowInv, NoProofBeforeReceipt, ReceiptPublished
    <2>10. VerdictHasReport'
        BY <2>1, <2>3 DEF SafeInv, RowInv, VerdictHasReport
    <2>11. CapsRespected'
        <3>1. InFlightHeads' = InFlightHeads \cup {h}
            BY <2>3 DEF InFlightHeads, InFlight
        <3> QED
            BY <2>4, <3>1, CapsGrow DEF SafeInv, RowInv
    <2>12. Tagged'
        BY <1>1, <1>4, <2>3, <2>4 DEF SafeInv, Tagged
    <2>13. JobIsVerifying'
        BY <1>1, <2>3, <2>4
           DEF SafeInv, JobIsVerifying, Finished, BaseInv, WorkerHasHead
    <2>14. Delivering => delivery.head \in Heads /\ delivery \in Deliveries
        BY DEF BaseInv, CommentIds, TypeOK
    <2>15. Delivering /\ delivery.head = h => delivery.orig \in Finished
        BY <2>4, <2>14 DEF SafeInv, DeliveryFollowsRow, Moved, Finished
    <2>16. Delivering /\ delivery.head = h => Readmitted'
        BY <1>1, <2>3, <2>15 DEF Readmitted
    <2>17. DeliveryFollowsRow'
        <3>1. CASE Delivering /\ delivery.head = h
            <4>1. /\ delivery.body.admitted \in Nat
                  /\ delivery.body.admitted <= row[h].detail.receipt
                BY <2>14, <3>1 DEF SafeInv, DeliveryFollowsRow, Deliveries, Entries
            <4>2. delivery.body.admitted <= admission[h].at
                BY <2>4, <2>5, <4>1
            <4> QED
                BY <1>1, <2>2, <2>3, <2>15, <2>16, <3>1, <4>2
                   DEF SafeInv, DeliveryFollowsRow, Delivering, Moved
        <3>2. CASE Delivering /\ delivery.head # h
            BY <1>1, <2>1, <2>3, <2>14, <3>2
               DEF SafeInv, DeliveryFollowsRow, Delivering, Moved, Readmitted
        <3>3. CASE ~ Delivering
            BY <1>1, <3>3 DEF DeliveryFollowsRow, Delivering
        <3> QED
            BY <3>1, <3>2, <3>3
    <2>18. CommitFollowsRow'
        <3>1. CASE delivery.pc = "commit" /\ delivery.head = h
            <4>1. Delivering
                BY <3>1 DEF Delivering
            <4>2. /\ delivery.seen.detail.receipt \in Nat
                  /\ delivery.seen.detail.receipt <= row[h].detail.receipt
                  /\ delivery.body.admitted <= delivery.seen.detail.receipt
                BY <2>14, <3>1, <4>1
                   DEF SafeInv, CommitFollowsRow, Deliveries, Details
            <4>3. delivery.seen.detail.receipt <= admission[h].at
                BY <2>4, <2>5, <4>2
            <4>4. delivery.seen.status \in Finished
                <5>1. Status(h) \in Finished
                    BY <2>4, <2>15, <3>1, <4>1
                       DEF SafeInv, DeliveryFollowsRow, Moved, Finished
                <5>2. Moved(delivery.seen.status, Status(h))
                    BY <3>1 DEF SafeInv, CommitFollowsRow
                <5> QED
                    BY <5>1, <5>2 DEF Moved, Finished
            <4> QED
                BY <1>1, <2>2, <2>3, <2>16, <3>1, <4>1, <4>2, <4>3, <4>4
                   DEF CommitFollowsRow, Moved
        <3>2. CASE delivery.pc = "commit" /\ delivery.head # h
            BY <1>1, <2>1, <2>3, <2>14, <3>2
               DEF SafeInv, CommitFollowsRow, Delivering, Moved, Readmitted
        <3>3. CASE delivery.pc # "commit"
            BY <1>1, <3>3 DEF CommitFollowsRow
        <3> QED
            BY <3>1, <3>2, <3>3
    <2>19. WaitingIsLast'
        <3>1. \A k \in Heads : Status(k)' = "publishing" =>
                  k # h /\ Status(k) = "publishing" /\ row'[k] = row[k]
            BY <2>1, <2>3
        <3> QED
            BY <1>1, <2>1, <2>2, <3>1 DEF SafeInv, WaitingIsLast, Delivering
    <2> QED
        BY <1>5, <2>6, <2>7, <2>8, <2>9, <2>10, <2>11, <2>12, <2>13, <2>17,
           <2>18, <2>19 DEF SafeInv, RowInv
<1> QED
    BY <1>6, <1>7 DEF AdmitCommit

(***************************************************************************)
(* Delivery                                                                *)
(***************************************************************************)
LEMMA SafeDeliverStart ==
    ASSUME BaseInv, SafeInv, NEW h \in Heads, DeliverStart(h)
    PROVE  SafeInv'
<1>1. UNCHANGED <<row, outbox, comments, tags, admission, job>>
    BY DEF DeliverStart
<1>2. SameRows
    BY <1>1 DEF SameRows
<1>3. RowInv' /\ JobIsVerifying' /\ Tagged' /\ HandlerWindow'
    BY <1>1, <1>2, RowFrame, JobFrame, HandlerFrame
<1>4. /\ delivery'.pc = "comment"
      /\ delivery'.head = h
      /\ delivery'.cid = 0
      /\ delivery'.orig = Status(h)
      /\ delivery'.body = Entry(h)
    BY DEF DeliverStart, DeliveryIdle
<1>5. /\ Status(h) # "absent"
      /\ Entry(h).finished = row[h].finished
      /\ Entry(h).admitted = row[h].detail.receipt
    BY EntryType DEF DeliverStart
<1>6. row[h].detail.receipt \in Nat
    BY RowFacts
<1>7. DeliveryFollowsRow'
    BY <1>1, <1>4, <1>5, <1>6
       DEF SafeInv, RowInv, NoLaterReceipt, DeliveryFollowsRow, Delivering,
           Moved, Status
<1>8. CommitFollowsRow'
    BY <1>4 DEF CommitFollowsRow
<1>9. WaitingIsLast'
    BY <1>1, <1>4, <1>5 DEF SafeInv, WaitingIsLast, Status
<1> QED
    BY <1>3, <1>7, <1>8, <1>9 DEF SafeInv

(* A step of a delivery that leaves the rows alone: its comment may be     *)
(* written.                                                                *)
LEMMA SafeDeliveryOnly ==
    ASSUME BaseInv, SafeInv, Delivering,
           UNCHANGED <<row, outbox, tags, admission, job>>,
           comments' \in {comments, WithComment},
           delivery'.pc \in {"supplement", "reread"},
           delivery'.head = delivery.head,
           delivery'.orig = delivery.orig,
           delivery'.body = delivery.body,
           delivery'.cid # 0 => \/ /\ delivery.cid = delivery'.cid
                                   /\ comments' = comments
                                \/ comments'[delivery.head][delivery'.cid] =
                                       delivery.body
    PROVE  SafeInv'
<1> DEFINE d == delivery.head
<1>1. SameRows
    BY DEF SameRows
<1>2. Tagged' /\ HandlerWindow' /\ JobIsVerifying'
    BY <1>1, HandlerFrame, JobFrame
<1>3. /\ \A h \in Heads : Status(h)' = Status(h)
      /\ InFlightHeads' = InFlightHeads
      /\ Undecided' = Undecided
    BY <1>1, SameStatus
<1>4. d \in Heads /\ delivery \in Deliveries /\ delivery.body.admitted \in Nat
      /\ row[d].detail.receipt \in Nat
    BY RowFacts DEF BaseInv, TypeOK, CommentIds, Deliveries, Entries
<1>5. /\ \A h \in Heads : \A i \in 1 .. Len(comments'[h]) :
             \/ i \in 1 .. Len(comments[h]) /\ comments'[h][i] = comments[h][i]
             \/ h = d /\ comments'[h][i] = delivery.body
      /\ \A h \in Heads : \A i \in 1 .. Len(comments[h]) :
             /\ i \in 1 .. Len(comments'[h])
             /\ \/ comments'[h][i] = comments[h][i]
                \/ h = d /\ comments'[h][i] = delivery.body
    <2>1. \A h \in Heads : /\ Len(comments[h]) \in Nat
                           /\ Len(comments'[h]) \in Nat
                           /\ Len(comments[h]) <= Len(comments'[h])
        BY LengthsGrow
    <2> QED
        BY <2>1, CommentWritten
<1>6. Moved(delivery.orig, Status(d)) /\ delivery.orig # "absent"
      /\ (delivery.body.admitted = row[d].detail.receipt \/ Readmitted)
      /\ delivery.body.admitted <= row[d].detail.receipt
      /\ (\A i \in 1 .. Len(comments[d]) :
              comments[d][i].admitted <= delivery.body.admitted)
      /\ (delivery.cid # 0 => comments[d][delivery.cid] = delivery.body)
    BY DEF SafeInv, DeliveryFollowsRow
<1>7. NoLaterReceipt'
    <2>1. Status(d) # "absent"
        BY <1>6 DEF Moved, Finished
    <2> QED
        BY <1>3, <1>4, <1>5, <1>6, <2>1 DEF SafeInv, RowInv, NoLaterReceipt
<1>8. CompletesAfterReceipt' /\ OneAtATime' /\ VerdictHasReport' /\ CapsRespected'
    BY <1>3, CapsShrink
       DEF SafeInv, RowInv, CompletesAfterReceipt, OneAtATime, VerdictHasReport
<1>9. NoProofBeforeReceipt'
    <2> SUFFICES ASSUME NEW h \in Heads,
                        Status(h) \in {"pending", "verifying", "publishing"}
                 PROVE  h \in tags /\ ReceiptPublished(h, row[h].detail.receipt)'
        BY <1>3 DEF NoProofBeforeReceipt
    <2>1. h \in tags /\ ReceiptPublished(h, row[h].detail.receipt)
        BY DEF SafeInv, RowInv, NoProofBeforeReceipt
    <2>2. PICK i \in 1 .. Len(comments[h]) :
              comments[h][i].admitted = row[h].detail.receipt
        BY <2>1, CommentDomain DEF ReceiptPublished
    <2>3. \E j \in 1 .. Len(comments'[h]) :
              comments'[h][j].admitted = row[h].detail.receipt
        <3>1. CASE comments'[h][i] = comments[h][i]
            BY <1>5, <2>2, <3>1
        <3>2. CASE h = d /\ comments'[h][i] = delivery.body
            <4>1. ~ Readmitted
                BY <3>2 DEF Readmitted
            <4> QED
                BY <1>5, <1>6, <2>2, <3>2, <4>1
        <3> QED
            BY <1>5, <2>2, <3>1, <3>2
    <2>4. DOMAIN comments'[h] = 1 .. Len(comments'[h])
        <3>1. comments'[h] \in Seq(Entries)
            BY CommentWritten DEF BaseInv, TypeOK
        <3> QED
            BY <3>1, LenProperties
    <2> QED
        BY <2>1, <2>3, <2>4 DEF ReceiptPublished
<1>10. Readmitted' = Readmitted /\ Delivering'
    BY <1>3, <1>4 DEF Readmitted, Delivering
<1>11. DeliveryFollowsRow'
    BY <1>3, <1>4, <1>5, <1>6, <1>10 DEF DeliveryFollowsRow, Moved
<1>12. CommitFollowsRow'
    BY DEF CommitFollowsRow
<1>13. WaitingIsLast'
    <2> SUFFICES ASSUME NEW h \in Heads, Status(h) = "publishing"
                 PROVE  /\ 0 < row[h].finished
                        /\ \A k \in Heads \ {h} :
                               /\ row[k].finished < row[h].finished
                               /\ \A i \in 1 .. Len(comments'[k]) :
                                      comments'[k][i].finished < row[h].finished
                        /\ d # h => delivery.body.finished < row[h].finished
        BY <1>3, <1>10 DEF WaitingIsLast
    <2>1. /\ 0 < row[h].finished
          /\ \A k \in Heads \ {h} :
                 /\ row[k].finished < row[h].finished
                 /\ \A i \in 1 .. Len(comments[k]) :
                        comments[k][i].finished < row[h].finished
          /\ d # h => delivery.body.finished < row[h].finished
        BY DEF SafeInv, WaitingIsLast
    <2> QED
        BY <1>5, <2>1
<1> QED
    BY <1>2, <1>7, <1>8, <1>9, <1>11, <1>12, <1>13 DEF SafeInv, RowInv

LEMMA SafeDeliverComment ==
    ASSUME BaseInv, SafeInv, DeliverComment
    PROVE  SafeInv'
<1>1. Delivering /\ delivery \in Deliveries
    BY DEF DeliverComment, Delivering, BaseInv, TypeOK
<1>2. UNCHANGED <<row, outbox, tags, admission, job>>
    BY DEF DeliverComment
<1>3. CASE /\ comments' = WithComment
           /\ delivery' = [delivery EXCEPT !.pc = "supplement", !.cid = CommentId]
    <2>1. comments'[delivery.head][CommentId] = delivery.body
        BY <1>1, <1>3, CommentWritten
    <2> QED
        BY <1>1, <1>2, <1>3, <2>1, SafeDeliveryOnly DEF Deliveries
<1>4. CASE /\ comments' \in {comments, WithComment}
           /\ delivery' = [delivery EXCEPT !.pc = AfterCommentError,
                                           !.error = TRUE]
    <2>1. delivery.cid = 0
        BY <1>1 DEF SafeInv, DeliveryFollowsRow, DeliverComment
    <2> QED
        BY <1>1, <1>2, <1>4, <2>1, SafeDeliveryOnly
           DEF Deliveries, AfterCommentError
<1> QED
    BY <1>3, <1>4 DEF DeliverComment

(* What follows the comment changes main and closes the two reads.         *)
LEMMA SupplementOnly ==
    ASSUME BaseInv, DeliverSupplement
    PROVE  /\ UNCHANGED <<row, outbox, comments, tags, admission, job>>
           /\ Delivering /\ delivery \in Deliveries
           /\ delivery'.pc = "reread"
           /\ delivery'.head = delivery.head
           /\ delivery'.orig = delivery.orig
           /\ delivery'.body = delivery.body
           /\ delivery'.cid = delivery.cid
<1>1. Delivering /\ delivery \in Deliveries
    BY DEF DeliverSupplement, Delivering, BaseInv, TypeOK
<1>2. UNCHANGED <<row, outbox, comments, tags, admission, job>>
    BY DEF DeliverSupplement
<1> DEFINE publish == delivery.lead /\ delivery.body.contract = contract
<1>3. CASE delivery' = [delivery EXCEPT !.pc = "reread", !.snapshot = @ \/ publish]
    BY <1>1, <1>2, <1>3 DEF Deliveries
<1>4. CASE delivery' = [delivery EXCEPT !.pc = "reread", !.error = TRUE]
    BY <1>1, <1>2, <1>4 DEF Deliveries
<1>5. CASE \E confirmed \in BOOLEAN :
               delivery' = [delivery EXCEPT !.pc = "reread", !.error = TRUE,
                                            !.snapshot = @ \/ confirmed]
    BY <1>1, <1>2, <1>5 DEF Deliveries
<1> QED
    BY <1>3, <1>4, <1>5 DEF DeliverSupplement

LEMMA SafeDeliverSupplement ==
    ASSUME BaseInv, SafeInv, DeliverSupplement
    PROVE  SafeInv'
BY SupplementOnly, SafeDeliveryOnly

(* A step after which rows, comments, handlers and the job are as before,  *)
(* and the delivery too unless it ends.                                    *)
LEMMA SafeQuiet ==
    ASSUME BaseInv, SafeInv, SameRows,
           UNCHANGED <<comments, tags, admission, job>>,
           \A h \in Heads : outbox[h] # 0 => outbox'[h] # 0,
           delivery' \in {delivery, DeliveryIdle}
    PROVE  SafeInv'
<1>1. RowInv' /\ JobIsVerifying' /\ Tagged' /\ HandlerWindow'
    BY RowFrame, JobFrame, HandlerFrame
<1>2. DeliveryFollowsRow' /\ CommitFollowsRow' /\ WaitingIsLast'
    BY DeliveryFrame, DeliveryGone
<1> QED
    BY <1>1, <1>2 DEF SafeInv

LEMMA SafeDeliverReread ==
    ASSUME BaseInv, SafeInv, DeliverReread
    PROVE  SafeInv'
<1>1. UNCHANGED <<row, outbox, comments, tags, admission, job>>
    BY DEF DeliverReread
<1>2. SameRows
    BY <1>1 DEF SameRows
<1>3. CASE delivery' = DeliveryIdle
    BY <1>1, <1>2, <1>3, SafeQuiet
<1>4. CASE delivery' = [delivery EXCEPT
                           !.pc   = "commit",
                           !.seen = [version |-> outbox[delivery.head],
                                     status  |-> Status(delivery.head),
                                     detail  |-> row[delivery.head].detail]]
    <2>1. Delivering /\ delivery \in Deliveries /\ delivery.head \in Heads
        BY DEF DeliverReread, Delivering, BaseInv, TypeOK, CommentIds
    <2>2. RowInv' /\ JobIsVerifying' /\ Tagged' /\ HandlerWindow'
        BY <1>1, <1>2, RowFrame, JobFrame, HandlerFrame
    <2>3. /\ delivery'.pc = "commit"
          /\ delivery'.head = delivery.head
          /\ delivery'.orig = delivery.orig
          /\ delivery'.body = delivery.body
          /\ delivery'.cid = delivery.cid
          /\ delivery'.seen.status = Status(delivery.head)
          /\ delivery'.seen.detail = row[delivery.head].detail
        BY <1>4, <2>1 DEF Deliveries
    <2>4. /\ Delivering' /\ Readmitted' = Readmitted
          /\ Status(delivery.head)' = Status(delivery.head)
        BY <1>1, <2>3 DEF Delivering, Readmitted, Status
    <2>5. DeliveryFollowsRow'
        BY <1>1, <2>1, <2>3, <2>4 DEF SafeInv, DeliveryFollowsRow, Moved, Status
    <2>6. CommitFollowsRow'
        <3>1. row[delivery.head].detail.receipt \in Nat
            BY <2>1, RowFacts
        <3> QED
            BY <1>1, <2>1, <2>3, <2>4, <3>1
               DEF SafeInv, DeliveryFollowsRow, CommitFollowsRow, Moved
    <2>7. WaitingIsLast'
        BY <1>1, <2>1, <2>3, <2>4 DEF SafeInv, WaitingIsLast, Status
    <2> QED
        BY <2>2, <2>5, <2>6, <2>7 DEF SafeInv
<1> QED
    BY <1>3, <1>4 DEF DeliverReread

LEMMA SafeDeliverCommit ==
    ASSUME BaseInv, SafeInv, DeliverCommit
    PROVE  SafeInv'
<1>1. UNCHANGED <<comments, tags, admission, job>> /\ delivery' = DeliveryIdle
    BY DEF DeliverCommit
<1>0. PICK h \in Heads : h = delivery.head
    BY DEF DeliverCommit, Delivering, BaseInv, CommentIds
<1>2. /\ delivery.pc = "commit" /\ Delivering
      /\ h = delivery.head /\ delivery \in Deliveries
    BY <1>0 DEF DeliverCommit, Delivering, BaseInv, TypeOK
<1>3. PICK r \in Rows :
          /\ row' = [row EXCEPT ![h] = r]
          /\ r.finished = row[h].finished
          /\ r.detail \in {row[h].detail, DetailAfter}
          /\ \/ /\ Advances /\ delivery.orig = "admitting"
                /\ r.status = "pending"
             \/ /\ Advances /\ delivery.orig = "publishing"
                /\ r.status = delivery.body.status
             \/ /\ ~ (Advances /\ delivery.orig \in {"admitting", "publishing"})
                /\ r.status = Status(h)
    BY <1>0, CommittedRow
<1>4. \A k \in Heads : row'[k] = IF k = h THEN r ELSE row[k]
    BY <1>3 DEF BaseInv, TypeOK
<1>5. /\ Moved(delivery.orig, Status(h)) /\ delivery.orig # "absent"
      /\ delivery.body.admitted = row[h].detail.receipt \/ Readmitted
      /\ \A i \in 1 .. Len(comments[h]) :
             comments[h][i].admitted <= delivery.body.admitted
      /\ delivery.cid # 0 => comments[h][delivery.cid] = delivery.body
    BY <1>2 DEF SafeInv, DeliveryFollowsRow
<1>6. /\ Moved(delivery.seen.status, Status(h))
      /\ delivery.seen.detail = row[h].detail \/ Readmitted
      /\ delivery.body.admitted <= delivery.seen.detail.receipt
      /\ delivery.seen.detail.receipt <= row[h].detail.receipt
    BY <1>2 DEF SafeInv, CommitFollowsRow
<1>7. /\ DetailAfter.receipt = delivery.seen.detail.receipt
      /\ DetailAfter.receipt \in Nat
      /\ row[h].detail.receipt \in Nat /\ row[h].finished \in Nat
      /\ delivery.body.admitted \in Nat
    BY <1>2, DetailAfterType, RowFacts DEF Details, Deliveries, Entries
<1>8. delivery.body.status # "pending" \/ delivery.orig # "publishing"
    BY <1>2 DEF BaseInv, WaitsWithVerdict
<1>9. \/ /\ Status(h) = "admitting" /\ r.status = "pending"
         /\ Published /\ ~Readmitted
      \/ Status(h) = "publishing" /\ r.status \in Finished
      \/ /\ r.status = Status(h)
         /\ ~ (Advances /\ delivery.orig \in {"admitting", "publishing"})
    <2>1. CASE Advances /\ delivery.orig = "admitting" /\ r.status = "pending"
        BY <1>2, <1>5, <2>1 DEF Moved, Advances, Readmitted, Finished
    <2>2. CASE Advances /\ delivery.orig = "publishing"
               /\ r.status = delivery.body.status
        <3>1. Status(h) = "publishing"
            BY <1>5, <2>2 DEF Moved, Finished
        <3>2. delivery.body.status \in Finished
            BY <1>2, <1>8, <2>2 DEF Deliveries, Entries
        <3> QED
            BY <2>2, <3>1, <3>2
    <2> QED
        BY <1>3, <2>1, <2>2
<1>10. /\ r.detail.receipt = row[h].detail.receipt \/ Readmitted
       /\ \A i \in 1 .. Len(comments[h]) :
              comments[h][i].admitted <= r.detail.receipt
    <2>1. r.detail = row[h].detail \/ r.detail.receipt = delivery.seen.detail.receipt
        BY <1>3, <1>7
    <2>2. ASSUME NEW i \in 1 .. Len(comments[h])
          PROVE  comments[h][i].admitted <= r.detail.receipt
        <3>1. /\ comments[h][i].admitted <= delivery.body.admitted
              /\ comments[h][i].admitted <= row[h].detail.receipt
            BY <1>2, <1>5 DEF SafeInv, RowInv, NoLaterReceipt
        <3>2. comments[h][i].admitted \in Nat
            <4>1. comments[h] \in Seq(Entries)
                BY <1>2 DEF BaseInv, TypeOK
            <4>2. comments[h][i] \in Entries
                BY <4>1, ElementOfSeq
            <4> QED
                BY <4>2 DEF Entries
        <3>3. delivery.seen.detail.receipt \in Nat
            BY <1>7
        <3> QED
            BY <1>6, <1>7, <2>1, <3>1, <3>2, <3>3
    <2> QED
        BY <1>6, <2>1, <2>2
<1>11. Readmitted => r.status = "admitting" /\ Status(h) = "admitting"
    BY <1>2, <1>9 DEF Readmitted
<1>12. \A k \in Heads : k # h => Status(k)' = Status(k) /\ row'[k] = row[k]
    BY <1>4 DEF Status
<1>13. Status(h)' = r.status /\ row'[h] = r
    BY <1>2, <1>4 DEF Status
<1>14. /\ InFlightHeads' \subseteq InFlightHeads
       /\ Undecided' \subseteq Undecided
    BY <1>9, <1>12, <1>13 DEF InFlightHeads, Undecided, InFlight, Finished
<1>15. Tagged'
    <2>1. Status(h) # "absent"
        BY <1>5 DEF Moved, Finished
    <2> QED
        BY <1>1, <1>12, <2>1 DEF SafeInv, Tagged
<1>16. HandlerWindow'
    <2>1. \A k \in Heads : UnderCaps(k) => UnderCaps(k)'
        BY <1>14, CapsShrink
    <2>2. admission[h].pc # "idle" =>
              r.status = Status(h) /\ r.detail.receipt = row[h].detail.receipt
        <3>1. admission[h].pc # "idle" => Status(h) \in {"absent"} \cup Finished
            BY <1>2 DEF SafeInv, HandlerWindow
        <3> QED
            BY <1>9, <1>10, <1>11, <3>1 DEF Finished
    <2> QED
        BY <1>1, <1>12, <1>13, <2>1, <2>2 DEF SafeInv, HandlerWindow
<1>17. JobIsVerifying'
    <2>1. \A k \in Heads : Status(k)' = "verifying" <=> Status(k) = "verifying"
        BY <1>9, <1>12, <1>13 DEF Finished
    <2> QED
        BY <1>1, <2>1 DEF SafeInv, JobIsVerifying, BaseInv, WorkerHasHead
<1>18. DeliveryFollowsRow' /\ CommitFollowsRow'
    BY <1>1, DeliveryIdleType DEF DeliveryFollowsRow, CommitFollowsRow, Delivering
<1>19. WaitingIsLast'
    <2>1. /\ \A k \in Heads : Status(k)' = "publishing" => Status(k) = "publishing"
          /\ \A k \in Heads : row'[k].finished = row[k].finished
          /\ ~ Delivering'
        BY <1>1, <1>3, <1>9, <1>12, <1>13, DeliveryIdleType
           DEF Finished, Delivering
    <2> QED
        BY <1>1, <2>1 DEF SafeInv, WaitingIsLast
<1>20. NoLaterReceipt'
    <2>1. r.status # "absent"
        BY <1>5, <1>9 DEF Moved, Finished
    <2> QED
        BY <1>1, <1>10, <1>12, <1>13, <2>1 DEF SafeInv, RowInv, NoLaterReceipt
<1>21. CompletesAfterReceipt'
    <2>1. r.status \in {"publishing"} \cup Finished =>
              r.detail.receipt <= r.finished
        BY <1>2, <1>3, <1>9, <1>10, <1>11
           DEF SafeInv, RowInv, CompletesAfterReceipt, Finished
    <2> QED
        BY <1>12, <1>13, <2>1 DEF SafeInv, RowInv, CompletesAfterReceipt
<1>22. OneAtATime'
    BY <1>14 DEF SafeInv, RowInv, OneAtATime
<1>23. NoProofBeforeReceipt'
    <2>1. ASSUME Status(h)' \in {"pending", "verifying", "publishing"}
          PROVE  h \in tags /\ ReceiptPublished(h, r.detail.receipt)
        <3>1. r.detail.receipt = row[h].detail.receipt
            BY <1>10, <1>11, <1>13, <2>1
        <3>2. CASE Status(h) = "admitting" /\ Published /\ ~Readmitted
            <4>1. delivery.cid \in 1 .. Len(comments[h])
                BY <1>2, <3>2, CommentDomain
                   DEF Published, BaseInv, CommentIds, Deliveries
            <4>2. comments[h][delivery.cid].admitted = row[h].detail.receipt
                BY <1>5, <3>2 DEF Published
            <4> QED
                BY <1>2, <3>1, <3>2, <4>1, <4>2, CommentDomain
                   DEF ReceiptPublished, SafeInv, Tagged
        <3>3. CASE Status(h) = r.status
            BY <1>2, <1>13, <2>1, <3>1, <3>3
               DEF SafeInv, RowInv, NoProofBeforeReceipt
        <3> QED
            BY <1>9, <1>13, <2>1, <3>2, <3>3 DEF Finished
    <2> QED
        BY <1>1, <1>12, <1>13, <2>1
           DEF SafeInv, RowInv, NoProofBeforeReceipt, ReceiptPublished
<1>24. VerdictHasReport'
    <2>1. ASSUME Status(h)' = "publishing"
          PROVE  outbox'[h] = outbox[h] /\ Status(h) = "publishing"
        <3>1. Status(h) = "publishing"
              /\ ~ (Advances /\ delivery.orig \in {"admitting", "publishing"})
            BY <1>9, <1>13, <2>1 DEF Finished
        <3>2. delivery.orig = "publishing" /\ delivery.seen.status = "publishing"
            BY <1>5, <1>6, <3>1 DEF Moved
        <3>3. ~Settled
            BY <3>1, <3>2 DEF Settled, Advances
        <3> QED
            BY <1>2, <3>1, <3>3 DEF DeliverCommit
    <2>2. \A k \in Heads : k # h => outbox'[k] = outbox[k]
        BY <1>2 DEF DeliverCommit, BaseInv, TypeOK
    <2> QED
        BY <1>12, <2>1, <2>2 DEF SafeInv, RowInv, VerdictHasReport
<1>25. CapsRespected'
    BY <1>14, CapsShrink DEF SafeInv, RowInv
<1> QED
    BY <1>15, <1>16, <1>17, <1>18, <1>19, <1>20, <1>21, <1>22, <1>23, <1>24,
       <1>25 DEF SafeInv, RowInv

(***************************************************************************)
(* Worker                                                                  *)
(***************************************************************************)
LEMMA SafeWorkerStart ==
    ASSUME BaseInv, SafeInv, WorkerStart
    PROVE  SafeInv'
<1>1. UNCHANGED <<outbox, comments, tags, admission, delivery>>
    BY DEF WorkerStart
<1>2. job.pc = "down" /\ job'.pc = "idle"
    BY DEF WorkerStart, WorkerIdle
<1>3. ASSUME NEW k \in Heads
      PROVE  /\ Status(k)' = IF Status(k) = "verifying" THEN "pending" ELSE Status(k)
             /\ row'[k].finished = row[k].finished
             /\ row'[k].detail = row[k].detail
    <2>1. row'[k] = IF Status(k) = "verifying" THEN [row[k] EXCEPT !.status = "pending"]
                                               ELSE row[k]
        BY DEF WorkerStart, Requeued
    <2>2. row[k] \in Rows
        BY RowFacts
    <2> QED
        BY <2>1, <2>2 DEF Rows, Status
<1>4. InFlightHeads' = InFlightHeads /\ Undecided' \subseteq Undecided
    BY <1>3 DEF InFlightHeads, InFlight, Undecided
<1>5. Tagged'
    BY <1>1, <1>3 DEF SafeInv, Tagged
<1>6. HandlerWindow'
    <2>1. \A k \in Heads : UnderCaps(k) => UnderCaps(k)'
        BY <1>4, CapsShrink
    <2> QED
        BY <1>1, <1>3, <2>1 DEF SafeInv, HandlerWindow, Finished
<1>7. JobIsVerifying'
    BY <1>2, <1>3 DEF JobIsVerifying
<1>8. Delivering => delivery.head \in Heads
    BY DEF BaseInv, CommentIds
<1>9. /\ Delivering' = Delivering
      /\ Delivering =>
             /\ Status(delivery.head)' =
                    IF Status(delivery.head) = "verifying"
                    THEN "pending" ELSE Status(delivery.head)
             /\ row'[delivery.head].detail = row[delivery.head].detail
             /\ Readmitted' = Readmitted
    BY <1>1, <1>3, <1>8 DEF Delivering, Readmitted, Status
<1>10. DeliveryFollowsRow'
    BY <1>1, <1>9 DEF SafeInv, DeliveryFollowsRow, Moved, Finished
<1>11. CommitFollowsRow'
    BY <1>1, <1>9 DEF SafeInv, CommitFollowsRow, Moved, Finished, Delivering
<1>12. WaitingIsLast'
    BY <1>1, <1>3, <1>9 DEF SafeInv, WaitingIsLast
<1>13. NoLaterReceipt' /\ CompletesAfterReceipt'
    BY <1>1, <1>3 DEF SafeInv, RowInv, NoLaterReceipt, CompletesAfterReceipt,
                      Finished
<1>14. OneAtATime' /\ CapsRespected'
    BY <1>4, CapsShrink DEF SafeInv, RowInv, OneAtATime
<1>15. NoProofBeforeReceipt' /\ VerdictHasReport'
    BY <1>1, <1>3 DEF SafeInv, RowInv, NoProofBeforeReceipt, ReceiptPublished,
                      VerdictHasReport
<1> QED
    BY <1>5, <1>6, <1>7, <1>10, <1>11, <1>12, <1>13, <1>14, <1>15
       DEF SafeInv, RowInv

(* A step of the worker that touches nothing but its own state.            *)
LEMMA SafeWorkerOnly ==
    ASSUME BaseInv, SafeInv, JobIsVerifying',
           UNCHANGED <<row, outbox, comments, tags, admission, delivery>>
    PROVE  SafeInv'
<1>1. SameRows
    BY DEF SameRows
<1>2. RowInv' /\ Tagged' /\ HandlerWindow'
      /\ DeliveryFollowsRow' /\ CommitFollowsRow' /\ WaitingIsLast'
    BY <1>1, RowFrame, HandlerFrame, DeliveryFrame
<1> QED
    BY <1>2 DEF SafeInv

LEMMA SafeWorkerPick ==
    ASSUME BaseInv, SafeInv, NEW h \in Heads, WorkerPick(h)
    PROVE  SafeInv'
<1>1. JobIsVerifying'
    BY DEF WorkerPick, WorkerIdle, SafeInv, JobIsVerifying, Status
<1> QED
    BY <1>1, SafeWorkerOnly DEF WorkerPick

LEMMA SafeWorkerCrash ==
    ASSUME BaseInv, SafeInv, WorkerCrash
    PROVE  SafeInv'
<1>1. JobIsVerifying'
    BY DEF WorkerCrash, WorkerDown, JobIsVerifying, Status
<1> QED
    BY <1>1, SafeWorkerOnly DEF WorkerCrash

LEMMA SafeProcessBegin ==
    ASSUME BaseInv, SafeInv, ProcessBegin
    PROVE  SafeInv'
<1>1. UNCHANGED <<outbox, comments, tags, admission, delivery>>
      /\ ~Delivering /\ job.pc = "picked"
    BY DEF ProcessBegin, ResultsFree, Delivering
<1>2. PICK h \in Heads : h = job.head
    BY <1>1 DEF BaseInv, WorkerHasHead
<1>3. \A k \in Heads : Status(k) # "verifying"
    BY <1>1 DEF SafeInv, JobIsVerifying
<1>4. CASE job' = WorkerIdle /\ UNCHANGED row
    <2>1. JobIsVerifying'
        BY <1>3, <1>4 DEF WorkerIdle, JobIsVerifying, Status
    <2> QED
        BY <1>1, <1>4, <2>1, SafeWorkerOnly
<1>5. CASE /\ MayBegin(h)
           /\ row' = [row EXCEPT ![h].status = "verifying"]
           /\ job' = [job EXCEPT !.pc = "running", !.epoch = contract]
    <2>1. Status(h) = "pending" /\ \A k \in Heads : Status(k) # "publishing"
        BY <1>5 DEF MayBegin, Publishing
    <2>2. job'.pc = "running" /\ job'.head = h
        BY <1>2, <1>5 DEF BaseInv, TypeOK, Jobs
    <2>3. ASSUME NEW k \in Heads
          PROVE  /\ Status(k)' = IF k = h THEN "verifying" ELSE Status(k)
                 /\ row'[k].finished = row[k].finished
                 /\ row'[k].detail = row[k].detail
        <3>1. row[k] \in Rows
            BY RowFacts
        <3>2. row'[k] = IF k = h THEN [row[k] EXCEPT !.status = "verifying"]
                                 ELSE row[k]
            BY <1>5 DEF BaseInv, TypeOK
        <3> QED
            BY <3>1, <3>2 DEF Rows, Status
    <2>4. InFlightHeads' = InFlightHeads
        BY <2>1, <2>3 DEF InFlightHeads, InFlight
    <2>5. Tagged' /\ HandlerWindow'
        <3>1. \A k \in Heads : UnderCaps(k) => UnderCaps(k)'
            BY <2>4, CapsShrink
        <3> QED
            BY <1>1, <2>1, <2>3, <3>1 DEF SafeInv, Tagged, HandlerWindow, Finished
    <2>6. JobIsVerifying'
        BY <1>3, <2>2, <2>3 DEF JobIsVerifying, Status
    <2>7. DeliveryFollowsRow' /\ CommitFollowsRow' /\ WaitingIsLast'
        BY <1>1, <2>1, <2>3
           DEF DeliveryFollowsRow, CommitFollowsRow, WaitingIsLast, Delivering
    <2>8. NoLaterReceipt' /\ CompletesAfterReceipt'
        BY <1>1, <2>1, <2>3 DEF SafeInv, RowInv, NoLaterReceipt,
                                CompletesAfterReceipt, Finished
    <2>9. OneAtATime'
        BY <1>3, <2>1, <2>3 DEF OneAtATime, Undecided
    <2>10. NoProofBeforeReceipt' /\ VerdictHasReport'
        BY <1>1, <2>1, <2>3 DEF SafeInv, RowInv, NoProofBeforeReceipt,
                                ReceiptPublished, VerdictHasReport
    <2>11. CapsRespected'
        BY <2>4, CapsShrink DEF SafeInv, RowInv
    <2> QED
        BY <2>5, <2>6, <2>7, <2>8, <2>9, <2>10, <2>11 DEF SafeInv, RowInv
<1> QED
    BY <1>2, <1>4, <1>5 DEF ProcessBegin

LEMMA SafeProcessFinish ==
    ASSUME BaseInv, SafeInv, ~ClockRollback, ProcessFinish
    PROVE  SafeInv'
<1>1. /\ UNCHANGED <<comments, tags, admission, delivery>>
      /\ ~Delivering /\ job.pc = "running" /\ job'.pc = "idle"
    BY DEF ProcessFinish, ResultsFree, Delivering, WorkerIdle
<1>2. PICK h \in Heads : h = job.head
    BY <1>1 DEF BaseInv, WorkerHasHead
<1>3. Status(h) = "verifying" /\ \A k \in Heads : Status(k) = "verifying" => k = h
    BY <1>1, <1>2 DEF SafeInv, JobIsVerifying
<1>3a. PICK now \in Readings, result \in Results :
          /\ row' = [row EXCEPT ![job.head].status         = "publishing",
                                ![job.head].finished       = NextFinishTime(now),
                                ![job.head].record         = FALSE,
                                ![job.head].detail.verdict = result]
          /\ outbox' = [outbox EXCEPT ![job.head] = Scheduled(@)]
          /\ clock' = Later(clock, NextFinishTime(now))
    BY DEF ProcessFinish
<1>4. /\ row' = [row EXCEPT ![h].status         = "publishing",
                            ![h].finished       = NextFinishTime(now),
                            ![h].record         = FALSE,
                            ![h].detail.verdict = result]
      /\ outbox' = [outbox EXCEPT ![h] = Scheduled(@)]
    BY <1>2, <1>3a
<1>5. NextFinishTime(now) = clock + 1 /\ clock \in Nat
    BY NextTime DEF BaseInv, TypeOK
<1>6. /\ \A k \in Heads : k # h => row'[k] = row[k] /\ outbox'[k] = outbox[k]
      /\ outbox'[h] # 0
    <2>1. outbox[h] \in Nat
        BY DEF BaseInv, TypeOK
    <2>2. Scheduled(outbox[h]) # 0
        BY <2>1, ScheduledType
    <2> QED
        BY <1>4, <2>2 DEF BaseInv, TypeOK
<1>7. /\ row'[h].status = "publishing"
      /\ row'[h].finished = clock + 1
      /\ row'[h].detail.receipt = row[h].detail.receipt
    <2>1. row[h] \in Rows
        BY RowFacts
    <2>2. row'[h] = [row[h] EXCEPT !.status         = "publishing",
                                   !.finished       = NextFinishTime(now),
                                   !.record         = FALSE,
                                   !.detail.verdict = result]
        BY <1>4 DEF BaseInv, TypeOK
    <2> QED
        BY <1>5, <2>1, <2>2 DEF Rows, Details
<1>8. \A k \in Heads : /\ row'[k].detail.receipt = row[k].detail.receipt
                       /\ Status(k)' = IF k = h THEN "publishing" ELSE Status(k)
    BY <1>6, <1>7 DEF Status
<1>9. /\ \A k \in Heads : row[k].finished <= clock /\ row[k].detail.receipt <= clock
      /\ \A k \in Heads : \A i \in 1 .. Len(comments[k]) :
             comments[k][i].finished <= clock /\ comments[k][i].finished \in Nat
      /\ \A k \in Heads : row[k].finished \in Nat /\ row[k].detail.receipt \in Nat
    <2>1. \A k \in Heads : \A i \in 1 .. Len(comments[k]) :
              comments[k][i] \in Entries
        BY ElementOfSeq DEF BaseInv, TypeOK
    <2> QED
        BY <2>1, RowFacts DEF BaseInv, ClockBounds, RowTimes, CommentTimes, Entries
<1>10. InFlightHeads' = InFlightHeads /\ Undecided' = Undecided
    BY <1>3, <1>8 DEF InFlightHeads, InFlight, Undecided
<1>11. Tagged' /\ HandlerWindow'
    <2>1. \A k \in Heads : UnderCaps(k) => UnderCaps(k)'
        BY <1>10, CapsShrink
    <2> QED
        BY <1>1, <1>3, <1>8, <2>1 DEF SafeInv, Tagged, HandlerWindow, Finished
<1>12. JobIsVerifying'
    BY <1>1, <1>3, <1>8 DEF JobIsVerifying
<1>13. DeliveryFollowsRow' /\ CommitFollowsRow'
    BY <1>1 DEF DeliveryFollowsRow, CommitFollowsRow, Delivering
<1>14. WaitingIsLast'
    <2>1. \A k \in Heads : Status(k)' = "publishing" => k = h
        BY <1>3, <1>8 DEF SafeInv, RowInv, OneAtATime, Undecided
    <2>2. ASSUME NEW k \in Heads, k # h
          PROVE  /\ row'[k].finished < clock + 1
                 /\ \A i \in 1 .. Len(comments[k]) :
                        comments[k][i].finished < clock + 1
        BY <1>5, <1>6, <1>9, <2>2
    <2>3. 0 < clock + 1
        BY <1>5
    <2> QED
        BY <1>1, <1>7, <2>1, <2>2, <2>3 DEF WaitingIsLast, Delivering
<1>15. NoLaterReceipt'
    BY <1>1, <1>8 DEF SafeInv, RowInv, NoLaterReceipt
<1>16. CompletesAfterReceipt'
    <2>1. row[h].detail.receipt <= clock + 1
        BY <1>5, <1>9
    <2> QED
        BY <1>6, <1>7, <1>8, <2>1 DEF SafeInv, RowInv, CompletesAfterReceipt
<1>17. OneAtATime' /\ CapsRespected'
    BY <1>10, CapsShrink DEF SafeInv, RowInv, OneAtATime
<1>18. NoProofBeforeReceipt' /\ VerdictHasReport'
    BY <1>1, <1>3, <1>6, <1>8 DEF SafeInv, RowInv, NoProofBeforeReceipt,
                                  ReceiptPublished, VerdictHasReport
<1> QED
    BY <1>11, <1>12, <1>13, <1>14, <1>15, <1>16, <1>17, <1>18
       DEF SafeInv, RowInv

(***************************************************************************)
(* Recovery                                                                *)
(***************************************************************************)

(* What a resync may write: only the row of a head whose own admission the *)
(* comment carries, as a verdict, or as a confirmed receipt.               *)
LEMMA ImportedRow ==
    ASSUME BaseInv, SafeInv, NEW h \in Heads, NEW c \in Contracts,
           ResyncImport(h, c), ~ UNCHANGED row
    PROVE  \E i \in 1 .. Len(comments[h]) :
              /\ \A k \in Heads : k # h => row'[k] = row[k]
              /\ comments[h][i] \in Entries
              /\ comments[h][i].admitted = row[h].detail.receipt
              /\ row'[h].detail.receipt = row[h].detail.receipt
              /\ \/ /\ Status(h) \in Finished \cup
                                     {"pending", "admitting", "publishing"}
                    /\ row'[h].status \in Finished
                    /\ row'[h].finished = comments[h][i].finished
                    /\ row[h].detail.receipt <= row'[h].finished
                 \/ /\ Status(h) = "admitting"
                    /\ row'[h].status = "pending"
                    /\ row'[h].finished \in {comments[h][i].finished, 0}
<1> DEFINE i == Latest(h, c)
           e == comments[h][i]
<1>1. <<h, c>> \in Histories
    BY DEF ResyncImport, BaseInv, RecoveryReads, Recovering
<1>2. i \in 1 .. Len(comments[h]) /\ e \in Entries
    BY <1>1, LatestIsComment
<1>3. Accepts(h, e) /\ row' = [row EXCEPT ![h] = Restored(e, i)]
    BY DEF ResyncImport
<1>4. /\ \A k \in Heads : k # h => row'[k] = row[k]
      /\ row'[h] = Restored(e, i)
    BY <1>3 DEF BaseInv, TypeOK
<1>5. /\ row'[h].status = e.status
      /\ row'[h].finished \in {e.finished, 0}
      /\ e.status \in Finished => row'[h].finished = e.finished
      /\ row'[h].detail.receipt = e.admitted
    BY <1>2, <1>4, RestoredType
<1>6. /\ Status(h) # "absent"
      /\ e.admitted <= row[h].detail.receipt
    BY <1>2 DEF SafeInv, RowInv, NoLaterReceipt
<1>7. /\ e.admitted \in Nat /\ e.finished \in Nat
      /\ e.status \in {"pending"} \cup Finished
      /\ row[h].detail.receipt \in Nat /\ row[h].finished \in Nat
    BY <1>2, RowFacts DEF Entries
<1> HIDE DEF i, e
<1>8. e.admitted = row[h].detail.receipt
    BY <1>3, <1>6, <1>7 DEF Accepts
<1>9. CASE e.status \in Finished
    <2>1. /\ Status(h) \in Finished \cup {"pending", "admitting", "publishing"}
          /\ row[h].detail.receipt <= e.finished
        BY <1>3, <1>6, <1>7, <1>9 DEF Accepts, IsTerminal
    <2> QED
        BY <1>2, <1>4, <1>5, <1>8, <1>9, <2>1 DEF i, e
<1>10. CASE e.status = "pending"
    <2>1. \/ Status(h) = "admitting"
          \/ Status(h) \in Finished /\ e.admitted > row[h].finished
        BY <1>3, <1>6, <1>10 DEF Accepts, IsTerminal, Finished
    <2>2. Status(h) \in Finished => row[h].detail.receipt <= row[h].finished
        BY DEF SafeInv, RowInv, CompletesAfterReceipt
    <2>3. Status(h) = "admitting"
        BY <1>7, <1>8, <2>1, <2>2
    <2> QED
        BY <1>2, <1>4, <1>5, <1>8, <1>10, <2>3 DEF i, e
<1> QED
    BY <1>7, <1>9, <1>10

LEMMA SafeResyncImport ==
    ASSUME BaseInv, SafeInv, NEW h \in Heads, NEW c \in Contracts,
           ResyncImport(h, c)
    PROVE  SafeInv'
<1>1. UNCHANGED <<outbox, comments, tags, admission, delivery, job>>
    BY DEF ResyncImport
<1>2. ~Delivering
    BY DEF ResyncImport, BaseInv, RecoveryReads, Recovering, ResultsFree,
           Delivering
<1>3. CASE UNCHANGED row
    <2>1. SameRows
        BY <1>3 DEF SameRows
    <2> QED
        BY <1>1, <2>1, SafeQuiet
<1>4. CASE ~ UNCHANGED row
    <2>1. PICK i \in 1 .. Len(comments[h]) :
              /\ \A k \in Heads : k # h => row'[k] = row[k]
              /\ comments[h][i] \in Entries
              /\ comments[h][i].admitted = row[h].detail.receipt
              /\ row'[h].detail.receipt = row[h].detail.receipt
              /\ \/ /\ Status(h) \in Finished \cup
                                     {"pending", "admitting", "publishing"}
                    /\ row'[h].status \in Finished
                    /\ row'[h].finished = comments[h][i].finished
                    /\ row[h].detail.receipt <= row'[h].finished
                 \/ /\ Status(h) = "admitting"
                    /\ row'[h].status = "pending"
                    /\ row'[h].finished \in {comments[h][i].finished, 0}
        BY <1>4, ImportedRow
    <2>2. /\ Status(h)' = row'[h].status
          /\ \A k \in Heads : k # h => Status(k)' = Status(k)
        BY <2>1 DEF Status
    <2>3. InFlightHeads' \subseteq InFlightHeads /\ Undecided' \subseteq Undecided
        BY <2>1, <2>2 DEF InFlightHeads, InFlight, Undecided, Finished
    <2>4. Tagged'
        BY <1>1, <2>1, <2>2 DEF SafeInv, Tagged, Finished
    <2>5. HandlerWindow'
        <3>1. \A k \in Heads : UnderCaps(k) => UnderCaps(k)'
            BY <2>3, CapsShrink
        <3>2. \A k \in Heads : row'[k].detail.receipt = row[k].detail.receipt
            BY <2>1
        <3>3. \A k \in Heads : Status(k) \in {"absent"} \cup Finished =>
                  Status(k)' \in {"absent"} \cup Finished
            BY <2>1, <2>2 DEF Finished
        <3> QED
            BY <1>1, <3>1, <3>2, <3>3 DEF SafeInv, HandlerWindow
    <2>6. JobIsVerifying'
        <3>1. \A k \in Heads : Status(k)' = "verifying" <=> Status(k) = "verifying"
            BY <2>1, <2>2 DEF Finished
        <3> QED
            BY <1>1, <3>1 DEF SafeInv, JobIsVerifying, BaseInv, WorkerHasHead
    <2>7. DeliveryFollowsRow' /\ CommitFollowsRow'
        BY <1>1, <1>2 DEF DeliveryFollowsRow, CommitFollowsRow, Delivering
    <2>8. WaitingIsLast'
        <3> SUFFICES ASSUME NEW g \in Heads, Status(g)' = "publishing"
                     PROVE  /\ 0 < row'[g].finished
                            /\ \A k \in Heads \ {g} :
                                   /\ row'[k].finished < row'[g].finished
                                   /\ \A j \in 1 .. Len(comments[k]) :
                                          comments[k][j].finished < row'[g].finished
            BY <1>1, <1>2 DEF WaitingIsLast, Delivering
        <3>1. g # h /\ Status(g) = "publishing" /\ row'[g] = row[g]
            BY <2>1, <2>2 DEF Finished
        <3>2. /\ 0 < row[g].finished
              /\ \A k \in Heads \ {g} :
                     /\ row[k].finished < row[g].finished
                     /\ \A j \in 1 .. Len(comments[k]) :
                            comments[k][j].finished < row[g].finished
            BY <3>1 DEF SafeInv, WaitingIsLast
        <3>3. row'[h].finished \in {comments[h][i].finished, 0}
            BY <2>1
        <3>4. row'[h].finished < row[g].finished
            BY <3>1, <3>2, <3>3
        <3> QED
            BY <2>1, <3>1, <3>2, <3>4
    <2>9. NoLaterReceipt'
        BY <1>1, <2>1, <2>2 DEF SafeInv, RowInv, NoLaterReceipt, Finished
    <2>10. CompletesAfterReceipt'
        BY <2>1, <2>2 DEF SafeInv, RowInv, CompletesAfterReceipt, Finished
    <2>11. OneAtATime' /\ CapsRespected'
        BY <2>3, CapsShrink DEF SafeInv, RowInv, OneAtATime
    <2>12. NoProofBeforeReceipt'
        <3>1. h \in tags /\ ReceiptPublished(h, row[h].detail.receipt)
            BY <2>1, CommentDomain DEF SafeInv, Tagged, ReceiptPublished, Finished
        <3> QED
            BY <1>1, <2>1, <2>2, <3>1
               DEF SafeInv, RowInv, NoProofBeforeReceipt, ReceiptPublished
    <2>13. VerdictHasReport'
        BY <1>1, <2>1, <2>2 DEF SafeInv, RowInv, VerdictHasReport, Finished
    <2> QED
        BY <2>4, <2>5, <2>6, <2>7, <2>8, <2>9, <2>10, <2>11, <2>12, <2>13
           DEF SafeInv, RowInv
<1> QED
    BY <1>3, <1>4

LEMMA SafeResyncEnd ==
    ASSUME BaseInv, SafeInv, ResyncEnd
    PROVE  SafeInv'
<1>1. UNCHANGED <<comments, tags, admission, delivery, job>>
      /\ row' = WithRecords(Replayed)
    BY DEF ResyncEnd
<1>2. SameRows
    BY <1>1, WithRecordsType DEF SameRows
<1> QED
    BY <1>1, <1>2, ReportsAfterReplay, SafeQuiet

(***************************************************************************)
(* Processes, contracts, and the theorems                                  *)
(***************************************************************************)
LEMMA SafeSystem ==
    ASSUME BaseInv, SafeInv,
           WebStart \/ ResyncBegin \/ DeployContract \/ UNCHANGED vars
    PROVE  SafeInv'
<1>1. UNCHANGED <<row, outbox, comments, tags, admission, delivery, job>>
    BY DEF WebStart, ResyncBegin, DeployContract, vars
<1>2. SameRows
    BY <1>1 DEF SameRows
<1> QED
    BY <1>1, <1>2, SafeQuiet

LEMMA SafeWebCrash ==
    ASSUME BaseInv, SafeInv, WebCrash
    PROVE  SafeInv'
<1>1. UNCHANGED <<row, outbox, comments, tags, job>>
      /\ delivery' = DeliveryIdle /\ admission' = NoHandler
    BY DEF WebCrash
<1>2. SameRows
    BY <1>1 DEF SameRows
<1>3. RowInv' /\ JobIsVerifying'
      /\ DeliveryFollowsRow' /\ CommitFollowsRow' /\ WaitingIsLast'
    BY <1>1, <1>2, RowFrame, JobFrame, DeliveryGone
<1>4. \A h \in Heads : admission'[h].pc = "idle"
    BY <1>1 DEF NoHandler, HandlerIdle
<1>5. Tagged' /\ HandlerWindow'
    BY <1>1, <1>4 DEF SafeInv, Tagged, HandlerWindow, Status
<1> QED
    BY <1>3, <1>5 DEF SafeInv

LEMMA SafeStep ==
    ASSUME BaseInv, SafeInv, ~ClockRollback, [Next]_vars
    PROVE  SafeInv'
<1>1. ASSUME NEW h \in Heads,
             AdmitCheck(h) \/ AdmitRetain(h) \/ AdmitCommit(h) \/ DeliverStart(h)
      PROVE  SafeInv'
    BY <1>1, SafeAdmitCheck, SafeAdmitRetain, SafeAdmitCommit, SafeDeliverStart
<1>2. CASE DeliverComment \/ DeliverSupplement \/ DeliverReread \/ DeliverCommit
    BY <1>2, SafeDeliverComment, SafeDeliverSupplement, SafeDeliverReread,
       SafeDeliverCommit
<1>3. CASE WorkerStart \/ (\E h \in Heads : WorkerPick(h)) \/ WorkerCrash
    BY <1>3, SafeWorkerStart, SafeWorkerPick, SafeWorkerCrash
<1>4. CASE ProcessBegin \/ ProcessFinish
    BY <1>4, SafeProcessBegin, SafeProcessFinish
<1>5. CASE ResyncEnd \/ (\E h \in Heads, c \in Contracts : ResyncImport(h, c))
    BY <1>5, SafeResyncImport, SafeResyncEnd
<1>6. CASE WebStart \/ ResyncBegin \/ DeployContract \/ UNCHANGED vars
    BY <1>6, SafeSystem
<1>7. CASE WebCrash
    BY <1>7, SafeWebCrash
<1> QED
    BY <1>1, <1>2, <1>3, <1>4, <1>5, <1>6, <1>7 DEF Next

(* The inductive invariant: what every process may rely on between its     *)
(* steps, whatever the others do, as long as the host's clock goes on.     *)
THEOREM SafeInvariant ==
    ASSUME ~ClockRollback
    PROVE  Spec => []SafeInv
<1>1. Init => SafeInv
    BY SafeInit
<1>2. BaseInv /\ SafeInv /\ [Next]_vars => SafeInv'
    BY SafeStep
<1> QED
    BY <1>1, <1>2, BaseInvariant, PTL DEF Spec

(* The worker touches a head only after GitHub holds its source tag and    *)
(* the receipt of this very admission (main._queue_submission,             *)
(* worker.deliver_durable_report).                                         *)
THEOREM ReceiptBeforeProof ==
    ASSUME ~ClockRollback
    PROVE  Spec => []NoProofBeforeReceipt
<1>1. SafeInv => NoProofBeforeReceipt
    BY DEF SafeInv, RowInv
<1> QED
    BY <1>1, SafeInvariant, PTL

(* A verdict that waits for its comment keeps a report in the outbox,      *)
(* through crashes, lost answers and resyncs (db.GithubReport).            *)
THEOREM NoVerdictIsLost ==
    ASSUME ~ClockRollback
    PROVE  Spec => []VerdictHasReport
<1>1. SafeInv => VerdictHasReport
    BY DEF SafeInv, RowInv
<1> QED
    BY <1>1, SafeInvariant, PTL

(* At most one head is undecided between worker and comment, and its       *)
(* verdict is later than every final one (worker.process, next_finish_time *)
(* and the publishing guard of work_loop).                                 *)
THEOREM DecidedOneByOne ==
    ASSUME ~ClockRollback
    PROVE  Spec => []OneUndecided
<1>1. SafeInv => OneUndecided
    <2> SUFFICES ASSUME SafeInv PROVE OneUndecided
        OBVIOUS
    <2>1. \A h, k \in Heads : /\ Status(h) \in {"verifying", "publishing"}
                              /\ Status(k) \in {"verifying", "publishing"}
                              => h = k
        BY DEF SafeInv, RowInv, OneAtATime, Undecided
    <2>2. \A h, k \in Heads :
              Status(h) = "publishing" /\ Status(k) \in Finished =>
                  row[k].finished < row[h].finished
        BY DEF SafeInv, WaitingIsLast, Finished
    <2> QED
        BY <2>1, <2>2 DEF OneUndecided
<1> QED
    BY <1>1, SafeInvariant, PTL

(* The caps on heads in flight hold although the webhook handler counts    *)
(* first and inserts after its calls to GitHub (main._queue_submission     *)
(* under the admission lock).                                              *)
THEOREM CapsHold ==
    ASSUME ~ClockRollback
    PROVE  Spec => []CapsRespected
<1>1. SafeInv => CapsRespected
    BY DEF SafeInv, RowInv
<1> QED
    BY <1>1, SafeInvariant, PTL

(***************************************************************************)
(* The receipt of a head that is never submitted again.  No clock is read  *)
(* for it: everything below holds with a clock that steps back, too.       *)
(***************************************************************************)

(* Of a head whose failure nobody retries: the handler that admits it saw  *)
(* no row, and a delivery that meets it while it is being admitted read    *)
(* it so from the start, so a settled report takes the row along.          *)
ReceiptKept(h) ==
    /\ Status(h) = "admitting" => outbox[h] # 0
    /\ admission[h].pc # "idle" => admission[h].old.status = "absent"
    /\ Delivering /\ delivery.head = h => Status(h) # "absent"
    /\ Delivering /\ delivery.head = h /\ Status(h) = "admitting" =>
           /\ delivery.orig = "admitting"
           /\ delivery.pc = "commit" => delivery.seen.status = "admitting"

(* A step that puts no head back to absent or "admitting", loses no report *)
(* and starts neither a handler nor a delivery.                            *)
LEMMA ReceiptFrame ==
    ASSUME NEW h \in Heads, ReceiptKept(h),
           row'[h].status = "admitting" => Status(h) = "admitting",
           row'[h].status = "absent" => Status(h) = "absent",
           outbox[h] # 0 => outbox'[h] # 0,
           \/ admission'[h].pc = "idle"
           \/ admission[h].pc # "idle" /\ admission'[h].old = admission[h].old,
           \/ delivery'.pc = "idle"
           \/ /\ Delivering
              /\ delivery'.head = delivery.head /\ delivery'.orig = delivery.orig
              /\ delivery'.pc = "commit" =>
                    delivery.pc = "commit" /\ delivery'.seen = delivery.seen
    PROVE  ReceiptKept(h)'
BY DEF ReceiptKept, Status, Delivering

LEMMA ReceiptAdmission ==
    ASSUME BaseInv, BaseInv', NEW h \in Heads \ Resubmittable, ReceiptKept(h),
           NEW k \in Heads, AdmitCheck(k) \/ AdmitRetain(k) \/ AdmitCommit(k)
    PROVE  ReceiptKept(h)'
<1>1. CASE AdmitCheck(k)
    <2>1. UNCHANGED <<row, outbox, delivery>>
        BY <1>1 DEF AdmitCheck, BeginHandler
    <2>2. CASE k = h
        <3>1. admission'[h].old.status = "absent"
            BY <1>1, <2>2 DEF AdmitCheck, BeginHandler, BaseInv, TypeOK, Status
        <3> QED
            BY <2>1, <3>1 DEF ReceiptKept, Status, Delivering
    <2>3. CASE k # h
        <3>1. admission'[h] = admission[h]
            BY <1>1, <2>3 DEF AdmitCheck, BeginHandler, BaseInv, TypeOK
        <3> QED
            BY <2>1, <3>1 DEF ReceiptKept, Status, Delivering
    <2> QED
        BY <2>2, <2>3
<1>2. CASE AdmitRetain(k)
    <2>1. UNCHANGED <<row, outbox, delivery>>
        BY <1>2 DEF AdmitRetain
    <2>2. \/ admission'[h].pc = "idle"
          \/ admission[h].pc # "idle" /\ admission'[h].old = admission[h].old
        <3>1. admission' \in {[admission EXCEPT ![k].pc = "commit"],
                               [admission EXCEPT ![k] = HandlerIdle]}
              /\ admission[k].pc = "retain"
            BY <1>2 DEF AdmitRetain
        <3>2. admission \in [Heads -> Handlers]
            BY DEF BaseInv, TypeOK
        <3>3. CASE k # h
            BY <3>1, <3>2, <3>3
        <3>4. CASE k = h
            BY <3>1, <3>2, <3>4 DEF HandlerIdle, Handlers
        <3> QED
            BY <3>3, <3>4
    <2> QED
        BY <2>1, <2>2 DEF ReceiptKept, Status, Delivering
<1>3. CASE AdmitCommit(k)
    <2>1. UNCHANGED delivery /\ admission' = [admission EXCEPT ![k] = HandlerIdle]
        BY <1>3 DEF AdmitCommit
    <2>2. admission'[h] = IF k = h THEN HandlerIdle ELSE admission[h]
        BY <2>1 DEF BaseInv, TypeOK
    <2>3. CASE UNCHANGED <<row, outbox>>
        BY <2>1, <2>2, <2>3 DEF ReceiptKept, Status, Delivering, HandlerIdle
    <2>4. CASE /\ ~(admission[k].old.status = "absent" /\ Status(k) # "absent")
               /\ row' = [row EXCEPT ![k] = AdmittedRow(k)]
               /\ outbox' = [outbox EXCEPT ![k] = Scheduled(@)]
        <3>1. CASE k = h
            <4>1. Status(h) = "absent"
                BY <1>3, <2>4, <3>1 DEF AdmitCommit, ReceiptKept
            <4>2. outbox'[h] # 0
                BY <2>4, <3>1, BoundAssumption DEF BaseInv, TypeOK, Scheduled
            <4>3. ~(Delivering /\ delivery.head = h)
                BY <4>1 DEF ReceiptKept
            <4> QED
                BY <2>1, <2>2, <3>1, <4>2, <4>3 DEF ReceiptKept, HandlerIdle, Delivering
        <3>2. CASE k # h
            <4>1. row'[h] = row[h] /\ outbox'[h] = outbox[h]
                BY <2>4, <3>2 DEF BaseInv, TypeOK
            <4> QED
                BY <2>1, <2>2, <3>2, <4>1 DEF ReceiptKept, Status, Delivering
        <3> QED
            BY <3>1, <3>2
    <2> QED
        BY <1>3, <2>3, <2>4 DEF AdmitCommit
<1> QED
    BY <1>1, <1>2, <1>3

LEMMA ReceiptDelivery ==
    ASSUME BaseInv, NEW h \in Heads, ReceiptKept(h),
           \/ \E k \in Heads : DeliverStart(k)
           \/ DeliverComment \/ DeliverSupplement \/ DeliverReread
    PROVE  ReceiptKept(h)'
<1>1. CASE \E k \in Heads : DeliverStart(k)
    <2>1. PICK k \in Heads : DeliverStart(k)
        BY <1>1
    <2>2. UNCHANGED <<row, outbox, admission>>
          /\ delivery'.pc = "comment"
          /\ delivery'.head = k /\ delivery'.orig = Status(k) /\ Status(k) # "absent"
        BY <2>1 DEF DeliverStart, DeliveryIdle
    <2> QED
        BY <2>2 DEF ReceiptKept, Status, Delivering
<1>2. CASE DeliverComment \/ DeliverSupplement
    <2>1. /\ UNCHANGED <<row, outbox, admission>>
          /\ Delivering
          /\ delivery'.head = delivery.head /\ delivery'.orig = delivery.orig
          /\ delivery'.pc # "commit"
        <3>1. delivery \in Deliveries
            BY DEF BaseInv, TypeOK
        <3>2. CASE DeliverComment
            BY <3>1, <3>2 DEF DeliverComment, AfterCommentError, Delivering, Deliveries
        <3>3. CASE DeliverSupplement
            BY <3>3, SupplementOnly
        <3> QED
            BY <1>2, <3>2, <3>3
    <2> QED
        BY <2>1 DEF ReceiptKept, Status, Delivering
<1>3. CASE DeliverReread
    <2>1. UNCHANGED <<row, outbox, admission>> /\ Delivering
        BY <1>3 DEF DeliverReread, Delivering
    <2>2. \/ delivery'.pc = "idle"
          \/ /\ delivery'.head = delivery.head /\ delivery'.orig = delivery.orig
             /\ delivery'.seen.status = Status(delivery.head)
        BY <1>3 DEF DeliverReread, DeliveryIdle, BaseInv, TypeOK, Deliveries
    <2> QED
        BY <2>1, <2>2 DEF ReceiptKept, Status, Delivering
<1> QED
    BY <1>1, <1>2, <1>3

(* A report is settled only together with the row it was read for.         *)
LEMMA ReceiptCommit ==
    ASSUME BaseInv, NEW h \in Heads, ReceiptKept(h), DeliverCommit
    PROVE  ReceiptKept(h)'
<1>1. PICK d \in Heads : d = delivery.head /\ Delivering /\ delivery.pc = "commit"
    BY DEF DeliverCommit, Delivering, BaseInv, CommentIds
<1>2. UNCHANGED admission /\ delivery'.pc = "idle"
    BY DEF DeliverCommit, DeliveryIdle
<1>3. CASE h # d
    <2>1. row'[h] = row[h] /\ outbox'[h] = outbox[h]
        BY <1>1, <1>3 DEF DeliverCommit, BaseInv, TypeOK
    <2> QED
        BY <1>2, <2>1 DEF ReceiptKept, Status, Delivering
<1>4. CASE h = d
    <2>1. /\ Advances /\ delivery.orig = "admitting" => row'[h].status = "pending"
          /\ Advances /\ delivery.orig = "publishing" =>
                 row'[h].status = delivery.body.status
          /\ ~Advances => row'[h].status = Status(h)
        BY <1>1, <1>4 DEF DeliverCommit, Advances, BaseInv, TypeOK, Rows, Status
    <2>2. delivery.body.status \notin {"admitting", "absent"}
        BY DEF BaseInv, TypeOK, Deliveries, Entries, Finished
    <2>3. Status(h) # "absent"
        BY <1>1, <1>4 DEF ReceiptKept
    <2>4. ASSUME row'[h].status = "admitting"
          PROVE  outbox'[h] # 0
        <3>1. ~Advances /\ Status(h) = "admitting"
            BY <2>1, <2>2, <2>4 DEF Advances
        <3>2. delivery.orig = "admitting" /\ delivery.seen.status = "admitting"
            BY <1>1, <1>4, <3>1 DEF ReceiptKept
        <3>3. ~Settled
            BY <3>1, <3>2 DEF Advances, Settled
        <3> QED
            BY <3>1, <3>3 DEF DeliverCommit, ReceiptKept
    <2>5. row'[h].status # "absent"
        BY <2>1, <2>2, <2>3 DEF Advances
    <2> QED
        BY <1>2, <2>4, <2>5 DEF ReceiptKept, Status, Delivering
<1> QED
    BY <1>3, <1>4

LEMMA ReceiptRest ==
    ASSUME BaseInv, NEW h \in Heads, ReceiptKept(h),
           \/ WorkerStart \/ (\E k \in Heads : WorkerPick(k))
           \/ ProcessBegin \/ ProcessFinish \/ WorkerCrash
           \/ ResyncBegin \/ (\E k \in Heads, c \in Contracts : ResyncImport(k, c))
           \/ ResyncEnd \/ WebStart \/ WebCrash \/ DeployContract
           \/ UNCHANGED vars
    PROVE  ReceiptKept(h)'
<1>1. CASE WorkerStart
    <2>1. /\ row'[h].status \in {Status(h), "pending"}
          /\ UNCHANGED <<outbox, admission, delivery>>
        BY <1>1 DEF WorkerStart, Requeued, BaseInv, TypeOK, Rows, Status
    <2> QED
        BY <2>1 DEF ReceiptKept, Status, Delivering
<1>2. CASE ProcessBegin
    <2>1. /\ row'[h].status \in {Status(h), "verifying"}
          /\ UNCHANGED <<outbox, admission, delivery>>
        <3>1. row' \in {row, [row EXCEPT ![job.head].status = "verifying"]}
              /\ UNCHANGED <<outbox, admission, delivery>>
            BY <1>2 DEF ProcessBegin
        <3>2. row \in [Heads -> Rows]
            BY DEF BaseInv, TypeOK
        <3> QED
            BY <3>1, <3>2 DEF Rows, Status
    <2> QED
        BY <2>1 DEF ReceiptKept, Status, Delivering
<1>3. CASE ProcessFinish
    <2>1. PICK now \in Readings, result \in Results :
              /\ row' = [row EXCEPT ![job.head].status         = "publishing",
                                    ![job.head].finished       = NextFinishTime(now),
                                    ![job.head].record         = FALSE,
                                    ![job.head].detail.verdict = result]
              /\ outbox' = [outbox EXCEPT ![job.head] = Scheduled(@)]
        BY <1>3 DEF ProcessFinish
    <2>2. row'[h].status \in {Status(h), "publishing"}
        <3>1. row \in [Heads -> Rows] /\ row[h] \in Rows
            BY DEF BaseInv, TypeOK
        <3>2. CASE h = job.head
            <4>1. row'[h] = [row[h] EXCEPT !.status         = "publishing",
                                           !.finished       = NextFinishTime(now),
                                           !.record         = FALSE,
                                           !.detail.verdict = result]
                BY <2>1, <3>1, <3>2
            <4> QED
                BY <3>1, <4>1 DEF Rows
        <3>3. CASE h # job.head
            BY <2>1, <3>1, <3>3 DEF Status
        <3> QED
            BY <3>2, <3>3
    <2>3. outbox[h] # 0 => outbox'[h] # 0
        BY <2>1, BoundAssumption DEF BaseInv, TypeOK, Scheduled
    <2>4. UNCHANGED <<admission, delivery>>
        BY <1>3 DEF ProcessFinish
    <2> QED
        BY <2>2, <2>3, <2>4 DEF ReceiptKept, Status, Delivering
<1>4. ASSUME NEW k \in Heads, NEW c \in Contracts, ResyncImport(k, c)
      PROVE  ReceiptKept(h)'
    <2>1. UNCHANGED <<outbox, admission, delivery>>
        BY <1>4 DEF ResyncImport
    <2>2. \/ row'[h].status = Status(h)
          \/ row'[h].status \in {"pending"} \cup Finished
        <3>1. CASE UNCHANGED row
            BY <3>1 DEF Status
        <3>2. CASE row' = [row EXCEPT ![k] =
                              Restored(comments[k][Latest(k, c)], Latest(k, c))]
            <4>1. comments[k][Latest(k, c)] \in Entries
                BY <1>4, LatestIsComment
                   DEF ResyncImport, BaseInv, RecoveryReads, Recovering
            <4> QED
                BY <3>2, <4>1 DEF Restored, Entries, BaseInv, TypeOK, Status
        <3> QED
            BY <1>4, <3>1, <3>2 DEF ResyncImport
    <2>3. row'[h].status \notin {"admitting", "absent"} \/ row'[h].status = Status(h)
        BY <2>2 DEF Finished
    <2> QED
        BY <2>1, <2>3 DEF ReceiptKept, Status, Delivering
<1>5. CASE ResyncEnd
    <2>1. row'[h].status = Status(h)
        BY <1>5 DEF ResyncEnd, WithRecords, BaseInv, TypeOK, Rows, Status
    <2>2. outbox[h] # 0 => outbox'[h] # 0
        <3>1. CASE outbox' = outbox
            BY <3>1
        <3>2. CASE outbox' = [k \in Heads |->
                    IF k \in BestOf(Replayed) /\ ~row[k].detail.snapshot
                    THEN Scheduled(outbox[k]) ELSE outbox[k]]
            <4>1. Scheduled(outbox[h]) # 0
                BY BoundAssumption DEF BaseInv, TypeOK, Scheduled
            <4> QED
                BY <3>2, <4>1
        <3> QED
            BY <1>5, <3>1, <3>2 DEF ResyncEnd
    <2>3. UNCHANGED <<admission, delivery>>
        BY <1>5 DEF ResyncEnd
    <2> QED
        BY <2>1, <2>2, <2>3 DEF ReceiptKept, Status, Delivering
<1>6. CASE WebCrash
    <2>1. UNCHANGED <<row, outbox>> /\ delivery'.pc = "idle"
          /\ admission'[h].pc = "idle"
        BY <1>6 DEF WebCrash, NoHandler, HandlerIdle, DeliveryIdle
    <2> QED
        BY <2>1 DEF ReceiptKept, Status, Delivering
<1>7. CASE \/ (\E k \in Heads : WorkerPick(k)) \/ WorkerCrash \/ ResyncBegin
           \/ WebStart \/ DeployContract \/ UNCHANGED vars
    <2>1. UNCHANGED <<row, outbox, admission, delivery>>
        BY <1>7 DEF WorkerPick, WorkerCrash, ResyncBegin, WebStart, DeployContract, vars
    <2> QED
        BY <2>1 DEF ReceiptKept, Status, Delivering
<1> QED
    BY <1>1, <1>2, <1>3, <1>4, <1>5, <1>6, <1>7

(* Only a resubmission can lose a receipt: a head whose failure nobody     *)
(* retries keeps a report in the outbox until its receipt is confirmed,    *)
(* through every crash, lost answer, resync and change of the clock        *)
(* (main._queue_submission, worker.deliver_durable_report).                *)
THEOREM OnlyRetriesLoseReceipts ==
    Spec => [](\A h \in Heads \ Resubmittable :
                   Status(h) = "admitting" => outbox[h] # 0)
<1> DEFINE Inv == \A h \in Heads \ Resubmittable : ReceiptKept(h)
<1>1. Init => Inv
    BY DEF Init, ReceiptKept, Status, AbsentRow, NoHandler, HandlerIdle,
           DeliveryIdle, Delivering
<1>2. ASSUME BaseInv, BaseInv', Inv, [Next]_vars
      PROVE  Inv'
    <2> SUFFICES ASSUME NEW h \in Heads \ Resubmittable
                 PROVE  ReceiptKept(h)'
        OBVIOUS
    <2>1. ReceiptKept(h)
        BY <1>2
    <2>2. ASSUME NEW k \in Heads, AdmitCheck(k) \/ AdmitRetain(k) \/ AdmitCommit(k)
          PROVE  ReceiptKept(h)'
        BY <1>2, <2>1, <2>2, ReceiptAdmission
    <2> QED
        BY <1>2, <2>1, <2>2, ReceiptDelivery, ReceiptCommit, ReceiptRest DEF Next
<1>3. Inv => \A h \in Heads \ Resubmittable : Status(h) = "admitting" => outbox[h] # 0
    BY DEF ReceiptKept
<1> QED
    BY <1>1, <1>2, <1>3, BaseInvariant, PTL DEF Spec

(* Where nobody submits a failed head again, every admitted head whose     *)
(* receipt is not confirmed has a report queued (db.GithubReport).         *)
THEOREM ReceiptsAreReported ==
    ASSUME Resubmittable = {}
    PROVE  Spec => []ReceiptHasReport
<1>1. (\A h \in Heads \ Resubmittable : Status(h) = "admitting" => outbox[h] # 0)
          => ReceiptHasReport
    BY DEF ReceiptHasReport
<1> QED
    BY <1>1, OnlyRetriesLoseReceipts, PTL
==============================================================================
