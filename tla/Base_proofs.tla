------------------------------ MODULE Base_proofs -----------------------------
(***************************************************************************)
(* The state of Service is well typed, for all heads, contracts, caps and  *)
(* bounds, whether or not the clock steps back.                            *)
(*                                                                         *)
(* BaseInv, the inductive invariant, has to say more than types: that a    *)
(* completion time can be found after every recorded one, that a comment   *)
(* id names a comment, that a resync reads the comments it listed, and     *)
(* that what waits for its comment is a verdict.                           *)
(***************************************************************************)
EXTENDS Service, SequenceTheorems, WellFoundedInduction, TLAPS

(* Every timestamp that was given out is at most the clock.                *)
RowTimes ==
    \A h \in Heads : row[h].finished <= clock /\ row[h].detail.receipt <= clock

HandlerTimes == \A h \in Heads : admission[h].at <= clock

CommentTimes ==
    \A h \in Heads : \A i \in 1 .. Len(comments[h]) :
        /\ comments[h][i].finished <= clock
        /\ comments[h][i].admitted <= clock

DeliveryTimes == /\ delivery.body.finished <= clock
                 /\ delivery.body.admitted <= clock
                 /\ delivery.seen.detail.receipt <= clock

ClockBounds == RowTimes /\ HandlerTimes /\ CommentTimes /\ DeliveryTimes

Delivering == delivery.pc # "idle"

(* Every comment id that is remembered somewhere names a comment.          *)
CommentIds ==
    /\ \A h \in Heads : /\ row[h].detail.comment <= Len(comments[h])
                        /\ admission[h].old.detail.comment <= Len(comments[h])
    /\ Delivering => /\ delivery.head \in Heads
                     /\ delivery.known <= Len(comments[delivery.head])
                     /\ delivery.cid <= Len(comments[delivery.head])
    /\ delivery.pc = "commit" =>
           delivery.seen.detail.comment <= Len(comments[delivery.head])

WorkerHasHead == job.pc \in {"picked", "running"} => job.head \in Heads

(* While a resync runs nothing is delivered, so the comments it has still  *)
(* to read are there.                                                      *)
RecoveryReads == Recovering => ResultsFree /\ recovery.todo \subseteq Histories

(* What waits to be published is a verdict.                                *)
WaitsWithVerdict ==
    /\ \A h \in Heads : Status(h) = "publishing" => row[h].detail.verdict # "none"
    /\ Delivering /\ delivery.orig = "publishing" => delivery.body.status # "pending"
    /\ delivery.pc = "commit" =>
           \/ row[delivery.head].detail = delivery.seen.detail
           \/ Status(delivery.head) = "admitting"

BaseInv ==
    /\ TypeOK
    /\ ClockBounds
    /\ CommentIds
    /\ WorkerHasHead
    /\ RecoveryReads
    /\ WaitsWithVerdict

(***************************************************************************)
(* Greatest elements                                                       *)
(***************************************************************************)

(* A bounded set of numbers that has an element has a greatest one.        *)
LEMMA BoundedMax ==
    ASSUME NEW S \in SUBSET Nat, S # {}, NEW b \in Nat, \A s \in S : s <= b
    PROVE  \E m \in S : \A s \in S : s <= m
<1> DEFINE T == {b - s : s \in S}
<1>1. T \subseteq Nat /\ T # {}
    <2>1. \A s \in S : b - s \in Nat
        OBVIOUS
    <2>2. PICK s \in S : TRUE
        OBVIOUS
    <2> QED
        BY <2>1, <2>2
<1>2. PICK x \in T : \A y \in T : ~ (<<y, x>> \in OpToRel(<, Nat))
    <2> HIDE DEF T
    <2> QED
        BY <1>1, NatLessThanWellFounded, WFMin
<1>3. \A y \in T : ~ (y < x)
    <2> SUFFICES ASSUME NEW y \in T, y < x
                 PROVE  <<y, x>> \in OpToRel(<, Nat)
        BY <1>2
    <2> HIDE DEF T
    <2>1. <<y, x>> \in Nat \X Nat
        BY <1>1
    <2> QED
        BY <2>1 DEF OpToRel
<1>4. PICK m \in S : x = b - m
    OBVIOUS
<1>5. ASSUME NEW s \in S
      PROVE  s <= m
    <2>1. b - s \in T
        OBVIOUS
    <2>2. ~ (b - s < b - m)
        BY <1>3, <1>4, <2>1
    <2>3. b \in Nat /\ s \in Nat /\ m \in Nat
        OBVIOUS
    <2> HIDE DEF T
    <2> QED
        BY <2>2, <2>3
<1> QED
    BY <1>5

(* next_finish_time gives a time, and one that is not before the clock.    *)
LEMMA FinishTimeType ==
    ASSUME BaseInv, NEW now \in Nat
    PROVE  NextFinishTime(now) \in Nat /\ now <= NextFinishTime(now)
<1>1. \A h \in Heads : row[h].finished \in Nat /\ row[h].finished <= clock
    BY DEF BaseInv, TypeOK, ClockBounds, RowTimes, Rows
<1>2. clock \in Nat
    BY DEF BaseInv, TypeOK
<1>3. FinishTimes \in SUBSET Nat /\ \A t \in FinishTimes : t <= clock
    BY <1>1 DEF FinishTimes
<1>4. CASE \E t \in FinishTimes : t >= now
    <2>1. \E m \in FinishTimes : \A u \in FinishTimes : u <= m
        BY <1>2, <1>3, <1>4, BoundedMax
    <2> DEFINE m == CHOOSE t \in FinishTimes : \A u \in FinishTimes : u <= t
    <2>2. m \in FinishTimes /\ \A u \in FinishTimes : u <= m
        BY <2>1
    <2>3. NextFinishTime(now) = 1 + m
        BY <1>4 DEF NextFinishTime
    <2> HIDE DEF m
    <2>4. m \in Nat /\ \A u \in FinishTimes : u \in Nat
        BY <1>3, <2>2
    <2>5. m >= now
        BY <1>4, <2>2, <2>4
    <2> QED
        BY <2>3, <2>4, <2>5
<1>5. CASE ~ \E t \in FinishTimes : t >= now
    BY <1>5 DEF NextFinishTime
<1> QED
    BY <1>4, <1>5

(* latest_verdicts finds, in a history that has a comment, one that is     *)
(* later than all others.                                                  *)
LEMMA LatestIsComment ==
    ASSUME BaseInv, NEW h \in Heads, NEW c \in Contracts, <<h, c>> \in Histories
    PROVE  /\ Latest(h, c) \in 1 .. Len(comments[h])
           /\ comments[h][Latest(h, c)].contract = c
           /\ comments[h][Latest(h, c)] \in Entries
<1> DEFINE s == comments[h]
           ids == {i \in DOMAIN s : s[i].contract = c}
           time(i) == EventTime(s[i])
<1>1. s \in Seq(Entries) /\ clock \in Nat
    BY DEF BaseInv, TypeOK
<1>2. Len(s) \in Nat /\ DOMAIN s = 1 .. Len(s)
    BY <1>1, LenProperties
<1>3. \A i \in 1 .. Len(s) : s[i] \in Entries
    BY <1>1, ElementOfSeq
<1>4. ids # {} /\ ids \subseteq 1 .. Len(s)
    BY <1>2 DEF Histories
<1>5. \A i \in ids : time(i) \in Nat /\ time(i) <= clock
    <2>1. \A i \in ids : s[i].finished <= clock /\ s[i].admitted <= clock
        BY <1>4 DEF BaseInv, ClockBounds, CommentTimes
    <2> QED
        BY <1>3, <1>4, <2>1 DEF EventTime, Entries
<1>6. PICK t \in {time(i) : i \in ids} : \A u \in {time(i) : i \in ids} : u <= t
    <2> DEFINE S == {time(i) : i \in ids}
    <2>1. S \in SUBSET Nat /\ S # {} /\ \A u \in S : u <= clock
        BY <1>4, <1>5
    <2> HIDE DEF S
    <2>2. \E m \in S : \A u \in S : u <= m
        BY <1>1, <2>1, BoundedMax
    <2> QED
        BY <2>2 DEF S
<1> DEFINE last == {i \in ids : time(i) = t}
           final == {i \in last : IsTerminal(s[i])}
           best == IF final = {} THEN last ELSE final
<1>7. last # {} /\ best # {} /\ best \subseteq ids
    BY <1>6
<1>8. PICK i \in best : \A j \in best : j <= i
    <2>1. best \in SUBSET Nat /\ \A j \in best : j <= Len(s)
        BY <1>2, <1>4, <1>7
    <2> HIDE DEF best
    <2> QED
        BY <1>2, <1>7, <2>1, BoundedMax
<1>9. \A j \in ids : LaterEntry(h, i, j)
    <2> SUFFICES ASSUME NEW j \in ids
                 PROVE  LaterEntry(h, i, j)
        OBVIOUS
    <2>1. i \in ids /\ time(i) = t /\ time(j) <= t
        BY <1>6, <1>7
    <2>2. time(i) \in Nat /\ time(j) \in Nat /\ i \in Nat /\ j \in Nat
        BY <1>2, <1>4, <1>5, <2>1
    <2>3. CASE time(j) < t
        <3> HIDE DEF ids
        <3> QED
            BY <2>1, <2>2, <2>3 DEF LaterEntry
    <2>4. CASE time(j) = t
        <3>1. j \in last
            BY <2>4
        <3>2. IsTerminal(s[j]) => IsTerminal(s[i])
            BY <1>8, <3>1
        <3>3. (IsTerminal(s[i]) <=> IsTerminal(s[j])) => j \in best
            BY <1>8, <3>1
        <3>4. \/ IsTerminal(s[i]) /\ ~ IsTerminal(s[j])
              \/ (IsTerminal(s[i]) <=> IsTerminal(s[j])) /\ i >= j
            BY <1>8, <2>2, <3>2, <3>3
        <3> HIDE DEF ids, best
        <3> QED
            BY <2>1, <2>4, <3>4 DEF LaterEntry
    <2> QED
        BY <2>1, <2>2, <2>3, <2>4
<1>10. Latest(h, c) \in ids
    <2>1. i \in ids
        BY <1>7
    <2> QED
        BY <1>9, <2>1 DEF Latest
<1> QED
    BY <1>3, <1>4, <1>10

(* publish_comment writes the body into one comment, and changes no other. *)
LEMMA CommentWritten ==
    ASSUME BaseInv, Delivering
    PROVE  /\ WithComment \in [Heads -> Seq(Entries)]
           /\ CommentId \in 1 .. Len(WithComment[delivery.head])
           /\ WithComment[delivery.head][CommentId] = delivery.body
           /\ \A h \in Heads : Len(comments[h]) <= Len(WithComment[h])
           /\ \A h \in Heads : \A i \in 1 .. Len(comments[h]) :
                  \/ WithComment[h][i] = comments[h][i]
                  \/ h = delivery.head /\ WithComment[h][i] = delivery.body
           /\ \A h \in Heads : \A i \in 1 .. Len(WithComment[h]) :
                  \/ /\ i \in 1 .. Len(comments[h])
                     /\ WithComment[h][i] = comments[h][i]
                  \/ h = delivery.head /\ WithComment[h][i] = delivery.body
<1> DEFINE d == delivery.head
           s == comments[d]
           w == IF delivery.known # 0
                THEN [s EXCEPT ![delivery.known] = delivery.body]
                ELSE Append(s, delivery.body)
<1>1. d \in Heads /\ delivery.known <= Len(s)
    BY DEF BaseInv, CommentIds
<1>2. comments \in [Heads -> Seq(Entries)] /\ delivery.known \in Nat
      /\ delivery.body \in Entries
    BY DEF BaseInv, TypeOK, Deliveries
<1>3. s \in Seq(Entries) /\ Len(s) \in Nat
    BY <1>1, <1>2, LenProperties
<1>4. WithComment = [comments EXCEPT ![d] = w]
    BY <1>1, <1>2 DEF WithComment
<1>5. /\ w \in Seq(Entries)
      /\ CommentId \in 1 .. Len(w)
      /\ w[CommentId] = delivery.body
      /\ Len(s) <= Len(w)
      /\ \A i \in 1 .. Len(s) : w[i] = s[i] \/ w[i] = delivery.body
      /\ \A i \in 1 .. Len(w) : \/ i \in 1 .. Len(s) /\ w[i] = s[i]
                                \/ w[i] = delivery.body
    <2>1. CASE delivery.known # 0
        <3>1. delivery.known \in 1 .. Len(s)
            BY <1>1, <1>2, <1>3, <2>1
        <3>2. CommentId = delivery.known
            BY <2>1 DEF CommentId
        <3>3. w = [s EXCEPT ![delivery.known] = delivery.body]
            BY <2>1
        <3> HIDE DEF s, w
        <3> QED
            BY <1>2, <1>3, <3>1, <3>2, <3>3, ExceptSeq
    <2>2. CASE delivery.known = 0
        <3>1. CommentId = Len(s) + 1
            BY <2>2 DEF CommentId
        <3>2. w = Append(s, delivery.body)
            BY <2>2
        <3> HIDE DEF s, w
        <3> QED
            BY <1>2, <1>3, <3>1, <3>2, AppendProperties
    <2> QED
        BY <2>1, <2>2
<1>6. WithComment[d] = w /\ \A h \in Heads \ {d} : WithComment[h] = comments[h]
    BY <1>1, <1>2, <1>4
<1>7. \A h \in Heads : Len(comments[h]) \in Nat
    BY <1>2, LenProperties
<1>8. WithComment \in [Heads -> Seq(Entries)]
    <2> HIDE DEF w
    <2> QED
        BY <1>1, <1>2, <1>4, <1>5
<1> HIDE DEF w
<1>9. \A h \in Heads :
          /\ Len(comments[h]) <= Len(WithComment[h])
          /\ \A i \in 1 .. Len(comments[h]) :
                 \/ WithComment[h][i] = comments[h][i]
                 \/ h = d /\ WithComment[h][i] = delivery.body
          /\ \A i \in 1 .. Len(WithComment[h]) :
                 \/ /\ i \in 1 .. Len(comments[h])
                    /\ WithComment[h][i] = comments[h][i]
                 \/ h = d /\ WithComment[h][i] = delivery.body
    <2> TAKE h \in Heads
    <2>1. CASE h = d
        BY <1>5, <1>6, <2>1
    <2>2. CASE h # d
        BY <1>6, <1>7, <2>2
    <2> QED
        BY <2>1, <2>2
<1> QED
    BY <1>5, <1>6, <1>8, <1>9

(***************************************************************************)
(* Initially                                                               *)
(***************************************************************************)
LEMMA BaseInit == Init => BaseInv
<1> SUFFICES ASSUME Init PROVE BaseInv
    OBVIOUS
<1> USE DEF Init
<1>1. \A h \in Heads : comments[h] = <<>> /\ Len(comments[h]) = 0
    BY EmptySeq
<1>2. TypeOK
    <2>1. AbsentRow \in Rows
        BY DEF AbsentRow, NoDetail, Rows, Details, Statuses
    <2>2. HandlerIdle \in Handlers
        BY <2>1 DEF HandlerIdle, Handlers
    <2>3. DeliveryIdle \in Deliveries
        BY DEF DeliveryIdle, Deliveries, NoEntry, Entries, NoDetail, Details,
               Statuses
    <2>4. WorkerDown \in Jobs /\ RecoveryIdle \in Recoveries
        BY DEF WorkerDown, Jobs, RecoveryIdle, Recoveries
    <2>5. <<>> \in Seq(Entries)
        BY EmptySeq
    <2>6. faults \in 0 .. MaxFaults /\ contract \in Contracts
        BY EpochAssumption, BoundAssumption
    <2> QED
        BY <2>1, <2>2, <2>3, <2>4, <2>5, <2>6 DEF TypeOK, NoRegistry, NoHandler
<1>3. ClockBounds
    <2>1. RowTimes
        BY DEF RowTimes, AbsentRow, NoDetail
    <2>2. HandlerTimes
        BY DEF HandlerTimes, NoHandler, HandlerIdle
    <2>3. CommentTimes
        BY <1>1 DEF CommentTimes
    <2>4. DeliveryTimes
        BY DEF DeliveryTimes, DeliveryIdle, NoEntry, NoDetail
    <2> QED
        BY <2>1, <2>2, <2>3, <2>4 DEF ClockBounds
<1>4. CommentIds
    BY <1>1 DEF CommentIds, AbsentRow, NoDetail, NoHandler, HandlerIdle,
                Delivering, DeliveryIdle
<1>5. WorkerHasHead /\ RecoveryReads /\ WaitsWithVerdict
    BY DEF WorkerHasHead, WorkerDown, RecoveryReads, Recovering, RecoveryIdle,
           WaitsWithVerdict, Status, AbsentRow, Delivering, DeliveryIdle
<1> QED
    BY <1>2, <1>3, <1>4, <1>5 DEF BaseInv

(***************************************************************************)
(* Admission                                                               *)
(***************************************************************************)
LEMMA ReadingsType ==
    ASSUME BaseInv, NEW now \in Readings
    PROVE  now \in Nat \ {0} /\ Later(clock, now) \in Nat
           /\ clock <= Later(clock, now) /\ now <= Later(clock, now)
BY DEF BaseInv, TypeOK, Readings, Later

(* What an action leaves alone keeps its bound when time goes on.          *)
LEMMA TimesStay ==
    ASSUME BaseInv, clock' \in Nat, clock <= clock'
    PROVE  /\ row' = row => RowTimes'
           /\ admission' = admission => HandlerTimes'
           /\ comments' = comments => CommentTimes'
           /\ delivery' = delivery => DeliveryTimes'
<1>1. \A n \in Nat : n <= clock => n <= clock'
    BY DEF BaseInv, TypeOK
<1>2. row' = row => RowTimes'
    BY <1>1 DEF BaseInv, TypeOK, Rows, Details, ClockBounds, RowTimes
<1>3. admission' = admission => HandlerTimes'
    BY <1>1 DEF BaseInv, TypeOK, Handlers, ClockBounds, HandlerTimes
<1>4. comments' = comments => CommentTimes'
    <2>1. \A h \in Heads : \A i \in 1 .. Len(comments[h]) :
              comments[h][i] \in Entries
        BY ElementOfSeq DEF BaseInv, TypeOK
    <2> QED
        BY <1>1, <2>1 DEF BaseInv, Entries, ClockBounds, CommentTimes
<1>5. delivery' = delivery => DeliveryTimes'
    BY <1>1 DEF BaseInv, TypeOK, Deliveries, Entries, Details, ClockBounds,
                DeliveryTimes
<1> QED
    BY <1>2, <1>3, <1>4, <1>5

LEMMA HandlerIdleType ==
    /\ HandlerIdle \in Handlers
    /\ HandlerIdle.pc = "idle"
    /\ HandlerIdle.at = 0
    /\ HandlerIdle.old.detail.comment = 0
<1>1. AbsentRow \in Rows
    BY DEF AbsentRow, NoDetail, Rows, Details, Statuses
<1> QED
    BY <1>1 DEF HandlerIdle, Handlers, AbsentRow, NoDetail

LEMMA BaseAdmitCheck ==
    ASSUME BaseInv, NEW h \in Heads, AdmitCheck(h)
    PROVE  BaseInv'
<1> USE DEF BaseInv
<1>1. PICK now \in Readings :
          /\ admission' = [admission EXCEPT ![h] =
                             [pc |-> "retain", old |-> row[h], at |-> now]]
          /\ clock' = Later(clock, now)
    BY DEF AdmitCheck, BeginHandler
<1>2. UNCHANGED <<row, outbox, comments, tags, main, contract, marker, web,
                  resyncDue, recovery, delivery, job, faults>>
    BY DEF AdmitCheck, BeginHandler
<1>3. now \in Nat /\ clock' \in Nat /\ clock <= clock' /\ now <= clock'
    BY <1>1, ReadingsType
<1>4. TypeOK'
    BY <1>1, <1>2, <1>3 DEF TypeOK, Handlers
<1>5. ClockBounds'
    <2>1. \A n \in Nat : n <= clock => n <= clock'
        BY <1>3 DEF TypeOK
    <2>2. HandlerTimes'
        BY <1>1, <1>3, <2>1 DEF TypeOK, Handlers, ClockBounds, HandlerTimes
    <2> QED
        BY <1>2, <1>3, <2>2, TimesStay DEF ClockBounds
<1>6. CommentIds'
    BY <1>1, <1>2 DEF CommentIds, Delivering, TypeOK
<1>7. WorkerHasHead' /\ RecoveryReads' /\ WaitsWithVerdict'
    BY <1>2 DEF WorkerHasHead, RecoveryReads, Recovering, ResultsFree,
                Histories, WaitsWithVerdict, Status, Delivering
<1> QED
    BY <1>4, <1>5, <1>6, <1>7

LEMMA BaseAdmitRetain ==
    ASSUME BaseInv, NEW h \in Heads, AdmitRetain(h)
    PROVE  BaseInv'
<1> USE DEF BaseInv
<1>1. UNCHANGED <<row, outbox, comments, main, contract, marker, web,
                  resyncDue, recovery, delivery, job, clock>>
    BY DEF AdmitRetain
<1>2. tags' \subseteq Heads /\ faults' \in 0 .. MaxFaults
    BY BoundAssumption DEF AdmitRetain, Fault, TypeOK
<1>3. PICK x \in Handlers :
          /\ admission' = [admission EXCEPT ![h] = x]
          /\ x.at \in {admission[h].at, 0}
          /\ x.old.detail.comment \in {admission[h].old.detail.comment, 0}
    <2>1. admission[h] \in Handlers
        BY DEF TypeOK
    <2>2. CASE admission' = [admission EXCEPT ![h].pc = "commit"]
        <3> DEFINE x == [admission[h] EXCEPT !.pc = "commit"]
        <3>1. x \in Handlers /\ x.at = admission[h].at /\ x.old = admission[h].old
            BY <2>1 DEF Handlers
        <3>2. admission' = [admission EXCEPT ![h] = x]
            BY <2>2
        <3> QED
            BY <3>1, <3>2
    <2>3. CASE admission' = [admission EXCEPT ![h] = HandlerIdle]
        BY <2>3, HandlerIdleType
    <2> QED
        BY <2>2, <2>3 DEF AdmitRetain
<1>4. TypeOK'
    BY <1>1, <1>2, <1>3 DEF TypeOK
<1>5. ClockBounds'
    <2>1. HandlerTimes'
        BY <1>1, <1>3 DEF TypeOK, ClockBounds, HandlerTimes
    <2>2. clock' \in Nat /\ clock <= clock'
        BY <1>1 DEF TypeOK
    <2> QED
        BY <1>1, <2>1, <2>2, TimesStay DEF ClockBounds
<1>6. CommentIds'
    <2>1. \A k \in Heads : 0 <= Len(comments[k])
        BY LenProperties DEF TypeOK
    <2> QED
        BY <1>1, <1>3, <2>1 DEF TypeOK, CommentIds, Delivering
<1>7. WorkerHasHead' /\ RecoveryReads' /\ WaitsWithVerdict'
    BY <1>1 DEF WorkerHasHead, RecoveryReads, Recovering, ResultsFree,
                Histories, WaitsWithVerdict, Status, Delivering
<1> QED
    BY <1>4, <1>5, <1>6, <1>7

LEMMA ScheduledType ==
    ASSUME NEW v \in Nat
    PROVE  Scheduled(v) \in Nat \ {0} /\ Scheduled(v) # v
BY BoundAssumption DEF Scheduled

LEMMA BaseAdmitCommit ==
    ASSUME BaseInv, NEW h \in Heads, AdmitCommit(h)
    PROVE  BaseInv'
<1> USE DEF BaseInv
<1>1. UNCHANGED <<comments, tags, main, contract, marker, web, resyncDue,
                  recovery, delivery, job, clock, faults>>
    BY DEF AdmitCommit
<1>2. admission' = [admission EXCEPT ![h] = HandlerIdle]
    BY DEF AdmitCommit
<1>3. \/ UNCHANGED <<row, outbox>>
      \/ /\ row' = [row EXCEPT ![h] = AdmittedRow(h)]
         /\ outbox' = [outbox EXCEPT ![h] = Scheduled(@)]
    BY DEF AdmitCommit
<1>5. AdmittedRow(h) \in Rows
    BY DEF AdmittedRow, TypeOK, Handlers, Rows, Details, Statuses, InFlight
<1>6. /\ AdmittedRow(h).status = "admitting"
      /\ AdmittedRow(h).finished = 0
      /\ AdmittedRow(h).detail.receipt = admission[h].at
      /\ AdmittedRow(h).detail.comment = admission[h].old.detail.comment
    BY DEF AdmittedRow
<1>7. Scheduled(outbox[h]) \in Nat
    BY ScheduledType DEF TypeOK
<1>8. TypeOK'
    <2>1. row' \in [Heads -> Rows]
        BY <1>3, <1>5 DEF TypeOK
    <2>2. outbox' \in [Heads -> Nat]
        BY <1>3, <1>7 DEF TypeOK
    <2>3. admission' \in [Heads -> Handlers]
        BY <1>2, HandlerIdleType DEF TypeOK
    <2> QED
        BY <1>1, <2>1, <2>2, <2>3 DEF TypeOK
<1>9. \A k \in Heads : admission'[k] \in {admission[k], HandlerIdle}
    BY <1>2 DEF TypeOK
<1>10. \A k \in Heads : row'[k] = row[k] \/ (k = h /\ row'[k] = AdmittedRow(h))
    BY <1>3 DEF TypeOK
<1>11. ClockBounds'
    <2>1. clock' = clock /\ clock' \in Nat /\ clock <= clock' /\ 0 <= clock
        BY <1>1 DEF TypeOK
    <2>2. RowTimes'
        BY <1>6, <1>10, <2>1 DEF ClockBounds, RowTimes, HandlerTimes
    <2>3. HandlerTimes'
        BY <1>9, <2>1, HandlerIdleType DEF ClockBounds, HandlerTimes
    <2> QED
        BY <1>1, <2>1, <2>2, <2>3, TimesStay DEF ClockBounds
<1>12. CommentIds'
    <2>1. \A k \in Heads : 0 <= Len(comments[k])
        BY LenProperties DEF TypeOK
    <2> QED
        BY <1>1, <1>6, <1>9, <1>10, <2>1, HandlerIdleType
           DEF CommentIds, Delivering
<1>13. WorkerHasHead' /\ RecoveryReads'
    BY <1>1 DEF WorkerHasHead, RecoveryReads, Recovering, ResultsFree, Histories
<1>14. WaitsWithVerdict'
    BY <1>1, <1>6, <1>10 DEF WaitsWithVerdict, Status, Delivering, CommentIds
<1> QED
    BY <1>8, <1>11, <1>12, <1>13, <1>14

(***************************************************************************)
(* Delivery                                                                *)
(***************************************************************************)

(* verdict_entry of a row that exists: a receipt or a verdict.             *)
LEMMA EntryType ==
    ASSUME BaseInv, NEW h \in Heads, Status(h) # "absent"
    PROVE  /\ Entry(h) \in Entries
           /\ Entry(h).finished = row[h].finished
           /\ Entry(h).admitted = row[h].detail.receipt
           /\ Entry(h).status = ReportedStatus(row[h])
           /\ Status(h) = "publishing" => Entry(h).status # "pending"
<1>1. row[h] \in Rows
    BY DEF BaseInv, TypeOK
<1>2. Status(h) = "publishing" => row[h].detail.verdict \in Finished
    BY <1>1 DEF BaseInv, WaitsWithVerdict, Rows, Details
<1>3. /\ ReportedStatus(row[h]) \in {"pending"} \cup Finished
      /\ Status(h) = "publishing" => ReportedStatus(row[h]) # "pending"
    BY <1>1, <1>2 DEF ReportedStatus, Rows, Status, Statuses, InFlight, Finished
<1>4. ReportedRecord(h) \in BOOLEAN
    BY <1>1 DEF ReportedRecord, Promotes, Rows
<1> QED
    BY <1>1, <1>3, <1>4 DEF Entry, Entries, Rows, Details

LEMMA BaseDeliverStart ==
    ASSUME BaseInv, NEW h \in Heads, DeliverStart(h)
    PROVE  BaseInv'
<1> USE DEF BaseInv
<1>1. UNCHANGED <<row, outbox, comments, tags, main, contract, marker, web,
                  resyncDue, recovery, admission, job, clock, faults>>
    BY DEF DeliverStart
<1>2. row[h] \in Rows /\ outbox[h] \in Nat /\ Status(h) # "absent"
    BY DEF TypeOK, DeliverStart
<1>3. MayPublishSnapshot(h) \in BOOLEAN
    BY DEF MayPublishSnapshot
<1>4. /\ delivery' \in Deliveries
      /\ delivery'.head = h
      /\ delivery'.known = row[h].detail.comment
      /\ delivery'.cid = 0
      /\ delivery'.pc = "comment"
      /\ delivery'.orig = Status(h)
      /\ delivery'.body = Entry(h)
      /\ delivery'.seen.detail.receipt = 0
    <2>1. /\ row[h].detail.comment \in Nat
          /\ row[h].detail.snapshot \in BOOLEAN
          /\ Status(h) \in Statuses
          /\ Entry(h) \in Entries
        BY <1>2, EntryType DEF Rows, Details, Status
    <2>2. NoDetail \in Details /\ NoDetail.receipt = 0 /\ "absent" \in Statuses
        BY DEF NoDetail, Details, Statuses
    <2>3. delivery' = [pc |-> "comment", head |-> h, version |-> outbox[h],
                       orig |-> Status(h), known |-> row[h].detail.comment,
                       body |-> Entry(h), lead |-> MayPublishSnapshot(h),
                       cid |-> 0, snapshot |-> row[h].detail.snapshot,
                       error |-> FALSE,
                       seen |-> [version |-> 0, status |-> "absent",
                                 detail |-> NoDetail]]
        BY DEF DeliverStart, DeliveryIdle
    <2> QED
        BY <1>2, <1>3, <2>1, <2>2, <2>3 DEF Deliveries
<1>5. TypeOK'
    BY <1>1, <1>4 DEF TypeOK
<1>6. ClockBounds'
    <2>1. clock' = clock /\ clock' \in Nat /\ clock <= clock'
        BY <1>1 DEF TypeOK
    <2>2. DeliveryTimes'
        BY <1>2, <1>4, <2>1, EntryType DEF ClockBounds, RowTimes, DeliveryTimes
    <2> QED
        BY <1>1, <2>1, <2>2, TimesStay DEF ClockBounds
<1>7. CommentIds'
    <2>1. Len(comments[h]) \in Nat
        BY LenProperties DEF TypeOK
    <2> QED
        BY <1>1, <1>4, <2>1 DEF CommentIds
<1>8. WorkerHasHead' /\ RecoveryReads'
    BY <1>1 DEF WorkerHasHead, RecoveryReads, Recovering, DeliverStart
<1>9. WaitsWithVerdict'
    BY <1>1, <1>2, <1>4, EntryType DEF WaitsWithVerdict, Status
<1> QED
    BY <1>5, <1>6, <1>7, <1>8, <1>9

LEMMA LengthsGrow ==
    ASSUME BaseInv, Delivering, comments' \in {comments, WithComment}
    PROVE  \A h \in Heads : /\ Len(comments[h]) \in Nat
                            /\ Len(comments'[h]) \in Nat
                            /\ Len(comments[h]) <= Len(comments'[h])
<1>1. comments \in [Heads -> Seq(Entries)] /\ comments' \in [Heads -> Seq(Entries)]
    BY CommentWritten DEF BaseInv, TypeOK
<1>2. \A h \in Heads : Len(comments[h]) \in Nat /\ Len(comments'[h]) \in Nat
    BY <1>1, LenProperties
<1>3. \A h \in Heads : Len(comments[h]) <= Len(comments'[h])
    BY <1>2, CommentWritten
<1> QED
    BY <1>2, <1>3

(* A step of a delivery that leaves the rows alone.                        *)
LEMMA BaseDeliveryOnly ==
    ASSUME BaseInv, Delivering,
           UNCHANGED <<row, outbox, tags, contract, marker, web, resyncDue,
                       recovery, admission, job, clock>>,
           comments' \in {comments, WithComment},
           main' \in {main, MainAfter},
           faults' \in 0 .. MaxFaults,
           delivery'.pc \in {"supplement", "reread"},
           delivery'.head = delivery.head,
           delivery'.version = delivery.version,
           delivery'.orig = delivery.orig,
           delivery'.known = delivery.known,
           delivery'.body = delivery.body,
           delivery'.seen = delivery.seen,
           delivery'.cid \in Nat,
           delivery'.cid <= Len(comments'[delivery.head]),
           delivery' \in Deliveries
    PROVE  BaseInv'
<1> USE DEF BaseInv
<1>1. delivery.head \in Heads /\ delivery.body \in Entries
    BY DEF CommentIds, TypeOK, Deliveries
<1>2. TypeOK'
    <2>1. comments' \in [Heads -> Seq(Entries)]
        BY CommentWritten DEF TypeOK
    <2>2. main' \in [head : Heads \cup {NoHead}, finished : Nat,
                     contract : Contracts \cup {0}]
        BY <1>1 DEF TypeOK, MainAfter, Registry, Entries
    <2> QED
        BY <2>1, <2>2 DEF TypeOK
<1>3. \A h \in Heads : \A i \in 1 .. Len(comments'[h]) :
          \/ i \in 1 .. Len(comments[h]) /\ comments'[h][i] = comments[h][i]
          \/ comments'[h][i] = delivery.body
    BY CommentWritten
<1>4. ClockBounds'
    <2>1. CommentTimes'
        BY <1>3 DEF ClockBounds, CommentTimes, DeliveryTimes
    <2>2. DeliveryTimes'
        BY DEF ClockBounds, DeliveryTimes
    <2>3. clock' \in Nat /\ clock <= clock'
        BY DEF TypeOK
    <2> QED
        BY <2>1, <2>2, <2>3, TimesStay DEF ClockBounds
<1>5. CommentIds'
    <2>1. \A h \in Heads : /\ Len(comments[h]) \in Nat
                           /\ Len(comments'[h]) \in Nat
                           /\ Len(comments[h]) <= Len(comments'[h])
        BY LengthsGrow
    <2>2. ASSUME NEW h \in Heads
          PROVE  /\ row[h].detail.comment <= Len(comments'[h])
                 /\ admission[h].old.detail.comment <= Len(comments'[h])
        <3>1. row[h].detail.comment \in Nat
              /\ admission[h].old.detail.comment \in Nat
            BY DEF TypeOK, Rows, Details, Handlers
        <3>2. row[h].detail.comment <= Len(comments[h])
              /\ admission[h].old.detail.comment <= Len(comments[h])
            BY DEF CommentIds
        <3> QED
            BY <2>1, <3>1, <3>2
    <2>3. delivery.known <= Len(comments'[delivery.head])
        BY <1>1, <2>1 DEF CommentIds, TypeOK, Deliveries
    <2> QED
        BY <1>1, <2>2, <2>3 DEF CommentIds
<1>6. WorkerHasHead' /\ RecoveryReads'
    BY DEF WorkerHasHead, RecoveryReads, Recovering, ResultsFree, Delivering
<1>7. WaitsWithVerdict'
    BY DEF WaitsWithVerdict, Status, Delivering
<1> QED
    BY <1>2, <1>4, <1>5, <1>6, <1>7

LEMMA FaultType ==
    ASSUME BaseInv, Fault
    PROVE  faults' \in 0 .. MaxFaults
BY BoundAssumption DEF BaseInv, TypeOK, Fault

LEMMA BaseDeliverComment ==
    ASSUME BaseInv, DeliverComment
    PROVE  BaseInv'
<1>1. Delivering /\ delivery \in Deliveries /\ delivery.head \in Heads
    BY DEF DeliverComment, Delivering, BaseInv, TypeOK, CommentIds
<1>2. UNCHANGED <<row, outbox, tags, main, contract, marker, web, resyncDue,
                  recovery, admission, job, clock>>
    BY DEF DeliverComment
<1>3. CASE /\ comments' = WithComment
           /\ delivery' = [delivery EXCEPT !.pc = "supplement", !.cid = CommentId]
           /\ UNCHANGED faults
    <2>1. CommentId \in Nat /\ CommentId <= Len(comments'[delivery.head])
        BY <1>1, <1>3, CommentWritten DEF CommentId, Deliveries
    <2>2. faults' \in 0 .. MaxFaults
        BY <1>3 DEF BaseInv, TypeOK
    <2> QED
        BY <1>1, <1>2, <1>3, <2>1, <2>2, BaseDeliveryOnly DEF Deliveries
<1>4. CASE /\ Fault
           /\ comments' \in {comments, WithComment}
           /\ delivery' = [delivery EXCEPT !.pc = AfterCommentError,
                                           !.error = TRUE]
    <2>1. delivery.cid <= Len(comments'[delivery.head])
        <3>1. /\ delivery.cid \in Nat
              /\ delivery.cid <= Len(comments[delivery.head])
            BY <1>1 DEF BaseInv, CommentIds, Deliveries
        <3>2. /\ Len(comments[delivery.head]) \in Nat
              /\ Len(comments'[delivery.head]) \in Nat
              /\ Len(comments[delivery.head]) <= Len(comments'[delivery.head])
            BY <1>1, <1>4, LengthsGrow
        <3> QED
            BY <3>1, <3>2
    <2>2. faults' \in 0 .. MaxFaults
        BY <1>4, FaultType
    <2> QED
        BY <1>1, <1>2, <1>4, <2>1, <2>2, BaseDeliveryOnly
           DEF Deliveries, AfterCommentError
<1> QED
    BY <1>3, <1>4 DEF DeliverComment

LEMMA BaseDeliverSupplement ==
    ASSUME BaseInv, DeliverSupplement
    PROVE  BaseInv'
<1>1. Delivering /\ delivery \in Deliveries /\ delivery.head \in Heads
    BY DEF DeliverSupplement, Delivering, BaseInv, TypeOK, CommentIds
<1>2. UNCHANGED <<row, outbox, comments, tags, contract, marker, web,
                  resyncDue, recovery, admission, job, clock>>
    BY DEF DeliverSupplement
<1>3. main' \in {main, MainAfter} /\ faults' \in 0 .. MaxFaults
    <2>1. Fault => faults' \in 0 .. MaxFaults
        BY FaultType
    <2>2. UNCHANGED faults => faults' \in 0 .. MaxFaults
        BY DEF BaseInv, TypeOK
    <2> QED
        BY <2>1, <2>2 DEF DeliverSupplement
<1>4. PICK s \in BOOLEAN, e \in BOOLEAN :
          delivery' = [delivery EXCEPT !.pc = "reread", !.snapshot = s, !.error = e]
    <2> DEFINE d(s, e) == [delivery EXCEPT !.pc = "reread", !.snapshot = s,
                                           !.error = e]
               publish == delivery.lead /\ delivery.body.contract = contract
    <2>1. \/ delivery' = [delivery EXCEPT !.pc = "reread", !.snapshot = @ \/ publish]
          \/ delivery' = [delivery EXCEPT !.pc = "reread", !.error = TRUE]
          \/ \E confirmed \in BOOLEAN :
                delivery' = [delivery EXCEPT !.pc = "reread", !.error = TRUE,
                                             !.snapshot = @ \/ confirmed]
        BY DEF DeliverSupplement
    <2>2. delivery.snapshot \in BOOLEAN /\ delivery.error \in BOOLEAN
        BY <1>1 DEF Deliveries
    <2>3. CASE delivery' = [delivery EXCEPT !.pc = "reread",
                                            !.snapshot = @ \/ publish]
        <3>1. delivery' = d(delivery.snapshot \/ publish, delivery.error)
            BY <1>1, <2>3 DEF Deliveries
        <3>2. (delivery.snapshot \/ publish) \in BOOLEAN
            BY <2>2
        <3> QED
            BY <2>2, <3>1, <3>2
    <2>4. CASE delivery' = [delivery EXCEPT !.pc = "reread", !.error = TRUE]
        <3>1. delivery' = d(delivery.snapshot, TRUE)
            BY <1>1, <2>4 DEF Deliveries
        <3> QED
            BY <2>2, <3>1
    <2>5. ASSUME NEW confirmed \in BOOLEAN,
                 delivery' = [delivery EXCEPT !.pc = "reread", !.error = TRUE,
                                              !.snapshot = @ \/ confirmed]
          PROVE  \E s \in BOOLEAN, e \in BOOLEAN : delivery' = d(s, e)
        <3>1. delivery' = d(delivery.snapshot \/ confirmed, TRUE)
            BY <1>1, <2>5 DEF Deliveries
        <3>2. (delivery.snapshot \/ confirmed) \in BOOLEAN
            BY <2>2
        <3> QED
            BY <3>1, <3>2
    <2> QED
        BY <2>1, <2>3, <2>4, <2>5
<1>5. /\ delivery' \in Deliveries
      /\ delivery'.pc = "reread"
      /\ delivery'.head = delivery.head
      /\ delivery'.version = delivery.version
      /\ delivery'.orig = delivery.orig
      /\ delivery'.known = delivery.known
      /\ delivery'.body = delivery.body
      /\ delivery'.seen = delivery.seen
      /\ delivery'.cid = delivery.cid
    BY <1>1, <1>4 DEF Deliveries
<1>6. delivery.cid \in Nat /\ delivery.cid <= Len(comments[delivery.head])
    BY <1>1 DEF BaseInv, CommentIds, Deliveries
<1> QED
    BY <1>1, <1>2, <1>3, <1>5, <1>6, BaseDeliveryOnly

LEMMA DeliveryIdleType ==
    /\ DeliveryIdle \in Deliveries
    /\ DeliveryIdle.pc = "idle"
    /\ DeliveryIdle.body.finished = 0
    /\ DeliveryIdle.body.admitted = 0
    /\ DeliveryIdle.seen.detail.receipt = 0
BY DEF DeliveryIdle, Deliveries, NoEntry, Entries, NoDetail, Details, Statuses

(* A delivery that ends without writing anything.                          *)
LEMMA BaseDeliveryEnds ==
    ASSUME BaseInv, delivery' = DeliveryIdle,
           UNCHANGED <<row, outbox, comments, tags, main, contract, marker, web,
                       resyncDue, recovery, admission, job, clock, faults>>
    PROVE  BaseInv'
<1> USE DEF BaseInv
<1>1. TypeOK'
    BY DeliveryIdleType DEF TypeOK
<1>2. clock' \in Nat /\ clock <= clock' /\ 0 <= clock'
    BY DEF TypeOK
<1>3. DeliveryTimes'
    BY <1>2, DeliveryIdleType DEF DeliveryTimes
<1>4. ClockBounds'
    BY <1>2, <1>3, TimesStay DEF ClockBounds
<1>5. CommentIds' /\ WorkerHasHead' /\ RecoveryReads' /\ WaitsWithVerdict'
    BY DeliveryIdleType
       DEF CommentIds, WorkerHasHead, RecoveryReads, Recovering, ResultsFree,
           Histories, WaitsWithVerdict, Status, Delivering
<1> QED
    BY <1>1, <1>4, <1>5

LEMMA BaseDeliverReread ==
    ASSUME BaseInv, DeliverReread
    PROVE  BaseInv'
<1> USE DEF BaseInv
<1>1. UNCHANGED <<row, outbox, comments, tags, main, contract, marker, web,
                  resyncDue, recovery, admission, job, clock, faults>>
    BY DEF DeliverReread
<1>2. Delivering /\ delivery \in Deliveries /\ delivery.head \in Heads
    BY DEF DeliverReread, Delivering, TypeOK, CommentIds
<1> DEFINE h == delivery.head
           read == [version |-> outbox[h], status |-> Status(h),
                    detail |-> row[h].detail]
<1>3. CASE delivery' = DeliveryIdle
    BY <1>1, <1>3, BaseDeliveryEnds
<1>4. CASE delivery' = [delivery EXCEPT !.pc = "commit", !.seen = read]
    <2>1. row[h] \in Rows /\ outbox[h] \in Nat
        BY <1>2 DEF TypeOK
    <2>2. /\ delivery' \in Deliveries
          /\ delivery'.pc = "commit"
          /\ delivery'.head = h
          /\ delivery'.known = delivery.known
          /\ delivery'.cid = delivery.cid
          /\ delivery'.orig = delivery.orig
          /\ delivery'.body = delivery.body
          /\ delivery'.seen.detail = row[h].detail
        BY <1>2, <1>4, <2>1 DEF Deliveries, Rows, Status
    <2>3. TypeOK'
        BY <1>1, <2>2 DEF TypeOK
    <2>4. clock' = clock /\ clock' \in Nat /\ clock <= clock'
        BY <1>1 DEF TypeOK
    <2>5. DeliveryTimes'
        BY <1>2, <2>2, <2>4 DEF ClockBounds, RowTimes, DeliveryTimes
    <2>6. ClockBounds'
        BY <1>1, <2>4, <2>5, TimesStay DEF ClockBounds
    <2>7. CommentIds'
        BY <1>1, <1>2, <2>2 DEF CommentIds
    <2>8. WorkerHasHead' /\ RecoveryReads'
        BY <1>1, <1>2 DEF WorkerHasHead, RecoveryReads, Recovering, ResultsFree,
                          Delivering
    <2>9. WaitsWithVerdict'
        BY <1>1, <1>2, <2>2 DEF WaitsWithVerdict, Status, Delivering
    <2> QED
        BY <2>3, <2>6, <2>7, <2>8, <2>9
<1> QED
    BY <1>3, <1>4 DEF DeliverReread

(* What a delivery writes into the row: at most the detail it read with    *)
(* the confirmed comment, and the verdict only if the row is at last       *)
(* published by it.                                                        *)
LEMMA DetailAfterType ==
    ASSUME BaseInv, delivery.pc = "commit"
    PROVE  /\ DetailAfter \in Details
           /\ DetailAfter.receipt = delivery.seen.detail.receipt
           /\ DetailAfter.comment <= Len(comments[delivery.head])
           /\ ~ (Advances /\ delivery.orig = "publishing") =>
                  DetailAfter.verdict = delivery.seen.detail.verdict
<1>1. delivery \in Deliveries /\ delivery.seen.detail \in Details
    BY DEF BaseInv, TypeOK, Deliveries
<1>2. /\ delivery.cid <= Len(comments[delivery.head])
      /\ delivery.seen.detail.comment <= Len(comments[delivery.head])
    BY DEF BaseInv, CommentIds, Delivering
<1>3. DetailAfter.receipt = delivery.seen.detail.receipt
    BY <1>1 DEF DetailAfter, Details
<1>4. DetailAfter.comment \in {delivery.cid, delivery.seen.detail.comment}
    BY <1>1 DEF DetailAfter, Details
<1>5. ~ (Advances /\ delivery.orig = "publishing") =>
          DetailAfter.verdict = delivery.seen.detail.verdict
    BY <1>1 DEF DetailAfter, Details
<1>6. DetailAfter \in Details
    <2> DEFINE c == IF Published THEN delivery.cid ELSE delivery.seen.detail.comment
               s == delivery.seen.detail.snapshot \/ (SameVersion /\ delivery.snapshot)
               v == IF Advances /\ delivery.orig = "publishing"
                    THEN "none" ELSE delivery.seen.detail.verdict
    <2>1. DetailAfter = [delivery.seen.detail EXCEPT !.comment = c, !.snapshot = s,
                                                     !.verdict = v]
        BY <1>1 DEF DetailAfter, Details
    <2>2. c \in Nat /\ v \in Finished \cup {"none"}
        BY <1>1 DEF Deliveries, Details
    <2>3. s \in BOOLEAN
        OBVIOUS
    <2> HIDE DEF c, s, v
    <2> QED
        BY <1>1, <2>1, <2>2, <2>3 DEF Details
<1> QED
    BY <1>2, <1>3, <1>4, <1>5, <1>6

(* The row after a delivery: the three ways a report may end.              *)
LEMMA CommittedRow ==
    ASSUME BaseInv, DeliverCommit
    PROVE  \E r \in Rows :
              /\ row' = [row EXCEPT ![delivery.head] = r]
              /\ r.finished = row[delivery.head].finished
              /\ r.detail \in {row[delivery.head].detail, DetailAfter}
              /\ \/ /\ Advances /\ delivery.orig = "admitting"
                    /\ r.status = "pending"
                 \/ /\ Advances /\ delivery.orig = "publishing"
                    /\ r.status = delivery.body.status
                 \/ /\ ~ (Advances /\ delivery.orig \in {"admitting", "publishing"})
                    /\ r.status = Status(delivery.head)
<1> DEFINE h == delivery.head
           d == IF DetailAfter = delivery.seen.detail THEN row[h].detail
                                                      ELSE DetailAfter
           r == [row[h] EXCEPT !.detail = d]
           published == [r EXCEPT !.status = delivery.body.status,
                                  !.record = delivery.body.record]
<1>1. row[h] \in Rows /\ delivery.body \in Entries /\ delivery.pc = "commit"
    BY DEF BaseInv, TypeOK, Deliveries, CommentIds, Delivering, DeliverCommit
<1>2. d \in Details
    BY <1>1, DetailAfterType DEF Rows
<1>3. r \in Rows /\ r.status = Status(h) /\ r.finished = row[h].finished
      /\ r.detail = d
    BY <1>1, <1>2 DEF Rows, Status
<1>4. d \in {row[h].detail, DetailAfter}
    OBVIOUS
<1>5. CASE Advances /\ delivery.orig = "admitting"
    <2>1. row' = [row EXCEPT ![h] = [r EXCEPT !.status = "pending"]]
        BY <1>5 DEF DeliverCommit
    <2>2. /\ [r EXCEPT !.status = "pending"] \in Rows
          /\ [r EXCEPT !.status = "pending"].status = "pending"
          /\ [r EXCEPT !.status = "pending"].finished = row[h].finished
          /\ [r EXCEPT !.status = "pending"].detail = d
        BY <1>3 DEF Rows, Statuses, InFlight
    <2> QED
        BY <1>4, <1>5, <2>1, <2>2
<1>6. CASE Advances /\ delivery.orig = "publishing"
    <2>1. row' = [row EXCEPT ![h] = published]
        BY <1>6 DEF DeliverCommit
    <2>2. /\ published \in Rows
          /\ published.status = delivery.body.status
          /\ published.finished = row[h].finished
          /\ published.detail = d
        BY <1>1, <1>3 DEF Rows, Entries, Statuses, InFlight
    <2> QED
        BY <1>4, <1>6, <2>1, <2>2
<1>7. CASE ~ (Advances /\ delivery.orig \in {"admitting", "publishing"})
    <2>1. row' = [row EXCEPT ![h] = r]
        BY <1>7 DEF DeliverCommit
    <2> QED
        BY <1>3, <1>4, <1>7, <2>1
<1> QED
    BY <1>5, <1>6, <1>7

LEMMA BaseDeliverCommit ==
    ASSUME BaseInv, DeliverCommit
    PROVE  BaseInv'
<1> USE DEF BaseInv
<1> DEFINE h == delivery.head
<1>1. UNCHANGED <<comments, tags, main, contract, marker, web, resyncDue,
                  recovery, admission, job, clock, faults>>
    BY DEF DeliverCommit
<1>2. delivery.pc = "commit" /\ Delivering /\ h \in Heads /\ row[h] \in Rows
    BY DEF DeliverCommit, Delivering, CommentIds, TypeOK
<1>3. delivery' = DeliveryIdle
    BY DEF DeliverCommit
<1>4. PICK r \in Rows :
          /\ row' = [row EXCEPT ![h] = r]
          /\ r.finished = row[h].finished
          /\ r.detail \in {row[h].detail, DetailAfter}
          /\ \/ /\ Advances /\ delivery.orig = "admitting"
                /\ r.status = "pending"
             \/ /\ Advances /\ delivery.orig = "publishing"
                /\ r.status = delivery.body.status
             \/ /\ ~ (Advances /\ delivery.orig \in {"admitting", "publishing"})
                /\ r.status = Status(h)
    BY CommittedRow
<1>5. TypeOK'
    <2>1. outbox' \in [Heads -> Nat]
        BY <1>2 DEF DeliverCommit, TypeOK
    <2> QED
        BY <1>1, <1>3, <1>4, <2>1, DeliveryIdleType DEF TypeOK
<1>6. clock' = clock /\ clock' \in Nat /\ clock <= clock' /\ 0 <= clock
    BY <1>1 DEF TypeOK
<1>7. \A k \in Heads : row'[k] = IF k = h THEN r ELSE row[k]
    BY <1>4 DEF TypeOK
<1>8. ClockBounds'
    <2>1. r.finished <= clock /\ r.detail.receipt <= clock
        BY <1>2, <1>4, DetailAfterType DEF ClockBounds, RowTimes, DeliveryTimes
    <2>2. RowTimes'
        BY <1>6, <1>7, <2>1 DEF ClockBounds, RowTimes
    <2>3. DeliveryTimes'
        BY <1>3, <1>6, DeliveryIdleType DEF DeliveryTimes
    <2> QED
        BY <1>1, <1>6, <2>2, <2>3, TimesStay DEF ClockBounds
<1>9. CommentIds'
    <2>1. r.detail.comment <= Len(comments[h])
        BY <1>2, <1>4, DetailAfterType DEF CommentIds
    <2> QED
        BY <1>1, <1>3, <1>7, <2>1, DeliveryIdleType DEF CommentIds, Delivering
<1>10. WorkerHasHead' /\ RecoveryReads'
    BY <1>1, <1>2 DEF WorkerHasHead, RecoveryReads, Recovering, ResultsFree,
                      Delivering
<1>11. WaitsWithVerdict'
    <2>1. ASSUME r.status = "publishing"
          PROVE  r.detail.verdict # "none"
        <3>1. delivery.body.status # "publishing"
            BY DEF TypeOK, Deliveries, Entries, Finished
        <3>2. Status(h) = "publishing" /\ ~ (Advances /\ delivery.orig = "publishing")
            BY <1>4, <2>1, <3>1
        <3>3. row[h].detail = delivery.seen.detail /\ row[h].detail.verdict # "none"
            BY <1>2, <3>2 DEF WaitsWithVerdict
        <3> QED
            BY <1>2, <1>4, <3>2, <3>3, DetailAfterType
    <2> QED
        BY <1>3, <1>7, <2>1, DeliveryIdleType DEF WaitsWithVerdict, Status, Delivering
<1> QED
    BY <1>5, <1>8, <1>9, <1>10, <1>11

(***************************************************************************)
(* Worker                                                                  *)
(***************************************************************************)
LEMMA BaseWorkerStart ==
    ASSUME BaseInv, WorkerStart
    PROVE  BaseInv'
<1> USE DEF BaseInv
<1>1. UNCHANGED <<outbox, comments, tags, main, contract, marker, web,
                  resyncDue, recovery, admission, delivery, clock, faults>>
    BY DEF WorkerStart
<1>2. job' = WorkerIdle /\ job' \in Jobs
    BY DEF WorkerStart, WorkerIdle, Jobs
<1>3. ASSUME NEW h \in Heads
      PROVE  /\ row'[h] \in Rows
             /\ row'[h].finished = row[h].finished
             /\ row'[h].detail = row[h].detail
             /\ \/ row'[h].status = row[h].status
                \/ row[h].status = "verifying" /\ row'[h].status = "pending"
    <2>1. row[h] \in Rows
        BY DEF TypeOK
    <2>2. row'[h] = IF Status(h) = "verifying"
                    THEN [row[h] EXCEPT !.status = "pending"] ELSE row[h]
        BY DEF WorkerStart, Requeued
    <2> QED
        BY <2>1, <2>2 DEF Rows, Statuses, InFlight, Status
<1>4. TypeOK'
    <2>1. row' \in [Heads -> Rows]
        BY <1>3 DEF WorkerStart, Requeued
    <2> QED
        BY <1>1, <1>2, <2>1 DEF TypeOK
<1>5. clock' = clock /\ clock' \in Nat /\ clock <= clock'
    BY <1>1 DEF TypeOK
<1>6. ClockBounds'
    <2>1. RowTimes'
        BY <1>3, <1>5 DEF ClockBounds, RowTimes
    <2> QED
        BY <1>1, <1>5, <2>1, TimesStay DEF ClockBounds
<1>7. CommentIds'
    BY <1>1, <1>3 DEF CommentIds, Delivering
<1>8. WorkerHasHead' /\ RecoveryReads'
    BY <1>1, <1>2 DEF WorkerHasHead, WorkerIdle, RecoveryReads, Recovering,
                      ResultsFree, Histories
<1>9. WaitsWithVerdict'
    BY <1>1, <1>3 DEF WaitsWithVerdict, Status, Delivering, CommentIds
<1> QED
    BY <1>4, <1>6, <1>7, <1>8, <1>9

(* A step of the worker that changes no row.                               *)
LEMMA BaseWorkerOnly ==
    ASSUME BaseInv, job' \in Jobs, WorkerHasHead', faults' \in 0 .. MaxFaults,
           UNCHANGED <<row, outbox, comments, tags, main, contract, marker, web,
                       resyncDue, recovery, admission, delivery, clock>>
    PROVE  BaseInv'
<1> USE DEF BaseInv
<1>1. TypeOK'
    BY DEF TypeOK
<1>2. ClockBounds'
    BY TimesStay DEF TypeOK, ClockBounds
<1>3. CommentIds' /\ RecoveryReads' /\ WaitsWithVerdict'
    BY DEF CommentIds, RecoveryReads, Recovering, ResultsFree, Histories,
           WaitsWithVerdict, Status, Delivering
<1> QED
    BY <1>1, <1>2, <1>3

LEMMA BaseWorkerPick ==
    ASSUME BaseInv, NEW h \in Heads, WorkerPick(h)
    PROVE  BaseInv'
<1>1. job' \in Jobs /\ WorkerHasHead'
    BY DEF WorkerPick, WorkerIdle, Jobs, WorkerHasHead
<1>2. faults' \in 0 .. MaxFaults
    BY DEF WorkerPick, BaseInv, TypeOK
<1> QED
    BY <1>1, <1>2, BaseWorkerOnly DEF WorkerPick

LEMMA BaseWorkerCrash ==
    ASSUME BaseInv, WorkerCrash
    PROVE  BaseInv'
<1>1. job' \in Jobs /\ WorkerHasHead'
    BY DEF WorkerCrash, WorkerDown, Jobs, WorkerHasHead
<1>2. faults' \in 0 .. MaxFaults
    BY FaultType DEF WorkerCrash
<1> QED
    BY <1>1, <1>2, BaseWorkerOnly DEF WorkerCrash

LEMMA BaseProcessBegin ==
    ASSUME BaseInv, ProcessBegin
    PROVE  BaseInv'
<1>1. UNCHANGED <<outbox, comments, tags, main, contract, marker, web,
                  resyncDue, recovery, admission, delivery, clock, faults>>
    BY DEF ProcessBegin
<1>2. job \in Jobs /\ job.head \in Heads /\ contract \in Contracts
    BY DEF ProcessBegin, BaseInv, TypeOK, WorkerHasHead
<1>3. CASE job' = WorkerIdle /\ UNCHANGED row
    <2>1. job' \in Jobs /\ WorkerHasHead'
        BY <1>3 DEF WorkerIdle, Jobs, WorkerHasHead
    <2>2. faults' \in 0 .. MaxFaults
        BY <1>1 DEF BaseInv, TypeOK
    <2> QED
        BY <1>1, <1>3, <2>1, <2>2, BaseWorkerOnly
<1>4. CASE /\ row' = [row EXCEPT ![job.head].status = "verifying"]
           /\ job' = [job EXCEPT !.pc = "running", !.epoch = contract]
    <2> USE DEF BaseInv
    <2>1. job' \in Jobs /\ job'.head = job.head
        BY <1>2, <1>4 DEF Jobs
    <2>2. ASSUME NEW h \in Heads
          PROVE  /\ row'[h] \in Rows
                 /\ row'[h].finished = row[h].finished
                 /\ row'[h].detail = row[h].detail
                 /\ row'[h].status \in {row[h].status, "verifying"}
        <3>1. row[h] \in Rows
            BY DEF TypeOK
        <3>2. row'[h] \in {row[h], [row[h] EXCEPT !.status = "verifying"]}
            BY <1>4 DEF TypeOK
        <3> QED
            BY <3>1, <3>2 DEF Rows, Statuses, InFlight
    <2>3. TypeOK'
        <3>1. row' \in [Heads -> Rows]
            BY <1>4, <2>2 DEF TypeOK
        <3> QED
            BY <1>1, <2>1, <3>1 DEF TypeOK
    <2>4. clock' = clock /\ clock' \in Nat /\ clock <= clock'
        BY <1>1 DEF TypeOK
    <2>5. ClockBounds'
        <3>1. RowTimes'
            BY <2>2, <2>4 DEF ClockBounds, RowTimes
        <3> QED
            BY <1>1, <2>4, <3>1, TimesStay DEF ClockBounds
    <2>6. CommentIds'
        BY <1>1, <2>2 DEF CommentIds, Delivering
    <2>7. WorkerHasHead' /\ RecoveryReads'
        BY <1>1, <1>2, <2>1 DEF WorkerHasHead, RecoveryReads, Recovering,
                                ResultsFree, Histories
    <2>8. WaitsWithVerdict'
        BY <1>1, <2>2 DEF WaitsWithVerdict, Status, Delivering, ProcessBegin,
                          ResultsFree
    <2> QED
        BY <2>3, <2>5, <2>6, <2>7, <2>8
<1> QED
    BY <1>3, <1>4 DEF ProcessBegin

LEMMA BaseProcessFinish ==
    ASSUME BaseInv, ProcessFinish
    PROVE  BaseInv'
<1> USE DEF BaseInv
<1> DEFINE h == job.head
<1>1. UNCHANGED <<comments, tags, main, contract, marker, web, resyncDue,
                  recovery, admission, delivery, faults>>
    BY DEF ProcessFinish
<1>2. h \in Heads /\ row[h] \in Rows /\ outbox[h] \in Nat
    BY DEF ProcessFinish, TypeOK, WorkerHasHead
<1>3. PICK now \in Readings, result \in Results :
          /\ row' = [row EXCEPT ![h].status         = "publishing",
                                ![h].finished       = NextFinishTime(now),
                                ![h].record         = FALSE,
                                ![h].detail.verdict = result]
          /\ outbox' = [outbox EXCEPT ![h] = Scheduled(@)]
          /\ clock' = Later(clock, NextFinishTime(now))
    BY DEF ProcessFinish
<1>4. NextFinishTime(now) \in Nat /\ clock' \in Nat /\ clock <= clock'
      /\ NextFinishTime(now) <= clock'
    BY <1>3, ReadingsType, FinishTimeType DEF TypeOK, Later
<1>5. result \in Finished
    BY DEF Results, Finished
<1>6. \A k \in Heads \ {h} : row'[k] = row[k]
    BY <1>3 DEF TypeOK
<1>7. /\ row'[h] \in Rows
      /\ row'[h].status = "publishing"
      /\ row'[h].finished = NextFinishTime(now)
      /\ row'[h].detail.receipt = row[h].detail.receipt
      /\ row'[h].detail.comment = row[h].detail.comment
      /\ row'[h].detail.verdict = result
    <2> DEFINE d == [row[h].detail EXCEPT !.verdict = result]
    <2>1. /\ d \in Details /\ d.receipt = row[h].detail.receipt
          /\ d.comment = row[h].detail.comment /\ d.verdict = result
        BY <1>2, <1>5 DEF Rows, Details
    <2>2. row'[h] = [row[h] EXCEPT !.status   = "publishing",
                                   !.finished = NextFinishTime(now),
                                   !.record   = FALSE,
                                   !.detail   = d]
        BY <1>2, <1>3 DEF TypeOK
    <2> HIDE DEF d
    <2> QED
        BY <1>2, <1>4, <2>1, <2>2 DEF Rows, Statuses, InFlight
<1>8. TypeOK'
    <2>1. row' \in [Heads -> Rows]
        BY <1>3, <1>6, <1>7 DEF TypeOK
    <2>2. outbox' \in [Heads -> Nat]
        BY <1>2, <1>3, ScheduledType DEF TypeOK
    <2>3. job' \in Jobs
        BY DEF ProcessFinish, WorkerIdle, Jobs
    <2> QED
        BY <1>1, <1>4, <2>1, <2>2, <2>3 DEF TypeOK
<1>9. ClockBounds'
    <2>1. \A n \in Nat : n <= clock => n <= clock'
        BY <1>4 DEF TypeOK
    <2>2. \A k \in Heads : /\ row[k].finished \in Nat
                           /\ row[k].detail.receipt \in Nat
        BY DEF TypeOK, Rows, Details
    <2>3. RowTimes'
        BY <1>4, <1>6, <1>7, <2>1, <2>2 DEF ClockBounds, RowTimes
    <2> QED
        BY <1>1, <1>4, <2>3, TimesStay DEF ClockBounds
<1>10. CommentIds'
    BY <1>1, <1>6, <1>7 DEF CommentIds, Delivering
<1>11. WorkerHasHead' /\ RecoveryReads'
    BY <1>1 DEF ProcessFinish, WorkerHasHead, WorkerIdle, RecoveryReads,
                Recovering, ResultsFree
<1>12. WaitsWithVerdict'
    BY <1>1, <1>5, <1>6, <1>7
       DEF WaitsWithVerdict, Status, Delivering, ProcessFinish, ResultsFree,
           Finished
<1> QED
    BY <1>8, <1>9, <1>10, <1>11, <1>12

(***************************************************************************)
(* Resync                                                                  *)
(***************************************************************************)
LEMMA BaseResyncBegin ==
    ASSUME BaseInv, ResyncBegin
    PROVE  BaseInv'
<1> USE DEF BaseInv
<1>1. UNCHANGED <<row, outbox, comments, tags, main, contract, web, admission,
                  delivery, job, clock, faults>>
    BY DEF ResyncBegin
<1>2. Histories \subseteq Heads \X Contracts
    BY DEF Histories
<1>3. TypeOK'
    BY <1>1, <1>2 DEF TypeOK, ResyncBegin, Recoveries
<1>4. ClockBounds'
    BY <1>1, TimesStay DEF TypeOK, ClockBounds
<1>5. CommentIds' /\ WorkerHasHead' /\ WaitsWithVerdict'
    BY <1>1 DEF CommentIds, WorkerHasHead, WaitsWithVerdict, Status, Delivering
<1>6. RecoveryReads'
    <2>1. Histories' = Histories
        BY <1>1 DEF Histories
    <2> QED
        BY <1>1, <2>1 DEF RecoveryReads, ResyncBegin, ResultsFree
<1> QED
    BY <1>3, <1>4, <1>5, <1>6

(* A step of a resync that changes at most one row, to what a comment      *)
(* says.                                                                   *)
LEMMA RestoredType ==
    ASSUME BaseInv, NEW h \in Heads, NEW i \in 1 .. Len(comments[h]),
           comments[h][i] \in Entries
    PROVE  LET e == comments[h][i]
               r == Restored(e, i)
           IN /\ r \in Rows
              /\ r.status = e.status
              /\ r.finished \in {e.finished, 0}
              /\ e.status \in Finished => r.finished = e.finished
              /\ r.detail.receipt = e.admitted
              /\ r.detail.comment = i
<1>1. i \in Nat
    BY LenProperties DEF BaseInv, TypeOK
<1> QED
    BY <1>1 DEF Restored, IsTerminal, Entries, Rows, Details, Statuses,
                InFlight, Finished

LEMMA BaseResyncImport ==
    ASSUME BaseInv, NEW h \in Heads, NEW c \in Contracts, ResyncImport(h, c)
    PROVE  BaseInv'
<1> USE DEF BaseInv
<1> DEFINE i == Latest(h, c)
           e == comments[h][i]
<1>1. UNCHANGED <<outbox, comments, tags, main, contract, marker, web,
                  resyncDue, admission, delivery, job, clock>>
    BY DEF ResyncImport
<1>2. /\ Recovering /\ ResultsFree
      /\ <<h, c>> \in Histories /\ recovery \in Recoveries
    BY DEF ResyncImport, RecoveryReads, Recovering, TypeOK
<1>3. i \in 1 .. Len(comments[h]) /\ e \in Entries
    BY <1>2, LatestIsComment
<1>4. \/ UNCHANGED row
      \/ row' = [row EXCEPT ![h] = Restored(e, i)]
    BY DEF ResyncImport
<1>5. /\ recovery' \in Recoveries
      /\ recovery'.todo \subseteq recovery.todo
    BY <1>2 DEF ResyncImport, Recoveries
<1>6. faults' \in 0 .. MaxFaults
    BY FaultType DEF ResyncImport, TypeOK
<1>7. /\ Restored(e, i) \in Rows
      /\ Restored(e, i).status = e.status
      /\ Restored(e, i).finished \in {e.finished, 0}
      /\ Restored(e, i).detail.receipt = e.admitted
      /\ Restored(e, i).detail.comment = i
    BY <1>3, RestoredType
<1>8. \A k \in Heads :
          \/ row'[k] = row[k]
          \/ k = h /\ row'[k] = Restored(e, i)
    BY <1>4 DEF TypeOK
<1>9. TypeOK'
    BY <1>1, <1>4, <1>5, <1>6, <1>7 DEF TypeOK
<1>10. clock' = clock /\ clock' \in Nat /\ clock <= clock' /\ 0 <= clock
    BY <1>1 DEF TypeOK
<1>11. ClockBounds'
    <2>1. e.finished <= clock /\ e.admitted <= clock
        BY <1>3 DEF ClockBounds, CommentTimes
    <2>2. RowTimes'
        BY <1>7, <1>8, <1>10, <2>1 DEF ClockBounds, RowTimes
    <2> QED
        BY <1>1, <1>10, <2>2, TimesStay DEF ClockBounds
<1>12. CommentIds'
    <2>1. i <= Len(comments[h])
        BY <1>3
    <2> QED
        BY <1>1, <1>7, <1>8, <2>1 DEF CommentIds, Delivering
<1>13. WorkerHasHead' /\ RecoveryReads'
    <2>1. Histories' = Histories
        BY <1>1 DEF Histories
    <2> QED
        BY <1>1, <1>2, <1>5, <2>1
           DEF WorkerHasHead, RecoveryReads, ResultsFree
<1>14. WaitsWithVerdict'
    <2>1. e.status # "publishing"
        BY <1>3 DEF Entries, Finished
    <2> QED
        BY <1>1, <1>2, <1>7, <1>8, <2>1
           DEF WaitsWithVerdict, Status, Delivering, ResultsFree
<1> QED
    BY <1>9, <1>11, <1>12, <1>13, <1>14

(* Replaying the records changes the record flag of rows, nothing else.    *)
LEMMA WithRecordsType ==
    ASSUME BaseInv, NEW R, NEW h \in Heads
    PROVE  /\ WithRecords(R) \in [Heads -> Rows]
           /\ WithRecords(R)[h].status = row[h].status
           /\ WithRecords(R)[h].finished = row[h].finished
           /\ WithRecords(R)[h].detail = row[h].detail
<1>1. ASSUME NEW k \in Heads
      PROVE  /\ [row[k] EXCEPT !.record = k \in R] \in Rows
             /\ [row[k] EXCEPT !.record = k \in R].status = row[k].status
             /\ [row[k] EXCEPT !.record = k \in R].finished = row[k].finished
             /\ [row[k] EXCEPT !.record = k \in R].detail = row[k].detail
             /\ row[k] \in Rows
    <2>1. row[k] \in Rows /\ (k \in R) \in BOOLEAN
        BY DEF BaseInv, TypeOK
    <2> QED
        BY <2>1 DEF Rows
<1> QED
    BY <1>1 DEF WithRecords

(* After the replay the best record may be reported again; no report is    *)
(* lost.                                                                   *)
LEMMA ReportsAfterReplay ==
    ASSUME BaseInv, ResyncEnd
    PROVE  /\ outbox' \in [Heads -> Nat]
           /\ marker' \in BOOLEAN
           /\ \A h \in Heads : outbox[h] # 0 => outbox'[h] # 0
<1>1. outbox \in [Heads -> Nat] /\ marker \in BOOLEAN
    BY DEF BaseInv, TypeOK
<1>2. CASE UNCHANGED <<outbox, marker>>
    BY <1>1, <1>2
<1>3. CASE ~ UNCHANGED <<outbox, marker>>
    <2> DEFINE o(h) == IF h \in BestOf(Replayed) /\ ~row[h].detail.snapshot
                       THEN Scheduled(outbox[h]) ELSE outbox[h]
    <2>1. outbox' = [h \in Heads |-> o(h)] /\ marker' = FALSE
        BY <1>3 DEF ResyncEnd
    <2>2. \A h \in Heads : o(h) \in Nat /\ (outbox[h] # 0 => o(h) # 0)
        BY <1>1, ScheduledType
    <2> HIDE DEF o
    <2> QED
        BY <2>1, <2>2
<1> QED
    BY <1>2, <1>3

LEMMA BaseResyncEnd ==
    ASSUME BaseInv, ResyncEnd
    PROVE  BaseInv'
<1> USE DEF BaseInv
<1>1. UNCHANGED <<comments, tags, main, contract, web, resyncDue, admission,
                  delivery, job, clock, faults>>
    BY DEF ResyncEnd
<1>2. row' = WithRecords(Replayed) /\ recovery' = RecoveryIdle
    BY DEF ResyncEnd
<1>3. Recovering /\ ResultsFree
    BY DEF ResyncEnd, RecoveryReads, Recovering
<1>4. \A h \in Heads : /\ row'[h].status = row[h].status
                       /\ row'[h].finished = row[h].finished
                       /\ row'[h].detail = row[h].detail
    BY <1>2, WithRecordsType
<1>5. TypeOK'
    <2>1. row' \in [Heads -> Rows]
        <3>1. CASE Heads = {}
            BY <1>2, <3>1 DEF WithRecords
        <3>2. CASE Heads # {}
            BY <1>2, <3>2, WithRecordsType
        <3> QED
            BY <3>1, <3>2
    <2>2. outbox' \in [Heads -> Nat] /\ marker' \in BOOLEAN
        BY ReportsAfterReplay
    <2> QED
        BY <1>1, <1>2, <2>1, <2>2 DEF TypeOK, RecoveryIdle, Recoveries
<1>6. clock' = clock /\ clock' \in Nat /\ clock <= clock'
    BY <1>1 DEF TypeOK
<1>7. ClockBounds'
    <2>1. RowTimes'
        BY <1>4, <1>6 DEF ClockBounds, RowTimes
    <2> QED
        BY <1>1, <1>6, <2>1, TimesStay DEF ClockBounds
<1>8. CommentIds' /\ WorkerHasHead'
    BY <1>1, <1>4 DEF CommentIds, WorkerHasHead, Delivering
<1>9. RecoveryReads' /\ WaitsWithVerdict'
    BY <1>1, <1>2, <1>3, <1>4
       DEF RecoveryReads, Recovering, RecoveryIdle, WaitsWithVerdict, Status,
           Delivering, ResultsFree
<1> QED
    BY <1>5, <1>7, <1>8, <1>9

(***************************************************************************)
(* Processes and contracts                                                 *)
(***************************************************************************)
LEMMA BaseWebStart ==
    ASSUME BaseInv, WebStart
    PROVE  BaseInv'
<1> USE DEF BaseInv, WebStart
<1>1. TypeOK'
    BY DEF TypeOK
<1>2. ClockBounds'
    BY TimesStay DEF TypeOK, ClockBounds
<1>3. CommentIds' /\ WorkerHasHead' /\ RecoveryReads' /\ WaitsWithVerdict'
    BY DEF CommentIds, WorkerHasHead, RecoveryReads, Recovering, ResultsFree,
           Histories, WaitsWithVerdict, Status, Delivering
<1> QED
    BY <1>1, <1>2, <1>3

LEMMA BaseWebCrash ==
    ASSUME BaseInv, WebCrash
    PROVE  BaseInv'
<1> USE DEF BaseInv, WebCrash
<1>1. TypeOK'
    <2>1. faults' \in 0 .. MaxFaults /\ recovery' \in Recoveries
        BY FaultType DEF RecoveryIdle, Recoveries
    <2> QED
        BY <2>1, HandlerIdleType, DeliveryIdleType DEF TypeOK, NoHandler
<1>2. clock' = clock /\ clock' \in Nat /\ clock <= clock' /\ 0 <= clock
    BY DEF TypeOK
<1>3. ClockBounds'
    <2>1. HandlerTimes'
        BY <1>2, HandlerIdleType DEF HandlerTimes, NoHandler
    <2>2. DeliveryTimes'
        BY <1>2, DeliveryIdleType DEF DeliveryTimes
    <2> QED
        BY <1>2, <2>1, <2>2, TimesStay DEF ClockBounds
<1>4. CommentIds'
    <2>1. \A h \in Heads : 0 <= Len(comments[h])
        BY LenProperties DEF TypeOK
    <2> QED
        BY <2>1, HandlerIdleType, DeliveryIdleType
           DEF CommentIds, Delivering, NoHandler
<1>5. WorkerHasHead' /\ RecoveryReads' /\ WaitsWithVerdict'
    BY DeliveryIdleType
       DEF WorkerHasHead, RecoveryReads, Recovering, RecoveryIdle,
           WaitsWithVerdict, Status, Delivering
<1> QED
    BY <1>1, <1>3, <1>4, <1>5

LEMMA BaseDeployContract ==
    ASSUME BaseInv, DeployContract
    PROVE  BaseInv'
<1> USE DEF BaseInv, DeployContract
<1>1. TypeOK'
    BY DEF TypeOK
<1>2. ClockBounds'
    BY TimesStay DEF TypeOK, ClockBounds
<1>3. CommentIds' /\ WorkerHasHead' /\ RecoveryReads' /\ WaitsWithVerdict'
    BY DEF CommentIds, WorkerHasHead, RecoveryReads, Recovering, ResultsFree,
           Histories, WaitsWithVerdict, Status, Delivering
<1> QED
    BY <1>1, <1>2, <1>3

LEMMA BaseStutter ==
    ASSUME BaseInv, UNCHANGED vars
    PROVE  BaseInv'
<1> USE DEF BaseInv, vars
<1>1. TypeOK'
    BY DEF TypeOK
<1>2. ClockBounds'
    BY TimesStay DEF TypeOK, ClockBounds
<1>3. CommentIds' /\ WorkerHasHead' /\ RecoveryReads' /\ WaitsWithVerdict'
    BY DEF CommentIds, WorkerHasHead, RecoveryReads, Recovering, ResultsFree,
           Histories, WaitsWithVerdict, Status, Delivering
<1> QED
    BY <1>1, <1>2, <1>3

(***************************************************************************)
(* The invariant and its theorem                                           *)
(***************************************************************************)
LEMMA BaseStep == BaseInv /\ [Next]_vars => BaseInv'
<1> SUFFICES ASSUME BaseInv, [Next]_vars
             PROVE  BaseInv'
    OBVIOUS
<1>1. CASE \E h \in Heads : AdmitCheck(h) \/ AdmitRetain(h) \/ AdmitCommit(h)
    BY <1>1, BaseAdmitCheck, BaseAdmitRetain, BaseAdmitCommit
<1>2. CASE \/ \E h \in Heads : DeliverStart(h)
           \/ DeliverComment \/ DeliverSupplement \/ DeliverReread \/ DeliverCommit
    BY <1>2, BaseDeliverStart, BaseDeliverComment, BaseDeliverSupplement,
       BaseDeliverReread, BaseDeliverCommit
<1>3. CASE \/ WorkerStart \/ \E h \in Heads : WorkerPick(h)
           \/ ProcessBegin \/ ProcessFinish \/ WorkerCrash
    BY <1>3, BaseWorkerStart, BaseWorkerPick, BaseProcessBegin,
       BaseProcessFinish, BaseWorkerCrash
<1>4. CASE \/ ResyncBegin
           \/ \E h \in Heads, c \in Contracts : ResyncImport(h, c)
           \/ ResyncEnd
    BY <1>4, BaseResyncBegin, BaseResyncImport, BaseResyncEnd
<1>5. CASE WebStart \/ WebCrash \/ DeployContract
    BY <1>5, BaseWebStart, BaseWebCrash, BaseDeployContract
<1>6. CASE UNCHANGED vars
    BY <1>6, BaseStutter
<1> QED
    BY <1>1, <1>2, <1>3, <1>4, <1>5, <1>6 DEF Next

THEOREM BaseInvariant == Spec => []BaseInv
BY BaseInit, BaseStep, PTL DEF Spec

(* The state of the service keeps its type: in particular a completion     *)
(* time is found after any step back of the clock (next_finish_time), and  *)
(* a resync never asks for a comment that is not there (latest_verdicts).  *)
THEOREM TypeCorrect == Spec => []TypeOK
BY BaseInvariant, PTL DEF BaseInv
==============================================================================
