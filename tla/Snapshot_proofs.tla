---------------------------- MODULE Snapshot_proofs --------------------------
(***************************************************************************)
(* The attempts of publish_record implement one atomic update of the       *)
(* registry, for any results, contracts, pushes, faults and number of      *)
(* attempts.  The reason is Computed: an update whose base is still the    *)
(* branch was computed from what the branch contains, whenever it arrives. *)
(***************************************************************************)
EXTENDS RecordSnapshot, TLAPS

Computed(u) ==
    /\ u.base <= main.version
    /\ u.base = main.version =>
          /\ u.pushes = main.pushes
          /\ \/ u.result = main.registered
             \/ PublicMain!Replaces(u.result, main.registered)

UpdateComputed == call.pc \in {"check", "send"} => Computed(Update)

RequestsComputed == \A u \in requests : Computed(u)

CallHasResult == call.pc # "idle" => call.result \in Results

SnapshotInv ==
    /\ SnapshotTypeOK
    /\ CallHasResult
    /\ UpdateComputed
    /\ RequestsComputed
    /\ ConfirmedIsSettled

(* g in records.json answers for r.                                        *)
Settles(g, r) == g = r \/ PublicMain!Superseded(g, r)

(***************************************************************************)
(* The order of results                                                    *)
(***************************************************************************)
LEMMA SameComparisons ==
    /\ PublicMain!Metrics = Metrics
    /\ \A a, b : PublicMain!Leads(a, b) <=> Leads(a, b)
BY DEF PublicMain!Metrics, Metrics, PublicMain!Leads, Leads,
       PublicMain!Score, Score

LEMMA SupersededMeans ==
    ASSUME NEW old, NEW new
    PROVE  PublicMain!Superseded(old, new) <=>
               \/ old.finished >= new.finished
               \/ old.contract = new.contract /\ ~Leads(new.metric, old.metric)
BY SameComparisons DEF PublicMain!Superseded

LEMMA ResultType ==
    ASSUME NEW r \in Results
    PROVE  /\ r.metric \in Metrics /\ r.contract \in Nat /\ r.finished \in Nat
           /\ Score(r.metric) \in Nat /\ r.metric.sigma \in Nat
           /\ r # NoResult
<1>1. /\ r \in [metric : Metrics, contract : Nat, finished : Nat]
      /\ r # NoResult
    BY SnapshotAssumption, SameComparisons DEF PublicMain!ResultsOrdered
<1>2. r.metric.sigma \in Nat /\ r.metric.hverify \in Nat
    BY <1>1 DEF Metrics
<1>3. Score(r.metric) \in Nat
    BY <1>2 DEF Score
<1> QED
    BY <1>1, <1>2, <1>3

LEMMA LeadsTransitive ==
    ASSUME NEW a \in Results, NEW b \in Results, NEW c \in Results,
           Leads(a.metric, b.metric), Leads(b.metric, c.metric)
    PROVE  Leads(a.metric, c.metric)
<1>1. /\ Score(a.metric) \in Nat /\ a.metric.sigma \in Nat
      /\ Score(b.metric) \in Nat /\ b.metric.sigma \in Nat
      /\ Score(c.metric) \in Nat /\ c.metric.sigma \in Nat
    BY ResultType
<1> QED
    BY <1>1 DEF Leads

(* What replaces the registered result answers for all it answered for.    *)
LEMMA SettledStays ==
    ASSUME NEW g \in Results, NEW k \in Results, NEW r \in Results,
           Settles(g, r), k = g \/ PublicMain!Replaces(k, g)
    PROVE  Settles(k, r)
<1>1. CASE k = g
    BY <1>1
<1>2. CASE PublicMain!Replaces(k, g)
    <2>1. /\ g.finished \in Nat /\ k.finished \in Nat /\ r.finished \in Nat
          /\ g.contract \in Nat /\ k.contract \in Nat /\ r.contract \in Nat
          /\ g # NoResult
        BY ResultType
    <2>2. /\ g.finished < k.finished
          /\ g.contract = k.contract => Leads(k.metric, g.metric)
        BY <1>2, <2>1, SupersededMeans DEF PublicMain!Replaces
    <2>3. CASE g.finished >= r.finished \/ g = r
        BY <2>1, <2>2, <2>3, SupersededMeans DEF Settles
    <2>4. CASE g.contract = r.contract /\ ~Leads(r.metric, g.metric)
        <3>1. CASE k.contract = g.contract
            <4>1. ~Leads(r.metric, k.metric)
                BY <2>2, <2>4, <3>1, LeadsTransitive
            <4> QED
                BY <2>4, <3>1, <4>1, SupersededMeans DEF Settles
        <3>2. CASE k.contract < g.contract
            <4>1. k.finished < g.finished
                BY <3>2, SnapshotAssumption DEF PublicMain!ResultsOrdered
            <4> QED
                BY <2>1, <2>2, <4>1
        <3>3. CASE g.contract < k.contract
            <4>1. r.finished < k.finished
                BY <2>4, <3>3, SnapshotAssumption DEF PublicMain!ResultsOrdered
            <4> QED
                BY <2>1, <4>1, SupersededMeans DEF Settles
        <3> QED
            BY <2>1, <3>1, <3>2, <3>3
    <2> QED
        BY <2>3, <2>4, SupersededMeans DEF Settles
<1> QED
    BY <1>1, <1>2

(***************************************************************************)
(* What may happen to main, and what that leaves true                      *)
(***************************************************************************)
Kept == main' = main

Moved == /\ main' \in Branches
         /\ main'.version = main.version + 1
         /\ \/ /\ main'.registered = main.registered
               /\ main'.pushes \in {main.pushes, main.pushes + 1}
            \/ /\ main'.registered \in Results
               /\ main'.pushes = main.pushes
               /\ PublicMain!Replaces(main'.registered, main.registered)

LEMMA LandedMoves ==
    ASSUME SnapshotTypeOK, NEW u \in Updates, Computed(u), main' = Landed(u)
    PROVE  /\ Kept \/ Moved
           /\ FastForward(u) => main'.registered = u.result
<1>1. CASE ~FastForward(u)
    BY <1>1 DEF Landed, Kept
<1>2. CASE FastForward(u)
    <2>1. /\ main' = [version |-> main.version + 1, registered |-> u.result,
                      root |-> u.result, pushes |-> u.pushes]
          /\ u.result \in Results /\ u.pushes \in Nat /\ main.version \in Nat
        BY <1>2 DEF Landed, SnapshotTypeOK, Branches, Updates
    <2>2. /\ u.pushes = main.pushes
          /\ u.result = main.registered \/ PublicMain!Replaces(u.result, main.registered)
        BY <1>2 DEF FastForward, Computed
    <2>3. main' \in Branches
        BY <2>1 DEF Branches
    <2> QED
        BY <2>1, <2>2, <2>3 DEF Moved
<1> QED
    BY <1>1, <1>2

LEMMA PushMoves ==
    ASSUME SnapshotTypeOK, Push
    PROVE  Moved
<1>1. PICK root \in {main.root, NoResult} :
          main' = [main EXCEPT !.version = @ + 1, !.root = root, !.pushes = @ + 1]
    BY DEF Push
<1>2. root \in Results \cup {NoResult}
    BY DEF SnapshotTypeOK, Branches
<1>3. main' = [version |-> main.version + 1, registered |-> main.registered,
               root |-> root, pushes |-> main.pushes + 1]
    BY <1>1 DEF SnapshotTypeOK, Branches
<1>4. /\ main.version + 1 \in Nat /\ main.pushes + 1 \in Nat
      /\ main.registered \in Results \cup {NoResult}
    BY DEF SnapshotTypeOK, Branches
<1> QED
    BY <1>2, <1>3, <1>4 DEF Moved, Branches

(* Updates computed earlier stay computed: a moved branch refuses them.    *)
LEMMA ComputedStays ==
    ASSUME SnapshotTypeOK, Kept \/ Moved
    PROVE  \A u \in Updates : Computed(u) => Computed(u)'
<1>1. CASE Kept
    BY <1>1 DEF Kept, Computed, PublicMain!Replaces
<1>2. CASE Moved
    <2>1. main.version \in Nat /\ \A u \in Updates : u.base \in Nat
        BY DEF SnapshotTypeOK, Branches, Updates
    <2> QED
        BY <1>2, <2>1 DEF Moved, Computed
<1> QED
    BY <1>1, <1>2

LEMMA SettledFrame ==
    ASSUME SnapshotTypeOK, ConfirmedIsSettled, Kept \/ Moved
    PROVE  \A r \in confirmed : /\ main'.registered # NoResult
                                /\ Settles(main'.registered, r)
<1>1. CASE Kept
    BY <1>1 DEF Kept, ConfirmedIsSettled, Settles
<1>2. CASE Moved
    <2>1. SUFFICES ASSUME NEW r \in confirmed
          PROVE  main'.registered # NoResult /\ Settles(main'.registered, r)
        OBVIOUS
    <2>2. /\ r \in Results /\ main.registered \in Results
          /\ Settles(main.registered, r)
        BY DEF ConfirmedIsSettled, SnapshotTypeOK, Branches, Settles
    <2>3. /\ main'.registered \in Results
          /\ \/ main'.registered = main.registered
             \/ PublicMain!Replaces(main'.registered, main.registered)
        BY <1>2, <2>2 DEF Moved
    <2>4. main'.registered # NoResult
        BY <2>3, ResultType
    <2> QED
        BY <2>2, <2>3, <2>4, SettledStays
<1> QED
    BY <1>1, <1>2

(* A step that gives no result back and sends nothing new.                 *)
LEMMA QuietStep ==
    ASSUME SnapshotInv, Kept \/ Moved, SnapshotTypeOK',
           CallHasResult', UpdateComputed',
           requests' \subseteq requests, confirmed' = confirmed
    PROVE  SnapshotInv'
<1>1. RequestsComputed'
    BY ComputedStays DEF SnapshotInv, RequestsComputed, SnapshotTypeOK
<1>2. ConfirmedIsSettled'
    BY SettledFrame DEF SnapshotInv, ConfirmedIsSettled, Settles
<1> QED
    BY <1>1, <1>2 DEF SnapshotInv

(* The call goes on as before while somebody else moves main.              *)
LEMMA UpdateType ==
    ASSUME SnapshotTypeOK, CallHasResult, call.pc # "idle"
    PROVE  Update \in Updates
BY DEF SnapshotTypeOK, CallHasResult, Update, Updates, Calls, Branches

LEMMA CallFrame ==
    ASSUME SnapshotInv, Kept \/ Moved, call' = call
    PROVE  CallHasResult' /\ UpdateComputed'
<1>1. CallHasResult'
    BY DEF SnapshotInv, CallHasResult
<1>2. ASSUME call.pc \in {"check", "send"}
      PROVE  Computed(Update)'
    <2>1. Update \in Updates /\ Computed(Update)
        BY <1>2, UpdateType DEF SnapshotInv, UpdateComputed
    <2>2. Update' = Update
        BY DEF Update
    <2> QED
        BY <2>1, <2>2, ComputedStays DEF SnapshotInv, Computed
<1> QED
    BY <1>1, <1>2 DEF UpdateComputed

(* A call that is idle or about to read has computed nothing.              *)
LEMMA CallIdleType ==
    CallIdle \in Calls /\ CallIdle.pc = "idle"
BY SnapshotAssumption DEF CallIdle, Calls, Branches, FirstMain

LEMMA RaiseType ==
    ASSUME Raise
    PROVE  /\ call' \in Calls /\ CallHasResult' /\ UpdateComputed'
           /\ confirmed' = confirmed
BY CallIdleType DEF Raise, CallHasResult, UpdateComputed

LEMMA RetryType ==
    ASSUME SnapshotInv, call.pc = "send", NEW refused \in BOOLEAN, Retry(refused)
    PROVE  /\ call' \in Calls /\ CallHasResult' /\ UpdateComputed'
           /\ confirmed' = confirmed
<1>1. CASE call.attempt + 1 = MaxAttempts
    BY <1>1, RaiseType DEF Retry
<1>2. CASE call.attempt + 1 # MaxAttempts
    <2>1. PICK c \in Nat :
              call' = [call EXCEPT !.pc = "read", !.attempt = @ + 1, !.conflict = c]
        BY <1>2 DEF Retry, SnapshotInv, SnapshotTypeOK, Calls, Branches
    <2>2. call.attempt + 1 \in 0 .. MaxAttempts - 1
        BY <1>2, SnapshotAssumption DEF SnapshotInv, SnapshotTypeOK, Calls
    <2>3. call' \in Calls /\ call'.pc = "read" /\ call'.result = call.result
        BY <2>1, <2>2 DEF SnapshotInv, SnapshotTypeOK, Calls
    <2>4. call.result \in Results
        BY DEF SnapshotInv, CallHasResult
    <2> QED
        BY <1>2, <2>3, <2>4 DEF Retry, CallHasResult, UpdateComputed
<1> QED
    BY <1>1, <1>2

(***************************************************************************)
(* Every step                                                              *)
(***************************************************************************)
LEMMA InvInit == Init => SnapshotInv
<1> SUFFICES ASSUME Init
             PROVE  SnapshotInv
    OBVIOUS
<1>1. SnapshotTypeOK
    BY CallIdleType, SnapshotAssumption DEF Init, SnapshotTypeOK, FirstMain, Branches
<1>2. CallHasResult /\ UpdateComputed
    BY CallIdleType DEF Init, CallHasResult, UpdateComputed
<1> QED
    BY <1>1, <1>2 DEF Init, SnapshotInv, RequestsComputed, ConfirmedIsSettled

(* Steps that leave main alone and only prepare a call.                    *)
LEMMA InvCaller ==
    ASSUME SnapshotInv,
           \/ \E r \in Results : Decide(r)
           \/ Commit
           \/ DeployContract
    PROVE  Kept /\ SnapshotInv'
<1>1. UNCHANGED <<main, call, requests, confirmed, faults>>
    BY DEF Decide, Commit, DeployContract
<1>2. Kept
    BY <1>1 DEF Kept
<1>3. SnapshotTypeOK'
    BY <1>1 DEF SnapshotInv, SnapshotTypeOK, Decide, Commit, DeployContract
<1>4. CallHasResult' /\ UpdateComputed'
    BY <1>1, <1>2, CallFrame
<1> QED
    BY <1>1, <1>2, <1>3, <1>4, QuietStep

LEMMA InvCallStart ==
    ASSUME SnapshotInv, NEW r \in Results, CallStart(r)
    PROVE  Kept /\ SnapshotInv'
<1>1. /\ UNCHANGED <<main, contract, lead, pending, requests, confirmed, faults>>
      /\ call' = [CallIdle EXCEPT !.pc = "read", !.result = r]
    BY DEF CallStart
<1>2. call' \in Calls /\ call'.pc = "read" /\ call'.result = r
    BY <1>1, CallIdleType DEF Calls
<1>3. SnapshotTypeOK' /\ CallHasResult' /\ UpdateComputed'
    BY <1>1, <1>2 DEF SnapshotInv, SnapshotTypeOK, CallHasResult, UpdateComputed
<1>4. Kept
    BY <1>1 DEF Kept
<1> QED
    BY <1>1, <1>3, <1>4, QuietStep

LEMMA InvCallRead ==
    ASSUME SnapshotInv, CallRead
    PROVE  Kept /\ SnapshotInv'
<1>1. UNCHANGED <<main, contract, lead, pending, requests, faults>>
    BY DEF CallRead
<1>2. Kept
    BY <1>1 DEF Kept
<1>3. CASE Raise
    <2>1. SnapshotTypeOK'
        BY <1>1, <1>3, RaiseType DEF SnapshotInv, SnapshotTypeOK
    <2> QED
        BY <1>1, <1>2, <1>3, <2>1, RaiseType, QuietStep
<1>4. CASE Return /\ (AlreadyCurrent \/ RegistryKept)
    <2>1. call.result \in Results
        BY DEF CallRead, SnapshotInv, CallHasResult
    <2>2. main.registered # NoResult /\ Settles(main.registered, call.result)
        BY <1>4, <2>1, ResultType DEF AlreadyCurrent, RegistryKept, Settles
    <2>3. ConfirmedIsSettled'
        BY <1>1, <1>4, <2>2 DEF Return, SnapshotInv, ConfirmedIsSettled, Settles
    <2>4. call' = CallIdle /\ confirmed' = confirmed \cup {call.result}
        BY <1>4 DEF Return
    <2>5. SnapshotTypeOK'
        BY <1>1, <2>1, <2>4, CallIdleType DEF SnapshotInv, SnapshotTypeOK
    <2>6. CallHasResult' /\ UpdateComputed'
        BY <2>4, CallIdleType DEF CallHasResult, UpdateComputed
    <2>7. RequestsComputed'
        BY <1>1 DEF SnapshotInv, RequestsComputed, Computed, PublicMain!Replaces
    <2> QED
        BY <1>2, <2>3, <2>5, <2>6, <2>7 DEF SnapshotInv
<1>5. CASE /\ ~AlreadyCurrent /\ ~RegistryKept
           /\ call' = [call EXCEPT !.pc = "check", !.tree = main]
           /\ UNCHANGED confirmed
    <2>1. /\ call' \in Calls /\ call'.pc = "check" /\ call'.tree = main
          /\ call'.result = call.result /\ call.result \in Results
        BY <1>5 DEF CallRead, SnapshotInv, SnapshotTypeOK, CallHasResult, Calls
    <2>2. SnapshotTypeOK' /\ CallHasResult'
        BY <1>1, <1>5, <2>1 DEF SnapshotInv, SnapshotTypeOK, CallHasResult
    <2>3. Update' = [base |-> main.version, result |-> call.result,
                     pushes |-> main.pushes]
        BY <2>1 DEF Update
    <2>4. \/ call.result = main.registered
          \/ PublicMain!Replaces(call.result, main.registered)
        BY <1>5 DEF RegistryKept, PublicMain!Replaces
    <2>5. main.version \in Nat
        BY DEF SnapshotInv, SnapshotTypeOK, Branches
    <2>6. UpdateComputed'
        BY <1>1, <2>3, <2>4, <2>5 DEF UpdateComputed, Computed, PublicMain!Replaces
    <2> QED
        BY <1>1, <1>2, <1>5, <2>2, <2>6, QuietStep
<1> QED
    BY <1>2, <1>3, <1>4, <1>5 DEF CallRead

LEMMA InvCallCheck ==
    ASSUME SnapshotInv, CallCheck
    PROVE  Kept /\ SnapshotInv'
<1>1. UNCHANGED <<main, contract, lead, pending, requests, faults>>
    BY DEF CallCheck
<1>2. Kept
    BY <1>1 DEF Kept
<1>3. CASE Raise
    <2>1. SnapshotTypeOK'
        BY <1>1, <1>3, RaiseType DEF SnapshotInv, SnapshotTypeOK
    <2> QED
        BY <1>1, <1>2, <1>3, <2>1, RaiseType, QuietStep
<1>4. CASE call' = [call EXCEPT !.pc = "send"] /\ UNCHANGED confirmed
    <2>1. /\ call' \in Calls /\ call'.pc = "send" /\ call'.tree = call.tree
          /\ call'.result = call.result /\ call.result \in Results
        BY <1>4 DEF CallCheck, SnapshotInv, SnapshotTypeOK, CallHasResult, Calls
    <2>2. SnapshotTypeOK' /\ CallHasResult'
        BY <1>1, <1>4, <2>1 DEF SnapshotInv, SnapshotTypeOK, CallHasResult
    <2>3. Update' = Update /\ Computed(Update)
        BY <2>1 DEF Update, CallCheck, SnapshotInv, UpdateComputed
    <2>4. UpdateComputed'
        BY <1>1, <2>3 DEF UpdateComputed, Computed, PublicMain!Replaces
    <2> QED
        BY <1>1, <1>2, <1>4, <2>2, <2>4, QuietStep
<1> QED
    BY <1>2, <1>3, <1>4 DEF CallCheck

LEMMA InvCallSend ==
    ASSUME SnapshotInv, CallSend
    PROVE  (Kept \/ Moved) /\ SnapshotInv'
<1>1. /\ UNCHANGED <<contract, lead, pending, requests, faults>>
      /\ main' = Landed(Update) /\ call.pc = "send"
    BY DEF CallSend
<1>2. /\ Update \in Updates /\ Computed(Update) /\ call.result \in Results
      /\ Update.result = call.result
    BY <1>1, UpdateType DEF SnapshotInv, UpdateComputed, CallHasResult, Update
<1>3. /\ Kept \/ Moved
      /\ FastForward(Update) => main'.registered = call.result
    BY <1>1, <1>2, LandedMoves DEF SnapshotInv
<1>4. main' \in Branches
    BY <1>3 DEF Kept, Moved, SnapshotInv, SnapshotTypeOK
<1>5. CASE FastForward(Update) /\ Return
    <2>1. call' = CallIdle /\ confirmed' = confirmed \cup {call.result}
        BY <1>5 DEF Return
    <2>2. SnapshotTypeOK'
        BY <1>1, <1>2, <1>4, <2>1, CallIdleType DEF SnapshotInv, SnapshotTypeOK
    <2>3. CallHasResult' /\ UpdateComputed'
        BY <2>1, CallIdleType DEF CallHasResult, UpdateComputed
    <2>4. RequestsComputed'
        BY <1>1, <1>3, ComputedStays DEF SnapshotInv, SnapshotTypeOK, RequestsComputed
    <2>5. \A r \in confirmed : /\ main'.registered # NoResult
                               /\ Settles(main'.registered, r)
        BY <1>3, SettledFrame DEF SnapshotInv
    <2>6. ConfirmedIsSettled'
        BY <1>2, <1>3, <1>5, <2>1, <2>5, ResultType DEF ConfirmedIsSettled, Settles
    <2> QED
        BY <1>3, <2>2, <2>3, <2>4, <2>6 DEF SnapshotInv
<1>6. CASE Retry(TRUE)
    <2>1. /\ call' \in Calls /\ CallHasResult' /\ UpdateComputed'
          /\ confirmed' = confirmed
        BY <1>1, <1>6, RetryType
    <2>2. SnapshotTypeOK'
        BY <1>1, <1>4, <2>1 DEF SnapshotInv, SnapshotTypeOK
    <2> QED
        BY <1>1, <1>3, <2>1, <2>2, QuietStep
<1> QED
    BY <1>5, <1>6 DEF CallSend

LEMMA FaultType ==
    ASSUME SnapshotInv, Fault
    PROVE  faults' \in 0 .. MaxFaults
BY SnapshotAssumption DEF Fault, SnapshotInv, SnapshotTypeOK

LEMMA InvCallFails ==
    ASSUME SnapshotInv, CallLost \/ CallRefused \/ CallAbort
    PROVE  Kept /\ SnapshotInv'
<1>1. UNCHANGED <<main, contract, lead, pending>> /\ Fault /\ call.pc # "idle"
    BY DEF CallLost, CallRefused, CallAbort
<1>2. Kept
    BY <1>1 DEF Kept
<1>3. /\ call' \in Calls /\ CallHasResult' /\ UpdateComputed'
      /\ confirmed' = confirmed
    BY RetryType, RaiseType
       DEF CallLost, CallRefused, CallAbort, AfterLostAnswer
<1>4. \/ requests' = requests
      \/ call.pc = "send" /\ requests' = requests \cup {Update}
    BY DEF CallLost, CallRefused, CallAbort
<1>5. /\ requests' \subseteq Updates
      /\ \A u \in requests' : Computed(u)
    BY <1>1, <1>4, UpdateType
       DEF SnapshotInv, SnapshotTypeOK, RequestsComputed, UpdateComputed
<1>6. SnapshotTypeOK'
    BY <1>1, <1>3, <1>5, FaultType DEF SnapshotInv, SnapshotTypeOK
<1>7. RequestsComputed'
    BY <1>1, <1>5 DEF RequestsComputed, Computed, PublicMain!Replaces
<1>8. ConfirmedIsSettled'
    BY <1>1, <1>3 DEF SnapshotInv, ConfirmedIsSettled
<1> QED
    BY <1>2, <1>3, <1>6, <1>7, <1>8 DEF SnapshotInv

LEMMA InvOthers ==
    ASSUME SnapshotInv, Push \/ \E u \in requests : LateUpdate(u)
    PROVE  (Kept \/ Moved) /\ SnapshotInv'
<1>1. UNCHANGED <<contract, lead, pending, call, confirmed, faults>>
    BY DEF Push, LateUpdate
<1>2. requests' \subseteq requests
    BY DEF Push, LateUpdate
<1>3. Kept \/ Moved
    <2>1. CASE Push
        BY <2>1, PushMoves DEF SnapshotInv
    <2>2. ASSUME NEW u \in requests, LateUpdate(u)
          PROVE  Kept \/ Moved
        <3>1. u \in Updates /\ Computed(u)
            BY DEF SnapshotInv, SnapshotTypeOK, RequestsComputed
        <3> QED
            BY <2>2, <3>1, LandedMoves DEF LateUpdate, Kept, SnapshotInv
    <2> QED
        BY <2>1, <2>2
<1>4. SnapshotTypeOK'
    BY <1>1, <1>2, <1>3 DEF SnapshotInv, SnapshotTypeOK, Kept, Moved
<1>5. CallHasResult' /\ UpdateComputed'
    BY <1>1, <1>3, CallFrame
<1> QED
    BY <1>1, <1>2, <1>3, <1>4, <1>5, QuietStep

LEMMA InvNext ==
    ASSUME SnapshotInv, [Next]_vars
    PROVE  (Kept \/ Moved) /\ SnapshotInv'
<1>1. CASE UNCHANGED vars
    <2>1. /\ UNCHANGED <<main, contract, lead, pending, call, requests,
                         confirmed, faults>>
        BY <1>1 DEF vars
    <2>2. Kept
        BY <2>1 DEF Kept
    <2>3. SnapshotTypeOK'
        BY <2>1 DEF SnapshotInv, SnapshotTypeOK
    <2> QED
        BY <2>1, <2>2, <2>3, CallFrame, QuietStep
<1>2. CASE Next
    BY <1>2, InvCaller, InvCallStart, InvCallRead, InvCallCheck, InvCallSend,
       InvCallFails, InvOthers DEF Next
<1> QED
    BY <1>1, <1>2

(***************************************************************************)
(* Theorems                                                                *)
(***************************************************************************)

(* The inductive invariant: types, and every update that is built, sent or *)
(* given up is computed from the branch or refused by it.                  *)
THEOREM SnapshotInvariant == Spec => []SnapshotInv
<1>1. SnapshotInv /\ [Next]_vars => SnapshotInv'
    BY InvNext
<1> QED
    BY InvInit, <1>1, PTL DEF Spec

(* publish_record is well typed for any results, attempts and faults.      *)
THEOREM SnapshotTypes == Spec => []SnapshotTypeOK
<1>1. SnapshotInv => SnapshotTypeOK
    BY DEF SnapshotInv
<1> QED
    BY <1>1, SnapshotInvariant, PTL

(* Once a call returned without an exception, records.json names its       *)
(* result or one that supersedes it for ever after, whatever is retried,   *)
(* refused or arrives late.                                                *)
THEOREM ConfirmedSettled == Spec => []ConfirmedIsSettled
<1>1. SnapshotInv => ConfirmedIsSettled
    BY DEF SnapshotInv
<1> QED
    BY <1>1, SnapshotInvariant, PTL

(* The retry loop of publish_record implements one atomic update of the    *)
(* registry, which loses no push of anybody else.                          *)
THEOREM SnapshotImplementsRegistry == Spec => ImplementsRegistry
<1>1. Init => PublicMain!RegistryInit
    BY DEF Init, FirstMain, PublicMain!RegistryInit
<1>2. ASSUME SnapshotInv, [Next]_vars
      PROVE  [PublicMain!RegistryNext]_PublicMain!registry
    <2>1. Kept \/ Moved
        BY <1>2, InvNext
    <2>2. CASE Kept
        BY <2>2 DEF Kept, PublicMain!registry
    <2>3. CASE Moved
        BY <2>3 DEF Moved, PublicMain!registry, PublicMain!RegistryNext,
                    PublicMain!Register, PublicMain!Contribute
    <2> QED
        BY <2>1, <2>2, <2>3
<1>3. SnapshotInv /\ [Next]_vars => [PublicMain!RegistryNext]_PublicMain!registry
    BY <1>2
<1> QED
    BY <1>1, <1>3, SnapshotInvariant, PTL
       DEF Spec, ImplementsRegistry, PublicMain!RegistrySpec
==============================================================================
