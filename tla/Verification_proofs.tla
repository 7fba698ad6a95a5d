------------------------ MODULE Verification_proofs --------------------------
(***************************************************************************)
(* For any number of processes that verify in one checkout: one at a time  *)
(* does, and no verdict is given while candidate code runs for it.  A      *)
(* process works only while it holds the lock (SlotIsHeld), and gets past  *)
(* a candidate phase only with its service gone (QuietStages).             *)
(***************************************************************************)
EXTENDS Verification, TLAPS

SlotIsHeld == \A v \in Runs : run[v].stage \in Admitted => slot = v

(* What Integrity finds, before a verdict is there.                        *)
QuietStages ==
    \A v \in Runs : run[v].stage \in {"artifact_capture", "integrity"} => v \notin services

(* A status is set when a process has nothing left to do but its receipt.  *)
StatusIsLast ==
    \A v \in Runs : run[v].status # "none" => run[v].stage \in {"publish", "refused", "receipt"}

VerificationInv ==
    /\ VerificationTypeOK
    /\ SlotIsHeld
    /\ QuietStages
    /\ StatusIsLast
    /\ VerdictLeavesNoService

(***************************************************************************)
(* Records                                                                 *)
(***************************************************************************)
Stages == Admitted \cup Ended \cup {"admission", "refused"}

Ends4 == {"ok", "error", "late", "interrupted"}

LEMMA RunType ==
    ASSUME NEW r \in RunRecords
    PROVE  /\ r.stage \in Stages /\ r.phase \in Candidate /\ r.end \in Ends4
           /\ r.harness \in Contracts \cup {0} /\ r.told \in BOOLEAN /\ r.status \in Statuses
BY DEF RunRecords, Stages, Ends4

LEMMA NotRunType ==
    /\ NotRun \in RunRecords /\ NotRun.stage = "none" /\ NotRun.status = "none"
    /\ Dead \in RunRecords /\ Dead.stage = "dead" /\ Dead.status = "none"
BY DEF NotRun, Dead, RunRecords, Ended, Candidate, Statuses

(* A record with one field replaced.                                       *)
LEMMA SetStage ==
    ASSUME NEW r \in RunRecords, NEW x \in Stages,
           NEW next, next = [r EXCEPT !.stage = x]
    PROVE  /\ next \in RunRecords
           /\ next.stage = x
           /\ next.status = r.status
BY DEF RunRecords, Stages

LEMMA StageNames ==
    /\ {"capture", "source_policy", "setup", "sandbox_preflight", "trusted_build", "compilation",
        "artifact_capture", "comparison", "cleanup", "integrity", "publish"} = Admitted
    /\ Stages = Admitted \cup {"none", "receipt", "dead", "admission", "refused"}
    /\ Candidate = {"compilation", "comparison"}
BY DEF Admitted, Candidate, Stages, Ended

(***************************************************************************)
(* A step of one process                                                   *)
(***************************************************************************)

(* v takes the record r, the services become S, the lock is kept.          *)
LEMMA OneRun ==
    ASSUME VerificationInv, NEW v \in Runs, NEW r \in RunRecords, SetRun(v, r),
           services' \subseteq services \cup {v}, contract' \in Contracts, slot' = slot,
           r.stage \in Admitted => run[v].stage \in Admitted,
           r.stage \in {"artifact_capture", "integrity"} => v \notin services',
           r.status # "none" => r.stage \in {"publish", "refused", "receipt"},
           v \in services' => r.status \notin Verdicts
    PROVE  VerificationInv'
<1>1. /\ run' \in [Runs -> RunRecords] /\ run'[v] = r
      /\ \A w \in Runs : w # v => run'[w] = run[w] /\ (w \in services' => w \in services)
    BY DEF SetRun, VerificationInv, VerificationTypeOK
<1>2. VerificationTypeOK'
    BY <1>1 DEF VerificationInv, VerificationTypeOK
<1>3. SlotIsHeld'
    BY <1>1 DEF VerificationInv, SlotIsHeld
<1>4. QuietStages'
    BY <1>1 DEF VerificationInv, QuietStages
<1>5. StatusIsLast'
    BY <1>1 DEF VerificationInv, StatusIsLast
<1>6. VerdictLeavesNoService'
    BY <1>1, <1>2 DEF VerificationInv, VerdictLeavesNoService, VerificationTypeOK
<1> QED
    BY <1>2, <1>3, <1>4, <1>5, <1>6 DEF VerificationInv

(* v is over, with the record r: if it has the lock, that is free.         *)
LEMMA RunOver ==
    ASSUME VerificationInv, NEW v \in Runs, NEW r \in RunRecords, SetRun(v, r),
           services' = services, contract' = contract, slot' = Without(v),
           r.stage \in {"receipt", "dead"}, r.status \in {"none", run[v].status},
           r.status # "none" => r.stage = "receipt"
    PROVE  VerificationInv'
<1>1. /\ run' \in [Runs -> RunRecords] /\ run'[v] = r
      /\ \A w \in Runs : w # v => run'[w] = run[w]
    BY DEF SetRun, VerificationInv, VerificationTypeOK
<1>2. VerificationTypeOK'
    BY <1>1 DEF VerificationInv, VerificationTypeOK, Without
<1>3. SlotIsHeld'
    BY <1>1, StageNames DEF VerificationInv, SlotIsHeld, Without
<1>4. QuietStages'
    BY <1>1 DEF VerificationInv, QuietStages
<1>5. StatusIsLast'
    BY <1>1 DEF VerificationInv, StatusIsLast
<1>6. VerdictLeavesNoService'
    BY <1>1, <1>2 DEF VerificationInv, VerdictLeavesNoService, VerificationTypeOK, Verdicts
<1> QED
    BY <1>2, <1>3, <1>4, <1>5, <1>6 DEF VerificationInv

(* What the invariant says of one process.                                 *)
LEMMA OfRun ==
    ASSUME VerificationInv, NEW v \in Runs
    PROVE  /\ run[v] \in RunRecords
           /\ run[v].stage \in Stages /\ run[v].status \in Statuses
           /\ run[v].status # "none" => run[v].stage \in {"publish", "refused", "receipt"}
           /\ contract \in Contracts /\ services \subseteq Runs
BY RunType DEF VerificationInv, VerificationTypeOK, StatusIsLast

LEMMA SpawnKeeps ==
    ASSUME VerificationInv, NEW v \in Runs, Spawn(v)
    PROVE  VerificationInv'
<1> DEFINE r == [NotRun EXCEPT !.stage = "admission"]
<1>1. r \in RunRecords /\ r.stage = "admission" /\ r.status = "none"
    BY NotRunType, SetStage, StageNames
<1>2. SetRun(v, r) /\ UNCHANGED <<contract, slot, services>>
    BY DEF Spawn
<1> HIDE DEF r
<1> QED
    BY <1>1, <1>2, OneRun, StageNames DEF VerificationInv, VerificationTypeOK, Verdicts

LEMMA ReapKeeps ==
    ASSUME VerificationInv, NEW v \in Runs, Reap(v)
    PROVE  VerificationInv'
<1>1. SetRun(v, NotRun) /\ UNCHANGED <<contract, slot, services>>
    BY DEF Reap
<1> QED
    BY <1>1, OneRun, NotRunType, StageNames DEF VerificationInv, VerificationTypeOK, Verdicts

LEMMA TakeSlotKeeps ==
    ASSUME VerificationInv, NEW v \in Runs, TakeSlot(v)
    PROVE  VerificationInv'
<1>1. CASE slot = NoRun
    <2> DEFINE r == [run[v] EXCEPT !.stage = "capture"]
    <2>1. r \in RunRecords /\ r.stage = "capture" /\ r.status = run[v].status
        BY OfRun, SetStage, StageNames
    <2>2. run[v].stage = "admission" /\ run[v].status = "none"
        BY OfRun DEF TakeSlot
    <2>3. SetRun(v, r) /\ slot' = v /\ UNCHANGED <<contract, services>>
        BY <1>1 DEF TakeSlot
    <2> HIDE DEF r
    <2>4. /\ run' \in [Runs -> RunRecords] /\ run'[v] = r
          /\ \A w \in Runs : w # v => run'[w] = run[w]
        BY <2>1, <2>3 DEF SetRun, VerificationInv, VerificationTypeOK
    <2>5. \A w \in Runs : run[w].stage \notin Admitted
        BY <1>1, VerificationAssumption DEF VerificationInv, SlotIsHeld
    <2>6. VerificationTypeOK'
        BY <2>3, <2>4 DEF VerificationInv, VerificationTypeOK
    <2>7. SlotIsHeld'
        BY <2>3, <2>4, <2>5 DEF SlotIsHeld
    <2>8. QuietStages' /\ StatusIsLast'
        BY <2>1, <2>2, <2>3, <2>4 DEF VerificationInv, QuietStages, StatusIsLast
    <2>9. VerdictLeavesNoService'
        BY <2>1, <2>2, <2>3, <2>4, <2>6
        DEF VerificationInv, VerdictLeavesNoService, VerificationTypeOK, Verdicts
    <2> QED
        BY <2>6, <2>7, <2>8, <2>9 DEF VerificationInv
<1>2. CASE slot # NoRun
    <2> DEFINE r == [run[v] EXCEPT !.stage = "refused", !.status = "worker_busy"]
    <2>1. r \in RunRecords /\ r.stage = "refused" /\ r.status = "worker_busy"
        BY OfRun DEF RunRecords, Statuses
    <2>2. SetRun(v, r) /\ UNCHANGED <<contract, slot, services>>
        BY <1>2 DEF TakeSlot
    <2> HIDE DEF r
    <2>3. r.stage \notin Admitted /\ r.status \notin Verdicts /\ contract' \in Contracts
        BY <2>1, <2>2, StageNames, OfRun DEF Verdicts
    <2> QED
        BY <2>1, <2>2, <2>3, OneRun
<1> QED
    BY <1>1, <1>2

LEMMA AdvanceKeeps ==
    ASSUME VerificationInv, NEW v \in Runs, Advance(v)
    PROVE  VerificationInv'
<1> DEFINE next == NextStage[run[v].stage]
           phase == IF next \in Candidate THEN next ELSE run[v].phase
           harness == IF run[v].stage = "setup" THEN contract ELSE run[v].harness
           r == [run[v] EXCEPT !.stage = next, !.phase = phase, !.harness = harness]
<1>1. /\ run[v].stage \in {"capture", "source_policy", "setup", "sandbox_preflight",
                           "trusted_build", "artifact_capture"}
      /\ run[v].stage \in Admitted
      /\ next \in {"source_policy", "setup", "sandbox_preflight", "trusted_build",
                   "compilation", "comparison"}
    BY StageNames DEF Advance, NextStage
<1>2. run[v].status = "none" /\ contract \in Contracts
    BY <1>1, OfRun DEF VerificationInv, VerificationTypeOK
<1>3. next \in Stages
    BY <1>1, StageNames
<1>4. phase \in Candidate /\ harness \in Contracts \cup {0}
    BY <1>2, OfRun, RunType
<1>5. /\ SetRun(v, r) /\ UNCHANGED <<contract, slot>>
      /\ services' = IF next \in Candidate THEN services \cup {v} ELSE services
    BY DEF Advance
<1> HIDE DEF phase, harness, next
<1>6. r \in RunRecords /\ r.stage = next /\ r.status = "none"
    BY <1>2, <1>3, <1>4, OfRun DEF RunRecords, Stages
<1> HIDE DEF r
<1> QED
    BY <1>1, <1>2, <1>5, <1>6, OneRun, StageNames DEF Verdicts

(* Report, with the lock kept until the receipt is out.                    *)
LEMMA ReportKeeps ==
    ASSUME VerificationInv, NEW v \in Runs, NEW status \in Statuses, Report(v, status),
           run[v].stage \in Admitted, UNCHANGED <<contract, slot, services>>,
           v \in services => status \notin Verdicts
    PROVE  VerificationInv'
<1> DEFINE r == [run[v] EXCEPT !.stage = "publish", !.status = status]
<1>1. r \in RunRecords /\ r.stage = "publish" /\ r.status = status
    BY OfRun DEF RunRecords, Admitted
<1>2. SetRun(v, r) /\ contract' \in Contracts
    BY OfRun DEF Report
<1> HIDE DEF r
<1> QED
    BY <1>1, <1>2, OneRun

LEMMA StageFailsKeeps ==
    ASSUME VerificationInv, NEW v \in Runs, StageFails(v)
    PROVE  VerificationInv'
<1>1. run[v].stage \in Admitted
    BY StageNames DEF StageFails, NextStage
<1> DEFINE status == IF run[v].stage \in {"capture", "source_policy"}
                     THEN "source_rejected" ELSE "infrastructure_error"
<1>2. status \in Statuses /\ status \notin Verdicts
    BY DEF Statuses, Verdicts
<1>3. Report(v, status) /\ UNCHANGED <<contract, slot, services>>
    BY DEF StageFails
<1> HIDE DEF status
<1> QED
    BY <1>1, <1>2, <1>3, ReportKeeps

LEMMA PhaseEndsKeeps ==
    ASSUME VerificationInv, NEW v \in Runs, PhaseEnds(v)
    PROVE  VerificationInv'
<1>1. run[v].stage \in Candidate /\ UNCHANGED <<contract, slot, services>>
    BY DEF PhaseEnds
<1>2. PICK end \in {"ok", "error", "late"} :
          SetRun(v, [run[v] EXCEPT !.stage = "cleanup", !.end = end])
    BY DEF PhaseEnds
<1>3. end \in Ends4
    BY DEF Ends4
<1> DEFINE r == [run[v] EXCEPT !.stage = "cleanup", !.end = end]
<1>4. r \in RunRecords /\ r.stage = "cleanup" /\ r.status = run[v].status
    BY <1>3, OfRun, StageNames DEF RunRecords, Ends4
<1>5. run[v].status = "none" /\ run[v].stage \in Admitted
    BY <1>1, OfRun, StageNames
<1>6. SetRun(v, r) /\ contract' \in Contracts
    BY <1>1, <1>2, OfRun
<1>7. "none" \notin Verdicts
    BY DEF Verdicts
<1> HIDE DEF r
<1> QED
    BY <1>1, <1>4, <1>5, <1>6, <1>7, OneRun

LEMMA ServiceEndsKeeps ==
    ASSUME VerificationInv, NEW v \in Runs, ServiceEnds(v)
    PROVE  VerificationInv'
BY DEF ServiceEnds, VerificationInv, VerificationTypeOK, SlotIsHeld, QuietStages, StatusIsLast,
       VerdictLeavesNoService

LEMMA AfterPhaseMeans ==
    ASSUME NEW r \in RunRecords, r.status = "none"
    PROVE  LET next == AfterPhase(r) IN
           /\ next \in RunRecords
           /\ next.stage \in {"artifact_capture", "publish", "integrity"}
           /\ next.status \in {"none", "timed_out", "interrupted"}
           /\ next.status # "none" => next.stage = "publish"
<1> DEFINE a == r.end = "ok" /\ r.phase = "compilation"
<1>1. CASE a
    <2>1. AfterPhase(r) = [r EXCEPT !.stage = "artifact_capture"]
        BY <1>1 DEF AfterPhase
    <2> QED
        BY <2>1, SetStage, StageNames
<1>2. CASE r.end = "late"
    <2>1. AfterPhase(r) = [r EXCEPT !.stage = "publish", !.status = "timed_out"]
        BY <1>2 DEF AfterPhase
    <2>2. "timed_out" \in Statuses
        BY DEF Statuses
    <2> QED
        BY <2>1, <2>2, StageNames DEF RunRecords
<1>3. CASE r.end = "interrupted"
    <2>1. AfterPhase(r) = [r EXCEPT !.stage = "publish", !.status = "interrupted"]
        BY <1>3 DEF AfterPhase
    <2>2. "interrupted" \in Statuses
        BY DEF Statuses
    <2> QED
        BY <2>1, <2>2, StageNames DEF RunRecords
<1>4. CASE ~a /\ r.end \notin {"late", "interrupted"}
    <2>1. AfterPhase(r) = [r EXCEPT !.stage = "integrity"]
        BY <1>4 DEF AfterPhase
    <2> QED
        BY <2>1, SetStage, StageNames
<1> QED
    BY <1>1, <1>2, <1>3, <1>4

LEMMA CleanupKeeps ==
    ASSUME VerificationInv, NEW v \in Runs, Cleanup(v)
    PROVE  VerificationInv'
<1>1. /\ run[v].stage = "cleanup" /\ services' = services \ {v} /\ UNCHANGED <<contract, slot>>
      /\ SetRun(v, AfterPhase(run[v]))
    BY DEF Cleanup
<1>2. run[v].status = "none" /\ run[v].stage \in Admitted /\ run[v] \in RunRecords
    BY <1>1, OfRun, StageNames
<1> DEFINE r == AfterPhase(run[v])
<1>3. /\ r \in RunRecords
      /\ r.stage \in {"artifact_capture", "publish", "integrity"}
      /\ r.status \in {"none", "timed_out", "interrupted"}
      /\ r.status # "none" => r.stage = "publish"
    BY <1>2, AfterPhaseMeans
<1>4. SetRun(v, r) /\ contract' \in Contracts /\ v \notin services'
    BY <1>1, OfRun
<1> HIDE DEF r
<1> QED
    BY <1>1, <1>2, <1>3, <1>4, OneRun

LEMMA CleanupUncertainKeeps ==
    ASSUME VerificationInv, NEW v \in Runs, CleanupUncertain(v)
    PROVE  VerificationInv'
<1>1. run[v].stage \in Admitted /\ UNCHANGED <<contract, slot, services>>
    BY StageNames DEF CleanupUncertain
<1>2. PICK status \in {"infrastructure_error", "timed_out"} : Report(v, status)
    BY DEF CleanupUncertain
<1>3. status \in Statuses /\ status \notin Verdicts
    BY DEF Statuses, Verdicts
<1> QED
    BY <1>1, <1>2, <1>3, ReportKeeps

LEMMA IntegrityKeeps ==
    ASSUME VerificationInv, NEW v \in Runs, Integrity(v)
    PROVE  VerificationInv'
<1>1. /\ run[v].stage = "integrity" /\ run[v].stage \in Admitted
      /\ UNCHANGED <<contract, slot, services>>
    BY StageNames DEF Integrity
<1>2. v \notin services
    BY <1>1 DEF VerificationInv, QuietStages
<1>3. \/ Report(v, "accepted") \/ Report(v, "verification_failed")
      \/ Report(v, "infrastructure_error")
    BY DEF Integrity
<1>4. {"accepted", "verification_failed", "infrastructure_error"} \subseteq Statuses
    BY DEF Statuses
<1> QED
    BY <1>1, <1>2, <1>3, <1>4, ReportKeeps

LEMMA PublishKeeps ==
    ASSUME VerificationInv, NEW v \in Runs, Publish(v)
    PROVE  VerificationInv'
<1> DEFINE r == [NotRun EXCEPT !.stage = "receipt", !.status = run[v].status]
<1>1. r \in RunRecords /\ r.stage = "receipt" /\ r.status = run[v].status
    BY OfRun, NotRunType DEF RunRecords, Ended
<1>2. SetRun(v, r) /\ slot' = Without(v) /\ services' = services /\ contract' = contract
    BY DEF Publish
<1> HIDE DEF r
<1> QED
    BY <1>1, <1>2, RunOver

LEMMA DieKeeps ==
    ASSUME VerificationInv, NEW v \in Runs, Die(v)
    PROVE  VerificationInv'
BY NotRunType, RunOver DEF Die

LEMMA RunStepKeeps ==
    ASSUME VerificationInv, NEW v \in Runs, RunStep(v)
    PROVE  VerificationInv'
BY TakeSlotKeeps, AdvanceKeeps, StageFailsKeeps, PhaseEndsKeeps, CleanupKeeps,
   CleanupUncertainKeeps, IntegrityKeeps, PublishKeeps
DEF RunStep

(***************************************************************************)
(* Signals, the host, the operator                                         *)
(***************************************************************************)
LEMMA TerminatedMeans ==
    ASSUME NEW r \in RunRecords, r.stage \in Candidate => r.status = "none"
    PROVE  LET next == Terminated(r) IN
           \/ next = r
           \/ next = Dead
           \/ /\ next \in RunRecords /\ r.stage \in Admitted
              /\ \/ next.stage = "cleanup" /\ next.status = "none"
                 \/ next.stage = "publish" /\ next.status = "interrupted"
<1>1. CASE r.told \/ r.stage \in Ended
    <2>1. Terminated(r) = r
        BY <1>1 DEF Terminated, Candidate, Ended
    <2> QED
        BY <2>1
<1>2. CASE ~(r.told \/ r.stage \in Ended) /\ r.stage \in Candidate
    <2>1. Terminated(r) = [r EXCEPT !.told = TRUE, !.stage = "cleanup", !.end = "interrupted"]
        BY <1>2 DEF Terminated, Candidate, Ended
    <2> DEFINE next == [r EXCEPT !.told = TRUE, !.stage = "cleanup", !.end = "interrupted"]
    <2>2. next \in RunRecords /\ next.stage = "cleanup" /\ next.status = r.status
        BY StageNames DEF RunRecords
    <2>3. r.stage \in Admitted
        BY <1>2, StageNames
    <2> QED
        BY <2>1, <2>2, <2>3, <1>2
<1>3. CASE /\ ~(r.told \/ r.stage \in Ended) /\ r.stage \notin Candidate
           /\ r.stage \in {"admission", "refused", "publish"}
    BY <1>3 DEF Terminated
<1>4. CASE /\ ~(r.told \/ r.stage \in Ended) /\ r.stage \notin Candidate
           /\ r.stage \notin {"admission", "refused", "publish"}
    <2>1. Terminated(r) = [r EXCEPT !.told = TRUE, !.stage = "publish", !.status = "interrupted"]
        BY <1>4 DEF Terminated
    <2> DEFINE next == [r EXCEPT !.told = TRUE, !.stage = "publish", !.status = "interrupted"]
    <2>2. next \in RunRecords /\ next.stage = "publish" /\ next.status = "interrupted"
        BY StageNames DEF RunRecords, Statuses
    <2>3. r.stage \in Admitted
        BY <1>4, RunType, StageNames DEF Ended
    <2> QED
        BY <2>1, <2>2, <2>3
<1> QED
    BY <1>1, <1>2, <1>3, <1>4

LEMMA TerminateKeeps ==
    ASSUME VerificationInv, NEW V \in SUBSET Runs, Terminate(V)
    PROVE  VerificationInv'
<1>1. /\ run' = [v \in Runs |-> IF v \in V THEN Terminated(run[v]) ELSE run[v]]
      /\ slot' = IF slot # NoRun /\ run'[slot].stage = "dead" THEN NoRun ELSE slot
      /\ UNCHANGED <<contract, services>>
    BY DEF Terminate
<1>2. ASSUME NEW v \in Runs
      PROVE  \/ run'[v] = run[v]
             \/ run'[v] = Dead
             \/ /\ run'[v] \in RunRecords /\ run[v].stage \in Admitted
                /\ \/ run'[v].stage = "cleanup" /\ run'[v].status = "none"
                   \/ run'[v].stage = "publish" /\ run'[v].status = "interrupted"
    <2>1. run[v] \in RunRecords /\ (run[v].stage \in Candidate => run[v].status = "none")
        BY OfRun, StageNames
    <2>2. run'[v] = run[v] \/ run'[v] = Terminated(run[v])
        BY <1>1
    <2> QED
        BY <2>1, <2>2, TerminatedMeans
<1>3. run' \in [Runs -> RunRecords]
    BY <1>1, <1>2, NotRunType, OfRun
<1>4. VerificationTypeOK'
    BY <1>1, <1>3 DEF VerificationInv, VerificationTypeOK
<1>5. SlotIsHeld'
    <2>1. SUFFICES ASSUME NEW v \in Runs, run'[v].stage \in Admitted
                   PROVE  slot' = v
        BY DEF SlotIsHeld
    <2>2. run'[v].stage # "dead"
        BY <2>1, StageNames
    <2>3. run[v].stage \in Admitted
        BY <1>2, <2>1, <2>2, NotRunType
    <2>4. slot = v
        BY <2>3 DEF VerificationInv, SlotIsHeld
    <2> QED
        BY <1>1, <2>2, <2>4
<1>6. QuietStages'
    BY <1>1, <1>2, NotRunType DEF VerificationInv, QuietStages
<1>7. StatusIsLast'
    BY <1>2, NotRunType DEF VerificationInv, StatusIsLast
<1>8. VerdictLeavesNoService'
    <2>1. SUFFICES ASSUME NEW v \in services
                   PROVE  run'[v].status \notin Verdicts
        BY <1>1 DEF VerdictLeavesNoService
    <2>2. v \in Runs /\ run[v].status \notin Verdicts
        BY DEF VerificationInv, VerificationTypeOK, VerdictLeavesNoService
    <2> QED
        BY <1>2, <2>2, NotRunType DEF Verdicts
<1> QED
    BY <1>4, <1>5, <1>6, <1>7, <1>8 DEF VerificationInv

LEMMA HostDownKeeps ==
    ASSUME VerificationInv, HostDown
    PROVE  VerificationInv'
<1>1. /\ run' = [v \in Runs |-> NotRun] /\ slot' = NoRun /\ services' = {}
      /\ contract' = contract /\ contract \in Contracts
    BY DEF HostDown, VerificationInv, VerificationTypeOK
<1> QED
    BY <1>1, NotRunType, StageNames
    DEF VerificationInv, VerificationTypeOK, SlotIsHeld, QuietStages, StatusIsLast,
        VerdictLeavesNoService

LEMMA DeployKeeps ==
    ASSUME VerificationInv, Deploy
    PROVE  VerificationInv'
BY DEF Deploy, VerificationInv, VerificationTypeOK, SlotIsHeld, QuietStages, StatusIsLast,
       VerdictLeavesNoService

LEMMA VerificationInitInv == VerificationInit => VerificationInv
BY VerificationAssumption, NotRunType, StageNames
DEF VerificationInit, VerificationInv, VerificationTypeOK, SlotIsHeld, QuietStages, StatusIsLast,
    VerdictLeavesNoService

LEMMA VerificationStep ==
    ASSUME VerificationInv, [VerificationNext]_verification
    PROVE  VerificationInv'
<1>1. ASSUME UNCHANGED verification
      PROVE  VerificationInv'
    BY <1>1 DEF verification, VerificationInv, VerificationTypeOK, SlotIsHeld, QuietStages,
                StatusIsLast, VerdictLeavesNoService
<1> QED
    BY <1>1, SpawnKeeps, ReapKeeps, RunStepKeeps, ServiceEndsKeeps, DieKeeps, TerminateKeeps,
       HostDownKeeps, DeployKeeps
    DEF VerificationNext

THEOREM VerificationInvariant == VerificationSpec => []VerificationInv
BY VerificationInitInv, VerificationStep, PTL DEF VerificationSpec

(* The variables of any number of processes stay in their types.           *)
THEOREM VerificationTypeCorrect == VerificationSpec => []VerificationTypeOK
<1>1. VerificationInv => VerificationTypeOK
    BY DEF VerificationInv
<1> QED
    BY <1>1, VerificationInvariant, PTL

LEMMA InvOneVerification == VerificationInv => OneVerification
BY DEF VerificationInv, SlotIsHeld, OneVerification

(* Any number of processes, killed, signalled or late: one works.          *)
THEOREM VerifiersExclude == VerificationSpec => []OneVerification
BY InvOneVerification, VerificationInvariant, PTL

(* A verdict is given only with the service of its candidate gone.         *)
THEOREM VerdictsAreQuiet == VerificationSpec => []VerdictLeavesNoService
<1>1. VerificationInv => VerdictLeavesNoService
    BY DEF VerificationInv
<1> QED
    BY <1>1, VerificationInvariant, PTL
==============================================================================
