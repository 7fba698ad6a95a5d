-------------------------- MODULE Pipeline_proofs ----------------------------
(***************************************************************************)
(* A head from its admission to its verdict, for any number of heads,      *)
(* contracts, processes and faults.  Every step of the pipeline is a step  *)
(* of the source store and of the verifiers, or leaves them alone, so that *)
(* what is proved of them holds of the pipeline.  PipelineInv adds what    *)
(* the worker, app.rebuild and the admission know at each of their steps.  *)
(***************************************************************************)
EXTENDS Pipeline, Store_proofs, Verification_proofs

(* A result that the worker may write into the row of s, which was queued  *)
(* under the contract k0 and begun under epoch, now that contract is now.  *)
Earned(s, k0, epoch, now, E, result) ==
    /\ result = "verified" =>
          /\ epoch = k0
          /\ \E k \in Contracts : epoch <= k /\ k <= now /\ <<s, "verified", k>> \in E
    /\ result = "rejected" => \E k \in Contracts : <<s, "rejected", k>> \in E

RowsInv ==
    \A s \in Subs :
        /\ row[s].status # "none" => row[s].contract \in Contracts /\ tag[s] = "own"
        /\ row[s].archive # NoArchive => row[s].archive = ArchiveOf(s, row[s].contract)

AdmissionInv == admission # NoSub => Admissible(admission)

Busy == worker.pc \notin {"down", "idle"}

(* The row of a job is the worker's, and the job is of its contract.       *)
JobHasRow ==
    Busy => /\ Job \in Subs /\ row[Job].status = "verifying"
            /\ worker.pc # "finish" =>
                  worker.epoch = row[Job].contract /\ worker.epoch <= contract
            /\ worker.pc \in {"retain", "save", "wait"} => worker.key \in Contracts

JobIsSaved ==
    worker.pc = "save" => /\ saver[Keeper] # Idle
                          /\ saver[Keeper].sub = Job
                          /\ saver[Keeper].archive = ArchiveOf(Job, worker.key)

JobIsEarned ==
    /\ worker.pc = "wait" =>
          /\ worker.child \in Runs
          /\ Earned(Job, row[Job].contract, worker.epoch, contract, earned,
                    Interpret(run[worker.child].status))
    /\ worker.pc \in {"recover", "finish"} =>
          Earned(Job, row[Job].contract, worker.epoch, contract, earned, worker.result)

JobHasArchive ==
    worker.pc = "finish" =>
        /\ worker.archive \in {NoArchive, ArchiveOf(Job, row[Job].contract)}
        /\ worker.result = "verified" => worker.archive # NoArchive

RebuildInv ==
    rebuild.pc # "idle" =>
        /\ rebuild.sub \in Subs /\ rebuild.contract \in Contracts
        /\ rebuild.archive \in {NoArchive, ArchiveOf(rebuild.sub, rebuild.contract)}
        /\ rebuild.pc = "attach" => rebuild.found = ArchiveOf(rebuild.sub, rebuild.contract)

(* The types of the pipeline's own variables.                              *)
OwnTypeOK ==
    /\ row \in [Subs -> Rows]
    /\ tag \in [Subs -> {"none", "own", "foreign"}]
    /\ admission \in Subs \cup {NoSub}
    /\ worker \in Jobs
    /\ rebuild \in Recoveries
    /\ earned \subseteq Subs \X Final \X Contracts
    /\ faults \in 0 .. MaxFaults

JobInv == JobHasRow /\ JobIsSaved /\ JobIsEarned /\ JobHasArchive /\ CandidateIsRetained

OwnInv ==
    OwnTypeOK /\ RowsInv /\ AdmissionInv /\ VerdictIsEarned /\ JobInv /\ RebuildInv

PipelineInv == StoreInv /\ VerificationInv /\ OwnInv

LEMMA TypeParts == TypeOK <=> StoreTypeOK /\ VerificationTypeOK /\ OwnTypeOK
BY DEF TypeOK, OwnTypeOK

LEMMA ArchiveOfType ==
    ASSUME NEW s \in Subs, NEW k \in Contracts
    PROVE  ArchiveOf(s, k) \in Archives /\ ArchiveOf(s, k) # NoArchive
BY PipelineAssumption, StoreAssumption DEF ArchiveOf

LEMMA SaversAre == Keeper \in Savers /\ Rebuilder \in Savers /\ Keeper # Rebuilder
BY PipelineAssumption DEF Keeper, Rebuilder

LEMMA NoSubIs == NoSub \notin Subs
BY PipelineAssumption DEF NoSub

LEMMA JobType ==
    ASSUME NEW w \in Jobs
    PROVE  /\ w.sub \in Subs \cup {NoSub} /\ w.epoch \in Contracts \cup {0}
           /\ w.key \in Contracts \cup {0} /\ w.known \in Archives \cup {NoArchive}
           /\ w.child \in Runs \cup {NoRun} /\ w.result \in {"none", "failed"} \cup Final
           /\ w.archive \in Archives \cup {NoArchive}
BY DEF Jobs

LEMMA RowType ==
    ASSUME NEW r \in Rows
    PROVE  /\ r.status \in {"none", "pending", "verifying", "failed"} \cup Final
           /\ r.contract \in Contracts \cup {0} /\ r.archive \in Archives \cup {NoArchive}
BY DEF Rows

LEMMA NoJobType ==
    /\ NoJob \in Jobs /\ NoJob.pc = "idle"
    /\ [NoJob EXCEPT !.pc = "down"] \in Jobs /\ [NoJob EXCEPT !.pc = "down"].pc = "down"
BY DEF NoJob, Jobs

LEMMA NoRecoveryType == NoRecovery \in Recoveries /\ NoRecovery.pc = "idle"
BY DEF NoRecovery, Recoveries

(* A result that was earned stays so.                                      *)
LEMMA EarnedStays ==
    ASSUME NEW s, NEW k0, NEW epoch \in Nat, NEW now \in Nat, NEW E, NEW result,
           NEW later \in Nat, NEW F, now <= later, E \subseteq F,
           Earned(s, k0, epoch, now, E, result)
    PROVE  Earned(s, k0, epoch, later, F, result)
<1>1. Contracts \subseteq Nat
    BY VerificationAssumption
<1>2. \A k \in Nat : k <= now => k <= later
    OBVIOUS
<1> QED
    BY <1>1, <1>2 DEF Earned

LEMMA FailedIsEarned ==
    ASSUME NEW s, NEW k0, NEW epoch, NEW now, NEW E,
           NEW result, result \notin {"verified", "rejected"}
    PROVE  Earned(s, k0, epoch, now, E, result)
BY DEF Earned

(***************************************************************************)
(* The steps of the store and of the verifiers                             *)
(***************************************************************************)
LEMMA KeeperSaves ==
    ASSUME PipelineInv, ExportRoot
    PROVE  [StoreNext]_store
<1>1. CASE SaveBegin(Keeper, Job, ArchiveOf(Job, worker.key))
    <2>1. Job \in Subs /\ worker.key \in Contracts
        BY DEF ExportRoot, PipelineInv, OwnInv, JobInv, JobHasRow, Busy
    <2>2. ArchiveOf(Job, worker.key) \in Archives
        BY <2>1, ArchiveOfType
    <2> QED
        BY <1>1, <2>1, <2>2, SaversAre DEF StoreNext
<1> QED
    BY <1>1 DEF ExportRoot

LEMMA RebuilderSaves ==
    ASSUME PipelineInv, RebuildExport
    PROVE  [StoreNext]_store
<1>1. rebuild.sub \in Subs /\ rebuild.contract \in Contracts
    BY DEF RebuildExport, PipelineInv, OwnInv, RebuildInv
<1>2. Expected = ArchiveOf(rebuild.sub, rebuild.contract)
    BY DEF RebuildExport, PipelineInv, OwnInv, RebuildInv, Expected
<1>3. Expected \in Archives
    BY <1>1, <1>2, ArchiveOfType
<1> QED
    BY <1>1, <1>3, SaversAre DEF RebuildExport, StoreNext

LEMMA StoreSimulation ==
    ASSUME PipelineInv, [Next]_vars
    PROVE  [StoreNext]_store
<1>1. CASE UNCHANGED vars
    BY <1>1 DEF vars
<1>2. CASE WorkerStep
    BY <1>2, KeeperSaves, SaversAre
    DEF WorkerStep, WorkerStart, WorkerBegin, Pin, RestoreRetained, Saved, SaveRaises, ReadReceipt,
        Recover, Finish, StoreNext
<1>3. CASE OuterTimeout \/ PipelineDies \/ WorkerStop
    BY <1>3, SaversAre DEF OuterTimeout, PipelineDies, WorkerStop, StoreNext
<1>4. ASSUME NEW s \in Subs, AdmitTag(s) \/ Admit(s) \/ TagAppears(s)
      PROVE  UNCHANGED store
    BY <1>4 DEF AdmitTag, Admit, TagAppears
<1>5. ASSUME NEW v \in Runs, VerifierStep(v) \/ VerifierDies(v)
      PROVE  UNCHANGED store
    BY <1>5 DEF VerifierStep, VerifierDies
<1>6. ASSUME NEW p \in Savers, SaverStep(p)
      PROVE  StoreNext
    BY <1>6 DEF SaverStep, StoreNext
<1>7. CASE RebuildStep
    BY <1>7, RebuilderSaves, SaversAre
    DEF RebuildStep, RebuildCheck, RebuildSaved, RebuildAttach, RebuildRaises, RebuildRead,
        StoreNext
<1>8. CASE Crash \/ DamageObject \/ DeployContract
    BY <1>8 DEF Crash, DamageObject, DeployContract, StoreNext
<1> QED
    BY <1>1, <1>2, <1>3, <1>4, <1>5, <1>6, <1>7, <1>8 DEF Next

LEMMA LaunchSpawns ==
    ASSUME Launch
    PROVE  /\ Fresh \in Runs /\ Spawn(Fresh)
           /\ worker' = [worker EXCEPT !.pc = "wait", !.child = Fresh]
           /\ UNCHANGED <<row, tag, admission, rebuild, earned, faults>>
BY DEF Launch, Fresh, Elsewhere

LEMMA VerificationSimulation ==
    ASSUME PipelineInv, [Next]_vars
    PROVE  [VerificationNext]_verification
<1>1. CASE UNCHANGED vars
    BY <1>1 DEF vars
<1>2. CASE WorkerStep
    <2>1. CASE Launch
        BY <2>1, LaunchSpawns DEF VerificationNext
    <2>2. CASE ReadReceipt
        BY <2>2 DEF ReadReceipt, VerificationNext, PipelineInv, OwnInv, JobInv, JobIsEarned
    <2>3. CASE ~Launch /\ ~ReadReceipt
        BY <1>2, <2>3
        DEF WorkerStep, WorkerStart, WorkerBegin, Pin, RestoreRetained, ExportRoot, Saved,
            SaveRaises, Recover, Finish
    <2> QED
        BY <2>1, <2>2, <2>3
<1>3. CASE OuterTimeout
    <2>1. CASE Terminate({worker.child}) /\ worker.pc = "wait"
        <3>1. {worker.child} \in SUBSET Runs
            BY <2>1 DEF PipelineInv, OwnInv, JobInv, JobIsEarned
        <3> QED
            BY <2>1, <3>1 DEF VerificationNext
    <2> QED
        BY <1>3, <2>1 DEF OuterTimeout
<1>4. CASE PipelineDies \/ WorkerStop
    BY <1>4 DEF PipelineDies, WorkerStop, VerificationNext
<1>5. ASSUME NEW s \in Subs, AdmitTag(s) \/ Admit(s) \/ TagAppears(s)
      PROVE  UNCHANGED verification
    BY <1>5 DEF AdmitTag, Admit, TagAppears
<1>6. ASSUME NEW v \in Runs, VerifierStep(v) \/ VerifierDies(v)
      PROVE  VerificationNext
    BY <1>6 DEF VerifierStep, VerifierDies, VerificationNext
<1>7. ASSUME NEW p \in Savers, SaverStep(p)
      PROVE  UNCHANGED verification
    BY <1>7 DEF SaverStep
<1>8. CASE RebuildStep
    BY <1>8
    DEF RebuildStep, RebuildCheck, RebuildExport, RebuildSaved, RebuildAttach, RebuildRaises,
        RebuildRead, WorkerSide
<1>9. CASE Crash \/ DamageObject \/ DeployContract
    BY <1>9 DEF Crash, DamageObject, DeployContract, VerificationNext
<1> QED
    BY <1>1, <1>2, <1>3, <1>4, <1>5, <1>6, <1>7, <1>8, <1>9 DEF Next

(***************************************************************************)
(* What the parts of PipelineInv that a step does not touch depend on      *)
(***************************************************************************)

(* What is in the store stays in it, as long as the host is up.            *)
StoreGrows ==
    /\ objects \subseteq objects'
    /\ \A s \in Subs : sidecars[s] # NoArchive => sidecars'[s] = sidecars[s]

LEMMA SavesGrow ==
    ASSUME StoreInv, NEW p \in Savers,
           SaveStep(p) \/ Leave(p) \/ \E s \in Subs, a \in Archives : SaveBegin(p, s, a)
    PROVE  StoreGrows
<1>1. CASE LinkSidecar(p)
    <2>1. saver[p].sub \in Subs
        BY <1>1, CallType DEF LinkSidecar, StoreInv
    <2>2. sidecars \in [Subs -> Archives \cup {NoArchive}]
        BY DEF StoreInv, StoreTypeOK
    <2> QED
        BY <1>1, <2>1, <2>2 DEF LinkSidecar, MaySave, StoreGrows
<1>2. CASE LinkObject(p)
    BY <1>2 DEF LinkObject, StoreGrows
<1>3. CASE SyncObject(p) \/ SyncSidecar(p) \/ Leave(p)
    BY <1>3 DEF SyncObject, SyncSidecar, Leave, StoreGrows
<1>4. CASE \E s \in Subs, a \in Archives : SaveBegin(p, s, a)
    BY <1>4 DEF SaveBegin, StoreGrows
<1> QED
    BY <1>1, <1>2, <1>3, <1>4 DEF SaveStep

LEMMA StillGrows ==
    ASSUME UNCHANGED <<objects, sidecars>>
    PROVE  StoreGrows
BY DEF StoreGrows

(* The rows are left alone.                                                *)
LEMMA RowsFrame ==
    ASSUME RowsInv, AdmissionInv, VerdictIsEarned, row' = row, earned \subseteq earned',
           \A s \in Subs : tag[s] = "own" => tag'[s] = "own",
           admission' \in {admission, NoSub} \/ Admissible(admission')
    PROVE  RowsInv' /\ AdmissionInv' /\ VerdictIsEarned'
<1>1. RowsInv'
    BY DEF RowsInv
<1>2. AdmissionInv'
    BY DEF AdmissionInv, Admissible
<1>3. VerdictIsEarned'
    BY DEF VerdictIsEarned
<1> QED
    BY <1>1, <1>2, <1>3

LEMMA RebuildFrame ==
    ASSUME RebuildInv, rebuild' = rebuild
    PROVE  RebuildInv'
BY DEF RebuildInv

(* The worker is left alone.                                               *)
LEMMA JobFrame ==
    ASSUME JobInv, worker' = worker, StoreGrows,
           Job \in Subs => /\ row'[Job].contract = row[Job].contract
                           /\ row[Job].status = "verifying" => row'[Job].status = "verifying",
           worker.pc \in {"recover", "finish"} =>
              Earned(Job, row[Job].contract, worker.epoch, contract', earned', worker.result),
           worker.pc = "wait" =>
              Earned(Job, row[Job].contract, worker.epoch, contract', earned',
                     Interpret(run'[worker.child].status)),
           contract \in Nat, contract' \in Nat, contract <= contract', worker.epoch \in Nat,
           JobIsSaved'
    PROVE  JobInv'
<1>1. JobHasRow'
    BY DEF JobInv, JobHasRow, Busy, Job
<1>2. Busy => Job \in Subs
    BY DEF JobInv, JobHasRow
<1>3. JobIsEarned'
    BY <1>2 DEF JobInv, JobIsEarned, Busy, Job
<1>4. JobHasArchive'
    BY <1>2 DEF JobInv, JobHasArchive, Busy, Job
<1>5. CandidateIsRetained'
    <2>1. worker.pc = "wait" => sidecars'[Job] = sidecars[Job] /\ sidecars[Job] \in objects'
        <3> HAVE worker.pc = "wait"
        <3>1. Job \in Subs /\ worker.key \in Contracts
            BY DEF JobInv, JobHasRow, Busy
        <3>2. sidecars[Job] # NoArchive
            BY <3>1, ArchiveOfType DEF JobInv, CandidateIsRetained
        <3> QED
            BY <3>1, <3>2 DEF JobInv, CandidateIsRetained, StoreGrows
    <2> QED
        BY <2>1 DEF JobInv, CandidateIsRetained, Job
<1> QED
    BY <1>1, <1>3, <1>4, <1>5 DEF JobInv

LEMMA SaverFrame ==
    ASSUME JobIsSaved, worker' = worker, saver'[Keeper] = saver[Keeper]
    PROVE  JobIsSaved'
BY DEF JobIsSaved, Job

LEMMA ContractsAreNat ==
    ASSUME VerificationInv, worker \in Jobs
    PROVE  contract \in Nat /\ contract \in Contracts /\ worker.epoch \in Nat
<1>1. contract \in Contracts /\ worker.epoch \in Contracts \cup {0}
    BY JobType DEF VerificationInv, VerificationTypeOK
<1>2. Contracts \cup {0} \subseteq Nat
    BY VerificationAssumption
<1> QED
    BY <1>1, <1>2

(* The worker is left alone, and no verdict is given to its own child.     *)
LEMMA JobKeeps ==
    ASSUME VerificationInv, worker \in Jobs, JobInv, worker' = worker, StoreGrows,
           Job \in Subs => /\ row'[Job].contract = row[Job].contract
                           /\ row[Job].status = "verifying" => row'[Job].status = "verifying",
           worker.pc = "wait" => run'[worker.child].status = run[worker.child].status,
           contract' \in Nat, contract <= contract', earned \subseteq earned',
           JobIsSaved'
    PROVE  JobInv'
<1>1. contract \in Nat /\ worker.epoch \in Nat
    BY ContractsAreNat
<1>2. \A result : Earned(Job, row[Job].contract, worker.epoch, contract, earned, result) =>
                  Earned(Job, row[Job].contract, worker.epoch, contract', earned', result)
    BY <1>1, EarnedStays
<1>3. worker.pc \in {"recover", "finish"} =>
          Earned(Job, row[Job].contract, worker.epoch, contract', earned', worker.result)
    BY <1>2 DEF JobInv, JobIsEarned
<1>4. worker.pc = "wait" =>
          Earned(Job, row[Job].contract, worker.epoch, contract', earned',
                 Interpret(run'[worker.child].status))
    <2> HAVE worker.pc = "wait"
    <2>1. run'[worker.child].status = run[worker.child].status
        OBVIOUS
    <2> QED
        BY <1>2, <2>1 DEF JobInv, JobIsEarned
<1> QED
    BY <1>1, <1>3, <1>4, JobFrame

(***************************************************************************)
(* The web process                                                         *)
(***************************************************************************)
LEMMA AdmissionSteps ==
    ASSUME PipelineInv, NEW s \in Subs, AdmitTag(s) \/ Admit(s) \/ TagAppears(s)
    PROVE  OwnInv'
<1>1. /\ worker' = worker /\ rebuild' = rebuild /\ earned' = earned
      /\ UNCHANGED store /\ UNCHANGED verification
    BY DEF AdmitTag, Admit, TagAppears
<1>2. /\ OwnTypeOK /\ RowsInv /\ AdmissionInv /\ VerdictIsEarned /\ JobInv /\ RebuildInv
      /\ VerificationInv
    BY DEF PipelineInv, OwnInv
<1>3. contract \in Contracts /\ contract \in Nat
    BY <1>2, ContractsAreNat DEF OwnTypeOK
<1>4. faults' \in 0 .. MaxFaults
    BY <1>2, PipelineAssumption DEF OwnTypeOK, AdmitTag, Admit, TagAppears, Fault
<1>5. ASSUME row' = row, admission' \in {admission, NoSub} \/ Admissible(admission'),
             admission' \in Subs \cup {NoSub},
             tag' \in [Subs -> {"none", "own", "foreign"}],
             \A x \in Subs : tag[x] = "own" => tag'[x] = "own"
      PROVE  OwnInv'
    <2>1. RowsInv' /\ AdmissionInv' /\ VerdictIsEarned'
        BY <1>1, <1>2, <1>5, RowsFrame
    <2>2. OwnTypeOK'
        BY <1>1, <1>2, <1>4, <1>5 DEF OwnTypeOK
    <2>3. JobIsSaved'
        BY <1>1, <1>2, SaverFrame DEF JobInv, store
    <2>4. JobInv'
        BY <1>1, <1>2, <1>3, <1>5, <2>3, JobKeeps, StillGrows DEF OwnTypeOK, verification, store
    <2> QED
        BY <1>1, <1>2, <2>1, <2>2, <2>4, RebuildFrame DEF OwnInv
<1>6. CASE AdmitTag(s)
    BY <1>2, <1>5, <1>6 DEF AdmitTag, OwnTypeOK
<1>7. CASE TagAppears(s)
    BY <1>2, <1>5, <1>7 DEF TagAppears, OwnTypeOK
<1>8. CASE Admit(s) /\ row' = row
    BY <1>2, <1>5, <1>8 DEF Admit, OwnTypeOK
<1>9. CASE Admit(s) /\ row' # row
    <2> DEFINE queued == [status |-> "pending", contract |-> contract, archive |-> NoArchive]
    <2>1. /\ row' = [row EXCEPT ![s] = queued] /\ tag[s] = "own"
          /\ admission = s /\ admission' = NoSub /\ tag' = tag
        BY <1>9 DEF Admit, Queued
    <2>2. queued \in Rows
        BY <1>3 DEF Rows
    <2>3. row \in [Subs -> Rows]
        BY <1>2 DEF OwnTypeOK
    <2>4. row'[s] = queued /\ \A x \in Subs \ {s} : row'[x] = row[x]
        BY <2>1, <2>3
    <2>5. row' \in [Subs -> Rows]
        BY <2>1, <2>2, <2>3
    <2>6. OwnTypeOK'
        BY <1>1, <1>2, <1>4, <2>1, <2>5 DEF OwnTypeOK
    <2>7. RowsInv'
        BY <1>2, <1>3, <1>9, <2>1, <2>4 DEF RowsInv
    <2>8. AdmissionInv'
        BY <2>1 DEF AdmissionInv
    <2>9. VerdictIsEarned'
        BY <1>1, <1>2, <2>4 DEF VerdictIsEarned
    <2>10. row[s].status \in {"none", "failed"}
        BY <1>2, <2>1, NoSubIs DEF AdmissionInv, Admissible
    <2>11. JobIsSaved'
        BY <1>1, <1>2, SaverFrame DEF JobInv, store
    <2>12. JobInv'
        <3>1. CASE Busy
            <4>1. Job \in Subs /\ row'[Job] = row[Job]
                BY <1>2, <2>4, <2>10, <3>1 DEF JobInv, JobHasRow
            <4> QED
                BY <1>1, <1>2, <1>3, <2>11, <4>1, JobKeeps, StillGrows
                DEF OwnTypeOK, verification, store
        <3>2. CASE ~Busy
            BY <1>1, <3>2
            DEF Busy, JobInv, JobHasRow, JobIsSaved, JobIsEarned, JobHasArchive,
                CandidateIsRetained
        <3> QED
            BY <3>1, <3>2
    <2> QED
        BY <1>1, <1>2, <2>6, <2>7, <2>8, <2>9, <2>12, RebuildFrame DEF OwnInv
<1> QED
    BY <1>6, <1>7, <1>8, <1>9

(***************************************************************************)
(* The steps that leave the worker, the rows and the tags alone            *)
(***************************************************************************)
LEMMA QuietStep ==
    ASSUME OwnInv, UNCHANGED <<row, tag, admission, worker>>, earned \subseteq earned',
           earned' \subseteq Subs \X Final \X Contracts, faults' \in 0 .. MaxFaults,
           rebuild' \in Recoveries, RebuildInv', JobInv'
    PROVE  OwnInv'
<1>1. RowsInv' /\ AdmissionInv' /\ VerdictIsEarned'
    BY RowsFrame DEF OwnInv
<1>2. OwnTypeOK'
    BY DEF OwnInv, OwnTypeOK
<1> QED
    BY <1>1, <1>2 DEF OwnInv

LEMMA SaverSteps ==
    ASSUME PipelineInv, NEW p \in Savers, SaverStep(p)
    PROVE  OwnInv'
<1>1. SaveStep(p) /\ UNCHANGED verification /\ UNCHANGED pipeline
    BY DEF SaverStep
<1>2. StoreInv /\ VerificationInv /\ OwnInv /\ OwnTypeOK /\ JobInv /\ RebuildInv
    BY DEF PipelineInv, OwnInv
<1>3. StoreGrows
    BY <1>1, <1>2, SavesGrow
<1>4. PICK pc \in PCs : saver' = [saver EXCEPT ![p].pc = pc]
    BY <1>1 DEF SaveStep, LinkObject, SyncObject, LinkSidecar, SyncSidecar, Goto, PCs
<1>5. saver[p].pc # "idle"
    BY <1>1 DEF SaveStep, LinkObject, SyncObject, LinkSidecar, SyncSidecar
<1>6. saver[p] \in Saves /\ saver \in [Savers -> Saves \cup {Idle}]
    BY <1>2, <1>5, CallType DEF StoreInv, StoreTypeOK
<1>7. JobIsSaved'
    <2>1. CASE p = Keeper
        <3>1. saver'[Keeper] = [saver[Keeper] EXCEPT !.pc = pc]
            BY <1>4, <1>6, <2>1
        <3>2. /\ saver'[Keeper].sub = saver[Keeper].sub
              /\ saver'[Keeper].archive = saver[Keeper].archive /\ saver'[Keeper].pc # "idle"
            BY <1>6, <2>1, <3>1 DEF Saves, PCs
        <3>3. worker' = worker
            BY <1>1 DEF pipeline
        <3> QED
            BY <1>2, <3>2, <3>3 DEF JobInv, JobIsSaved, Job, Idle
    <2>2. CASE p # Keeper
        BY <1>1, <1>2, <1>4, <1>6, <2>2, SaverFrame, SaversAre DEF JobInv, pipeline
    <2> QED
        BY <2>1, <2>2
<1>8. contract \in Nat
    BY <1>2, ContractsAreNat DEF OwnTypeOK
<1>9. JobInv'
    BY <1>1, <1>2, <1>3, <1>7, <1>8, JobKeeps DEF OwnTypeOK, pipeline, verification
<1> QED
    BY <1>1, <1>2, <1>9, QuietStep, RebuildFrame DEF OwnTypeOK, pipeline

LEMMA DamageSteps ==
    ASSUME PipelineInv, DamageObject
    PROVE  OwnInv'
<1>1. /\ UNCHANGED <<objects, sidecars, saver>> /\ UNCHANGED verification
      /\ UNCHANGED <<row, tag, admission, rebuild, earned, worker>>
    BY DEF DamageObject, Damage, Elsewhere
<1>2. VerificationInv /\ OwnInv /\ OwnTypeOK /\ JobInv /\ RebuildInv
    BY DEF PipelineInv, OwnInv
<1>3. faults' \in 0 .. MaxFaults
    BY <1>2, PipelineAssumption DEF OwnTypeOK, DamageObject, Fault
<1>4. contract \in Nat
    BY <1>2, ContractsAreNat DEF OwnTypeOK
<1>5. JobInv'
    BY <1>1, <1>2, <1>4, JobKeeps, StillGrows, SaverFrame DEF OwnTypeOK, JobInv, verification
<1> QED
    BY <1>1, <1>2, <1>3, <1>5, QuietStep, RebuildFrame DEF OwnTypeOK

LEMMA DeploySteps ==
    ASSUME PipelineInv, DeployContract
    PROVE  OwnInv'
<1>1. /\ UNCHANGED store /\ UNCHANGED pipeline /\ run' = run
      /\ contract' = contract + 1
    BY DEF DeployContract, Deploy
<1>2. VerificationInv /\ OwnInv /\ OwnTypeOK /\ JobInv /\ RebuildInv
    BY DEF PipelineInv, OwnInv
<1>3. contract \in Nat /\ contract' \in Nat /\ contract <= contract'
    BY <1>1, <1>2, ContractsAreNat DEF OwnTypeOK
<1>4. JobIsSaved'
    BY <1>1, <1>2, SaverFrame DEF JobInv, store, pipeline
<1>5. JobInv'
    BY <1>1, <1>2, <1>3, <1>4, JobKeeps, StillGrows DEF OwnTypeOK, store, pipeline
<1> QED
    BY <1>1, <1>2, <1>5, QuietStep, RebuildFrame DEF OwnTypeOK, pipeline

(***************************************************************************)
(* The processes that verify                                               *)
(***************************************************************************)

(* A status that is there stays: nothing is judged twice.                  *)
LEMMA StatusIsSetOnce ==
    ASSUME VerificationInv, NEW v \in Runs, RunStep(v) \/ ServiceEnds(v)
    PROVE  /\ contract' = contract
           /\ \A w \in Runs : w # v => run'[w] = run[w]
           /\ run[v].status # "none" => run'[v].status = run[v].status
<1>1. contract' = contract
    BY DEF RunStep, ServiceEnds, TakeSlot, Advance, StageFails, PhaseEnds, Cleanup,
           CleanupUncertain, Integrity, Publish
<1>2. run \in [Runs -> RunRecords]
    BY DEF VerificationInv, VerificationTypeOK
<1>3. run' = run \/ \E r : run' = [run EXCEPT ![v] = r]
    BY DEF RunStep, ServiceEnds, TakeSlot, Advance, StageFails, PhaseEnds, Cleanup,
           CleanupUncertain, Integrity, Publish, Report, SetRun
<1>4. \A w \in Runs : w # v => run'[w] = run[w]
    BY <1>2, <1>3
<1>5. ASSUME run[v].status # "none"
      PROVE  run'[v].status = run[v].status
    <2>1. run[v].stage \in {"publish", "refused", "receipt"}
        BY <1>5 DEF VerificationInv, StatusIsLast
    <2>2. Publish(v) \/ ServiceEnds(v)
        BY <2>1
        DEF RunStep, TakeSlot, Advance, StageFails, PhaseEnds, Cleanup, CleanupUncertain,
            Integrity, NextStage, Candidate
    <2>3. CASE Publish(v)
        <3>1. run'[v] = [NotRun EXCEPT !.stage = "receipt", !.status = run[v].status]
            BY <1>2, <2>3 DEF Publish, SetRun
        <3> QED
            BY <3>1 DEF NotRun
    <2> QED
        BY <2>2, <2>3 DEF ServiceEnds
<1> QED
    BY <1>1, <1>4, <1>5

LEMMA InterpretMeans ==
    /\ Interpret("verification_failed") = "rejected" /\ Interpret("source_rejected") = "rejected"
    /\ Interpret("accepted") = "verified"
    /\ \A x : x \notin Verdicts \cup {"source_rejected"} =>
                 Interpret(x) \notin {"verified", "rejected"}
    /\ \A x : Interpret(x) \in Final \cup {"failed"}
BY DEF Interpret, Verdicts, Final

(* A verdict of the worker's own child goes into the history with it.      *)
LEMMA VerifierSteps ==
    ASSUME PipelineInv, NEW v \in Runs, VerifierStep(v)
    PROVE  OwnInv'
<1>1. /\ UNCHANGED store /\ UNCHANGED <<row, tag, admission, worker, rebuild, faults>>
      /\ RunStep(v) \/ ServiceEnds(v)
      /\ earned' = earned \cup
          {<<Job, Interpret(status), contract>> :
             status \in {r \in Verdicts \cup {"source_rejected"} : Judgement(v, r)}}
    BY DEF VerifierStep
<1>2. VerificationInv /\ OwnInv /\ OwnTypeOK /\ JobInv /\ RebuildInv
    BY DEF PipelineInv, OwnInv
<1>3. /\ contract' = contract /\ \A w \in Runs : w # v => run'[w] = run[w]
      /\ run[v].status # "none" => run'[v].status = run[v].status
    BY <1>1, <1>2, StatusIsSetOnce
<1>4. contract \in Nat /\ contract \in Contracts /\ worker.epoch \in Nat
    BY <1>2, ContractsAreNat DEF OwnTypeOK
<1>5. earned \subseteq earned'
    BY <1>1
<1>6. earned' \subseteq Subs \X Final \X Contracts
    <2>1. ASSUME NEW status \in Verdicts \cup {"source_rejected"}, Judgement(v, status)
          PROVE  <<Job, Interpret(status), contract>> \in Subs \X Final \X Contracts
        <3>1. Job \in Subs
            BY <1>2, <2>1 DEF Judgement, JobInv, JobHasRow, Busy
        <3>2. Interpret(status) \in Final
            BY InterpretMeans DEF Verdicts, Final
        <3> QED
            BY <1>4, <3>1, <3>2
    <2> QED
        BY <1>1, <1>2, <2>1 DEF OwnTypeOK
<1>7. JobIsSaved'
    BY <1>1, <1>2, SaverFrame DEF JobInv, store
<1>8. CASE worker.pc = "wait" /\ worker.child = v /\ run[v].status = "none"
    <2> DEFINE status == run'[v].status
    <2>1. Job \in Subs /\ worker.epoch = row[Job].contract /\ worker.epoch <= contract
        BY <1>2, <1>8 DEF JobInv, JobHasRow, Busy
    <2>2. Earned(Job, row[Job].contract, worker.epoch, contract, earned', Interpret(status))
        <3>1. CASE status \in Verdicts \cup {"source_rejected"}
            <4>1. Judgement(v, status)
                BY <1>8 DEF Judgement
            <4>2. <<Job, Interpret(status), contract>> \in earned'
                BY <1>1, <3>1, <4>1
            <4> QED
                BY <1>4, <2>1, <4>2 DEF Earned
        <3>2. CASE status \notin Verdicts \cup {"source_rejected"}
            BY <3>2, InterpretMeans, FailedIsEarned
        <3> QED
            BY <3>1, <3>2
    <2>3. worker.pc \notin {"recover", "finish"}
        BY <1>8
    <2>4. JobInv'
        BY <1>1, <1>2, <1>3, <1>4, <1>7, <1>8, <2>2, <2>3, JobFrame, StillGrows DEF store
    <2> QED
        BY <1>1, <1>2, <1>5, <1>6, <2>4, QuietStep, RebuildFrame DEF OwnTypeOK
<1>9. CASE ~(worker.pc = "wait" /\ worker.child = v /\ run[v].status = "none")
    <2>1. worker.pc = "wait" => run'[worker.child].status = run[worker.child].status
        <3> HAVE worker.pc = "wait"
        <3>1. worker.child \in Runs
            BY <1>2 DEF JobInv, JobIsEarned
        <3> QED
            BY <1>3, <1>9, <3>1
    <2>2. JobInv'
        BY <1>1, <1>2, <1>3, <1>4, <1>5, <1>7, <2>1, JobKeeps, StillGrows DEF OwnTypeOK, store
    <2> QED
        BY <1>1, <1>2, <1>5, <1>6, <2>2, QuietStep, RebuildFrame DEF OwnTypeOK
<1> QED
    BY <1>8, <1>9

(* The worker stays in its step, and its child, if it has one, was not     *)
(* judged: what a signal or a death leaves of a process.                   *)
LEMMA DeathSteps ==
    ASSUME PipelineInv, NEW v \in Runs, VerifierDies(v)
    PROVE  OwnInv'
<1>1. /\ UNCHANGED store /\ UNCHANGED <<row, tag, admission, worker, rebuild, earned>>
      /\ Die(v)
    BY DEF VerifierDies, Elsewhere
<1>2. VerificationInv /\ OwnInv /\ OwnTypeOK /\ JobInv /\ RebuildInv
    BY DEF PipelineInv, OwnInv
<1>3. run \in [Runs -> RunRecords]
    BY <1>2 DEF VerificationInv, VerificationTypeOK
<1>4. contract' = contract /\ run'[v] = Dead /\ \A w \in Runs : w # v => run'[w] = run[w]
    BY <1>1, <1>3 DEF Die, SetRun
<1>5. contract \in Nat /\ worker.epoch \in Nat
    BY <1>2, ContractsAreNat DEF OwnTypeOK
<1>6. faults' \in 0 .. MaxFaults
    BY <1>2, PipelineAssumption DEF OwnTypeOK, VerifierDies, Fault
<1>7. JobIsSaved'
    BY <1>1, <1>2, SaverFrame DEF JobInv, store
<1>8. worker.pc = "wait" =>
          Earned(Job, row[Job].contract, worker.epoch, contract', earned',
                 Interpret(run'[worker.child].status))
    <2> HAVE worker.pc = "wait"
    <2>1. CASE worker.child = v
        <3>1. Interpret(run'[v].status) \notin {"verified", "rejected"}
            BY <1>4, NotRunType, InterpretMeans DEF Verdicts
        <3> QED
            BY <2>1, <3>1, FailedIsEarned
    <2>2. CASE worker.child # v
        BY <1>1, <1>2, <1>4, <2>2 DEF JobInv, JobIsEarned
    <2> QED
        BY <2>1, <2>2
<1>9. JobInv'
    BY <1>1, <1>2, <1>4, <1>5, <1>7, <1>8, JobFrame, StillGrows DEF store, JobInv, JobIsEarned
<1> QED
    BY <1>1, <1>2, <1>6, <1>9, QuietStep, RebuildFrame DEF OwnTypeOK

(***************************************************************************)
(* app.rebuild --sources                                                   *)
(***************************************************************************)

(* What a step of app.rebuild does to its own state.                       *)
LEMMA RebuildMoves ==
    ASSUME OwnTypeOK, RowsInv, RebuildInv, RebuildStep
    PROVE  rebuild' \in Recoveries /\ RebuildInv'
<1>1. rebuild \in Recoveries
    BY DEF OwnTypeOK
<1>2. ASSUME NEW s \in Subs, RebuildRead(s)
      PROVE  rebuild' \in Recoveries /\ RebuildInv'
    <2>1. rebuild' = [NoRecovery EXCEPT !.pc = "check", !.sub = s,
                         !.contract = row[s].contract, !.archive = row[s].archive]
        BY <1>2 DEF RebuildRead
    <2>2. row[s] \in Rows /\ row[s].status # "none"
        BY <1>2 DEF RebuildRead, Final, OwnTypeOK
    <2>3. /\ row[s].contract \in Contracts
          /\ row[s].archive \in {NoArchive, ArchiveOf(s, row[s].contract)}
        BY <2>2 DEF RowsInv
    <2>4. row[s].archive \in Archives \cup {NoArchive}
        BY <2>2, RowType
    <2>5. rebuild' \in Recoveries
        BY <2>1, <2>3, <2>4, NoRecoveryType DEF Recoveries, NoRecovery
    <2>6. /\ rebuild'.pc = "check" /\ rebuild'.sub = s
          /\ rebuild'.contract = row[s].contract /\ rebuild'.archive = row[s].archive
        BY <2>1 DEF NoRecovery
    <2> QED
        BY <2>3, <2>5, <2>6 DEF RebuildInv
<1>3. ASSUME rebuild.pc # "idle"
      PROVE  /\ rebuild.sub \in Subs /\ rebuild.contract \in Contracts
             /\ Expected = ArchiveOf(rebuild.sub, rebuild.contract)
             /\ Expected \in Archives
    <2>1. /\ rebuild.sub \in Subs /\ rebuild.contract \in Contracts
          /\ rebuild.archive \in {NoArchive, ArchiveOf(rebuild.sub, rebuild.contract)}
        BY <1>3 DEF RebuildInv
    <2>2. Expected = ArchiveOf(rebuild.sub, rebuild.contract)
        BY <2>1 DEF Expected
    <2> QED
        BY <2>1, <2>2, ArchiveOfType
<1>4. ASSUME rebuild' = NoRecovery
      PROVE  rebuild' \in Recoveries /\ RebuildInv'
    BY <1>4, NoRecoveryType DEF RebuildInv
<1>5. ASSUME rebuild.pc # "idle",
             \/ rebuild' = [rebuild EXCEPT !.pc = "export"]
             \/ rebuild' = [rebuild EXCEPT !.pc = "save"]
      PROVE  rebuild' \in Recoveries /\ RebuildInv'
    <2>1. /\ rebuild' \in Recoveries /\ rebuild'.pc \in {"export", "save"}
          /\ rebuild'.sub = rebuild.sub /\ rebuild'.contract = rebuild.contract
          /\ rebuild'.archive = rebuild.archive
        BY <1>1, <1>5 DEF Recoveries
    <2> QED
        BY <1>5, <2>1 DEF RebuildInv
<1>6. ASSUME rebuild.pc # "idle",
             rebuild' = [rebuild EXCEPT !.pc = "attach", !.found = Expected]
      PROVE  rebuild' \in Recoveries /\ RebuildInv'
    <2>1. /\ rebuild' \in Recoveries /\ rebuild'.found = Expected
          /\ rebuild'.sub = rebuild.sub /\ rebuild'.contract = rebuild.contract
          /\ rebuild'.archive = rebuild.archive
        BY <1>1, <1>3, <1>6 DEF Recoveries
    <2> QED
        BY <1>3, <1>6, <2>1 DEF RebuildInv
<1>7. CASE RebuildCheck
    BY <1>5, <1>6, <1>7 DEF RebuildCheck
<1>8. CASE RebuildExport
    BY <1>5, <1>8 DEF RebuildExport
<1>9. CASE RebuildSaved
    BY <1>6, <1>9 DEF RebuildSaved
<1>10. CASE RebuildAttach \/ RebuildRaises
    BY <1>4, <1>10 DEF RebuildAttach, RebuildRaises
<1> QED
    BY <1>2, <1>7, <1>8, <1>9, <1>10 DEF RebuildStep

LEMMA RebuildSteps ==
    ASSUME PipelineInv, RebuildStep
    PROVE  OwnInv'
<1>1. UNCHANGED <<verification, tag, admission, worker, earned, faults>>
    BY DEF RebuildStep, RebuildCheck, RebuildExport, RebuildSaved, RebuildAttach, RebuildRaises,
           RebuildRead, WorkerSide
<1>2. /\ StoreInv /\ VerificationInv /\ OwnInv /\ OwnTypeOK /\ RowsInv /\ AdmissionInv
      /\ VerdictIsEarned /\ JobInv /\ RebuildInv
    BY DEF PipelineInv, OwnInv
<1>3. rebuild' \in Recoveries /\ RebuildInv'
    BY <1>2, RebuildMoves
<1>4. contract \in Nat
    BY <1>2, ContractsAreNat DEF OwnTypeOK
<1>5. StoreGrows /\ saver'[Keeper] = saver[Keeper]
    <2>1. saver \in [Savers -> Saves \cup {Idle}]
        BY <1>2 DEF StoreInv, StoreTypeOK
    <2>2. CASE Leave(Rebuilder)
        BY <1>2, <2>1, <2>2, SavesGrow, SaversAre DEF Leave
    <2>3. CASE RebuildExport
        <3>1. SaveBegin(Rebuilder, rebuild.sub, Expected)
            BY <2>3 DEF RebuildExport
        <3> QED
            BY <2>1, <3>1, SaversAre, StillGrows DEF SaveBegin
    <2>4. CASE UNCHANGED store
        BY <2>4, StillGrows DEF store
    <2> QED
        BY <2>2, <2>3, <2>4
        DEF RebuildStep, RebuildCheck, RebuildSaved, RebuildAttach, RebuildRaises, RebuildRead
<1>6. JobIsSaved'
    BY <1>1, <1>2, <1>5, SaverFrame DEF JobInv
<1>7. CASE row' = row
    <2>1. JobInv'
        BY <1>1, <1>2, <1>4, <1>5, <1>6, <1>7, JobKeeps DEF OwnTypeOK, verification
    <2> QED
        BY <1>1, <1>2, <1>3, <1>7, <2>1, QuietStep DEF OwnTypeOK
<1>8. CASE RebuildAttach
    <2> DEFINE s == rebuild.sub
    <2>1. /\ rebuild.pc = "attach" /\ row[s].contract = rebuild.contract
          /\ row' = [row EXCEPT ![s].archive = rebuild.found]
        BY <1>8 DEF RebuildAttach
    <2>2. /\ s \in Subs /\ rebuild.contract \in Contracts
          /\ rebuild.found = ArchiveOf(s, row[s].contract)
        BY <1>2, <2>1 DEF RebuildInv
    <2>3. rebuild.found \in Archives /\ rebuild.found # NoArchive
        BY <2>1, <2>2, ArchiveOfType
    <2> HIDE DEF s
    <2>4. row \in [Subs -> Rows]
        BY <1>2 DEF OwnTypeOK
    <2>5. row' \in [Subs -> Rows]
        BY <2>1, <2>2, <2>3, <2>4 DEF Rows
    <2>6. /\ \A x \in Subs \ {s} : row'[x] = row[x]
          /\ \A x \in Subs : row'[x].status = row[x].status /\ row'[x].contract = row[x].contract
          /\ row'[s].archive = rebuild.found
        BY <2>1, <2>2, <2>4 DEF Rows
    <2>7. OwnTypeOK'
        BY <1>1, <1>2, <1>3, <2>5 DEF OwnTypeOK
    <2>8. RowsInv'
        BY <1>1, <1>2, <2>2, <2>6 DEF RowsInv
    <2>9. AdmissionInv'
        BY <1>1, <1>2, <2>6, NoSubIs DEF AdmissionInv, Admissible, OwnTypeOK
    <2>10. VerdictIsEarned'
        BY <1>1, <1>2, <2>3, <2>6 DEF VerdictIsEarned
    <2>11. JobInv'
        BY <1>1, <1>2, <1>4, <1>5, <1>6, <2>6, JobKeeps DEF OwnTypeOK, verification
    <2> QED
        BY <1>3, <2>7, <2>8, <2>9, <2>10, <2>11 DEF OwnInv
<1> QED
    BY <1>7, <1>8
    DEF RebuildStep, RebuildCheck, RebuildExport, RebuildSaved, RebuildRaises, RebuildRead

(***************************************************************************)
(* The worker                                                              *)
(***************************************************************************)
LEMMA WorkerMoves ==
    ASSUME OwnInv, UNCHANGED <<row, tag, admission, rebuild>>, earned \subseteq earned',
           earned' \subseteq Subs \X Final \X Contracts, faults' \in 0 .. MaxFaults,
           worker' \in Jobs, JobInv'
    PROVE  OwnInv'
<1>1. RowsInv' /\ AdmissionInv' /\ VerdictIsEarned'
    BY RowsFrame DEF OwnInv
<1>2. OwnTypeOK'
    BY DEF OwnInv, OwnTypeOK
<1> QED
    BY <1>1, <1>2, RebuildFrame DEF OwnInv

LEMMA NoJobNoClaim ==
    ASSUME worker'.pc \in {"down", "idle"}
    PROVE  JobInv'
BY DEF JobInv, JobHasRow, JobIsSaved, JobIsEarned, JobHasArchive, CandidateIsRetained, Busy

(* verify.py ends with a result that is earned.                            *)
LEMMA EndsSteps ==
    ASSUME PipelineInv, Running, NEW result \in Final \cup {"failed"}, Ends(result),
           UNCHANGED <<row, tag, admission, rebuild, contract>>, earned \subseteq earned',
           earned' \subseteq Subs \X Final \X Contracts, faults' \in 0 .. MaxFaults,
           Earned(Job, row[Job].contract, worker.epoch, contract, earned', result)
    PROVE  OwnInv'
<1>1. OwnInv /\ OwnTypeOK /\ JobInv
    BY DEF PipelineInv, OwnInv
<1>2. worker' = [worker EXCEPT !.pc = "recover", !.result = result] /\ worker \in Jobs
    BY <1>1 DEF Ends, OwnTypeOK
<1>3. /\ worker' \in Jobs /\ worker'.pc = "recover" /\ worker'.result = result
      /\ worker'.sub = worker.sub /\ worker'.epoch = worker.epoch
    BY <1>2 DEF Jobs
<1>4. /\ Job \in Subs /\ row[Job].status = "verifying"
      /\ worker.epoch = row[Job].contract /\ worker.epoch <= contract
    BY <1>1 DEF JobInv, JobHasRow, Busy, Running
<1>5. JobHasRow'
    BY <1>3, <1>4 DEF JobHasRow, Job
<1>6. JobIsEarned'
    BY <1>3 DEF JobIsEarned, Job
<1>7. JobIsSaved' /\ JobHasArchive' /\ CandidateIsRetained'
    BY <1>3 DEF JobIsSaved, JobHasArchive, CandidateIsRetained
<1> QED
    BY <1>1, <1>3, <1>5, <1>6, <1>7, WorkerMoves DEF JobInv

(* Candidate code may start: the archive of the head is in the store.      *)
LEMMA LaunchSteps ==
    ASSUME PipelineInv, worker.pc \in {"retain", "save"}, Launch, UNCHANGED <<objects, sidecars>>,
           sidecars[Job] = ArchiveOf(Job, worker.key), sidecars[Job] \in objects
    PROVE  OwnInv'
<1>1. OwnInv /\ OwnTypeOK /\ JobInv /\ VerificationInv
    BY DEF PipelineInv, OwnInv
<1>2. /\ Fresh \in Runs /\ Spawn(Fresh)
      /\ worker' = [worker EXCEPT !.pc = "wait", !.child = Fresh]
      /\ UNCHANGED <<row, tag, admission, rebuild, earned, faults>>
    BY LaunchSpawns
<1>3. worker \in Jobs
    BY <1>1 DEF OwnTypeOK
<1>4. /\ worker' \in Jobs /\ worker'.pc = "wait" /\ worker'.child = Fresh
      /\ worker'.sub = worker.sub /\ worker'.epoch = worker.epoch /\ worker'.key = worker.key
    BY <1>2, <1>3 DEF Jobs
<1>5. contract' = contract /\ Interpret(run'[Fresh].status) \notin {"verified", "rejected"}
    <2>1. run \in [Runs -> RunRecords]
        BY <1>1 DEF VerificationInv, VerificationTypeOK
    <2>2. run'[Fresh] = [NotRun EXCEPT !.stage = "admission"] /\ contract' = contract
        BY <1>2, <2>1 DEF Spawn, SetRun
    <2>3. run'[Fresh].status = "none"
        BY <2>2 DEF NotRun
    <2> QED
        BY <2>2, <2>3, InterpretMeans DEF Verdicts
<1>6. /\ Job \in Subs /\ row[Job].status = "verifying" /\ worker.key \in Contracts
      /\ worker.epoch = row[Job].contract /\ worker.epoch <= contract
    BY <1>1 DEF JobInv, JobHasRow, Busy
<1>7. JobHasRow'
    BY <1>2, <1>4, <1>5, <1>6 DEF JobHasRow, Job
<1>8. JobIsEarned'
    BY <1>2, <1>4, <1>5, FailedIsEarned DEF JobIsEarned, Job
<1>9. CandidateIsRetained'
    BY <1>4 DEF CandidateIsRetained, Job
<1>10. JobIsSaved' /\ JobHasArchive'
    BY <1>4 DEF JobIsSaved, JobHasArchive
<1> QED
    BY <1>1, <1>2, <1>4, <1>7, <1>8, <1>9, <1>10, WorkerMoves DEF JobInv, OwnTypeOK

LEMMA StartSteps ==
    ASSUME PipelineInv, WorkerStart
    PROVE  OwnInv'
<1>1. /\ worker.pc = "down" /\ worker' = NoJob
      /\ row' = [s \in Subs |-> IF row[s].status = "verifying"
                                THEN [row[s] EXCEPT !.status = "pending"] ELSE row[s]]
      /\ UNCHANGED <<tag, admission, rebuild, earned, faults>>
    BY DEF WorkerStart, Elsewhere
<1>2. OwnTypeOK /\ RowsInv /\ AdmissionInv /\ VerdictIsEarned /\ RebuildInv
    BY DEF PipelineInv, OwnInv
<1>3. ASSUME NEW s \in Subs
      PROVE  /\ row'[s] \in Rows
             /\ row'[s].contract = row[s].contract /\ row'[s].archive = row[s].archive
             /\ row[s].status # "verifying" => row'[s] = row[s]
             /\ row[s].status = "verifying" => row'[s].status = "pending"
    <2>1. row[s] \in Rows
        BY <1>2 DEF OwnTypeOK
    <2> QED
        BY <1>1, <2>1 DEF Rows
<1>4. row' \in [Subs -> Rows]
    BY <1>1, <1>3
<1>5. OwnTypeOK'
    BY <1>1, <1>2, <1>4, NoJobType DEF OwnTypeOK
<1>6. RowsInv'
    BY <1>1, <1>2, <1>3 DEF RowsInv
<1>7. AdmissionInv'
    BY <1>1, <1>2, <1>3 DEF AdmissionInv, Admissible, OwnTypeOK
<1>8. VerdictIsEarned'
    BY <1>1, <1>2, <1>3 DEF VerdictIsEarned
<1> QED
    BY <1>1, <1>2, <1>5, <1>6, <1>7, <1>8, RebuildFrame, NoJobNoClaim, NoJobType DEF OwnInv

LEMMA BeginSteps ==
    ASSUME PipelineInv, NEW s \in Subs, WorkerBegin(s)
    PROVE  OwnInv'
<1> DEFINE job == [NoJob EXCEPT !.sub = s, !.epoch = contract, !.known = row[s].archive]
<1>1. /\ row[s].status = "pending" /\ row' = [row EXCEPT ![s].status = "verifying"]
      /\ worker' = IF row[s].contract = contract
                   THEN [job EXCEPT !.pc = "pin"]
                   ELSE [job EXCEPT !.pc = "finish", !.result = "failed"]
      /\ UNCHANGED <<verification, tag, admission, rebuild, earned, faults>>
    BY DEF WorkerBegin, Elsewhere
<1>2. /\ VerificationInv /\ OwnTypeOK /\ RowsInv /\ AdmissionInv /\ VerdictIsEarned
      /\ RebuildInv
    BY DEF PipelineInv, OwnInv
<1>3. contract \in Nat /\ contract \in Contracts /\ contract' = contract
    BY <1>1, <1>2, ContractsAreNat DEF OwnTypeOK, verification
<1>4. row \in [Subs -> Rows] /\ row[s].archive \in Archives \cup {NoArchive}
    BY <1>2, RowType DEF OwnTypeOK
<1>5. /\ row' \in [Subs -> Rows] /\ row'[s].status = "verifying"
      /\ \A x \in Subs : row'[x].contract = row[x].contract /\ row'[x].archive = row[x].archive
      /\ \A x \in Subs \ {s} : row'[x] = row[x]
    BY <1>1, <1>4 DEF Rows
<1>6. /\ job \in Jobs /\ job.sub = s /\ job.epoch = contract /\ job.archive = NoArchive
    <2>1. job.sub = s /\ job.epoch = contract /\ job.archive = NoArchive
        BY DEF NoJob
    <2>2. job \in Jobs
        BY <1>3, <1>4, NoJobType DEF Jobs
    <2> QED
        BY <2>1, <2>2
<1> HIDE DEF job
<1>7. ASSUME row[s].contract = contract
      PROVE  JobInv' /\ worker' \in Jobs
    <2>1. /\ worker' \in Jobs /\ worker'.pc = "pin" /\ worker'.sub = s
          /\ worker'.epoch = contract
        BY <1>1, <1>6, <1>7 DEF Jobs
    <2>2. JobHasRow'
        BY <1>3, <1>5, <1>7, <2>1 DEF JobHasRow, Job
    <2> QED
        BY <2>1, <2>2
        DEF JobInv, JobIsSaved, JobIsEarned, JobHasArchive, CandidateIsRetained
<1>8. ASSUME row[s].contract # contract
      PROVE  JobInv' /\ worker' \in Jobs
    <2>1. /\ worker' \in Jobs /\ worker'.pc = "finish" /\ worker'.sub = s
          /\ worker'.result = "failed" /\ worker'.archive = NoArchive
        BY <1>1, <1>6, <1>8 DEF Jobs
    <2>2. JobHasRow'
        BY <1>5, <2>1 DEF JobHasRow, Job
    <2>3. JobIsEarned'
        BY <2>1, FailedIsEarned DEF JobIsEarned
    <2> QED
        BY <2>1, <2>2, <2>3 DEF JobInv, JobIsSaved, JobHasArchive, CandidateIsRetained
<1>9. JobInv' /\ worker' \in Jobs
    BY <1>7, <1>8
<1>10. OwnTypeOK'
    BY <1>1, <1>2, <1>5, <1>9 DEF OwnTypeOK
<1>11. RowsInv'
    BY <1>1, <1>2, <1>5 DEF RowsInv
<1>12. AdmissionInv'
    BY <1>1, <1>2, <1>5 DEF AdmissionInv, Admissible, OwnTypeOK
<1>13. VerdictIsEarned'
    BY <1>1, <1>2, <1>5 DEF VerdictIsEarned
<1> QED
    BY <1>1, <1>2, <1>9, <1>10, <1>11, <1>12, <1>13, RebuildFrame DEF OwnInv

(* verify.py fails: no verdict, and nothing is added to the history.       *)
LEMMA FailedSteps ==
    ASSUME PipelineInv, Running, NEW result \in {"failed", "timeout"}, Ends(result),
           UNCHANGED <<row, tag, admission, rebuild, earned, contract>>, faults' \in 0 .. MaxFaults
    PROVE  OwnInv'
<1>1. result \in Final \cup {"failed"} /\ result \notin {"verified", "rejected"}
    BY DEF Final
<1>2. Earned(Job, row[Job].contract, worker.epoch, contract, earned', result)
    BY <1>1, FailedIsEarned
<1>3. earned' \subseteq Subs \X Final \X Contracts /\ earned \subseteq earned'
    BY DEF PipelineInv, OwnInv, OwnTypeOK
<1> QED
    BY <1>1, <1>2, <1>3, EndsSteps

LEMMA SameFaults ==
    ASSUME PipelineInv, faults' = faults \/ Fault
    PROVE  faults' \in 0 .. MaxFaults
BY PipelineAssumption DEF PipelineInv, OwnInv, OwnTypeOK, Fault

LEMMA PinSteps ==
    ASSUME PipelineInv, Pin
    PROVE  OwnInv'
<1>1. /\ worker.pc = "pin" /\ UNCHANGED <<row, tag, admission, rebuild, earned, faults>>
      /\ contract' = contract
    BY DEF Pin, Elsewhere, verification
<1>2. CASE Ends("failed")
    BY <1>1, <1>2, FailedSteps, SameFaults DEF Running
<1>3. CASE worker' = [worker EXCEPT !.pc = "retain", !.key = contract]
    <2>1. VerificationInv /\ OwnInv /\ OwnTypeOK /\ JobInv
        BY DEF PipelineInv, OwnInv
    <2>2. contract \in Contracts /\ worker \in Jobs
        BY <2>1, ContractsAreNat DEF OwnTypeOK
    <2>3. /\ worker' \in Jobs /\ worker'.pc = "retain" /\ worker'.key \in Contracts
          /\ worker'.sub = worker.sub /\ worker'.epoch = worker.epoch
        BY <1>3, <2>2 DEF Jobs
    <2>4. JobHasRow'
        BY <1>1, <2>1, <2>3 DEF JobInv, JobHasRow, Busy, Job
    <2>5. JobInv'
        BY <2>3, <2>4 DEF JobInv, JobIsSaved, JobIsEarned, JobHasArchive, CandidateIsRetained
    <2> QED
        BY <1>1, <2>1, <2>3, <2>5, WorkerMoves DEF OwnTypeOK
<1> QED
    BY <1>2, <1>3 DEF Pin

LEMMA RestoreSteps ==
    ASSUME PipelineInv, RestoreRetained
    PROVE  OwnInv'
<1>1. CASE Restorable(Job, worker.key)
    BY <1>1, LaunchSteps DEF RestoreRetained, Restorable, Intact, store
<1>2. CASE ~Restorable(Job, worker.key)
    BY <1>2, FailedSteps, SameFaults DEF RestoreRetained, Elsewhere, Running, verification
<1> QED
    BY <1>1, <1>2

LEMMA ExportSteps ==
    ASSUME PipelineInv, ExportRoot
    PROVE  OwnInv'
<1>1. /\ worker.pc = "retain" /\ UNCHANGED <<row, tag, admission, rebuild, faults>>
      /\ contract' = contract
    BY DEF ExportRoot, verification
<1>2. /\ StoreInv /\ VerificationInv /\ OwnInv /\ OwnTypeOK /\ JobInv
    BY DEF PipelineInv, OwnInv
<1>3. /\ Job \in Subs /\ worker.key \in Contracts
      /\ row[Job].status = "verifying" /\ worker.epoch = row[Job].contract
      /\ worker.epoch <= contract /\ contract \in Contracts /\ worker \in Jobs
    BY <1>1, <1>2, ContractsAreNat DEF JobInv, JobHasRow, Busy, OwnTypeOK
<1>4. CASE /\ SaveBegin(Keeper, Job, ArchiveOf(Job, worker.key))
           /\ worker' = [worker EXCEPT !.pc = "save"] /\ earned' = earned
    <2>1. /\ worker' \in Jobs /\ worker'.pc = "save" /\ worker'.key = worker.key
          /\ worker'.sub = worker.sub /\ worker'.epoch = worker.epoch
        BY <1>3, <1>4 DEF Jobs
    <2>2. JobHasRow'
        BY <1>1, <1>3, <2>1 DEF JobHasRow, Job
    <2>3. saver'[Keeper] = [pc |-> "object", sub |-> Job, archive |-> ArchiveOf(Job, worker.key)]
        BY <1>2, <1>4, SaversAre DEF SaveBegin, StoreInv, StoreTypeOK
    <2>4. saver'[Keeper] # Idle
        <3>1. saver'[Keeper].pc # Idle.pc
            BY <2>3 DEF Idle
        <3> QED
            BY <3>1
    <2>5. JobIsSaved'
        BY <2>1, <2>3, <2>4 DEF JobIsSaved, Job, ArchiveOf
    <2>6. JobInv'
        BY <2>1, <2>2, <2>5 DEF JobInv, JobIsEarned, JobHasArchive, CandidateIsRetained
    <2> QED
        BY <1>1, <1>2, <1>4, <2>1, <2>6, WorkerMoves DEF OwnTypeOK
<1>5. CASE Ends("failed") /\ earned' = earned
    BY <1>1, <1>5, FailedSteps, SameFaults DEF Running
<1>6. CASE Ends("rejected") /\ earned' = earned \cup {<<Job, "rejected", contract>>}
    <2>1. "rejected" \in Final
        BY DEF Final
    <2>2. earned \subseteq earned' /\ earned' \subseteq Subs \X Final \X Contracts
        BY <1>2, <1>3, <1>6, <2>1 DEF OwnTypeOK
    <2>3. Earned(Job, row[Job].contract, worker.epoch, contract, earned', "rejected")
        BY <1>3, <1>6 DEF Earned
    <2> QED
        BY <1>1, <1>6, <2>1, <2>2, <2>3, EndsSteps, SameFaults DEF Running
<1> QED
    BY <1>4, <1>5, <1>6 DEF ExportRoot

LEMMA SavedSteps ==
    ASSUME PipelineInv, Saved
    PROVE  OwnInv'
<1>1. /\ worker.pc = "save" /\ saver[Keeper].pc = "saved" /\ Launch
      /\ UNCHANGED <<objects, sidecars>>
    BY DEF Saved, Leave
<1>2. StoreInv /\ JobInv
    BY DEF PipelineInv, OwnInv
<1>3. /\ saver[Keeper].sub = Job /\ saver[Keeper].archive = ArchiveOf(Job, worker.key)
      /\ Job \in Subs /\ worker.key \in Contracts
    BY <1>1, <1>2 DEF JobInv, JobIsSaved, JobHasRow, Busy
<1>4. disk.sidecars[Job] = ArchiveOf(Job, worker.key) /\ ArchiveOf(Job, worker.key) \in disk.objects
    BY <1>1, <1>2, <1>3, SaversAre DEF StoreInv, SavedIsDurable
<1>5. ArchiveOf(Job, worker.key) # NoArchive
    BY <1>3, ArchiveOfType
<1>6. sidecars[Job] = ArchiveOf(Job, worker.key) /\ sidecars[Job] \in objects
    BY <1>2, <1>3, <1>4, <1>5 DEF StoreInv, DiskIsVisible
<1> QED
    BY <1>1, <1>6, LaunchSteps

LEMMA RaiseSteps ==
    ASSUME PipelineInv, SaveRaises
    PROVE  OwnInv'
BY FailedSteps, SameFaults DEF SaveRaises, Elsewhere, Running, verification

LEMMA ReceiptSteps ==
    ASSUME PipelineInv, ReadReceipt
    PROVE  OwnInv'
<1> DEFINE result == IF run[worker.child].stage = "receipt"
                     THEN Interpret(run[worker.child].status) ELSE "failed"
<1>1. /\ worker.pc = "wait" /\ Ends(result)
      /\ UNCHANGED <<row, tag, admission, rebuild, earned, faults, contract>>
    BY DEF ReadReceipt, Reap, Elsewhere
<1>2. result \in Final \cup {"failed"}
    BY InterpretMeans
<1>3. JobInv /\ OwnTypeOK
    BY DEF PipelineInv, OwnInv
<1>4. Earned(Job, row[Job].contract, worker.epoch, contract, earned, result)
    <2>1. Earned(Job, row[Job].contract, worker.epoch, contract, earned, "failed")
        BY FailedIsEarned
    <2>2. Earned(Job, row[Job].contract, worker.epoch, contract, earned,
                 Interpret(run[worker.child].status))
        BY <1>1, <1>3 DEF JobInv, JobIsEarned
    <2> QED
        BY <2>1, <2>2
<1> HIDE DEF result
<1>5. earned' \subseteq Subs \X Final \X Contracts /\ earned \subseteq earned'
    BY <1>1, <1>3 DEF OwnTypeOK
<1> QED
    BY <1>1, <1>2, <1>4, <1>5, EndsSteps, SameFaults DEF Running

LEMMA TimeoutSteps ==
    ASSUME PipelineInv, OuterTimeout \/ PipelineDies
    PROVE  OwnInv'
<1>1. \E result \in {"failed", "timeout"} : Ends(result)
    BY DEF OuterTimeout, PipelineDies
<1>2. /\ UNCHANGED <<row, tag, admission, rebuild, earned, contract>> /\ Fault /\ Running
    BY DEF OuterTimeout, PipelineDies, Elsewhere, verification, Terminate
<1> QED
    BY <1>1, <1>2, FailedSteps, SameFaults

(* The archive of a result is the one the row will name.                   *)
LEMMA RecoverSteps ==
    ASSUME PipelineInv, Recover
    PROVE  OwnInv'
<1> DEFINE none == sidecars[Job] = NoArchive
           good == Recoverable(Job, worker.known)
           lost == IF none THEN worker.result = "verified" ELSE ~good
           result == IF lost THEN "failed" ELSE worker.result
           archive == IF good /\ ~none THEN sidecars[Job] ELSE NoArchive
<1>1. /\ worker.pc = "recover"
      /\ worker' = [worker EXCEPT !.pc = "finish", !.child = NoRun,
                                  !.result = result, !.archive = archive]
      /\ UNCHANGED <<row, tag, admission, rebuild, earned, faults, contract>>
    BY DEF Recover, Elsewhere, verification
<1>2. OwnInv /\ OwnTypeOK /\ JobInv
    BY DEF PipelineInv, OwnInv
<1>3. /\ Job \in Subs /\ row[Job].status = "verifying"
      /\ worker.epoch = row[Job].contract
      /\ Earned(Job, row[Job].contract, worker.epoch, contract, earned, worker.result)
    BY <1>1, <1>2 DEF JobInv, JobHasRow, JobIsEarned, Busy
<1>4. row[Job].contract \in Contracts
    BY <1>2, <1>3 DEF OwnInv, RowsInv
<1>5. ArchiveOf(Job, row[Job].contract) \in Archives
    BY <1>3, <1>4, ArchiveOfType
<1>6. archive \in {NoArchive, ArchiveOf(Job, row[Job].contract)}
    BY DEF Recoverable, Restorable
<1>7. result = "verified" => archive # NoArchive
    BY <1>1
<1>8. Earned(Job, row[Job].contract, worker.epoch, contract, earned, result)
    <2>1. Earned(Job, row[Job].contract, worker.epoch, contract, earned, "failed")
        BY FailedIsEarned
    <2> QED
        BY <1>3, <2>1
<1>9. worker \in Jobs /\ result \in {"none", "failed"} \cup Final
    BY <1>2, JobType DEF OwnTypeOK
<1> HIDE DEF result, archive
<1>10. /\ worker' \in Jobs /\ worker'.pc = "finish" /\ worker'.result = result
       /\ worker'.archive = archive /\ worker'.sub = worker.sub /\ worker'.epoch = worker.epoch
    BY <1>1, <1>5, <1>6, <1>9 DEF Jobs
<1>11. JobHasRow'
    BY <1>1, <1>3, <1>10 DEF JobHasRow, Job
<1>12. JobIsEarned'
    BY <1>1, <1>8, <1>10 DEF JobIsEarned, Job
<1>13. JobHasArchive'
    BY <1>1, <1>6, <1>7, <1>10 DEF JobHasArchive, Job
<1>14. JobIsSaved' /\ CandidateIsRetained'
    BY <1>10 DEF JobIsSaved, CandidateIsRetained
<1> QED
    BY <1>1, <1>2, <1>10, <1>11, <1>12, <1>13, <1>14, WorkerMoves DEF JobInv, OwnTypeOK

LEMMA FinishSteps ==
    ASSUME PipelineInv, Finish
    PROVE  OwnInv'
<1> DEFINE status == IF worker.result = "verified" /\ contract # worker.epoch
                     THEN "failed" ELSE worker.result
           archive == IF worker.archive # NoArchive THEN worker.archive ELSE row[Job].archive
<1>1. /\ worker.pc = "finish" /\ worker' = NoJob
      /\ UNCHANGED <<tag, admission, rebuild, earned, faults>>
    BY DEF Finish, Elsewhere
<1>2. /\ OwnTypeOK /\ RowsInv /\ AdmissionInv /\ VerdictIsEarned /\ JobInv /\ RebuildInv
      /\ VerificationInv
    BY DEF PipelineInv, OwnInv
<1>3. /\ Job \in Subs /\ row[Job].status = "verifying"
      /\ Earned(Job, row[Job].contract, worker.epoch, contract, earned, worker.result)
      /\ worker.archive \in {NoArchive, ArchiveOf(Job, row[Job].contract)}
      /\ worker.result = "verified" => worker.archive # NoArchive
    BY <1>1, <1>2 DEF JobInv, JobHasRow, JobIsEarned, JobHasArchive, Busy
<1>4. row \in [Subs -> Rows] /\ worker \in Jobs
    BY <1>2 DEF OwnTypeOK
<1>5. status \in {"none", "failed"} \cup Final /\ archive \in Archives \cup {NoArchive}
    BY <1>3, <1>4, JobType, RowType
<1>6. archive # NoArchive => archive = ArchiveOf(Job, row[Job].contract)
    BY <1>2, <1>3 DEF RowsInv
<1>7. status = "verified" =>
          <<Job, "verified", row[Job].contract>> \in earned /\ archive # NoArchive
    <2> HAVE status = "verified"
    <2>1. worker.result = "verified" /\ contract = worker.epoch
        OBVIOUS
    <2>2. /\ worker.epoch = row[Job].contract
          /\ \E k \in Contracts : worker.epoch <= k /\ k <= contract
                                  /\ <<Job, "verified", k>> \in earned
        BY <1>3, <2>1 DEF Earned
    <2>3. contract \in Nat /\ Contracts \subseteq Nat
        BY <1>2, <1>4, ContractsAreNat, VerificationAssumption
    <2>4. \A k \in Contracts : contract <= k /\ k <= contract => k = contract
        BY <2>3
    <2> QED
        BY <1>3, <2>1, <2>2, <2>4
<1>8. status = "rejected" => \E k \in Contracts : <<Job, "rejected", k>> \in earned
    BY <1>3 DEF Earned
<1>9. row' = [row EXCEPT ![Job] = [row[Job] EXCEPT !.status = status, !.archive = archive]]
    BY <1>3, <1>4 DEF Finish, Rows
<1> HIDE DEF status, archive
<1>10. /\ row'[Job] \in Rows /\ row'[Job].status = status /\ row'[Job].archive = archive
       /\ row'[Job].contract = row[Job].contract
       /\ \A x \in Subs \ {Job} : row'[x] = row[x]
    BY <1>3, <1>4, <1>5, <1>9 DEF Rows
<1>11. row' \in [Subs -> Rows]
    BY <1>4, <1>9, <1>10
<1>12. OwnTypeOK'
    BY <1>1, <1>2, <1>11, NoJobType DEF OwnTypeOK
<1>13. RowsInv'
    BY <1>1, <1>2, <1>3, <1>6, <1>10 DEF RowsInv
<1>14. AdmissionInv'
    BY <1>1, <1>2, <1>3, <1>10 DEF AdmissionInv, Admissible, OwnTypeOK
<1>15. VerdictIsEarned'
    BY <1>1, <1>2, <1>3, <1>7, <1>8, <1>10 DEF VerdictIsEarned
<1> QED
    BY <1>1, <1>2, <1>12, <1>13, <1>14, <1>15, RebuildFrame, NoJobNoClaim, NoJobType DEF OwnInv

LEMMA StopSteps ==
    ASSUME PipelineInv, WorkerStop
    PROVE  OwnInv'
<1>1. /\ worker' = [NoJob EXCEPT !.pc = "down"]
      /\ UNCHANGED <<row, tag, admission, rebuild, earned>> /\ Fault
    BY DEF WorkerStop, Elsewhere
<1>2. OwnInv /\ OwnTypeOK
    BY DEF PipelineInv, OwnInv
<1> QED
    BY <1>1, <1>2, SameFaults, NoJobType, NoJobNoClaim, WorkerMoves DEF OwnTypeOK

LEMMA CrashSteps ==
    ASSUME PipelineInv, Crash
    PROVE  OwnInv'
<1>1. /\ worker' = [NoJob EXCEPT !.pc = "down"] /\ rebuild' = NoRecovery
      /\ admission' = NoSub /\ UNCHANGED <<row, tag, earned>> /\ Fault
    BY DEF Crash
<1>2. OwnTypeOK /\ RowsInv /\ AdmissionInv /\ VerdictIsEarned
    BY DEF PipelineInv, OwnInv
<1>3. faults' \in 0 .. MaxFaults
    BY <1>1, SameFaults
<1>4. OwnTypeOK'
    BY <1>1, <1>2, <1>3, NoJobType, NoRecoveryType DEF OwnTypeOK
<1>5. RowsInv' /\ AdmissionInv' /\ VerdictIsEarned'
    BY <1>1, <1>2, RowsFrame
<1>6. RebuildInv'
    BY <1>1, NoRecoveryType DEF RebuildInv
<1> QED
    BY <1>1, <1>4, <1>5, <1>6, NoJobType, NoJobNoClaim DEF OwnInv

(***************************************************************************)
(* The invariant                                                           *)
(***************************************************************************)
LEMMA PipelineInitInv == Init => PipelineInv
<1> SUFFICES ASSUME Init
             PROVE  PipelineInv
    OBVIOUS
<1>1. StoreInv /\ VerificationInv
    BY StoreInitInv, VerificationInitInv DEF Init
<1> DEFINE r == [status |-> "none", contract |-> 0, archive |-> NoArchive]
<1>2. r \in Rows
    BY DEF Rows
<1>3. /\ row = [s \in Subs |-> r] /\ tag = [s \in Subs |-> "none"] /\ admission = NoSub
      /\ worker = [NoJob EXCEPT !.pc = "down"] /\ rebuild = NoRecovery
      /\ earned = {} /\ faults = 0
    BY DEF Init
<1>4. \A s \in Subs : row[s].status = "none" /\ row[s].archive = NoArchive
    BY <1>3
<1>5. 0 \in 0 .. MaxFaults
    BY PipelineAssumption
<1>6. row \in [Subs -> Rows]
    BY <1>2, <1>3
<1> HIDE DEF r
<1>7. OwnTypeOK
    BY <1>3, <1>5, <1>6, NoJobType, NoRecoveryType DEF OwnTypeOK
<1>8. RowsInv /\ VerdictIsEarned /\ AdmissionInv
    BY <1>3, <1>4 DEF RowsInv, VerdictIsEarned, AdmissionInv
<1>9. worker.pc = "down" /\ rebuild.pc = "idle"
    BY <1>3, NoJobType, NoRecoveryType
<1>10. JobInv
    BY <1>9
    DEF JobInv, JobHasRow, JobIsSaved, JobIsEarned, JobHasArchive, CandidateIsRetained, Busy
<1>11. RebuildInv
    BY <1>9 DEF RebuildInv
<1> QED
    BY <1>1, <1>7, <1>8, <1>10, <1>11 DEF PipelineInv, OwnInv

LEMMA PipelineStep ==
    ASSUME PipelineInv, [Next]_vars
    PROVE  PipelineInv'
<1>1. StoreInv'
    BY StoreSimulation, StoreStep DEF PipelineInv
<1>2. VerificationInv'
    BY VerificationSimulation, VerificationStep DEF PipelineInv
<1>3. OwnInv'
    <2>1. CASE UNCHANGED vars
        <3>1. UNCHANGED store /\ UNCHANGED verification /\ UNCHANGED pipeline
            BY <2>1 DEF vars
        <3>2. VerificationInv /\ OwnInv /\ OwnTypeOK /\ JobInv /\ RebuildInv
            BY DEF PipelineInv, OwnInv
        <3>3. contract \in Nat
            BY <3>2, ContractsAreNat DEF OwnTypeOK
        <3>4. JobIsSaved'
            BY <3>1, <3>2, SaverFrame DEF JobInv, store, pipeline
        <3>5. JobInv'
            BY <3>1, <3>2, <3>3, <3>4, JobKeeps, StillGrows
            DEF OwnTypeOK, store, pipeline, verification
        <3> QED
            BY <3>1, <3>2, <3>5, QuietStep, RebuildFrame DEF OwnTypeOK, pipeline
    <2>2. CASE WorkerStep
        BY <2>2, StartSteps, BeginSteps, PinSteps, RestoreSteps, ExportSteps, SavedSteps,
           RaiseSteps, ReceiptSteps, RecoverSteps, FinishSteps
        DEF WorkerStep
    <2>3. CASE OuterTimeout \/ PipelineDies \/ WorkerStop
        BY <2>3, TimeoutSteps, StopSteps
    <2>4. ASSUME NEW s \in Subs, AdmitTag(s) \/ Admit(s) \/ TagAppears(s)
          PROVE  OwnInv'
        BY <2>4, AdmissionSteps
    <2>5. ASSUME NEW v \in Runs, VerifierStep(v) \/ VerifierDies(v)
          PROVE  OwnInv'
        BY <2>5, VerifierSteps, DeathSteps
    <2>6. ASSUME NEW p \in Savers, SaverStep(p)
          PROVE  OwnInv'
        BY <2>6, SaverSteps
    <2>7. CASE RebuildStep
        BY <2>7, RebuildSteps
    <2>8. CASE Crash \/ DamageObject \/ DeployContract
        BY <2>8, CrashSteps, DamageSteps, DeploySteps
    <2> QED
        BY <2>1, <2>2, <2>3, <2>4, <2>5, <2>6, <2>7, <2>8 DEF Next
<1> QED
    BY <1>1, <1>2, <1>3 DEF PipelineInv

THEOREM PipelineInvariant == Spec => []PipelineInv
BY PipelineInitInv, PipelineStep, PTL DEF Spec

(***************************************************************************)
(* What the runs check, for any number of heads, processes and faults      *)
(***************************************************************************)

(* Every variable of the pipeline stays in its type.                       *)
THEOREM PipelineTypeCorrect == Spec => []TypeOK
<1>1. PipelineInv => TypeOK
    BY TypeParts DEF PipelineInv, OwnInv, StoreInv, VerificationInv
<1> QED
    BY <1>1, PipelineInvariant, PTL

(* No head is queued whose tag does not name its commit, whoever else      *)
(* creates tags, and whenever.                                             *)
THEOREM AdmissionTags == Spec => []AdmittedIsTagged
<1>1. PipelineInv => AdmittedIsTagged
    BY DEF PipelineInv, OwnInv, RowsInv, AdmittedIsTagged
<1> QED
    BY <1>1, PipelineInvariant, PTL

(* Candidate code runs only for a head whose archive is in the store.      *)
THEOREM CandidatesRetained == Spec => []CandidateIsRetained
<1>1. PipelineInv => CandidateIsRetained
    BY DEF PipelineInv, OwnInv, JobInv
<1> QED
    BY <1>1, PipelineInvariant, PTL

(* The worker and app.rebuild attach no archive but the row's own.         *)
THEOREM ArchivesBelong == Spec => []ArchiveIsOfRow
<1>1. PipelineInv => ArchiveIsOfRow
    BY DEF PipelineInv, OwnInv, RowsInv, ArchiveIsOfRow
<1> QED
    BY <1>1, PipelineInvariant, PTL

(* Whatever is killed, late, refused or redeployed, a verdict is earned.   *)
THEOREM VerdictsEarned == Spec => []VerdictIsEarned
<1>1. PipelineInv => VerdictIsEarned
    BY DEF PipelineInv, OwnInv
<1> QED
    BY <1>1, PipelineInvariant, PTL

(* Every behaviour of the pipeline is one of the source store, so that     *)
(* what Store_proofs shows of the store holds in the pipeline.             *)
THEOREM PipelineKeepsStore == Spec => StoreSpec
<1>1. Init => StoreInit
    BY DEF Init
<1> QED
    BY <1>1, StoreSimulation, PipelineInvariant, PTL DEF Spec, StoreSpec

(* And one of the verifiers, so that the same goes for Verification_proofs.*)
THEOREM PipelineKeepsVerifiers == Spec => VerificationSpec
<1>1. Init => VerificationInit
    BY DEF Init
<1> QED
    BY <1>1, VerificationSimulation, PipelineInvariant, PTL DEF Spec, VerificationSpec

(* Two verifications never share the checkout, in the whole pipeline.      *)
THEOREM PipelineExcludes == Spec => [](OneVerification /\ VerdictLeavesNoService)
BY PipelineKeepsVerifiers, VerifiersExclude, VerdictsAreQuiet, PTL

(* No retry, recovery or concurrent call in the whole pipeline replaces    *)
(* the archive a submission is bound to.                                   *)
THEOREM PipelineBindsOnce == Spec => ImplementsBinding
BY PipelineKeepsStore, StoreBindsOnce, PTL
==============================================================================
