------------------------------ MODULE Pipeline -------------------------------
(***************************************************************************)
(* One head from its admission to its verdict, at the level of processes:  *)
(* the worker runs verify.py, which keeps the source in the store and then *)
(* runs verify_submission.py; the web process admits heads and retains     *)
(* their commits by tags; an operator recovers source archives with        *)
(* app.rebuild --sources, and deploys contracts.  Worker.tla and           *)
(* Admission.tla have the same heads with one step per verification; here  *)
(* the outbox, the reports and the records are left out, and a head that   *)
(* waits for its receipt's comment is already pending.                     *)
(***************************************************************************)
EXTENDS SourceStore, Verification

CONSTANTS
    Commit,     \* Commit[s], Epoch[s]: the commit and the contract that the
    Epoch,      \*   submission id s is computed from
    MaxFaults   \* bound: kills, time limits, power losses, damage, late tags

(* The two programs that save sources.                                     *)
Keeper == "verify.py"
Rebuilder == "rebuild"

ASSUME PipelineAssumption ==
    /\ Savers = {Keeper, Rebuilder}
    /\ Epoch \in [Subs -> Contracts]
    /\ Archives = [commit : {Commit[s] : s \in Subs}, contract : Contracts]
    /\ "none" \notin Subs
    /\ MaxFaults \in Nat

VARIABLES
    row,        \* row[s]: the submission in the database
    tag,        \* tag[s]: what refs/tags/sig-source/<s> of the repository names
    admission,  \* the submission whose tag is being created, or NoSub
    worker,     \* the worker and the verify.py process it runs
    rebuild,    \* app.rebuild --sources
    earned,     \* history: what a complete check said, and under which contract
    faults

pipeline == <<row, tag, admission, worker, rebuild, earned, faults>>
vars == <<store, verification, pipeline>>

NoSub == "none"

(* What save_source makes of the commit of s under contract k.             *)
ArchiveOf(s, k) == [commit |-> Commit[s], contract |-> k]

(* "rejected" is also policy_rejected.                                     *)
Final == {"verified", "rejected", "timeout"}

Rows == [status : {"none", "pending", "verifying", "failed"} \cup Final,
         contract : Contracts \cup {0}, archive : Archives \cup {NoArchive}]

(* epoch: the worker's run_contract; key: the contract verify.py read;     *)
(* known: the archive the row had; child: the verify_submission process.   *)
Jobs == [pc : {"down", "idle", "pin", "retain", "save", "wait", "recover", "finish"},
         sub : Subs \cup {NoSub}, epoch : Contracts \cup {0}, key : Contracts \cup {0},
         known : Archives \cup {NoArchive}, child : Runs \cup {NoRun},
         result : {"none", "failed"} \cup Final, archive : Archives \cup {NoArchive}]

NoJob == [pc |-> "idle", sub |-> NoSub, epoch |-> 0, key |-> 0, known |-> NoArchive,
          child |-> NoRun, result |-> "none", archive |-> NoArchive]

(* contract, archive: of the row as it was read; found: what is attached.  *)
Recoveries == [pc : {"idle", "check", "export", "save", "attach"},
               sub : Subs \cup {NoSub}, contract : Contracts \cup {0},
               archive : Archives \cup {NoArchive}, found : Archives \cup {NoArchive}]

NoRecovery == [pc |-> "idle", sub |-> NoSub, contract |-> 0,
               archive |-> NoArchive, found |-> NoArchive]

TypeOK ==
    /\ StoreTypeOK
    /\ VerificationTypeOK
    /\ row \in [Subs -> Rows]
    /\ tag \in [Subs -> {"none", "own", "foreign"}]
    /\ admission \in Subs \cup {NoSub}
    /\ worker \in Jobs
    /\ rebuild \in Recoveries
    /\ earned \subseteq Subs \X Final \X Contracts
    /\ faults \in 0 .. MaxFaults

Init ==
    /\ StoreInit
    /\ VerificationInit
    /\ row = [s \in Subs |-> [status |-> "none", contract |-> 0, archive |-> NoArchive]]
    /\ tag = [s \in Subs |-> "none"]
    /\ admission = NoSub
    /\ worker = [NoJob EXCEPT !.pc = "down"]
    /\ rebuild = NoRecovery
    /\ earned = {}
    /\ faults = 0

Fault == faults < MaxFaults /\ faults' = faults + 1

(***************************************************************************)
(* The web process: _queue_submission under the admission lock, with the   *)
(* calls of ensure_source_ref.  A failed head enters again under its id.   *)
(***************************************************************************)
Admissible(s) == row[s].status \in {"none", "failed"}

(* The tag is looked up and, if there is none, created; the request may be *)
(* refused, because another one was first, or be lost with its answer.     *)
AdmitTag(s) ==
    /\ admission = NoSub
    /\ Admissible(s) /\ contract = Epoch[s]
    /\ admission' = s
    /\ tag' \in {tag, [tag EXCEPT ![s] = IF @ = "none" THEN "own" ELSE @]}
    /\ UNCHANGED <<store, verification, row, worker, rebuild, earned, faults>>

Queued(s) == [row EXCEPT ![s] = [status |-> "pending", contract |-> contract,
                                 archive |-> NoArchive]]

(* Seeded fault: a tag that already exists is taken for the right one.     *)
AdmitTrustsTag(s) ==
    /\ admission = s
    /\ admission' = NoSub
    /\ \/ tag[s] # "none" /\ row' = Queued(s)
       \/ UNCHANGED row
    /\ UNCHANGED <<store, verification, tag, worker, rebuild, earned, faults>>

(* The tag is read back; only if it names the commit is the head queued.   *)
(* The read may fail as well, and the process may die before it or after.  *)
Admit(s) ==
    /\ admission = s
    /\ admission' = NoSub
    /\ \/ tag[s] = "own" /\ row' = Queued(s)
       \/ UNCHANGED row
    /\ UNCHANGED <<store, verification, tag, worker, rebuild, earned, faults>>

(* Another creates the tag: a late request of this service, or a stranger. *)
TagAppears(s) ==
    /\ Fault
    /\ tag[s] = "none"
    /\ \E t \in {"own", "foreign"} : tag' = [tag EXCEPT ![s] = t]
    /\ UNCHANGED <<store, verification, row, admission, worker, rebuild, earned>>

(***************************************************************************)
(* The worker and verify.py                                                *)
(***************************************************************************)
Elsewhere == <<tag, admission, rebuild, earned>>

(* systemd starts the worker again once its control group is empty; jobs   *)
(* that it left "verifying" are queued again.                              *)
WorkerStart ==
    /\ worker.pc = "down"
    /\ \A v \in Runs : ~Alive(v)
    /\ worker' = NoJob
    /\ row' = [s \in Subs |-> IF row[s].status = "verifying"
                              THEN [row[s] EXCEPT !.status = "pending"] ELSE row[s]]
    /\ UNCHANGED <<store, verification, Elsewhere, faults>>

(* A head of another contract than the deployed one is not even run.       *)
WorkerBegin(s) ==
    /\ worker.pc = "idle"
    /\ row[s].status = "pending"
    /\ row' = [row EXCEPT ![s].status = "verifying"]
    /\ LET job == [NoJob EXCEPT !.sub = s, !.epoch = contract, !.known = row[s].archive]
       IN worker' = IF row[s].contract = contract
                    THEN [job EXCEPT !.pc = "pin"]
                    ELSE [job EXCEPT !.pc = "finish", !.result = "failed"]
    /\ UNCHANGED <<store, verification, Elsewhere, faults>>

Job == worker.sub

(* verify.py ends with this result, and the worker reads what it left.     *)
Ends(result) == worker' = [worker EXCEPT !.pc = "recover", !.result = result]

(* check_pin, then contract_id: the pin file is read again.                *)
Pin ==
    /\ worker.pc = "pin"
    /\ \/ worker' = [worker EXCEPT !.pc = "retain", !.key = contract]
       \/ Ends("failed")
    /\ UNCHANGED <<store, verification, row, Elsewhere, faults>>

(* Popen: a process of its own session.                                    *)
Fresh == CHOOSE v \in Runs : ~Alive(v) /\ v \notin services

Launch ==
    /\ \E v \in Runs : ~Alive(v) /\ v \notin services
    /\ Spawn(Fresh) /\ worker' = [worker EXCEPT !.pc = "wait", !.child = Fresh]
    /\ UNCHANGED <<row, Elsewhere, faults>>

(* Seeded fault: the candidate is run before its source is retained.       *)
RetainLater ==
    /\ worker.pc = "retain"
    /\ sidecars[Job] = NoArchive
    /\ Launch
    /\ UNCHANGED store

(* restore_source, from what an earlier run retained; nothing is fetched.  *)
Restorable(s, key) ==
    /\ sidecars[s] = ArchiveOf(s, key)
    /\ Intact(sidecars[s])

RestoreRetained ==
    /\ worker.pc = "retain"
    /\ sidecars[Job] # NoArchive
    /\ IF Restorable(Job, worker.key)
       THEN Launch
       ELSE Ends("failed") /\ UNCHANGED <<verification, row, Elsewhere, faults>>
    /\ UNCHANGED store

(* export_root, by the tag if nothing else has the commit, then the start  *)
(* of save_source.  Git may fail, and a root of the wrong shape is refused.*)
ExportRoot ==
    /\ worker.pc = "retain"
    /\ sidecars[Job] = NoArchive
    /\ \/ /\ SaveBegin(Keeper, Job, ArchiveOf(Job, worker.key))
          /\ worker' = [worker EXCEPT !.pc = "save"]
          /\ UNCHANGED earned
       \/ /\ Ends("failed")
          /\ UNCHANGED <<store, earned>>
       \/ /\ Ends("rejected")
          /\ earned' = earned \cup {<<Job, "rejected", contract>>}
          /\ UNCHANGED store
    /\ UNCHANGED <<verification, row, tag, admission, rebuild, faults>>

Saved ==
    /\ worker.pc = "save"
    /\ saver[Keeper].pc = "saved"
    /\ Leave(Keeper)
    /\ Launch

(* save_source raises: it refuses, or the disk is full or failing.         *)
SaveRaises ==
    /\ worker.pc = "save"
    /\ Leave(Keeper)
    /\ Ends("failed")
    /\ UNCHANGED <<verification, row, Elsewhere, faults>>

(* Seeded fault: the status of the receipt becomes that of the head as is. *)
InterpretNot(status) == status

(* interpret: what each status of a receipt is for the service.            *)
Interpret(status) ==
    CASE status = "accepted" -> "verified"
      [] status \in {"verification_failed", "source_rejected"} -> "rejected"
      [] status = "timed_out" -> "timeout"
      [] OTHER -> "failed"

(* Seeded fault: verify.py waits for the receipt and not for the process.  *)
ReadReceiptOnly ==
    /\ worker.pc = "wait"
    /\ run[worker.child].stage = "receipt"
    /\ Ends(Interpret(run[worker.child].status))
    /\ Reap(worker.child)
    /\ UNCHANGED <<store, row, Elsewhere, faults>>

(* run_verifier: without a receipt there is no verdict.                    *)
ReadReceipt ==
    /\ worker.pc = "wait"
    /\ ~Alive(worker.child)
    /\ Ends(IF run[worker.child].stage = "receipt"
            THEN Interpret(run[worker.child].status) ELSE "failed")
    /\ Reap(worker.child)
    /\ UNCHANGED <<store, row, Elsewhere, faults>>

Running == worker.pc \in {"pin", "retain", "save", "wait"}

(* The outer time limit: verify.py is sent SIGTERM, passes it on to its    *)
(* child, unless it has only just started it, and exits without waiting.   *)
OuterTimeout ==
    /\ Fault
    /\ Running
    /\ Leave(Keeper)
    /\ \/ worker.pc = "wait" /\ Terminate({worker.child})
       \/ /\ worker.pc = "wait" => run[worker.child].stage = "admission"
          /\ UNCHANGED verification
    /\ Ends("timeout")
    /\ UNCHANGED <<row, Elsewhere>>

(* verify.py is killed, or it fails, as on a receipt that it cannot read;  *)
(* its child, if it still runs, goes on.                                   *)
PipelineDies ==
    /\ Fault
    /\ Running
    /\ Leave(Keeper)
    /\ Ends("failed")
    /\ UNCHANGED <<verification, row, Elsewhere>>

(* Seeded fault: what the store has is not compared with the row.          *)
AnyRecoverable(s, known) == Intact(sidecars[s])

(* recover_metadata: what the store has for the head is what the head was  *)
(* queued as, and what the row says if it says anything.                   *)
Recoverable(s, known) ==
    /\ Restorable(s, row[s].contract)
    /\ known \in {NoArchive, sidecars[s]}

(* run_pipeline after the process is over: the archive comes from the      *)
(* store alone, and there is no verified result without one.               *)
Recover ==
    /\ worker.pc = "recover"
    /\ LET none == sidecars[Job] = NoArchive
           good == Recoverable(Job, worker.known)
           lost == IF none THEN worker.result = "verified" ELSE ~good
       IN worker' = [worker EXCEPT !.pc = "finish", !.child = NoRun,
                                   !.result  = IF lost THEN "failed" ELSE @,
                                   !.archive = IF good /\ ~none THEN sidecars[Job] ELSE NoArchive]
    /\ UNCHANGED <<store, verification, row, Elsewhere, faults>>

(* Seeded fault: the contract is not compared again when the proof is in.  *)
FinishUnchecked ==
    /\ worker.pc = "finish"
    /\ row' = [row EXCEPT ![Job].status = worker.result,
                          ![Job].archive = IF worker.archive # NoArchive THEN worker.archive ELSE @]
    /\ worker' = NoJob
    /\ UNCHANGED <<store, verification, Elsewhere, faults>>

(* process, last critical section.                                         *)
Finish ==
    /\ worker.pc = "finish"
    /\ row' = [row EXCEPT
          ![Job].status = IF worker.result = "verified" /\ contract # worker.epoch
                          THEN "failed" ELSE worker.result,
          ![Job].archive = IF worker.archive # NoArchive THEN worker.archive ELSE @]
    /\ worker' = NoJob
    /\ UNCHANGED <<store, verification, Elsewhere, faults>>

(* The worker is stopped, or dies: systemd ends its whole control group,   *)
(* of which the services of candidate code are not part.                   *)
WorkerStop ==
    /\ Fault
    /\ worker.pc # "down"
    /\ Leave(Keeper)
    /\ Terminate(Runs)
    /\ worker' = [NoJob EXCEPT !.pc = "down"]
    /\ UNCHANGED <<row, Elsewhere>>

WorkerStep ==
    \/ WorkerStart \/ Pin \/ RestoreRetained \/ ExportRoot \/ Saved \/ SaveRaises
    \/ ReadReceipt \/ Recover \/ Finish
    \/ \E s \in Subs : WorkerBegin(s)

(***************************************************************************)
(* app.rebuild --sources                                                   *)
(***************************************************************************)
WorkerSide == <<verification, tag, admission, worker, earned, faults>>

(* The rows are read once, long before the last of them is dealt with.     *)
RebuildRead(s) ==
    /\ rebuild.pc = "idle"
    /\ row[s].status \in Final \cup {"failed", "pending"}
    /\ rebuild' = [NoRecovery EXCEPT !.pc = "check", !.sub = s,
                      !.contract = row[s].contract, !.archive = row[s].archive]
    /\ UNCHANGED <<store, row, WorkerSide>>

Expected ==
    IF rebuild.archive # NoArchive THEN rebuild.archive
    ELSE ArchiveOf(rebuild.sub, rebuild.contract)

(* rebuild_cache: the ZIP is there; or else it is exported again, unless   *)
(* something is in the way (then the call raises: RebuildRaises).          *)
RebuildCheck ==
    /\ rebuild.pc = "check"
    /\ \/ /\ rebuild.archive # NoArchive \/ sidecars[rebuild.sub] = Expected
          /\ Intact(Expected)
          /\ rebuild' = [rebuild EXCEPT !.pc = "attach", !.found = Expected]
       \/ /\ IF rebuild.archive # NoArchive THEN Expected \notin objects
                                            ELSE sidecars[rebuild.sub] = NoArchive
          /\ rebuild' = [rebuild EXCEPT !.pc = "export"]
    /\ UNCHANGED <<store, row, WorkerSide>>

(* The tag still names the commit, and its export has the expected digest. *)
RebuildExport ==
    /\ rebuild.pc = "export"
    /\ tag[rebuild.sub] = "own"
    /\ SaveBegin(Rebuilder, rebuild.sub, Expected)
    /\ rebuild' = [rebuild EXCEPT !.pc = "save"]
    /\ UNCHANGED <<row, WorkerSide>>

RebuildSaved ==
    /\ rebuild.pc = "save"
    /\ saver[Rebuilder].pc = "saved"
    /\ Leave(Rebuilder)
    /\ rebuild' = [rebuild EXCEPT !.pc = "attach", !.found = Expected]
    /\ UNCHANGED <<row, WorkerSide>>

(* rebuild_sources under the results lock: the row is read again.          *)
RebuildAttach ==
    /\ rebuild.pc = "attach"
    /\ row[rebuild.sub].contract = rebuild.contract
    /\ row[rebuild.sub].archive \in {NoArchive, rebuild.found}
    /\ row' = [row EXCEPT ![rebuild.sub].archive = rebuild.found]
    /\ rebuild' = NoRecovery
    /\ UNCHANGED <<store, WorkerSide>>

(* Any of it raises, and the row is left alone; or the process is killed.  *)
RebuildRaises ==
    /\ rebuild.pc # "idle"
    /\ Leave(Rebuilder)
    /\ rebuild' = NoRecovery
    /\ UNCHANGED <<row, WorkerSide>>

RebuildStep ==
    \/ RebuildCheck \/ RebuildExport \/ RebuildSaved \/ RebuildAttach \/ RebuildRaises
    \/ \E s \in Subs : RebuildRead(s)

(***************************************************************************)
(* The host                                                                *)
(***************************************************************************)
Crash ==
    /\ Fault
    /\ PowerLoss \/ LoseStore
    /\ HostDown
    /\ worker' = [NoJob EXCEPT !.pc = "down"]
    /\ rebuild' = NoRecovery
    /\ admission' = NoSub
    /\ UNCHANGED <<row, tag, earned>>

SaverStep(p) ==
    /\ SaveStep(p)
    /\ UNCHANGED <<verification, pipeline>>

DamageObject ==
    /\ Fault
    /\ \E a \in Archives : Damage(a)
    /\ UNCHANGED <<verification, row, Elsewhere, worker>>

(* A step that completes the check of the worker's own child.              *)
Judgement(v, status) ==
    /\ worker.pc = "wait" /\ worker.child = v
    /\ run[v].status = "none" /\ run'[v].status = status

VerifierStep(v) ==
    /\ RunStep(v) \/ ServiceEnds(v)
    /\ earned' = earned \cup
          {<<Job, Interpret(status), contract>> :
             status \in {r \in Verdicts \cup {"source_rejected"} : Judgement(v, r)}}
    /\ UNCHANGED <<store, row, tag, admission, worker, rebuild, faults>>

VerifierDies(v) ==
    /\ Fault
    /\ Die(v)
    /\ UNCHANGED <<store, row, Elsewhere, worker>>

DeployContract ==
    /\ Deploy
    /\ UNCHANGED <<store, pipeline>>

Next ==
    \/ WorkerStep \/ OuterTimeout \/ PipelineDies \/ WorkerStop
    \/ \E s \in Subs : AdmitTag(s) \/ Admit(s) \/ TagAppears(s)
    \/ \E v \in Runs : VerifierStep(v) \/ VerifierDies(v)
    \/ \E p \in Savers : SaverStep(p)
    \/ RebuildStep
    \/ Crash \/ DamageObject \/ DeployContract

Spec == Init /\ [][Next]_vars

(* The worker polls for ever and waits for its children; a process that    *)
(* runs goes on; systemd ends a service at RuntimeMaxSec.                  *)
Fairness ==
    /\ WF_vars(WorkerStep)
    /\ WF_vars(SaverStep(Keeper))
    /\ \A v \in Runs : WF_vars(VerifierStep(v))

FairSpec == Spec /\ Fairness

(***************************************************************************)
(* Properties                                                              *)
(***************************************************************************)

(* A submission is queued only once its tag names its commit, so that the  *)
(* exact source can be exported whatever becomes of the contributor's      *)
(* branch: not when another, or a late request, made the tag meanwhile.    *)
AdmittedIsTagged == \A s \in Subs : row[s].status # "none" => tag[s] = "own"

(* While verify_submission.py runs for a head, the store has the archive   *)
(* of that head under the contract verify.py read: a retry after any crash *)
(* can be checked from the same bytes.                                     *)
CandidateIsRetained ==
    worker.pc = "wait" => /\ sidecars[Job] = ArchiveOf(Job, worker.key)
                          /\ sidecars[Job] \in objects

(* The archive a row names is that of its commit under the contract it was *)
(* queued under, whichever of the worker and app.rebuild attached it, from *)
(* however old a row, and also after the head was admitted again.          *)
ArchiveIsOfRow ==
    \A s \in Subs : row[s].archive # NoArchive => row[s].archive = ArchiveOf(s, row[s].contract)

(* A head is verified, or rejected, only because a check of it came to     *)
(* that end, "verified" under the very contract it was queued under, with  *)
(* its source archive attached: no crash, time limit, busy checkout, lost  *)
(* receipt or redeployment on the way makes such a verdict.                *)
VerdictIsEarned ==
    \A s \in Subs :
        /\ row[s].status = "verified" =>
              /\ <<s, "verified", row[s].contract>> \in earned
              /\ row[s].archive # NoArchive
        /\ row[s].status = "rejected" =>
              \E k \in Contracts : <<s, "rejected", k>> \in earned

(* Every job comes to an end, and so does every process that owns the      *)
(* checkout, those included that nobody waits for any more.                *)
EveryRunEnds ==
    /\ worker.pc \notin {"idle", "down"} ~> worker.pc \in {"idle", "down"}
    /\ \A v \in Runs : slot = v ~> slot # v

(* After the outer time limit the worker goes on when verify.py has        *)
(* cleaned up and its remaining children are killed (worker._stop_pipeline)*)
TimedOutRunIsGone ==
    worker.pc = "recover" /\ worker.result = "timeout" =>
        worker.child = NoRun \/ ~Alive(worker.child)
==============================================================================
