---------------------------- MODULE Verification -----------------------------
(***************************************************************************)
(* verifier/verify_submission.py: the processes that check a staged root.  *)
(* One of them at a time owns the checkout, by a kernel lock that it holds *)
(* from before it reads the root until its receipt is written, and that    *)
(* the kernel frees when it dies (worker_admission.py).  Candidate code    *)
(* runs in a transient service of systemd, outside the process: its death  *)
(* does not end the service.                                               *)
(***************************************************************************)
EXTENDS Naturals

CONSTANTS
    Runs,       \* process slots for verify_submission.py
    NoRun,
    Contracts   \* versions of the protected files, as they are deployed

ASSUME VerificationAssumption ==
    /\ NoRun \notin Runs
    /\ Contracts \subseteq Nat \ {0}
    /\ 1 \in Contracts

VARIABLES
    contract,   \* the version of the protected files in the checkout
    slot,       \* the process that holds the lock of the checkout
    run,        \* run[v]: a verify_submission process
    services    \* the processes whose transient service is running

verification == <<contract, slot, run, services>>

Candidate == {"compilation", "comparison"}   \* phases that run candidate code

Admitted == Candidate \cup
    {"capture", "source_policy", "setup", "sandbox_preflight", "trusted_build",
     "artifact_capture", "cleanup", "integrity", "publish"}

Ended == {"none", "receipt", "dead"}   \* no process: no receipt yet, one, none ever

Alive(v) == run[v].stage \notin Ended

Statuses == {"none", "accepted", "verification_failed", "source_rejected", "timed_out",
             "infrastructure_error", "interrupted", "worker_busy"}

(* phase: the last candidate phase; end: how it ended; harness: what setup *)
(* recorded of the protected files; told: SIGTERM is ignored from now on.  *)
RunRecords ==
    [stage : Admitted \cup Ended \cup {"admission", "refused"},
     phase : Candidate, end : {"ok", "error", "late", "interrupted"},
     harness : Contracts \cup {0}, told : BOOLEAN, status : Statuses]

NotRun == [stage |-> "none", phase |-> "compilation", end |-> "ok",
           harness |-> 0, told |-> FALSE, status |-> "none"]

VerificationTypeOK ==
    /\ contract \in Contracts
    /\ slot \in Runs \cup {NoRun}
    /\ run \in [Runs -> RunRecords]
    /\ services \subseteq Runs

VerificationInit ==
    /\ contract = 1
    /\ slot = NoRun
    /\ run = [v \in Runs |-> NotRun]
    /\ services = {}

SetRun(v, r) == run' = [run EXCEPT ![v] = r]

Report(v, status) ==
    SetRun(v, [run[v] EXCEPT !.stage = "publish", !.status = status])

Dead == [NotRun EXCEPT !.stage = "dead"]

(* The lock of a process that is over is free.                             *)
Without(v) == IF slot = v THEN NoRun ELSE slot

(* verify.py starts the process.                                           *)
Spawn(v) ==
    /\ ~Alive(v) /\ v \notin services
    /\ SetRun(v, [NotRun EXCEPT !.stage = "admission"])
    /\ UNCHANGED <<contract, slot, services>>

(* verify.py has waited for the process, and has read its receipt.         *)
Reap(v) ==
    /\ ~Alive(v)
    /\ SetRun(v, NotRun)
    /\ UNCHANGED <<contract, slot, services>>

(* Seeded fault: the lock is shared.                                       *)
ShareSlot(v) ==
    /\ run[v].stage = "admission"
    /\ slot' = v
    /\ SetRun(v, [run[v] EXCEPT !.stage = "capture"])
    /\ UNCHANGED <<contract, services>>

(* worker_slot: LOCK_NB, so a process that finds the lock held is busy.    *)
TakeSlot(v) ==
    /\ run[v].stage = "admission"
    /\ IF slot = NoRun
       THEN /\ slot' = v
            /\ SetRun(v, [run[v] EXCEPT !.stage = "capture"])
       ELSE /\ SetRun(v, [run[v] EXCEPT !.stage = "refused", !.status = "worker_busy"])
            /\ UNCHANGED slot
    /\ UNCHANGED <<contract, services>>

(***************************************************************************)
(* The stages of _verify_admitted                                          *)
(***************************************************************************)
NextStage == [capture |-> "source_policy", source_policy |-> "setup",
              setup |-> "sandbox_preflight", sandbox_preflight |-> "trusted_build",
              trusted_build |-> "compilation", artifact_capture |-> "comparison"]

(* A stage succeeds.  Setup records the manifest of the protected files; a *)
(* candidate phase starts its service.                                     *)
Advance(v) ==
    /\ run[v].stage \in DOMAIN NextStage
    /\ LET next == NextStage[run[v].stage] IN
       /\ SetRun(v, [run[v] EXCEPT
             !.stage   = next,
             !.phase   = IF next \in Candidate THEN next ELSE @,
             !.harness = IF run[v].stage = "setup" THEN contract ELSE @])
       /\ services' = IF next \in Candidate THEN services \cup {v} ELSE services
    /\ UNCHANGED <<contract, slot>>

(* A stage raises: in the first two it is the source that is rejected,     *)
(* whatever the exception was.                                             *)
StageFails(v) ==
    /\ run[v].stage \in DOMAIN NextStage
    /\ Report(v, IF run[v].stage \in {"capture", "source_policy"}
                 THEN "source_rejected" ELSE "infrastructure_error")
    /\ UNCHANGED <<contract, slot, services>>

(* The client of the service returns, in time or not, or is given up.      *)
PhaseEnds(v) ==
    /\ run[v].stage \in Candidate
    /\ \E end \in {"ok", "error", "late"} :
          SetRun(v, [run[v] EXCEPT !.stage = "cleanup", !.end = end])
    /\ UNCHANGED <<contract, slot, services>>

(* A service ends: by itself, killed at RuntimeMaxSec, or by the operator. *)
ServiceEnds(v) ==
    /\ v \in services
    /\ services' = services \ {v}
    /\ UNCHANGED <<contract, slot, run>>

AfterPhase(r) ==
    CASE r.end = "ok" /\ r.phase = "compilation" -> [r EXCEPT !.stage = "artifact_capture"]
      [] r.end = "late"        -> [r EXCEPT !.stage = "publish", !.status = "timed_out"]
      [] r.end = "interrupted" -> [r EXCEPT !.stage = "publish", !.status = "interrupted"]
      [] OTHER                 -> [r EXCEPT !.stage = "integrity"]

(* Seeded fault: the exit of the client is taken for that of the service.  *)
CleanupTrustsClient(v) ==
    /\ run[v].stage = "cleanup"
    /\ SetRun(v, AfterPhase(run[v]))
    /\ UNCHANGED <<contract, slot, services>>

(* run and stop_service: the service is stopped and its cgroup is empty.   *)
Cleanup(v) ==
    /\ run[v].stage = "cleanup"
    /\ services' = services \ {v}
    /\ SetRun(v, AfterPhase(run[v]))
    /\ UNCHANGED <<contract, slot>>

(* stop_service cannot tell, or its systemctl takes longer than 15 s: that *)
(* TimeoutExpired is run_candidate's time limit, whatever the phase did.   *)
CleanupUncertain(v) ==
    /\ run[v].stage = "cleanup"
    /\ \E status \in {"infrastructure_error", "timed_out"} : Report(v, status)
    /\ UNCHANGED <<contract, slot, services>>

(* check_integrity, whatever the phases returned: sources, artifacts, the  *)
(* protected files, dependencies and tools are what they were.             *)
Integrity(v) ==
    /\ run[v].stage = "integrity"
    /\ \/ /\ run[v].harness = contract
          /\ Report(v, IF run[v].end = "ok" THEN "accepted" ELSE "verification_failed")
       \/ Report(v, "infrastructure_error")
    /\ UNCHANGED <<contract, slot, services>>

(* write_receipt: the receipt is complete before the lock is free.         *)
Publish(v) ==
    /\ run[v].stage \in {"publish", "refused"}
    /\ SetRun(v, [NotRun EXCEPT !.stage = "receipt", !.status = run[v].status])
    /\ slot' = Without(v)
    /\ UNCHANGED <<contract, services>>

RunStep(v) ==
    \/ TakeSlot(v) \/ Advance(v) \/ StageFails(v) \/ PhaseEnds(v)
    \/ Cleanup(v) \/ CleanupUncertain(v) \/ Integrity(v) \/ Publish(v)

(***************************************************************************)
(* Signals and deaths                                                      *)
(***************************************************************************)

(* The first SIGTERM unwinds like Ctrl-C, later ones are ignored.  A phase *)
(* is stopped first.  Before the stages and in the middle of a receipt     *)
(* nothing catches it.  If it strikes in stop_service, that is cut short.  *)
(* (Nor does anything between the lock and the `try`: those statements are *)
(* part of "capture" here, where Die stands for a signal that kills.)      *)
Terminated(r) ==
    IF r.told \/ r.stage \in Ended THEN r
    ELSE CASE r.stage \in Candidate ->
                [r EXCEPT !.told = TRUE, !.stage = "cleanup", !.end = "interrupted"]
           [] r.stage \in {"admission", "refused", "publish"} -> Dead
           [] OTHER ->
                [r EXCEPT !.told = TRUE, !.stage = "publish", !.status = "interrupted"]

(* Any set of the processes is sent SIGTERM at once.                       *)
Terminate(V) ==
    /\ run' = [v \in Runs |-> IF v \in V THEN Terminated(run[v]) ELSE run[v]]
    /\ slot' = IF slot # NoRun /\ run'[slot].stage = "dead" THEN NoRun ELSE slot
    /\ UNCHANGED <<contract, services>>

(* SIGKILL, or an error nothing catches, as in writing the receipt.        *)
Die(v) ==
    /\ Alive(v)
    /\ SetRun(v, Dead)
    /\ slot' = Without(v)
    /\ UNCHANGED <<contract, services>>

(* The host goes down: processes and services with it.                     *)
HostDown ==
    /\ run' = [v \in Runs |-> NotRun]
    /\ slot' = NoRun
    /\ services' = {}
    /\ UNCHANGED contract

(* The operator checks out another version of the protected files.         *)
Deploy ==
    /\ contract + 1 \in Contracts
    /\ contract' = contract + 1
    /\ UNCHANGED <<slot, run, services>>

VerificationNext ==
    \/ \E v \in Runs : Spawn(v) \/ Reap(v) \/ RunStep(v) \/ ServiceEnds(v) \/ Die(v)
    \/ \E V \in SUBSET Runs : Terminate(V)
    \/ HostDown
    \/ Deploy

VerificationSpec == VerificationInit /\ [][VerificationNext]_verification

(***************************************************************************)
(* Properties                                                              *)
(***************************************************************************)

(* Two verifications never work in one checkout at the same time, from the *)
(* first byte they read of a root to the receipt they write, whoever is    *)
(* killed, signalled or late.                                              *)
OneVerification ==
    \A v, w \in Runs :
        run[v].stage \in Admitted /\ run[w].stage \in Admitted => v = w

Verdicts == {"accepted", "verification_failed"}

(* A proof is accepted, or refused as a proof, only once the service that  *)
(* ran candidate code for it is gone: not on the word of its client, and   *)
(* not if a signal or an uncertain state cut the cleanup short.            *)
VerdictLeavesNoService ==
    \A v \in services : run[v].status \notin Verdicts
==============================================================================
