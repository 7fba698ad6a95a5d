-------------------------------- MODULE Rebuild -------------------------------
(***************************************************************************)
(* "Rebuilding the server from nothing" (service/deploy/README.md): the    *)
(* host is lost with its database, its outbox and its marker file, and     *)
(* app.rebuild (service/app/rebuild.py) restores a new one from GitHub     *)
(* with the code of resync.  Until a restore is complete the operator      *)
(* keeps the web process and the worker stopped.  Otherwise everything is  *)
(* as in Service.                                                          *)
(***************************************************************************)
EXTENDS Service

CONSTANT
    StartsEarly     \* TRUE if the services may come up on an incomplete
                    \* restore, as enabled units do when the host reboots

ASSUME StartsAssumption == StartsEarly \in BOOLEAN

VARIABLE
    lost            \* a host was lost and its restore is not complete

(* Nothing but GitHub and the deployed contract is left.                   *)
LoseHost ==
    /\ Fault
    /\ lost' = TRUE
    /\ row' = [h \in Heads |-> AbsentRow]
    /\ outbox' = [h \in Heads |-> 0]
    /\ marker' = FALSE
    /\ web' = "down"
    /\ resyncDue' = FALSE
    /\ recovery' = RecoveryIdle
    /\ admission' = NoHandler
    /\ delivery' = DeliveryIdle
    /\ job' = WorkerDown
    /\ UNCHANGED <<comments, tags, main, contract, clock>>

(* app.rebuild on the new host, or again after an incomplete restore: a    *)
(* resync beside stopped services, which queues no open heads.             *)
RestoreBegin ==
    /\ lost
    /\ web = "down" /\ job.pc = "down"
    /\ ~Recovering
    /\ marker' = TRUE
    /\ recovery' = [pc |-> "import", todo |-> Histories, errors |-> FALSE]
    /\ UNCHANGED <<row, outbox, comments, tags, main, contract, web, resyncDue,
                   admission, delivery, job, clock, faults, lost>>

(* app.rebuild runs.                                                       *)
Restoring == lost /\ web = "down" /\ Recovering

(* It is interrupted: what it imported and the marker stay.                *)
RestoreInterrupted ==
    /\ Restoring
    /\ Fault
    /\ recovery' = RecoveryIdle
    /\ UNCHANGED <<row, outbox, comments, tags, main, contract, marker, web,
                   resyncDue, admission, delivery, job, clock, lost>>

ServiceStarts ==
    \/ web = "down" /\ web' = "up"
    \/ job.pc = "down" /\ job'.pc # "down"

(* A step of the service, or of app.rebuild's resync.  The restore is      *)
(* complete when its marker goes.                                          *)
ServiceStep ==
    /\ Next
    /\ lost /\ ServiceStarts => StartsEarly /\ marker /\ ~Restoring
    /\ lost' = (lost /\ (marker => marker'))

RebuildInit == Init /\ lost = FALSE

RebuildNext == ServiceStep \/ LoseHost \/ RestoreBegin \/ RestoreInterrupted

RebuildSpec == RebuildInit /\ [][RebuildNext]_<<vars, lost>>

(***************************************************************************)
(* Safety                                                                  *)
(***************************************************************************)
RestoreComplete == ~lost /\ ~Recovering /\ ~marker

(* rebuild.py: "preserving every existing proof verdict".  When no restore *)
(* is incomplete, each verdict of a proof that some bot comment carries is *)
(* that of its row, with its completion time.                              *)
VerdictsPreserved ==
    RestoreComplete =>
        \A h \in Heads : \A i \in DOMAIN comments[h] :
            LET e == comments[h][i]
            IN e.status \in {"verified", "rejected"} =>
                  /\ ReportedStatus(row[h]) = e.status
                  /\ row[h].finished = e.finished

==============================================================================
