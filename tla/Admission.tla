------------------------------ MODULE Admission ------------------------------
(***************************************************************************)
(* The webhook handler: queue_submission of service/app/main.py, which     *)
(* admits one head under the admission lock.  It reads the database, then  *)
(* calls GitHub, then commits; only other handlers are locked out in       *)
(* between, so the report loop, the worker and a resync run on.            *)
(***************************************************************************)
EXTENDS Ledger

HandlerIdle == [pc |-> "idle", old |-> AbsentRow, at |-> 0]

Handlers == [pc : {"idle", "retain", "commit"}, old : Rows, at : Nat]

NoHandler == [h \in Heads |-> HandlerIdle]

AdmissionLockFree == \A h \in Heads : admission[h].pc = "idle"

InFlightHeads == {h \in Heads : Status(h) \in InFlight}

(* The statuses that make a later submission of the same commit a          *)
(* duplicate: every one but "failed".                                      *)
SameCommitSubmitted(h) ==
    \E k \in Heads : /\ Commit[k] = Commit[h]
                     /\ Status(k) \in InFlight \cup {"verified", "rejected"}
                     /\ Current(row[k])

UnderCaps(h) ==
    /\ Cardinality({k \in InFlightHeads : Author[k] = Author[h]}) < MaxInflight
    /\ Cardinality(InFlightHeads) < QueueCap

BeginHandler(h) ==
    /\ \E now \in Readings :
          /\ admission' = [admission EXCEPT ![h] =
                             [pc |-> "retain", old |-> row[h], at |-> now]]
          /\ clock' = Later(clock, now)
    /\ UNCHANGED <<row, outbox, comments, tags, main, contract, marker, web,
                   resyncDue, recovery, delivery, job, faults>>

(* Seeded fault: no admission lock around the checks.                      *)
AdmitCheckUnlocked(h) ==
    /\ web = "up" /\ clock < MaxClock
    /\ admission[h].pc = "idle"
    /\ Epoch[h] = contract
    /\ UnderCaps(h)
    /\ ~SameCommitSubmitted(h)
    /\ \/ Status(h) = "absent"
       \/ Status(h) = "failed" /\ h \in Resubmittable
    /\ BeginHandler(h)

(* Seeded fault: a policy rejection may be submitted again.                *)
AdmitCheckRejected(h) ==
    /\ web = "up" /\ clock < MaxClock
    /\ AdmissionLockFree
    /\ Epoch[h] = contract
    /\ UnderCaps(h)
    /\ Status(h) \in {"absent", "failed", "rejected"}
    /\ BeginHandler(h)

(* The checks, under the lock: the id belongs to the deployed contract,    *)
(* neither cap is reached, the commit is not submitted already, and the    *)
(* row is new or failed.  queued_at is read before GitHub is called.       *)
AdmitCheck(h) ==
    /\ web = "up" /\ clock < MaxClock
    /\ AdmissionLockFree
    /\ Epoch[h] = contract
    /\ UnderCaps(h)
    /\ ~SameCommitSubmitted(h)
    /\ \/ Status(h) = "absent"
       \/ Status(h) = "failed" /\ h \in Resubmittable
    /\ BeginHandler(h)

(* ensure_source_ref (and the PR's Git authors): the tag is created once   *)
(* and read back.  A refusal, or a lost answer after the tag was created,  *)
(* ends the handler with 503 and without a row.                            *)
AdmitRetain(h) ==
    /\ admission[h].pc = "retain"
    /\ \/ /\ tags' = tags \cup {h}
          /\ admission' = [admission EXCEPT ![h].pc = "commit"]
          /\ UNCHANGED faults
       \/ /\ Fault
          /\ tags' \in {tags, tags \cup {h}}
          /\ admission' = [admission EXCEPT ![h] = HandlerIdle]
    /\ UNCHANGED <<row, outbox, comments, main, contract, marker, web,
                   resyncDue, recovery, delivery, job, clock>>

(* Seeded fault: the row starts as "pending", as a local job does.         *)
AdmittedRowPending(h) ==
    [status   |-> "pending",
     created  |-> admission[h].at,
     finished |-> 0,
     record   |-> FALSE,
     detail   |-> [contract |-> contract,
                   receipt  |-> admission[h].at,
                   comment  |-> admission[h].old.detail.comment,
                   verdict  |-> "none",
                   snapshot |-> FALSE]]

(* The row as the handler writes it.  A retry keeps the comment it read.   *)
AdmittedRow(h) ==
    [status   |-> "admitting",
     created  |-> admission[h].at,
     finished |-> 0,
     record   |-> FALSE,
     detail   |-> [contract |-> contract,
                   receipt  |-> admission[h].at,
                   comment  |-> admission[h].old.detail.comment,
                   verdict  |-> "none",
                   snapshot |-> FALSE]]

(* One transaction writes the row and schedules its report.  Inserting a   *)
(* row that a resync created meanwhile fails and changes nothing.          *)
AdmitCommit(h) ==
    /\ admission[h].pc = "commit"
    /\ IF admission[h].old.status = "absent" /\ Status(h) # "absent"
       THEN UNCHANGED <<row, outbox>>
       ELSE /\ row' = [row EXCEPT ![h] = AdmittedRow(h)]
            /\ outbox' = [outbox EXCEPT ![h] = Scheduled(@)]
    /\ admission' = [admission EXCEPT ![h] = HandlerIdle]
    /\ UNCHANGED <<comments, tags, main, contract, marker, web, resyncDue,
                   recovery, delivery, job, clock, faults>>

AdmissionStep(h) == AdmitRetain(h) \/ AdmitCommit(h)
==============================================================================
