-------------------------------- MODULE Worker -------------------------------
(***************************************************************************)
(* The verifier worker: work_loop and process of service/app/worker.py.    *)
(* One process at a time holds the worker lock.  It picks the oldest       *)
(* pending head, marks it "verifying" under the locks, runs the pipeline   *)
(* with no lock held, and stores the result under the locks.               *)
(***************************************************************************)
EXTENDS Ledger

WorkerDown == [pc |-> "down", head |-> NoHead, epoch |-> 0]
WorkerIdle == [pc |-> "idle", head |-> NoHead, epoch |-> 0]

Jobs == [pc : {"down", "idle", "picked", "running"},
         head : Heads \cup {NoHead}, epoch : Contracts \cup {0}]

(* Seeded fault: results that wait for their comment do not hold jobs up.  *)
PublishingIgnored == FALSE

Publishing == \E k \in Heads : Status(k) = "publishing"

(* Seeded fault: interrupted jobs are left as they are.                    *)
RequeuedNever == [h \in Heads |-> row[h]]

(* Startup: jobs that a dead worker left "verifying" are queued again.     *)
Requeued == [h \in Heads |->
    IF Status(h) = "verifying" THEN [row[h] EXCEPT !.status = "pending"]
                               ELSE row[h]]

WorkerStart ==
    /\ job.pc = "down"
    /\ row' = Requeued
    /\ job' = WorkerIdle
    /\ UNCHANGED <<outbox, comments, tags, main, contract, marker, web,
                   resyncDue, recovery, admission, delivery, clock, faults>>

(* The loop's query, in a session of its own: nothing while a result waits *)
(* for its comment or recovery is incomplete, else the oldest pending.     *)
WorkerPick(h) ==
    /\ job.pc = "idle"
    /\ ~Publishing /\ ~marker
    /\ Status(h) = "pending"
    /\ \A k \in Heads : Status(k) = "pending" => row[h].created <= row[k].created
    /\ job' = [WorkerIdle EXCEPT !.pc = "picked", !.head = h]
    /\ UNCHANGED <<row, outbox, comments, tags, main, contract, marker, web,
                   resyncDue, recovery, admission, delivery, clock, faults>>

MayBegin(h) ==
    /\ ~marker
    /\ ~Publishing
    /\ Status(h) = "pending"

(* process, first critical section.                                        *)
ProcessBegin ==
    /\ job.pc = "picked"
    /\ ~Recovering /\ ResultsFree
    /\ IF MayBegin(job.head)
       THEN /\ row' = [row EXCEPT ![job.head].status = "verifying"]
            /\ job' = [job EXCEPT !.pc = "running", !.epoch = contract]
       ELSE /\ job' = WorkerIdle
            /\ UNCHANGED row
    /\ UNCHANGED <<outbox, comments, tags, main, contract, marker, web,
                   resyncDue, recovery, admission, delivery, clock, faults>>

(* What the pipeline and the checks after it can make of the head: nothing *)
(* but "failed" if the contract is not the one the head was queued under,  *)
(* and never "verified" if the contract changed during the run.            *)
Results ==
    IF row[job.head].detail.contract # job.epoch THEN {"failed"}
    ELSE IF contract # job.epoch THEN {"rejected", "failed"}
    ELSE {"verified", "rejected", "failed"}

(* process, last critical section: the verdict waits as publication_status *)
(* until its comment is durable.  It does not look at the marker, and it   *)
(* does not look at the row's status again.                                *)
ProcessFinish ==
    /\ job.pc = "running"
    /\ ~Recovering /\ ResultsFree
    /\ \E now \in Readings, result \in Results :
          LET h == job.head
          IN /\ row' = [row EXCEPT ![h].status         = "publishing",
                                   ![h].finished       = NextFinishTime(now),
                                   ![h].record         = FALSE,
                                   ![h].detail.verdict = result]
             /\ outbox' = [outbox EXCEPT ![h] = Scheduled(@)]
             /\ clock' = Later(clock, NextFinishTime(now))
    /\ job' = WorkerIdle
    /\ UNCHANGED <<comments, tags, main, contract, marker, web, resyncDue,
                   recovery, admission, delivery, faults>>

(* The worker dies, or is stopped: SIGTERM unwinds out of the pipeline.    *)
WorkerCrash ==
    /\ job.pc # "down"
    /\ Fault
    /\ job' = WorkerDown
    /\ UNCHANGED <<row, outbox, comments, tags, main, contract, marker, web,
                   resyncDue, recovery, admission, delivery, clock>>

WorkerStep ==
    \/ WorkerStart
    \/ \E h \in Heads : WorkerPick(h)
    \/ ProcessBegin
    \/ ProcessFinish
==============================================================================
