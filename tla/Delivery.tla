------------------------------- MODULE Delivery ------------------------------
(***************************************************************************)
(* The report loop of the web process: deliver_durable_report, report and  *)
(* publish_comment of service/app/worker.py, and what publish_record of    *)
(* service/app/record_snapshot.py does to the submissions main branch.     *)
(* One delivery runs at a time; it holds the shared recovery lock and the  *)
(* results lock from its first read to its commit.                         *)
(*                                                                         *)
(* A database session here reads with one SELECT at a time and opens a     *)
(* transaction at its first write (the SQLite driver's default), so the    *)
(* second read and the commit of a delivery are separate steps.            *)
(***************************************************************************)
EXTENDS Ledger

DeliveryIdle ==
    [pc       |-> "idle",
     head     |-> NoHead,
     version  |-> 0,           \* the outbox version read first
     orig     |-> "absent",    \* the status read first
     known    |-> 0,           \* the comment id read first
     body     |-> NoEntry,     \* what the comment is to say
     lead     |-> FALSE,       \* publish_snapshot
     cid      |-> 0,           \* the comment GitHub confirmed
     snapshot |-> FALSE,       \* the detached copy carries record_snapshot
     error    |-> FALSE,
     seen     |-> [version |-> 0, status |-> "absent", detail |-> NoDetail]]

Deliveries ==
    [pc : {"idle", "comment", "supplement", "reread", "commit"},
     head : Heads \cup {NoHead}, version : Nat, orig : Statuses,
     known : Nat, body : Entries, lead : BOOLEAN, cid : Nat,
     snapshot : BOOLEAN, error : BOOLEAN,
     seen : [version : Nat, status : Statuses, detail : Details]]

(* Seeded fault: the row's own status is reported.                         *)
ReportedStatusRaw(r) == r.status

(* reported_status, with verdict_entry's rule that a running job is still  *)
(* reported by its pending receipt.                                        *)
ReportedStatus(r) ==
    CASE r.status \in {"admitting", "pending", "verifying"} -> "pending"
      [] r.status = "publishing" -> r.detail.verdict
      [] OTHER -> r.status

(* A tentative promotion stays on the detached copy.                       *)
ReportedRecord(h) ==
    IF Status(h) = "publishing"
    THEN Promotes(h, ReportedStatus(row[h]))
    ELSE row[h].record

(* verdict_entry *)
Entry(h) == [status   |-> ReportedStatus(row[h]),
             admitted |-> row[h].detail.receipt,
             finished |-> row[h].finished,
             record   |-> ReportedRecord(h),
             contract |-> row[h].detail.contract]

(* publish_snapshot: only the track's best score may update main.          *)
MayPublishSnapshot(h) ==
    /\ Entry(h).status = "verified"
    /\ Entry(h).record
    /\ Current(row[h])
    /\ TakesLead(h)

DeliverStart(h) ==
    /\ web = "up" /\ ~Recovering /\ ~marker
    /\ ResultsFree
    /\ outbox[h] # 0
    /\ Status(h) # "absent"
    /\ delivery' = [DeliveryIdle EXCEPT
                       !.pc       = "comment",
                       !.head     = h,
                       !.version  = outbox[h],
                       !.orig     = Status(h),
                       !.known    = row[h].detail.comment,
                       !.body     = Entry(h),
                       !.lead     = MayPublishSnapshot(h),
                       !.snapshot = row[h].detail.snapshot]
    /\ UNCHANGED <<row, outbox, comments, tags, main, contract, marker, web,
                   resyncDue, recovery, admission, job, clock, faults>>

(* publish_comment: the known comment is edited, or one is posted.         *)
CommentId ==
    IF delivery.known # 0 THEN delivery.known
                          ELSE Len(comments[delivery.head]) + 1

WithComment ==
    [comments EXCEPT ![delivery.head] =
        IF delivery.known # 0
        THEN [@ EXCEPT ![delivery.known] = delivery.body]
        ELSE Append(@, delivery.body)]

(* Seeded fault: the exception of a failed comment is swallowed.           *)
AfterCommentErrorSwallowed == "supplement"

(* Without a confirmed comment nothing more is published.                  *)
AfterCommentError == "reread"

(* GitHub confirms the comment, or answers with an error, or its answer is *)
(* lost after the comment was written.  Assumption: a request whose answer *)
(* is lost takes effect before the next one about the same head or never.  *)
(* After an error the outbox waits at least a minute for the next one;     *)
(* after a crash or a resubmission nothing waits.                          *)
DeliverComment ==
    /\ delivery.pc = "comment"
    /\ \/ /\ comments' = WithComment
          /\ delivery' = [delivery EXCEPT !.pc = "supplement",
                                          !.cid = CommentId]
          /\ UNCHANGED faults
       \/ /\ Fault
          /\ comments' \in {comments, WithComment}
          /\ delivery' = [delivery EXCEPT !.pc = AfterCommentError,
                                          !.error = TRUE]
    /\ UNCHANGED <<row, outbox, tags, main, contract, marker, web, resyncDue,
                   recovery, admission, job, clock>>

(* _superseded: the registered record is the later event, or the better    *)
(* score of the same contract.                                             *)
Superseded(old, new) ==
    \/ old.finished >= new.finished
    \/ /\ old.contract = new.contract
       /\ ~Leads(Metric[new.head], Metric[old.head])

NoRegistry == [head |-> NoHead, finished |-> 0, contract |-> 0]

(* Seeded fault: the entry carries the time of the admission.              *)
RegistryOfReceipt == [head     |-> delivery.head,
                      finished |-> delivery.body.admitted,
                      contract |-> delivery.body.contract]

Registry == [head     |-> delivery.head,
             finished |-> delivery.body.finished,
             contract |-> delivery.body.contract]

(* publish_record: main after the call.                                    *)
MainAfter ==
    IF main.head \in {NoHead, delivery.head}
    THEN Registry
    ELSE IF Superseded(main, Registry) THEN main ELSE Registry

(* The same submission is registered with another completion time.         *)
RegistryConflict == main.head = delivery.head /\ main # Registry

(* After a confirmed comment: the record snapshot if the head leads, then  *)
(* the commit status.  Historical contracts get neither.  Any of the calls *)
(* may fail, before or after its effect; the comment stays confirmed.      *)
DeliverSupplement ==
    /\ delivery.pc = "supplement"
    /\ LET publish == delivery.lead /\ delivery.body.contract = contract
       IN \/ /\ ~(publish /\ RegistryConflict)
             /\ main' = IF publish THEN MainAfter ELSE main
             /\ delivery' = [delivery EXCEPT !.pc = "reread",
                                             !.snapshot = @ \/ publish]
             /\ UNCHANGED faults
          \/ /\ publish /\ RegistryConflict
             /\ delivery' = [delivery EXCEPT !.pc = "reread", !.error = TRUE]
             /\ UNCHANGED <<main, faults>>
          \/ /\ Fault
             /\ delivery.body.contract = contract
             /\ \/ /\ UNCHANGED main
                   /\ delivery' = [delivery EXCEPT !.pc = "reread",
                                                   !.error = TRUE]
                \/ /\ publish /\ ~RegistryConflict
                   /\ main' = MainAfter
                   /\ \E confirmed \in BOOLEAN :
                         delivery' = [delivery EXCEPT !.pc = "reread",
                                                      !.error = TRUE,
                                                      !.snapshot = @ \/ confirmed]
    /\ UNCHANGED <<row, outbox, comments, tags, contract, marker, web,
                   resyncDue, recovery, admission, job, clock>>

(* expire_all: the outbox row and the submission are read again.           *)
DeliverReread ==
    /\ delivery.pc = "reread"
    /\ delivery' =
          IF outbox[delivery.head] = 0 \/ Status(delivery.head) = "absent"
          THEN DeliveryIdle
          ELSE [delivery EXCEPT
                   !.pc   = "commit",
                   !.seen = [version |-> outbox[delivery.head],
                             status  |-> Status(delivery.head),
                             detail  |-> row[delivery.head].detail]]
    /\ UNCHANGED <<row, outbox, comments, tags, main, contract, marker, web,
                   resyncDue, recovery, admission, job, clock, faults>>

Published == delivery.cid # 0

SameVersion == delivery.seen.version = delivery.version

(* Seeded fault: the row advances although no comment was confirmed.       *)
AdvancesUnpublished == /\ SameVersion
                       /\ delivery.seen.status = delivery.orig
                       /\ delivery.orig \in {"admitting", "publishing"}

(* The delivered report lets the row advance.                              *)
Advances == /\ SameVersion
            /\ Published
            /\ delivery.seen.status = delivery.orig
            /\ delivery.orig \in {"admitting", "publishing"}

(* Seeded fault: a delivery that confirmed no comment clears the outbox.   *)
SettledUnpublished == SameVersion

(* Seeded fault: an error after the comment clears the outbox.             *)
SettledOnError == SameVersion /\ Published

(* The report is done: it leaves the outbox.                               *)
Settled == SameVersion /\ Published /\ ~delivery.error

(* Seeded fault: a snapshot that was asked for is taken for published.     *)
DetailAfterUnconfirmed ==
    [delivery.seen.detail EXCEPT
        !.comment  = IF Published THEN delivery.cid ELSE @,
        !.snapshot = @ \/ (SameVersion /\ (delivery.snapshot \/ delivery.lead)),
        !.verdict  = IF Advances /\ delivery.orig = "publishing"
                     THEN "none" ELSE @]

DetailAfter ==
    [delivery.seen.detail EXCEPT
        !.comment  = IF Published THEN delivery.cid ELSE @,
        !.snapshot = @ \/ (SameVersion /\ delivery.snapshot),
        !.verdict  = IF Advances /\ delivery.orig = "publishing"
                     THEN "none" ELSE @]

(* A changed detail is written as a whole; the other columns are written   *)
(* only if the report advanced the row.  An undelivered report stays in    *)
(* the outbox, to be retried after its backoff.                            *)
DeliverCommit ==
    /\ delivery.pc = "commit"
    /\ LET h == delivery.head
           r == [row[h] EXCEPT !.detail = IF DetailAfter = delivery.seen.detail
                                          THEN @ ELSE DetailAfter]
       IN /\ row' = [row EXCEPT ![h] =
                CASE Advances /\ delivery.orig = "admitting" ->
                       [r EXCEPT !.status = "pending"]
                  [] Advances /\ delivery.orig = "publishing" ->
                       [r EXCEPT !.status = delivery.body.status,
                                 !.record = delivery.body.record]
                  [] OTHER -> r]
          /\ outbox' = IF Settled THEN [outbox EXCEPT ![h] = 0] ELSE outbox
    /\ delivery' = DeliveryIdle
    /\ UNCHANGED <<comments, tags, main, contract, marker, web, resyncDue,
                   recovery, admission, job, clock, faults>>

DeliveryStep == DeliverComment \/ DeliverSupplement \/ DeliverReread \/ DeliverCommit
==============================================================================
