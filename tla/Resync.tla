-------------------------------- MODULE Resync -------------------------------
(***************************************************************************)
(* Recovery from GitHub: service/app/resync.py.  Under the exclusive       *)
(* recovery lock, and behind the persistent marker recovery.incomplete,    *)
(* the bot comments are read back into rows one at a time, then the        *)
(* records are decided again in completion order.  Webhook handlers run    *)
(* on; deliveries and the worker's critical sections do not.               *)
(***************************************************************************)
EXTENDS Ledger

RecoveryIdle == [pc |-> "idle", todo |-> {}, errors |-> FALSE]

Recoveries == [pc : {"idle", "import"}, todo : SUBSET (Heads \X Contracts),
               errors : BOOLEAN]

(* The histories latest_verdicts keeps apart: one per head and contract.   *)
Histories ==
    {hc \in Heads \X Contracts :
        \E i \in DOMAIN comments[hc[1]] : comments[hc[1]][i].contract = hc[2]}

EventTime(e) == IF e.status \in Finished THEN e.finished ELSE e.admitted

IsTerminal(e) == e.status \in Finished

(* Comment i is later than comment j: by event time, then a verdict after  *)
(* a receipt, then the later comment.                                      *)
LaterEntry(h, i, j) ==
    LET a == comments[h][i]
        b == comments[h][j]
    IN \/ EventTime(a) > EventTime(b)
       \/ /\ EventTime(a) = EventTime(b)
          /\ \/ IsTerminal(a) /\ ~IsTerminal(b)
             \/ (IsTerminal(a) <=> IsTerminal(b)) /\ i >= j

(* latest_verdicts: the comment that speaks for h under contract c.        *)
Latest(h, c) ==
    LET ids == {i \in DOMAIN comments[h] : comments[h][i].contract = c}
    IN CHOOSE i \in ids : \A j \in ids : LaterEntry(h, i, j)

(* The durable event is strictly newer than the row: never from an earlier *)
(* admission, never over a running job, and over a finished row only with  *)
(* a later completion or a receipt admitted after it.                      *)
Accepts(h, e) ==
    \/ Status(h) = "absent"
    \/ /\ e.admitted >= row[h].detail.receipt
       /\ IsTerminal(e) => /\ e.finished >= row[h].detail.receipt
                           /\ e.finished >= row[h].finished
       /\ IF IsTerminal(e)
          THEN \/ Status(h) \in Finished /\ e.finished > row[h].finished
               \/ Status(h) \in {"pending", "admitting", "publishing"}
          ELSE \/ Status(h) = "admitting"
               \/ Status(h) \in Finished /\ e.admitted > row[h].finished

Restored(e, i) ==
    [status   |-> e.status,
     created  |-> e.admitted,
     finished |-> IF IsTerminal(e) THEN e.finished ELSE 0,
     record   |-> FALSE,
     detail   |-> [contract |-> e.contract, receipt |-> e.admitted,
                   comment |-> i, verdict |-> "none", snapshot |-> FALSE]]

(* The lock is taken and the marker left on disk before anything is read.  *)
(* The web process does this once when it starts; while the marker stands  *)
(* an operator may run it again.                                           *)
ResyncBegin ==
    /\ web = "up"
    /\ resyncDue \/ marker
    /\ ~Recovering /\ ResultsFree
    /\ marker' = TRUE
    /\ resyncDue' = FALSE
    /\ recovery' = [pc |-> "import", todo |-> Histories, errors |-> FALSE]
    /\ UNCHANGED <<row, outbox, comments, tags, main, contract, web, admission,
                   delivery, job, clock, faults>>

(* One history: GitHub cannot be read, or a receipt's tag is not there     *)
(* (both are errors), or the row is restored if the event is newer.        *)
ResyncImport(h, c) ==
    /\ recovery.pc = "import"
    /\ <<h, c>> \in recovery.todo
    /\ LET i == Latest(h, c)
           e == comments[h][i]
           unread == recovery' = [recovery EXCEPT !.todo = @ \ {<<h, c>>},
                                                  !.errors = TRUE]
       IN \/ Fault /\ unread /\ UNCHANGED row
          \/ /\ e.status = "pending" /\ h \notin tags
             /\ unread /\ UNCHANGED <<row, faults>>
          \/ /\ e.status = "pending" => h \in tags
             /\ recovery' = [recovery EXCEPT !.todo = @ \ {<<h, c>>}]
             /\ row' = IF Accepts(h, e)
                       THEN [row EXCEPT ![h] = Restored(e, i)]
                       ELSE row
             /\ UNCHANGED faults
    /\ UNCHANGED <<outbox, comments, tags, main, contract, marker, web,
                   resyncDue, admission, delivery, job, clock>>

(***************************************************************************)
(* replay_records and reconcile_record_snapshots                           *)
(***************************************************************************)
Candidates == {h \in Heads : Status(h) = "verified" /\ Current(row[h])}


(* Each head is compared with the records that finished before it.         *)
IsReplay(R) ==
    \A h \in Candidates :
        h \in R <=> Improves(MetricsOf({k \in R : row[k].finished < row[h].finished}),
                             Metric[h])

Replayed == CHOOSE R \in SUBSET Candidates : IsReplay(R)

WithRecords(R) ==
    [h \in Heads |-> IF h \in Candidates THEN [row[h] EXCEPT !.record = h \in R]
                                         ELSE row[h]]

(* current_record: the best of the records by score, then by size.         *)
BestOf(R) ==
    {h \in R : \A k \in R \ {h} : Leads(Metric[h], Metric[k])}

(* Seeded fault: a history that could not be read is passed over.          *)
ErrorsIgnored == FALSE

(* What _resync returned lists errors.                                     *)
RestoreFailed == recovery.errors

(* The records are replayed; if nothing went wrong, the best record is     *)
(* reported again unless its snapshot is known, and the marker is removed. *)
ResyncEnd ==
    /\ recovery.pc = "import"
    /\ recovery.todo = {}
    /\ LET R == Replayed
       IN /\ row' = WithRecords(R)
          /\ IF RestoreFailed
             THEN UNCHANGED <<outbox, marker>>
             ELSE /\ outbox' = [h \in Heads |->
                        IF h \in BestOf(R) /\ ~row[h].detail.snapshot
                        THEN Scheduled(outbox[h]) ELSE outbox[h]]
                  /\ marker' = FALSE
    /\ recovery' = RecoveryIdle
    /\ UNCHANGED <<comments, tags, main, contract, web, resyncDue, admission,
                   delivery, job, clock, faults>>

ResyncStep ==
    \/ ResyncBegin
    \/ \E h \in Heads, c \in Contracts : ResyncImport(h, c)
    \/ ResyncEnd
==============================================================================
