---------------------------- MODULE RecordSnapshot ---------------------------
(***************************************************************************)
(* publish_record of service/app/record_snapshot.py: the best result's     *)
(* checked root and its records.json entry are committed to the            *)
(* submissions main branch, to which others push as well.  A call reads    *)
(* main, builds a commit on what it read, and moves the branch by an       *)
(* update that GitHub refuses unless it is a fast-forward.  An update      *)
(* whose answer is lost may take effect at any later time, even after the  *)
(* call has returned or its process has died.                              *)
(*                                                                         *)
(* Trees, blobs and commits made before the update are unreferenced until  *)
(* it lands, so building them is part of reading main.                     *)
(***************************************************************************)
EXTENDS Records

CONSTANTS
    Results,      \* verified results that lead when they are decided
    NoResult,
    Contracts,    \* contract fingerprints, numbered as they are deployed
    MaxAttempts,  \* MAX_ATTEMPTS
    MaxPushes,    \* bound: pushes of others to main
    MaxFaults     \* bound: crashes, refusals and lost answers

VARIABLES
    main,        \* the branch: version, registered result, root, others' pushes
    contract,    \* the deployed contract
    lead,        \* the best record in the database
    pending,     \* a newer one whose delivery has not committed yet
    call,        \* the running call of publish_record
    requests,    \* reference updates whose answer was lost, still under way
    confirmed,   \* results for which a call returned without an exception
    faults

vars == <<main, contract, lead, pending, call, requests, confirmed, faults>>

PublicMain == INSTANCE Registry WITH registered    <- main.registered,
                                     contributions <- main.pushes

ASSUME SnapshotAssumption ==
    /\ PublicMain!ResultsOrdered
    /\ Contracts \subseteq Nat
    /\ 1 \in Contracts
    /\ MaxAttempts \in Nat \ {0}
    /\ MaxPushes \in Nat
    /\ MaxFaults \in Nat

(* The commit that main points to; a version stands for its SHA.           *)
Branches == [version : Nat, registered : Results \cup {NoResult},
             root : Results \cup {NoResult}, pushes : Nat]

FirstMain == [version |-> 1, registered |-> NoResult, root |-> NoResult,
              pushes |-> 0]

(* An update of the reference: a commit whose parent is version `base`.    *)
Updates == [base : Nat, result : Results, pushes : Nat]

Calls == [pc : {"idle", "read", "check", "send"},
          result : Results \cup {NoResult},
          attempt : 0 .. MaxAttempts - 1,
          conflict : Nat,    \* conflict_head, 0 if none
          tree : Branches]   \* what the attempt read of main

CallIdle == [pc |-> "idle", result |-> NoResult, attempt |-> 0,
             conflict |-> 0, tree |-> FirstMain]

Fault == faults < MaxFaults /\ faults' = faults + 1

Init ==
    /\ main = FirstMain
    /\ contract = 1
    /\ lead = NoResult
    /\ pending = NoResult
    /\ call = CallIdle
    /\ requests = {}
    /\ confirmed = {}
    /\ faults = 0

(***************************************************************************)
(* The caller: deliveries hold the results lock, so nothing is decided and *)
(* no other call starts while one runs.                                    *)
(***************************************************************************)

(* A result that takes the lead is delivered.                              *)
Decide(r) ==
    /\ call.pc = "idle" /\ pending = NoResult
    /\ r.contract = contract
    /\ lead # NoResult =>
          /\ lead.finished < r.finished
          /\ lead.contract = contract => Leads(r.metric, lead.metric)
    /\ pending' = r
    /\ UNCHANGED <<main, contract, lead, call, requests, confirmed, faults>>

(* Its delivery commits, whether or not its snapshot was published.  Until *)
(* then the database has the older lead, whose report may be retried.      *)
Commit ==
    /\ call.pc = "idle" /\ pending # NoResult
    /\ lead' = pending
    /\ pending' = NoResult
    /\ UNCHANGED <<main, contract, call, requests, confirmed, faults>>

CallStart(r) ==
    /\ call.pc = "idle"
    /\ r \in {lead, pending} \ {NoResult}
    /\ r.contract = contract
    /\ call' = [CallIdle EXCEPT !.pc = "read", !.result = r]
    /\ UNCHANGED <<main, contract, lead, pending, requests, confirmed, faults>>

(***************************************************************************)
(* One attempt                                                             *)
(***************************************************************************)
Return ==
    /\ confirmed' = confirmed \cup {call.result}
    /\ call' = CallIdle

Raise == call' = CallIdle /\ UNCHANGED confirmed

AlreadyCurrent == main.registered = call.result /\ main.root = call.result

RegistryKept ==
    /\ main.registered \notin {NoResult, call.result}
    /\ PublicMain!Superseded(main.registered, call.result)

(* Main is read.  The branch that refused the last update is not tried     *)
(* again while it has not moved; a registry that names this result, or a   *)
(* better one, needs no update; else a commit is built on what was read.   *)
CallRead ==
    /\ call.pc = "read"
    /\ \/ /\ main.version = call.conflict
          /\ Raise
       \/ /\ main.version # call.conflict
          /\ AlreadyCurrent \/ RegistryKept
          /\ Return
       \/ /\ main.version # call.conflict
          /\ ~AlreadyCurrent /\ ~RegistryKept
          /\ call' = [call EXCEPT !.pc = "check", !.tree = main]
          /\ UNCHANGED confirmed
    /\ UNCHANGED <<main, contract, lead, pending, requests, faults>>

(* The contract is looked at once more before the branch is moved.         *)
CallCheck ==
    /\ call.pc = "check"
    /\ IF call.result.contract = contract
       THEN call' = [call EXCEPT !.pc = "send"] /\ UNCHANGED confirmed
       ELSE Raise
    /\ UNCHANGED <<main, contract, lead, pending, requests, faults>>

Update == [base   |-> call.tree.version, result |-> call.result,
           pushes |-> call.tree.pushes]

(* Seeded fault: the update is sent with "force": true.                    *)
FastForwardForced(u) == TRUE

FastForward(u) == u.base = main.version

(* GitHub moves the branch, unless it is no fast-forward.                  *)
Landed(u) ==
    IF FastForward(u)
    THEN [version |-> main.version + 1, registered |-> u.result,
          root |-> u.result, pushes |-> u.pushes]
    ELSE main

(* Seeded fault: one attempt too many.                                     *)
RetryOnceMore(refused) ==
    IF call.attempt = MaxAttempts THEN Raise
    ELSE /\ call' = [call EXCEPT !.pc = "read", !.attempt = @ + 1,
                                 !.conflict = IF refused THEN call.tree.version
                                                         ELSE @]
         /\ UNCHANGED confirmed

(* The next attempt, or the end of the loop.                               *)
Retry(refused) ==
    IF call.attempt + 1 = MaxAttempts THEN Raise
    ELSE /\ call' = [call EXCEPT !.pc = "read", !.attempt = @ + 1,
                                 !.conflict = IF refused THEN call.tree.version
                                                         ELSE @]
         /\ UNCHANGED confirmed

(* The update is answered: done, or refused because the branch has moved.  *)
CallSend ==
    /\ call.pc = "send"
    /\ main' = Landed(Update)
    /\ IF FastForward(Update) THEN Return ELSE Retry(TRUE)
    /\ UNCHANGED <<contract, lead, pending, requests, faults>>

(* Seeded fault: a lost answer counts as success.                          *)
AfterLostAnswerReturn == Return

(* TransportError: main is read again, except after the last attempt.      *)
AfterLostAnswer == Retry(FALSE)

(* No answer comes, and the update may still be under way.                 *)
CallLost ==
    /\ call.pc = "send"
    /\ Fault
    /\ requests' = requests \cup {Update}
    /\ AfterLostAnswer
    /\ UNCHANGED <<main, contract, lead, pending>>

(* A branch rule refuses the update although the branch has not moved.     *)
CallRefused ==
    /\ call.pc = "send"
    /\ Fault
    /\ Retry(TRUE)
    /\ UNCHANGED <<main, contract, lead, pending, requests>>

(* Any other error, or the death of the process, ends the call anywhere;   *)
(* an update that was sent may still be under way.                         *)
CallAbort ==
    /\ call.pc # "idle"
    /\ Fault
    /\ Raise
    /\ requests' \in IF call.pc = "send" THEN {requests, requests \cup {Update}}
                                         ELSE {requests}
    /\ UNCHANGED <<main, contract, lead, pending>>

(***************************************************************************)
(* GitHub and the other writers                                            *)
(***************************************************************************)

(* An update that was given up reaches the branch after all, or is lost.   *)
LateUpdate(u) ==
    /\ u \in requests
    /\ requests' = requests \ {u}
    /\ main' \in {main, Landed(u)}
    /\ UNCHANGED <<contract, lead, pending, call, confirmed, faults>>

(* Somebody else's push, to the checked root or to other files.            *)
Push ==
    /\ main.pushes < MaxPushes
    /\ \E root \in {main.root, NoResult} :
          main' = [main EXCEPT !.version = @ + 1, !.root = root,
                               !.pushes = @ + 1]
    /\ UNCHANGED <<contract, lead, pending, call, requests, confirmed, faults>>

DeployContract ==
    /\ contract + 1 \in Contracts
    /\ contract' = contract + 1
    /\ UNCHANGED <<main, lead, pending, call, requests, confirmed, faults>>

CallStep == CallRead \/ CallCheck \/ CallSend

Next ==
    \/ \E r \in Results : Decide(r)
    \/ Commit
    \/ \E r \in Results : CallStart(r)
    \/ CallRead
    \/ CallCheck
    \/ CallSend
    \/ CallLost
    \/ CallRefused
    \/ CallAbort
    \/ \E u \in requests : LateUpdate(u)
    \/ Push
    \/ DeployContract

Spec == Init /\ [][Next]_vars

(* Deliveries commit, a call goes on, and the outbox retries the report of *)
(* the lead until its snapshot is confirmed.                               *)
Fairness ==
    /\ WF_vars(Commit)
    /\ WF_vars(CallStep)
    /\ WF_vars(lead \notin confirmed /\ CallStart(lead))

FairSpec == Spec /\ Fairness

SnapshotTypeOK ==
    /\ main \in Branches
    /\ contract \in Contracts
    /\ lead \in Results \cup {NoResult}
    /\ pending \in Results \cup {NoResult}
    /\ call \in Calls
    /\ requests \subseteq Updates
    /\ confirmed \subseteq Results
    /\ faults \in 0 .. MaxFaults

(* Main's registry only improves and no push of others is lost, whatever   *)
(* is retried, refused or arrives late: the loop of publish_record         *)
(* implements one atomic update of the registry.                           *)
ImplementsRegistry == PublicMain!RegistrySpec

(* "published", "already_current" and "superseded" tell the truth for      *)
(* ever: once a call returned, records.json names its result or one that   *)
(* supersedes it, so the outbox may forget the report.                     *)
ConfirmedIsSettled ==
    \A r \in confirmed :
        /\ main.registered # NoResult
        /\ main.registered = r \/ PublicMain!Superseded(main.registered, r)

(* When the faults and the pushes end, records.json names the best record  *)
(* of the current contract (service/README: record-snapshot commits also   *)
(* retry through the outbox).                                              *)
LeadIsPublished ==
    <>[](lead # NoResult /\ lead.contract = contract /\ pending = NoResult
         => main.registered = lead)
==============================================================================
