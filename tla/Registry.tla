------------------------------- MODULE Registry ------------------------------
(***************************************************************************)
(* The submissions main branch as its readers may see it: records.json     *)
(* names one result of the track, and others contribute to the rest of the *)
(* branch.  A registered result gives way only to a later one, and under   *)
(* the same contract only to one that strictly leads; no contribution is   *)
(* ever lost.  RecordSnapshot is the protocol that implements this with    *)
(* GitHub's reference updates.                                             *)
(***************************************************************************)
EXTENDS Records

CONSTANTS
    Results,   \* verified results: metric, contract and completion time
    NoResult   \* an empty registry

(* Completion times are distinct (next_finish_time), and a result of a     *)
(* later contract completes later: a contract must hold for a whole run.   *)
ResultsOrdered ==
    /\ Results \subseteq [metric : Metrics, contract : Nat, finished : Nat]
    /\ NoResult \notin Results
    /\ \A a, b \in Results : a.finished = b.finished => a = b
    /\ \A a, b \in Results : a.contract < b.contract => a.finished < b.finished

VARIABLES
    registered,    \* the result that records.json names
    contributions  \* how many pushes of others the branch contains

registry == <<registered, contributions>>

(* Seeded fault: any result of the same contract stays.                    *)
SupersededByAny(old, new) ==
    \/ old.finished >= new.finished
    \/ old.contract = new.contract

(* _superseded: the old result is the later event, or has the better score *)
(* under the same contract.                                                *)
Superseded(old, new) ==
    \/ old.finished >= new.finished
    \/ old.contract = new.contract /\ ~Leads(new.metric, old.metric)

Replaces(new, old) == old = NoResult \/ ~Superseded(old, new)

RegistryInit == registered = NoResult /\ contributions = 0

Register(r) ==
    /\ Replaces(r, registered)
    /\ registered' = r
    /\ UNCHANGED contributions

Contribute ==
    /\ contributions' = contributions + 1
    /\ UNCHANGED registered

RegistryNext == Contribute \/ \E r \in Results : Register(r)

RegistrySpec == RegistryInit /\ [][RegistryNext]_registry
==============================================================================
