----------------------------- MODULE Competition -----------------------------
(***************************************************************************)
(* What the service promises to the competitors, with no database, no      *)
(* GitHub, no worker and no failure in it: a head is admitted, is decided  *)
(* once, and is a record exactly if it improved on the records that stood  *)
(* when it was decided.  A head whose check failed for reasons of its      *)
(* infrastructure may be admitted again; every other verdict is final.     *)
(* The contract that heads are checked against changes from time to time:  *)
(* a season is the reign of one contract, and each starts with no record.  *)
(*                                                                         *)
(* Service.tla is the system that implements this specification; its       *)
(* ImplementsCompetition property is the claim that it does.               *)
(***************************************************************************)
EXTENDS Records

CONSTANTS
    Heads,    \* submissions: a commit admitted through one pull request
    Metric,   \* what the verifier measures of each head, if it verifies
    Seasons   \* the contracts, numbered as they are deployed

ASSUME CompetitionAssumption ==
    /\ Metric \in [Heads -> Metrics]
    /\ Seasons \subseteq Nat \ {0}
    /\ 1 \in Seasons

VARIABLES
    verdict,   \* verdict[h]: "none", "open", or the published verdict
    entered,   \* entered[h]: the season h was last admitted in, 0 if never
    records,   \* the heads whose published verdict makes them a record now
    season

competition == <<verdict, entered, records, season>>

Verdicts == {"verified", "rejected", "failed"}

(* The types, and that a head is bound to a contract from its first        *)
(* admission on: there is no row, and no public receipt, without one.      *)
CompetitionTypeOK ==
    /\ verdict \in [Heads -> {"none", "open"} \cup Verdicts]
    /\ entered \in [Heads -> Seasons \cup {0}]
    /\ records \subseteq Heads
    /\ season \in Seasons
    /\ \A h \in Heads : entered[h] = 0 <=> verdict[h] = "none"

CompetitionInit ==
    /\ verdict = [h \in Heads |-> "none"]
    /\ entered = [h \in Heads |-> 0]
    /\ records = {}
    /\ season = 1

(* Seeded fault: the row is queued without the contract it is checked for. *)
SubmitWithoutContract(h) ==
    /\ verdict[h] \in {"none", "failed"}
    /\ verdict' = [verdict EXCEPT ![h] = "open"]
    /\ UNCHANGED <<entered, records, season>>

(* A head enters, or a failed head enters again.                           *)
Submit(h) ==
    /\ verdict[h] \in {"none", "failed"}
    /\ verdict' = [verdict EXCEPT ![h] = "open"]
    /\ entered' = [entered EXCEPT ![h] = season]
    /\ UNCHANGED <<records, season>>

RecordMetrics == {Metric[r] : r \in records}

(* A verdict is published, and with it whether the head is a record.       *)
Decide(h, v) ==
    /\ verdict[h] = "open"
    /\ verdict' = [verdict EXCEPT ![h] = v]
    /\ records' = IF /\ v = "verified"
                     /\ entered[h] = season
                     /\ Improves(RecordMetrics, Metric[h])
                  THEN records \cup {h}
                  ELSE records
    /\ UNCHANGED <<entered, season>>

(* Seeded fault: the records of the last contract are carried over.        *)
NewSeasonKeepsRecords ==
    /\ season + 1 \in Seasons
    /\ season' = season + 1
    /\ UNCHANGED <<verdict, entered, records>>

(* A new contract: its records start from nothing.                         *)
NewSeason ==
    /\ season + 1 \in Seasons
    /\ season' = season + 1
    /\ records' = {}
    /\ UNCHANGED <<verdict, entered>>

CompetitionNext ==
    \/ \E h \in Heads : Submit(h)
    \/ \E h \in Heads, v \in Verdicts : Decide(h, v)
    \/ NewSeason

CompetitionSpec == CompetitionInit /\ [][CompetitionNext]_competition

(***************************************************************************)
(* Properties of the rule itself.                                          *)
(***************************************************************************)

Verified == {h \in Heads : verdict[h] = "verified" /\ entered[h] = season}

(* A record is a head that was verified under the contract it was admitted *)
(* under, while that contract is the deployed one: neither a resubmission  *)
(* nor a late verdict of the last season leaves another head among them.   *)
RecordsAreVerified == records \subseteq Verified

(* Although a head is compared with the records only, never with the other *)
(* verified heads, no verified head is left without a record that is as    *)
(* good in both coordinates: worker.promote loses no point of the board's  *)
(* Pareto frontier.                                                        *)
RecordsCoverVerified ==
    \A h \in Verified : \E r \in records : Covers(Metric[r], Metric[h])

(* The lowest score of all verified heads is held by a record, so the best *)
(* record the home page and records.json name is the best result checked.  *)
BestScoreIsRecord ==
    \A h \in Verified : \E r \in records : Score(Metric[r]) <= Score(Metric[h])

(* No result is a record twice: a later copy of a record's metrics, even   *)
(* from another author, is never one (records.improves).                   *)
NoDuplicateRecord ==
    \A r, s \in records : Metric[r] = Metric[s] => r = s

(* What docs/repositories.md says a record is: a verified head whose score *)
(* strictly improves the track's record.                                   *)
RecordsImproveTheScore ==
    [][\A h \in records' \ records :
          \A r \in records : Score(Metric[h]) < Score(Metric[r])]_competition
==============================================================================
