------------------------- MODULE Competition_proofs --------------------------
(***************************************************************************)
(* The record rule, proved for any heads, metrics and seasons.             *)
(*                                                                         *)
(* records.improves compares a head with the records only, and asks two    *)
(* questions of them.  ImprovesIffUncovered is why that is enough: the     *)
(* answer is yes exactly if no record is as good in both coordinates, so   *)
(* the records cover every verified head, by induction over the decisions. *)
(***************************************************************************)
EXTENDS Competition, TLAPS

(* A product of naturals grows with its factors.                           *)
LEMMA ProductMonotone ==
    ASSUME NEW a \in Nat, NEW b \in Nat, NEW c \in Nat, NEW d \in Nat,
           a <= c, b <= d
    PROVE  a * b <= c * d
<1>1. a * b <= c * b
    <2>1. PICK k \in Nat : c = a + k
        BY c - a \in Nat
    <2>2. c * b = a * b + k * b
        BY <2>1
    <2>3. k * b \in Nat /\ a * b \in Nat
        OBVIOUS
    <2> QED
        BY <2>2, <2>3
<1>2. c * b <= c * d
    <2>1. PICK k \in Nat : d = b + k
        BY d - b \in Nat
    <2>2. c * d = c * b + c * k
        BY <2>1
    <2>3. c * k \in Nat /\ c * b \in Nat
        OBVIOUS
    <2> QED
        BY <2>2, <2>3
<1>3. a * b \in Nat /\ c * b \in Nat /\ c * d \in Nat
    OBVIOUS
<1> QED
    BY <1>1, <1>2, <1>3

(* Being at least as good in both coordinates is being at least as good in *)
(* score (records.improves relies on it when it asks two questions).       *)
LEMMA CoversScore ==
    ASSUME NEW o \in Metrics, NEW m \in Metrics, Covers(o, m)
    PROVE  Score(o) <= Score(m)
<1> o.sigma \in Nat /\ o.hverify \in Nat /\ m.sigma \in Nat /\ m.hverify \in Nat
    BY DEF Metrics
<1> QED
    BY ProductMonotone DEF Covers, Score

(* A head improves on the records exactly if no record covers it: the      *)
(* test for an exact duplicate and the comparison of scores in             *)
(* records.improves never change the answer of the frontier test.          *)
THEOREM ImprovesIffUncovered ==
    ASSUME NEW existing \in SUBSET Metrics, NEW m \in Metrics
    PROVE  Improves(existing, m) <=> ~ \E o \in existing : Covers(o, m)
<1>1. ASSUME m \in existing
      PROVE  Covers(m, m)
    BY DEF Covers, Metrics
<1>2. ASSUME NEW o \in existing, Covers(o, m)
      PROVE  ~ Score(m) < Score(o)
    <2>1. Score(o) <= Score(m)
        BY <1>2, CoversScore
    <2>2. Score(o) \in Nat /\ Score(m) \in Nat
        BY DEF Score, Metrics
    <2> QED
        BY <2>1, <2>2
<1> QED
    BY <1>1, <1>2 DEF Improves

(***************************************************************************)
(* The competition                                                         *)
(***************************************************************************)

(* No head was admitted in a season that has not begun.                    *)
EnteredSoFar == \A h \in Heads : entered[h] <= season

CompetitionInv ==
    /\ CompetitionTypeOK
    /\ EnteredSoFar
    /\ RecordsAreVerified
    /\ RecordsCoverVerified
    /\ NoDuplicateRecord

LEMMA CompetitionInitInv == CompetitionInit => CompetitionInv
BY CompetitionAssumption
   DEF CompetitionInit, CompetitionInv, CompetitionTypeOK, EnteredSoFar,
       RecordsAreVerified, RecordsCoverVerified, NoDuplicateRecord, Verified,
       Verdicts

(* Admission of a head that is not verified, and so not a record.          *)
LEMMA SubmitKeepsInv ==
    ASSUME CompetitionInv, NEW h \in Heads, Submit(h)
    PROVE  CompetitionInv'
<1> USE DEF CompetitionInv
<1>1. CompetitionTypeOK'
    <2> season \in Seasons /\ season # 0
        BY CompetitionAssumption DEF CompetitionTypeOK
    <2>1. /\ verdict' \in [Heads -> {"none", "open"} \cup Verdicts]
          /\ entered' \in [Heads -> Seasons \cup {0}]
          /\ records' \subseteq Heads
          /\ season' \in Seasons
        BY DEF CompetitionTypeOK, Submit
    <2>2. \A k \in Heads : entered'[k] = 0 <=> verdict'[k] = "none"
        BY DEF CompetitionTypeOK, Submit
    <2> QED
        BY <2>1, <2>2 DEF CompetitionTypeOK
<1>2. EnteredSoFar'
    BY CompetitionAssumption DEF CompetitionTypeOK, EnteredSoFar, Submit
<1>3. Verified' = Verified
    BY DEF CompetitionTypeOK, Verified, Submit
<1>4. records' = records
    BY DEF Submit
<1>5. RecordsAreVerified'
    BY <1>3, <1>4 DEF RecordsAreVerified
<1>6. RecordsCoverVerified'
    BY <1>3, <1>4 DEF RecordsCoverVerified
<1>7. NoDuplicateRecord'
    BY <1>4 DEF NoDuplicateRecord
<1> QED
    BY <1>1, <1>2, <1>5, <1>6, <1>7

(* A verdict: the head becomes a record, or some record covers it.         *)
LEMMA DecideKeepsInv ==
    ASSUME CompetitionInv, NEW h \in Heads, NEW v \in Verdicts, Decide(h, v)
    PROVE  CompetitionInv'
<1> USE DEF CompetitionInv
<1>1. CompetitionTypeOK'
    BY DEF CompetitionTypeOK, Decide, Verdicts
<1>2. EnteredSoFar'
    BY DEF EnteredSoFar, Decide
<1>3. \A k \in Heads : k \in Verified' <=>
          \/ k # h /\ k \in Verified
          \/ k = h /\ v = "verified" /\ entered[h] = season
    BY DEF CompetitionTypeOK, Verified, Decide
<1>4. h \notin Verified /\ h \notin records
    BY DEF Verified, Decide, RecordsAreVerified
<1>5. \A k \in Heads : Metric[k] \in Metrics
    BY CompetitionAssumption
<1>6. RecordMetrics \subseteq Metrics
    BY <1>5 DEF RecordMetrics, CompetitionTypeOK
<1>7. CASE /\ v = "verified"
           /\ entered[h] = season
           /\ Improves(RecordMetrics, Metric[h])
    <2>1. records' = records \cup {h}
        BY <1>7 DEF Decide
    <2>2. RecordsAreVerified'
        BY <1>3, <1>4, <1>7, <2>1 DEF RecordsAreVerified, CompetitionTypeOK
    <2>3. Covers(Metric[h], Metric[h])
        BY <1>5 DEF Covers, Metrics
    <2>4. RecordsCoverVerified'
        BY <1>3, <2>1, <2>3 DEF RecordsCoverVerified, Verified
    <2>5. \A r \in records : Metric[r] # Metric[h]
        BY <1>7 DEF Improves, RecordMetrics
    <2>6. NoDuplicateRecord'
        BY <2>1, <2>5 DEF NoDuplicateRecord
    <2> QED
        BY <1>1, <1>2, <2>2, <2>4, <2>6
<1>8. CASE ~ /\ v = "verified"
             /\ entered[h] = season
             /\ Improves(RecordMetrics, Metric[h])
    <2>1. records' = records
        BY <1>8 DEF Decide
    <2>2. RecordsAreVerified'
        BY <1>3, <1>4, <2>1 DEF RecordsAreVerified, CompetitionTypeOK
    <2>3. ASSUME v = "verified", entered[h] = season
          PROVE  \E r \in records : Covers(Metric[r], Metric[h])
        BY <1>5, <1>6, <1>8, <2>3, ImprovesIffUncovered DEF RecordMetrics
    <2>4. RecordsCoverVerified'
        BY <1>3, <2>1, <2>3 DEF RecordsCoverVerified, Verified
    <2>5. NoDuplicateRecord'
        BY <2>1 DEF NoDuplicateRecord
    <2> QED
        BY <1>1, <1>2, <2>2, <2>4, <2>5
<1> QED
    BY <1>7, <1>8

(* A new season: nothing is verified in it yet.                            *)
LEMMA NewSeasonKeepsInv ==
    ASSUME CompetitionInv, NewSeason
    PROVE  CompetitionInv'
<1> USE DEF CompetitionInv
<1>1. CompetitionTypeOK'
    BY DEF CompetitionTypeOK, NewSeason
<1>2. season \in Nat /\ \A h \in Heads : entered[h] \in Nat
    <2>1. \A s \in Seasons \cup {0} : s \in Nat
        BY CompetitionAssumption
    <2>2. season \in Seasons /\ \A h \in Heads : entered[h] \in Seasons \cup {0}
        BY DEF CompetitionTypeOK
    <2> QED
        BY <2>1, <2>2
<1>3. EnteredSoFar'
    BY <1>2 DEF EnteredSoFar, NewSeason
<1>4. Verified' = {} /\ records' = {}
    BY <1>2 DEF EnteredSoFar, NewSeason, Verified
<1> QED
    BY <1>1, <1>3, <1>4
       DEF RecordsAreVerified, RecordsCoverVerified, NoDuplicateRecord

LEMMA CompetitionStepInv ==
    CompetitionInv /\ [CompetitionNext]_competition => CompetitionInv'
<1> SUFFICES ASSUME CompetitionInv, [CompetitionNext]_competition
             PROVE  CompetitionInv'
    OBVIOUS
<1>1. CASE CompetitionNext
    BY <1>1, SubmitKeepsInv, DecideKeepsInv, NewSeasonKeepsInv
       DEF CompetitionNext
<1>2. CASE UNCHANGED competition
    BY <1>2 DEF competition, CompetitionInv, CompetitionTypeOK, EnteredSoFar,
                RecordsAreVerified, RecordsCoverVerified, NoDuplicateRecord,
                Verified
<1> QED
    BY <1>1, <1>2

THEOREM CompetitionInvariant == CompetitionSpec => []CompetitionInv
BY CompetitionInitInv, CompetitionStepInv, PTL DEF CompetitionSpec

(* The state of the competition keeps its type.                            *)
THEOREM CompetitionTypes == CompetitionSpec => []CompetitionTypeOK
BY CompetitionInvariant, PTL DEF CompetitionInv

(* Records are heads verified in the present season.                       *)
THEOREM RecordsVerified == CompetitionSpec => []RecordsAreVerified
BY CompetitionInvariant, PTL DEF CompetitionInv

(* Every verified head is covered by a record (worker.promote).            *)
THEOREM RecordsCover == CompetitionSpec => []RecordsCoverVerified
BY CompetitionInvariant, PTL DEF CompetitionInv

(* No two records have the same metrics.                                   *)
THEOREM NoDuplicates == CompetitionSpec => []NoDuplicateRecord
BY CompetitionInvariant, PTL DEF CompetitionInv

(* The best score of all verified heads is held by a record.               *)
THEOREM BestScoreHeld == CompetitionSpec => []BestScoreIsRecord
<1>1. CompetitionInv => BestScoreIsRecord
    <2> SUFFICES ASSUME CompetitionInv, NEW h \in Verified
                 PROVE  \E r \in records : Score(Metric[r]) <= Score(Metric[h])
        BY DEF BestScoreIsRecord
    <2>1. PICK r \in records : Covers(Metric[r], Metric[h])
        BY DEF CompetitionInv, RecordsCoverVerified
    <2>2. Metric[r] \in Metrics /\ Metric[h] \in Metrics
        BY CompetitionAssumption DEF Verified, CompetitionInv, CompetitionTypeOK
    <2>3. Score(Metric[r]) <= Score(Metric[h])
        BY <2>1, <2>2, CoversScore
    <2> QED
        BY <2>3
<1> QED
    BY <1>1, CompetitionInvariant, PTL
==============================================================================
