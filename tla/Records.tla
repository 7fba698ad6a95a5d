------------------------------- MODULE Records -------------------------------
(***************************************************************************)
(* When a verified head becomes a record of its track, and which record is *)
(* the track's best: the comparisons of service/app/records.py and         *)
(* service/app/contract.py.  A metric is what the verifier measured of a   *)
(* head: the signature bytes sigma and the verification work hverify, both *)
(* positive.  A track's records are given as the set of their metrics      *)
(* (an exact duplicate is never a record, so no metric is lost).           *)
(***************************************************************************)
EXTENDS Naturals

Metrics == [sigma : Nat \ {0}, hverify : Nat \ {0}]

Score(m) == m.sigma * m.hverify

(* leads: (score, sigma) strictly precedes, the score first.               *)
Leads(m, best) ==
    \/ Score(m) < Score(best)
    \/ Score(m) = Score(best) /\ m.sigma < best.sigma

Covers(o, m) == o.sigma <= m.sigma /\ o.hverify <= m.hverify

(* Seeded fault: only the best score counts, as a plain leaderboard would. *)
ImprovesOnlyBest(existing, m) == \A o \in existing : Score(m) < Score(o)

(* Seeded fault: the duplicate check is lost and the frontier test is      *)
(* strict in both coordinates.                                             *)
ImprovesOnTie(existing, m) ==
    ~ \E o \in existing : o.sigma < m.sigma /\ o.hverify < m.hverify

(* Seeded fault: a record must be better in both coordinates.              *)
ImprovesBoth(existing, m) ==
    \A o \in existing : m.sigma < o.sigma /\ m.hverify < o.hverify

(* improves: beat the best score or extend the Pareto frontier; an exact   *)
(* duplicate of a record improves nothing.                                 *)
Improves(existing, m) ==
    /\ m \notin existing
    /\ \/ \A o \in existing : Score(m) < Score(o)
       \/ ~ \E o \in existing : Covers(o, m)
==============================================================================
