---------------------------- MODULE MCCompetition ----------------------------
(***************************************************************************)
(* Competition with five heads: two better in one coordinate each, one     *)
(* better in both, one worse in score but not covered, and one duplicate.  *)
(***************************************************************************)
EXTENDS Competition, TLC

MCHeads == 1 .. 5
MCMetric == (1 :> [sigma |-> 2, hverify |-> 3]) @@
            (2 :> [sigma |-> 1, hverify |-> 4]) @@
            (3 :> [sigma |-> 1, hverify |-> 2]) @@
            (4 :> [sigma |-> 5, hverify |-> 1]) @@
            (5 :> [sigma |-> 2, hverify |-> 3])
MCSeasons == {1, 2}
==============================================================================
