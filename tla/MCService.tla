------------------------------ MODULE MCService ------------------------------
(***************************************************************************)
(* Finite instances of Service.  h1 and h2 are two results of one author,  *)
(* h2 the better score; h3 is h1's commit in another author's pull         *)
(* request.                                                                *)
(***************************************************************************)
EXTENDS Service, TLC

CONSTANTS h1, h2, h3, ann, bob

NoHeads == {}
OneHead == {h1}
TwoHeads == {h1, h2}
ThreeHeads == {h1, h2, h3}

MetricTable == (h1 :> [sigma |-> 2, hverify |-> 3]) @@
               (h2 :> [sigma |-> 1, hverify |-> 4]) @@
               (h3 :> [sigma |-> 2, hverify |-> 3])
AuthorTable == (h1 :> ann) @@ (h2 :> ann) @@ (h3 :> bob)
CommitTable == (h1 :> "c1") @@ (h2 :> "c2") @@ (h3 :> "c1")

MCMetric == [h \in Heads |-> MetricTable[h]]
MCAuthor == [h \in Heads |-> AuthorTable[h]]
MCCommit == [h \in Heads |-> CommitTable[h]]
(* All heads are named under the first contract.                           *)
FirstEpoch == [h \in Heads |-> 1]
OneContract == {1}
TwoContracts == {1, 2}
==============================================================================
