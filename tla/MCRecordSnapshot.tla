--------------------------- MODULE MCRecordSnapshot --------------------------
(***************************************************************************)
(* Three results in the order they complete: two under the first contract, *)
(* the second one leading, and a weaker one under the second contract.     *)
(***************************************************************************)
EXTENDS RecordSnapshot

First  == [metric |-> [sigma |-> 2, hverify |-> 3], contract |-> 1, finished |-> 1]
Second == [metric |-> [sigma |-> 1, hverify |-> 4], contract |-> 1, finished |-> 2]
Third  == [metric |-> [sigma |-> 3, hverify |-> 3], contract |-> 2, finished |-> 3]

MCResults == {First, Second, Third}
MCContracts == {1, 2}
==============================================================================
