------------------------------ MODULE MCPipeline -----------------------------
(***************************************************************************)
(* Finite instances of Pipeline: one head, two slots for the processes     *)
(* that check it, and one contract, or two of which it has the first.      *)
(***************************************************************************)
EXTENDS Pipeline

CONSTANTS s1, v1, v2

MCSubs == {s1}
MCCommit == [s \in Subs |-> "c1"]
MCEpoch == [s \in Subs |-> 1]
MCContracts == {1, 2}
MCContract == {1}
MCSavers == {"verify.py", "rebuild"}
MCArchives == [commit : {"c1"}, contract : MCContracts]
MCArchive1 == [commit : {"c1"}, contract : MCContract]
==============================================================================
