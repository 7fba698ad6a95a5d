------------------------------- MODULE Binding -------------------------------
(***************************************************************************)
(* What the source store promises: a submission is bound to one source     *)
(* archive, once.  Nothing but the loss of the whole store unbinds it.     *)
(* SourceStore.tla is the directory that implements this specification.    *)
(***************************************************************************)
CONSTANTS Subs, Archives, NoArchive

VARIABLE bound   \* bound[s]: the archive that s is bound to for good

BindingInit == bound = [s \in Subs |-> NoArchive]

(* Submissions that have no archive are bound, several at a time.          *)
Bind ==
    /\ bound' \in [Subs -> Archives \cup {NoArchive}]
    /\ \A s \in Subs : bound[s] # NoArchive => bound'[s] = bound[s]

(* A new host starts with an empty store.                                  *)
Forget == bound' = [s \in Subs |-> NoArchive]

BindingSpec == BindingInit /\ [][Bind \/ Forget]_bound
==============================================================================
