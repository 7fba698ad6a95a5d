----------------------------- MODULE SourceStore -----------------------------
(***************************************************************************)
(* verifier/source_archive.py: the directory in which the exact source of  *)
(* every checked head is kept.  A ZIP is named by its digest, and holds a  *)
(* manifest of the submission's commit, track, root and contract, so an    *)
(* archive here stands for its descriptor, its file name and its bytes.    *)
(* The sidecar <submission>.json names the archive of a submission.        *)
(*                                                                         *)
(* An entry is made by link(2), which never replaces another, and survives *)
(* a power loss once the directory has been fsynced.  Between the two it   *)
(* is visible to every process, and a power loss may or may not take it.   *)
(* The bytes are fsynced before the link, so an entry is never partial.    *)
(***************************************************************************)
EXTENDS Naturals

CONSTANTS
    Subs,       \* submission ids
    Archives,   \* source archives
    NoArchive,
    Savers      \* processes that may call save_source

ASSUME StoreAssumption == NoArchive \notin Archives

VARIABLES
    objects,    \* the archives whose ZIP is in the directory
    sidecars,   \* sidecars[s]: the archive that the sidecar of s names
    disk,       \* the entries a power loss cannot take any more
    damaged,    \* archives whose ZIP has lost its digest
    saver       \* saver[p]: the call of save_source that p is in

store == <<objects, sidecars, disk, damaged, saver>>

Unbound == [s \in Subs |-> NoArchive]

Idle == [pc |-> "idle"]

Saves == [pc : {"object", "object linked", "sidecar", "sidecar linked", "saved"},
          sub : Subs, archive : Archives]

StoreTypeOK ==
    /\ objects \subseteq Archives
    /\ sidecars \in [Subs -> Archives \cup {NoArchive}]
    /\ disk \in [objects : SUBSET Archives, sidecars : [Subs -> Archives \cup {NoArchive}]]
    /\ damaged \subseteq Archives
    /\ saver \in [Savers -> Saves \cup {Idle}]

StoreInit ==
    /\ objects = {}
    /\ sidecars = Unbound
    /\ disk = [objects |-> {}, sidecars |-> Unbound]
    /\ damaged = {}
    /\ saver = [p \in Savers |-> Idle]

(* A ZIP that is there and has the digest it is named by.                  *)
Intact(a) == a \in objects \ damaged

Goto(p, pc) == saver' = [saver EXCEPT ![p].pc = pc]

(* fsync of the directory: every entry made so far is there for good.      *)
Synced == [objects |-> objects, sidecars |-> sidecars]

(***************************************************************************)
(* save_source                                                             *)
(***************************************************************************)

(* The head of the call: an archive other than the one the submission      *)
(* already has is refused.                                                 *)
MaySave(s, a) == sidecars[s] \in {NoArchive, a}

SaveBegin(p, s, a) ==
    /\ saver[p] = Idle
    /\ MaySave(s, a)
    /\ saver' = [saver EXCEPT ![p] = [pc |-> "object", sub |-> s, archive |-> a]]
    /\ UNCHANGED <<objects, sidecars, disk, damaged>>

(* A ZIP that is already there must have the same bytes.                   *)
MayLinkObject(a) == a \in objects => a \notin damaged

LinkObject(p) ==
    /\ saver[p].pc = "object"
    /\ MayLinkObject(saver[p].archive)
    /\ objects' = objects \cup {saver[p].archive}
    /\ Goto(p, "object linked")
    /\ UNCHANGED <<sidecars, disk, damaged>>

(* Seeded fault: the directory is not fsynced after the ZIP.               *)
SyncObjectNot(p) ==
    /\ saver[p].pc = "object linked"
    /\ Goto(p, "sidecar")
    /\ UNCHANGED <<objects, sidecars, disk, damaged>>

SyncObject(p) ==
    /\ saver[p].pc = "object linked"
    /\ disk' = Synced
    /\ Goto(p, "sidecar")
    /\ UNCHANGED <<objects, sidecars, damaged>>

(* Seeded fault: the sidecar is moved into place, whatever is there.       *)
LinkSidecarReplaces(p) ==
    /\ saver[p].pc = "sidecar"
    /\ sidecars' = [sidecars EXCEPT ![saver[p].sub] = saver[p].archive]
    /\ Goto(p, "sidecar linked")
    /\ UNCHANGED <<objects, disk, damaged>>

(* Two calls may both have found no sidecar: only the first link succeeds. *)
LinkSidecar(p) ==
    /\ saver[p].pc = "sidecar"
    /\ MaySave(saver[p].sub, saver[p].archive)
    /\ sidecars' = [sidecars EXCEPT ![saver[p].sub] = saver[p].archive]
    /\ Goto(p, "sidecar linked")
    /\ UNCHANGED <<objects, disk, damaged>>

(* Seeded fault: the directory is not fsynced after the sidecar.           *)
SyncSidecarNot(p) ==
    /\ saver[p].pc = "sidecar linked"
    /\ Goto(p, "saved")
    /\ UNCHANGED <<objects, sidecars, disk, damaged>>

SyncSidecar(p) ==
    /\ saver[p].pc = "sidecar linked"
    /\ disk' = Synced
    /\ Goto(p, "saved")
    /\ UNCHANGED <<objects, sidecars, damaged>>

SaveStep(p) == LinkObject(p) \/ SyncObject(p) \/ LinkSidecar(p) \/ SyncSidecar(p)

(* The call returns or raises, or its process dies: at any point of it.    *)
Leave(p) ==
    /\ saver' = [saver EXCEPT ![p] = Idle]
    /\ UNCHANGED <<objects, sidecars, disk, damaged>>

(***************************************************************************)
(* The host                                                                *)
(***************************************************************************)
PowerLoss ==
    /\ \E lost \in SUBSET (objects \ disk.objects) : objects' = objects \ lost
    /\ \E lost \in SUBSET {s \in Subs : disk.sidecars[s] = NoArchive} :
          sidecars' = [s \in Subs |-> IF s \in lost THEN NoArchive ELSE sidecars[s]]
    /\ damaged' = damaged \cap objects'
    /\ saver' = [p \in Savers |-> Idle]
    /\ UNCHANGED disk

(* The data directory is lost: a new server, or a mkdir that the power     *)
(* loss took back (save_source does not fsync the parent directory).       *)
LoseStore ==
    /\ objects' = {}
    /\ sidecars' = Unbound
    /\ disk' = [objects |-> {}, sidecars |-> Unbound]
    /\ damaged' = {}
    /\ saver' = [p \in Savers |-> Idle]

Damage(a) ==
    /\ Intact(a)
    /\ damaged' = damaged \cup {a}
    /\ UNCHANGED <<objects, sidecars, disk, saver>>

StoreNext ==
    \/ \E p \in Savers : SaveStep(p) \/ Leave(p)
    \/ \E p \in Savers, s \in Subs, a \in Archives : SaveBegin(p, s, a)
    \/ PowerLoss
    \/ LoseStore
    \/ \E a \in Archives : Damage(a)

StoreSpec == StoreInit /\ [][StoreNext]_store

(***************************************************************************)
(* Properties                                                              *)
(***************************************************************************)

(* A sidecar is never there without the ZIP it names, and not after a      *)
(* power loss either, whenever it strikes between the links and the fsyncs *)
(* of one or several calls: recovery finds both or neither.                *)
SidecarHasObject ==
    \A s \in Subs : sidecars[s] # NoArchive =>
        sidecars[s] \in objects \cap disk.objects

(* When save_source returns, which is when candidate code may start, no    *)
(* power loss takes the binding any more, and no concurrent call for the   *)
(* same submission has returned with another archive.                      *)
SavedIsDurable ==
    \A p \in Savers : saver[p].pc = "saved" =>
        /\ disk.sidecars[saver[p].sub] = saver[p].archive
        /\ saver[p].archive \in disk.objects

Bound == INSTANCE Binding WITH bound <- disk.sidecars

(* Concurrent, failing and dying calls bind a submission once: no retry,   *)
(* no recovery and no second process replaces the archive of a submission. *)
ImplementsBinding == Bound!BindingSpec
==============================================================================
