---------------------------- MODULE Store_proofs -----------------------------
(***************************************************************************)
(* The source store binds a submission once, whatever calls of save_source *)
(* run side by side, fail or die, and whenever the power is lost.  The     *)
(* reason is StoreInv: the ZIP is on disk before the sidecar is linked, so *)
(* that what is on disk, what is visible and what every call has done      *)
(* agree at each step of each call.                                        *)
(***************************************************************************)
EXTENDS SourceStore, TLAPS

(* What is on disk is visible, as it is on disk.                           *)
DiskIsVisible ==
    /\ disk.objects \subseteq objects
    /\ \A s \in Subs : disk.sidecars[s] # NoArchive => sidecars[s] = disk.sidecars[s]

(* A call that has done a step has left its mark.                          *)
CallsLeaveMarks ==
    \A p \in Savers :
        /\ saver[p].pc = "object linked" => saver[p].archive \in objects
        /\ saver[p].pc \in {"sidecar", "sidecar linked", "saved"} =>
              saver[p].archive \in objects \cap disk.objects
        /\ saver[p].pc = "sidecar linked" => sidecars[saver[p].sub] = saver[p].archive

StoreInv ==
    /\ StoreTypeOK
    /\ DiskIsVisible
    /\ CallsLeaveMarks
    /\ SidecarHasObject
    /\ SavedIsDurable

LEMMA StoreInitInv == StoreInit => StoreInv
<1> SUFFICES ASSUME StoreInit
             PROVE  StoreInv
    OBVIOUS
<1>1. StoreTypeOK
    BY DEF StoreInit, StoreTypeOK, Unbound
<1>2. \A p \in Savers : saver[p].pc = "idle"
    BY DEF StoreInit, Idle
<1>3. \A s \in Subs : sidecars[s] = NoArchive /\ disk.sidecars[s] = NoArchive
    BY DEF StoreInit, Unbound
<1>4. disk.objects \subseteq objects
    BY DEF StoreInit
<1> QED
    BY <1>1, <1>2, <1>3, <1>4
    DEF StoreInv, DiskIsVisible, CallsLeaveMarks, SidecarHasObject, SavedIsDurable

(* A call in progress has a submission and an archive.                     *)
LEMMA CallType ==
    ASSUME StoreTypeOK, NEW p \in Savers, saver[p].pc # "idle"
    PROVE  saver[p] \in Saves /\ saver[p].sub \in Subs /\ saver[p].archive \in Archives
<1>1. saver[p] \in Saves \cup {Idle}
    BY DEF StoreTypeOK
<1>2. saver[p] # Idle
    BY DEF Idle
<1>3. saver[p] \in Saves
    BY <1>1, <1>2
<1> QED
    BY <1>3 DEF Saves

PCs == {"object", "object linked", "sidecar", "sidecar linked", "saved"}

LEMMA MoveOn ==
    ASSUME NEW r \in Saves, NEW pc \in PCs, NEW next, next = [r EXCEPT !.pc = pc]
    PROVE  /\ next \in Saves /\ next.pc = pc
           /\ next.sub = r.sub /\ next.archive = r.archive
BY DEF Saves, PCs

(* Moving on in a call changes its pc and nothing else.                    *)
LEMMA GotoMeans ==
    ASSUME StoreTypeOK, NEW p \in Savers, saver[p].pc # "idle", NEW pc \in PCs, Goto(p, pc)
    PROVE  /\ saver' \in [Savers -> Saves \cup {Idle}]
           /\ saver'[p].pc = pc
           /\ saver'[p].sub = saver[p].sub
           /\ saver'[p].archive = saver[p].archive
           /\ \A q \in Savers : q # p => saver'[q] = saver[q]
<1>1. saver[p] \in Saves
    BY CallType
<1>2. saver \in [Savers -> Saves \cup {Idle}]
    BY DEF StoreTypeOK
<1>3. saver'[p] = [saver[p] EXCEPT !.pc = pc]
    BY <1>2 DEF Goto
<1>4. /\ saver'[p] \in Saves /\ saver'[p].pc = pc
      /\ saver'[p].sub = saver[p].sub /\ saver'[p].archive = saver[p].archive
    BY <1>1, <1>3, MoveOn
<1> QED
    BY <1>2, <1>4 DEF Goto

(* An fsync leaves on disk exactly what is visible.                        *)
LEMMA SyncMeans ==
    ASSUME StoreTypeOK, disk' = Synced
    PROVE  /\ disk'.objects = objects /\ disk'.sidecars = sidecars
           /\ disk' \in [objects : SUBSET Archives, sidecars : [Subs -> Archives \cup {NoArchive}]]
BY DEF Synced, StoreTypeOK

LEMMA SaveBeginKeeps ==
    ASSUME StoreInv, NEW p \in Savers, NEW s \in Subs, NEW a \in Archives, SaveBegin(p, s, a)
    PROVE  StoreInv'
<1>1. saver'[p] = [pc |-> "object", sub |-> s, archive |-> a] /\ saver'[p].pc = "object"
    BY DEF SaveBegin, StoreInv, StoreTypeOK
<1>2. \A q \in Savers : q # p => saver'[q] = saver[q]
    BY DEF SaveBegin, StoreInv, StoreTypeOK
<1>3. [pc |-> "object", sub |-> s, archive |-> a] \in Saves
    BY DEF Saves
<1>4. StoreTypeOK'
    BY <1>3 DEF SaveBegin, StoreInv, StoreTypeOK
<1>5. /\ UNCHANGED <<objects, sidecars, disk>>
      /\ DiskIsVisible /\ CallsLeaveMarks /\ SidecarHasObject /\ SavedIsDurable
    BY DEF SaveBegin, StoreInv
<1>6. \A q \in Savers : saver'[q] = saver[q] \/ saver'[q].pc = "object"
    BY <1>1, <1>2
<1>7. DiskIsVisible' /\ SidecarHasObject'
    BY <1>5 DEF DiskIsVisible, SidecarHasObject
<1>8. CallsLeaveMarks'
    BY <1>5, <1>6 DEF CallsLeaveMarks
<1>9. SavedIsDurable'
    BY <1>5, <1>6 DEF SavedIsDurable
<1> QED
    BY <1>4, <1>7, <1>8, <1>9 DEF StoreInv

LEMMA LinkObjectKeeps ==
    ASSUME StoreInv, NEW p \in Savers, LinkObject(p)
    PROVE  StoreInv'
<1>1. StoreTypeOK /\ saver[p].pc # "idle" /\ Goto(p, "object linked")
    BY DEF StoreInv, LinkObject
<1>2. saver[p].archive \in Archives
    BY <1>1, CallType
<1>3. /\ saver' \in [Savers -> Saves \cup {Idle}]
      /\ saver'[p].pc = "object linked"
      /\ saver'[p].archive = saver[p].archive
      /\ \A q \in Savers : q # p => saver'[q] = saver[q]
    BY <1>1, GotoMeans DEF PCs
<1>4. StoreTypeOK'
    BY <1>1, <1>2, <1>3 DEF StoreTypeOK, LinkObject
<1> QED
    BY <1>3, <1>4
    DEF LinkObject, StoreInv, DiskIsVisible, CallsLeaveMarks, SidecarHasObject, SavedIsDurable

LEMMA SyncObjectKeeps ==
    ASSUME StoreInv, NEW p \in Savers, SyncObject(p)
    PROVE  StoreInv'
<1>1. StoreTypeOK /\ saver[p].pc # "idle" /\ Goto(p, "sidecar") /\ disk' = Synced
    BY DEF StoreInv, SyncObject
<1>2. disk'.objects = objects /\ disk'.sidecars = sidecars
    BY <1>1, SyncMeans
<1>3. /\ saver' \in [Savers -> Saves \cup {Idle}]
      /\ saver'[p].pc = "sidecar"
      /\ saver'[p].archive = saver[p].archive
      /\ \A q \in Savers : q # p => saver'[q] = saver[q]
    BY <1>1, GotoMeans DEF PCs
<1>4. StoreTypeOK'
    BY <1>1, <1>3, SyncMeans DEF StoreTypeOK, SyncObject
<1>5. \A q \in Savers : saver[q].pc # "idle" => saver[q].sub \in Subs
    BY <1>1, CallType
<1>6. \A q \in Savers : saver[q].pc = "saved" => sidecars[saver[q].sub] = saver[q].archive
    <2>1. SUFFICES ASSUME NEW q \in Savers, saver[q].pc = "saved"
                   PROVE  sidecars[saver[q].sub] = saver[q].archive
        OBVIOUS
    <2>2. saver[q].archive \in Archives /\ saver[q].sub \in Subs
        BY <1>1, <2>1, CallType
    <2> QED
        BY <2>1, <2>2, StoreAssumption DEF StoreInv, SavedIsDurable, DiskIsVisible
<1> QED
    BY <1>2, <1>3, <1>4, <1>6
    DEF SyncObject, StoreInv, DiskIsVisible, CallsLeaveMarks, SidecarHasObject, SavedIsDurable

LEMMA LinkSidecarKeeps ==
    ASSUME StoreInv, NEW p \in Savers, LinkSidecar(p)
    PROVE  StoreInv'
<1>1. StoreTypeOK /\ saver[p].pc = "sidecar" /\ saver[p].pc # "idle" /\ Goto(p, "sidecar linked")
    BY DEF StoreInv, LinkSidecar
<1>2. saver[p].archive \in Archives /\ saver[p].sub \in Subs
    BY <1>1, CallType
<1>3. /\ saver' \in [Savers -> Saves \cup {Idle}]
      /\ saver'[p].pc = "sidecar linked"
      /\ saver'[p].sub = saver[p].sub
      /\ saver'[p].archive = saver[p].archive
      /\ \A q \in Savers : q # p => saver'[q] = saver[q]
    BY <1>1, GotoMeans DEF PCs
<1>4. StoreTypeOK'
    BY <1>1, <1>2, <1>3 DEF StoreTypeOK, LinkSidecar
<1>5. /\ sidecars'[saver[p].sub] = saver[p].archive
      /\ \A s \in Subs : s # saver[p].sub => sidecars'[s] = sidecars[s]
      /\ sidecars[saver[p].sub] \in {NoArchive, saver[p].archive}
    BY <1>1, <1>2 DEF LinkSidecar, StoreTypeOK, MaySave
<1>6. \A s \in Subs : sidecars[s] # NoArchive => sidecars'[s] = sidecars[s]
    BY <1>5
<1>7. \A q \in Savers : saver[q].pc # "idle" => saver[q].sub \in Subs /\ saver[q].archive # NoArchive
    BY <1>1, CallType, StoreAssumption
<1>8. DiskIsVisible'
    BY <1>6 DEF LinkSidecar, StoreInv, DiskIsVisible
<1>9. CallsLeaveMarks'
    <2>1. SUFFICES ASSUME NEW q \in Savers
                   PROVE  /\ saver'[q].pc = "object linked" => saver'[q].archive \in objects
                          /\ saver'[q].pc \in {"sidecar", "sidecar linked", "saved"} =>
                                saver'[q].archive \in objects \cap disk.objects
                          /\ saver'[q].pc = "sidecar linked" =>
                                sidecars'[saver'[q].sub] = saver'[q].archive
        BY DEF LinkSidecar, CallsLeaveMarks
    <2>2. CASE q = p
        BY <1>1, <1>3, <1>5, <2>2 DEF StoreInv, CallsLeaveMarks
    <2>3. CASE q # p
        <3>1. saver'[q] = saver[q]
            BY <1>3, <2>3
        <3>2. ASSUME saver[q].pc = "sidecar linked"
              PROVE  sidecars'[saver[q].sub] = saver[q].archive
            <4>1. /\ saver[q].sub \in Subs /\ saver[q].archive # NoArchive
                  /\ sidecars[saver[q].sub] = saver[q].archive
                BY <1>7, <3>2 DEF StoreInv, CallsLeaveMarks
            <4> QED
                BY <1>6, <4>1
        <3> QED
            BY <3>1, <3>2 DEF StoreInv, CallsLeaveMarks
    <2> QED
        BY <2>2, <2>3
<1>10. SidecarHasObject'
    BY <1>1, <1>5 DEF LinkSidecar, StoreInv, CallsLeaveMarks, SidecarHasObject
<1>11. SavedIsDurable'
    BY <1>3 DEF LinkSidecar, StoreInv, SavedIsDurable
<1> QED
    BY <1>4, <1>8, <1>9, <1>10, <1>11 DEF StoreInv

LEMMA SyncSidecarKeeps ==
    ASSUME StoreInv, NEW p \in Savers, SyncSidecar(p)
    PROVE  StoreInv'
<1>1. /\ StoreTypeOK /\ saver[p].pc = "sidecar linked" /\ saver[p].pc # "idle"
      /\ Goto(p, "saved") /\ disk' = Synced
    BY DEF StoreInv, SyncSidecar
<1>2. disk'.objects = objects /\ disk'.sidecars = sidecars
    BY <1>1, SyncMeans
<1>3. /\ saver' \in [Savers -> Saves \cup {Idle}]
      /\ saver'[p].pc = "saved"
      /\ saver'[p].sub = saver[p].sub
      /\ saver'[p].archive = saver[p].archive
      /\ \A q \in Savers : q # p => saver'[q] = saver[q]
    BY <1>1, GotoMeans DEF PCs
<1>4. StoreTypeOK'
    BY <1>1, <1>3, SyncMeans DEF StoreTypeOK, SyncSidecar
<1>5. sidecars[saver[p].sub] = saver[p].archive /\ saver[p].archive \in objects
    BY <1>1 DEF StoreInv, CallsLeaveMarks
<1>6. \A q \in Savers : saver[q].pc = "saved" => sidecars[saver[q].sub] = saver[q].archive
    <2>1. SUFFICES ASSUME NEW q \in Savers, saver[q].pc = "saved"
                   PROVE  sidecars[saver[q].sub] = saver[q].archive
        OBVIOUS
    <2>2. saver[q].archive \in Archives /\ saver[q].sub \in Subs
        BY <1>1, <2>1, CallType
    <2> QED
        BY <2>1, <2>2, StoreAssumption DEF StoreInv, SavedIsDurable, DiskIsVisible
<1> QED
    BY <1>2, <1>3, <1>4, <1>5, <1>6
    DEF SyncSidecar, StoreInv, DiskIsVisible, CallsLeaveMarks, SidecarHasObject, SavedIsDurable

LEMMA LeaveKeeps ==
    ASSUME StoreInv, NEW p \in Savers, Leave(p)
    PROVE  StoreInv'
<1>1. /\ saver' \in [Savers -> Saves \cup {Idle}]
      /\ saver'[p].pc = "idle"
      /\ \A q \in Savers : q # p => saver'[q] = saver[q]
    BY DEF Leave, StoreInv, StoreTypeOK, Idle
<1>2. StoreTypeOK'
    BY <1>1 DEF Leave, StoreInv, StoreTypeOK
<1> QED
    BY <1>1, <1>2
    DEF Leave, StoreInv, DiskIsVisible, CallsLeaveMarks, SidecarHasObject, SavedIsDurable

LEMMA PowerLossKeeps ==
    ASSUME StoreInv, PowerLoss
    PROVE  StoreInv'
<1>1. /\ objects' \subseteq objects /\ disk.objects \subseteq objects'
      /\ disk' = disk /\ damaged' = damaged \cap objects'
      /\ saver' = [p \in Savers |-> Idle]
    BY DEF PowerLoss, StoreInv, DiskIsVisible
<1>2. PICK lost \in SUBSET {s \in Subs : disk.sidecars[s] = NoArchive} :
          sidecars' = [s \in Subs |-> IF s \in lost THEN NoArchive ELSE sidecars[s]]
    BY DEF PowerLoss
<1>3. \A s \in Subs : sidecars'[s] \in {NoArchive, sidecars[s]}
    BY <1>2
<1>4. \A s \in Subs : disk.sidecars[s] # NoArchive => sidecars'[s] = sidecars[s]
    BY <1>2
<1>5. sidecars' \in [Subs -> Archives \cup {NoArchive}]
    BY <1>2 DEF StoreInv, StoreTypeOK
<1>6. \A p \in Savers : saver'[p].pc = "idle"
    BY <1>1 DEF Idle
<1>7. StoreTypeOK'
    BY <1>1, <1>5 DEF StoreInv, StoreTypeOK
<1>8. SidecarHasObject'
    BY <1>1, <1>3 DEF StoreInv, SidecarHasObject
<1> QED
    BY <1>1, <1>4, <1>6, <1>7, <1>8
    DEF StoreInv, DiskIsVisible, CallsLeaveMarks, SavedIsDurable

LEMMA LoseStoreKeeps ==
    ASSUME StoreInv, LoseStore
    PROVE  StoreInv'
BY StoreInitInv
   DEF LoseStore, StoreInv, StoreTypeOK, DiskIsVisible, CallsLeaveMarks, SidecarHasObject,
       SavedIsDurable, Unbound, Idle, Saves

LEMMA DamageKeeps ==
    ASSUME StoreInv, NEW a \in Archives, Damage(a)
    PROVE  StoreInv'
BY DEF Damage, StoreInv, StoreTypeOK, DiskIsVisible, CallsLeaveMarks, SidecarHasObject,
       SavedIsDurable

LEMMA StoreStep ==
    ASSUME StoreInv, [StoreNext]_store
    PROVE  StoreInv'
<1>1. ASSUME NEW p \in Savers, SaveStep(p) \/ Leave(p)
      PROVE  StoreInv'
    BY <1>1, LinkObjectKeeps, SyncObjectKeeps, LinkSidecarKeeps, SyncSidecarKeeps, LeaveKeeps
    DEF SaveStep
<1>2. ASSUME UNCHANGED store
      PROVE  StoreInv'
    BY <1>2 DEF store, StoreInv, StoreTypeOK, DiskIsVisible, CallsLeaveMarks, SidecarHasObject,
       SavedIsDurable
<1> QED
    BY <1>1, <1>2, SaveBeginKeeps, PowerLossKeeps, LoseStoreKeeps, DamageKeeps DEF StoreNext

THEOREM StoreInvariant == StoreSpec => []StoreInv
BY StoreInitInv, StoreStep, PTL DEF StoreSpec

(* For any number of processes that save, submissions and archives, the    *)
(* values of the variables stay in their types.                            *)
THEOREM StoreTypeCorrect == StoreSpec => []StoreTypeOK
<1>1. StoreInv => StoreTypeOK
    BY DEF StoreInv
<1> QED
    BY <1>1, StoreInvariant, PTL

(* A sidecar never outlives, or precedes, the ZIP that it names.           *)
THEOREM NoDanglingSidecar == StoreSpec => []SidecarHasObject
<1>1. StoreInv => SidecarHasObject
    BY DEF StoreInv
<1> QED
    BY <1>1, StoreInvariant, PTL

(* What save_source has returned is on disk.                               *)
THEOREM SavedForGood == StoreSpec => []SavedIsDurable
<1>1. StoreInv => SavedIsDurable
    BY DEF StoreInv
<1> QED
    BY <1>1, StoreInvariant, PTL

(***************************************************************************)
(* The store implements the write-once binding                             *)
(***************************************************************************)
LEMMA StoreInitBinds == StoreInit => Bound!BindingInit
BY DEF StoreInit, Unbound, Bound!BindingInit

LEMMA StoreStepBinds ==
    ASSUME StoreInv, [StoreNext]_store
    PROVE  [Bound!Bind \/ Bound!Forget]_(disk.sidecars)
<1>1. ASSUME disk' = Synced
      PROVE  Bound!Bind
    BY <1>1 DEF Synced, Bound!Bind, StoreInv, StoreTypeOK, DiskIsVisible
<1>2. ASSUME LoseStore
      PROVE  Bound!Forget
    BY <1>2 DEF LoseStore, Unbound, Bound!Forget
<1>3. ASSUME NEW p \in Savers, SaveStep(p) \/ Leave(p)
      PROVE  disk' = Synced \/ UNCHANGED disk
    BY <1>3 DEF SaveStep, LinkObject, SyncObject, LinkSidecar, SyncSidecar, Leave
<1>4. disk' = Synced \/ LoseStore \/ UNCHANGED disk
    BY <1>3 DEF StoreNext, SaveBegin, PowerLoss, Damage, store
<1> QED
    BY <1>1, <1>2, <1>4

(* Calls of save_source that run side by side, fail and die implement one  *)
(* atomic binding of a submission to its archive, which nothing replaces.  *)
THEOREM StoreBindsOnce == StoreSpec => ImplementsBinding
<1>1. StoreInv /\ [StoreNext]_store => [Bound!Bind \/ Bound!Forget]_(disk.sidecars)
    BY StoreStepBinds
<1> QED
    BY <1>1, StoreInitBinds, StoreInvariant, PTL DEF StoreSpec, ImplementsBinding, Bound!BindingSpec
==============================================================================
