------------------------------- MODULE OrderMap -------------------------------
(***************************************************************************)
(* The persistent order map of tradesync/order_map.py: one record per     *)
(* source label (cOID), a reverse index from the source broker's order id *)
(* to the label, and a JSON file holding the records.  Every method of    *)
(* the code takes the map's lock for its whole body, so each one is one   *)
(* action here.  Writing the file is part of the action that causes it.   *)
(*                                                                         *)
(* The module has no Init/Next of its own: OrderMapStore drives it with    *)
(* arbitrary calls, HotPath with the calls the replicator makes.           *)
(***************************************************************************)
EXTENDS Naturals, FiniteSets

CONSTANTS
    Label,        \* source labels: cOIDs and synthetic "<entry>#<role>" labels
    SourceId,     \* order ids of the source broker
    FollowerId,   \* order ids of the follower broker
    NoRecord,     \* "this label is not in the map"
    NoId,         \* Python's None in an id field or a lookup
    SaveMayFail   \* TRUE: writing the file may raise OSError

ASSUME NoIdAssumption == NoId \notin SourceId \cup FollowerId \cup Label
ASSUME SaveAssumption == SaveMayFail \in BOOLEAN

VARIABLES
    byCoid,       \* _by_coid: label -> record or NoRecord
    coidByIbkr,   \* _coid_by_ibkr: source id -> label or NoId
    batchDepth,   \* _batch_depth
    batchDirty,   \* _batch_dirty
    disk,         \* the records in the file
    stale         \* history: the latest write failed, none succeeded since

mapVars == <<byCoid, coidByIbkr, batchDepth, batchDirty, disk, stale>>

Record == [ibkr_order_id : SourceId \cup {NoId},
           tradovate_id  : FollowerId \cup {NoId}]

ASSUME NoRecordAssumption == NoRecord \notin Record

RecordMap == [Label -> Record \cup {NoRecord}]
Index     == [SourceId -> Label \cup {NoId}]

Fresh == [ibkr_order_id |-> NoId, tradovate_id |-> NoId]

MapInit ==
    /\ byCoid     = [l \in Label |-> NoRecord]
    /\ coidByIbkr = [s \in SourceId |-> NoId]
    /\ batchDepth = 0
    /\ batchDirty = FALSE
    /\ disk       = [l \in Label |-> NoRecord]
    /\ stale      = FALSE

MapTypeOK ==
    /\ byCoid \in RecordMap
    /\ coidByIbkr \in Index
    /\ batchDepth \in Nat
    /\ batchDirty \in BOOLEAN
    /\ disk \in RecordMap
    /\ stale \in BOOLEAN

-----------------------------------------------------------------------------
(* Lookups.                                                                *)

Known(l)    == byCoid[l] # NoRecord
RecordOf(l) == IF Known(l) THEN byCoid[l] ELSE Fresh

\* source_label_for_source_id
LabelOf(s) == coidByIbkr[s]

\* follower_id_for_source_id: through the index, then the record
FollowerOf(s) ==
    IF LabelOf(s) = NoId THEN NoId ELSE RecordOf(LabelOf(s)).tradovate_id

\* The labels whose record in m carries the source id s.
Carriers(m, s) == {l \in Label : m[l] # NoRecord /\ m[l].ibkr_order_id = s}

-----------------------------------------------------------------------------
(* Persistence.                                                            *)

\* _save_locked: an OSError is logged and swallowed, the old file stays
Save(m) ==
    \/ disk' = m /\ stale' = FALSE
    \/ SaveMayFail /\ stale' = TRUE /\ UNCHANGED disk

\* Faulty: a deferred write that is not marked
MarkDirtyOrSaveUnmarked(m) ==
    \/ batchDepth > 0 /\ UNCHANGED <<batchDirty, disk, stale>>
    \/ batchDepth = 0 /\ Save(m) /\ UNCHANGED batchDirty

\* _mark_dirty_or_save: inside any thread's batch the write is deferred
MarkDirtyOrSave(m) ==
    \/ batchDepth > 0 /\ batchDirty' = TRUE /\ UNCHANGED <<disk, stale>>
    \/ batchDepth = 0 /\ Save(m) /\ UNCHANGED batchDirty

Mutate(m, idx) ==
    /\ byCoid' = m
    /\ coidByIbkr' = idx
    /\ MarkDirtyOrSave(m)
    /\ UNCHANGED batchDepth

-----------------------------------------------------------------------------
(* Mutators.                                                               *)

AddPending(l) ==
    IF Known(l) THEN UNCHANGED mapVars
    ELSE Mutate([byCoid EXCEPT ![l] = Fresh], coidByIbkr)

\* Faulty: a label without a record is ignored
SetFollowerIdKnownOnly(l, f) ==
    IF ~Known(l) THEN UNCHANGED mapVars
    ELSE Mutate([byCoid EXCEPT ![l].tradovate_id = f], coidByIbkr)

\* set_follower_id / set_tradovate_id creates the record when it is missing
SetFollowerId(l, f) ==
    Mutate([byCoid EXCEPT ![l] = [RecordOf(l) EXCEPT !.tradovate_id = f]],
           coidByIbkr)

\* The reverse index without the id the record of l carries.
Released(l) ==
    [s \in SourceId |->
        IF s = RecordOf(l).ibkr_order_id THEN NoId ELSE coidByIbkr[s]]

\* bind_source_id / set_ibkr_id: drops this label's previous reverse entry,
\* and overwrites the entry of s without touching a record that carried s
BindSourceId(l, s) ==
    Mutate([byCoid EXCEPT ![l] = [RecordOf(l) EXCEPT !.ibkr_order_id = s]],
           [Released(l) EXCEPT ![s] = l])

\* Faulty: the record stays behind
RemoveBySourceIdIndexOnly(s) ==
    IF LabelOf(s) = NoId THEN UNCHANGED mapVars
    ELSE Mutate(byCoid, [coidByIbkr EXCEPT ![s] = NoId])

RemoveBySourceId(s) ==
    IF LabelOf(s) = NoId THEN UNCHANGED mapVars
    ELSE Mutate([byCoid EXCEPT ![LabelOf(s)] = NoRecord],
                [coidByIbkr EXCEPT ![s] = NoId])

\* Faulty: the index entry stays behind
RemoveByLabelRecordOnly(l) ==
    IF ~Known(l) THEN UNCHANGED mapVars
    ELSE Mutate([byCoid EXCEPT ![l] = NoRecord], coidByIbkr)

RemoveByLabel(l) ==
    IF ~Known(l) THEN UNCHANGED mapVars
    ELSE Mutate([byCoid EXCEPT ![l] = NoRecord], Released(l))

-----------------------------------------------------------------------------
(* batch(): a depth counter shared by every thread.                        *)

BatchEnter ==
    /\ batchDepth' = batchDepth + 1
    /\ UNCHANGED <<byCoid, coidByIbkr, batchDirty, disk, stale>>

\* Faulty: the block is left twice
BatchExitTwice ==
    /\ batchDepth' = batchDepth - 2
    /\ UNCHANGED <<byCoid, coidByIbkr, batchDirty, disk, stale>>

\* Faulty: the flag is cleared and the flush forgotten
BatchExitUnflushed ==
    /\ batchDepth' = batchDepth - 1
    /\ batchDirty' = (batchDirty /\ batchDepth # 1)
    /\ UNCHANGED <<byCoid, coidByIbkr, disk, stale>>

BatchExit ==
    /\ batchDepth' = batchDepth - 1
    /\ UNCHANGED <<byCoid, coidByIbkr>>
    /\ IF batchDepth = 1 /\ batchDirty
       THEN batchDirty' = FALSE /\ Save(byCoid)
       ELSE UNCHANGED <<batchDirty, disk, stale>>

-----------------------------------------------------------------------------
(* _load.  When two records carry the same source id the later one in the  *)
(* file wins; the order of the records is abstracted, so either may.       *)

Contested(m) ==
    {s \in SourceId : \E k, l \in Carriers(m, s) : k # l}

IndexFrom(m, winner) ==
    [s \in SourceId |->
        CASE s \in Contested(m)     -> winner[s]
          [] Carriers(m, s) = {}    -> NoId
          [] OTHER                  -> CHOOSE l \in Carriers(m, s) : TRUE]

\* The process dies and a new one loads the file.
Reload ==
    /\ byCoid' = disk
    /\ \E winner \in [Contested(disk) -> Label] :
          /\ \A s \in Contested(disk) : winner[s] \in Carriers(disk, s)
          /\ coidByIbkr' = IndexFrom(disk, winner)
    /\ batchDepth' = 0
    /\ batchDirty' = FALSE
    /\ stale' = FALSE
    /\ UNCHANGED disk

\* The same, when the new process first removes the labels in gone, one
\* remove_by_coid each; the last of these writes may be the ones that fail.
ReloadThenPrune(gone) ==
    /\ byCoid' = [l \in Label |-> IF l \in gone THEN NoRecord ELSE disk[l]]
    /\ \E winner \in [Contested(disk) -> Label] :
          /\ \A s \in Contested(disk) : winner[s] \in Carriers(disk, s)
          /\ coidByIbkr' =
                [s \in SourceId |-> IF Carriers(disk, s) \cap gone # {}
                                   THEN NoId ELSE IndexFrom(disk, winner)[s]]
    /\ \E kept \in IF SaveMayFail THEN SUBSET gone ELSE {{}} :
          /\ disk' = [l \in Label |-> IF l \in gone \ kept
                                     THEN NoRecord ELSE disk[l]]
          /\ stale' = (kept # {})
    /\ batchDepth' = 0
    /\ batchDirty' = FALSE

=============================================================================
