---------------------------- MODULE OrderMapProofs ----------------------------
(***************************************************************************)
(* Theorems about the order map, for every set of labels, ids and blocks.  *)
(***************************************************************************)
EXTENDS OrderMapStore, FiniteSetTheorems, TLAPS

-----------------------------------------------------------------------------
(* Types.                                                                  *)

(* A lookup of a label yields a record, present or fresh. *)
LEMMA RecordOfType ==
    ASSUME MapTypeOK, NEW l \in Label
    PROVE  RecordOf(l) \in Record
BY DEF MapTypeOK, RecordOf, Known, RecordMap, Record, Fresh

(* Releasing the id of a label leaves an index. *)
LEMMA ReleasedType ==
    ASSUME MapTypeOK, NEW l \in Label
    PROVE  Released(l) \in Index
BY DEF MapTypeOK, Released, Index

(* Every mutator's write, deferred, done or failed, keeps the types. *)
LEMMA MutateType ==
    ASSUME MapTypeOK, NEW m \in RecordMap, NEW idx \in Index, Mutate(m, idx)
    PROVE  MapTypeOK'
BY DEF MapTypeOK, Mutate, MarkDirtyOrSave, Save

(* A fresh record can be stored under any label. *)
LEMMA StoreType ==
    ASSUME MapTypeOK, NEW l \in Label, NEW r \in Record \cup {NoRecord}
    PROVE  [byCoid EXCEPT ![l] = r] \in RecordMap
BY DEF MapTypeOK, RecordMap

(* What a restart loads is an index. *)
LEMMA IndexFromType ==
    ASSUME NEW m \in RecordMap, NEW winner \in [Contested(m) -> Label]
    PROVE  IndexFrom(m, winner) \in Index
<1>1. SUFFICES ASSUME NEW s \in SourceId, s \notin Contested(m),
                      Carriers(m, s) # {}
               PROVE  (CHOOSE l \in Carriers(m, s) : TRUE) \in Label
  BY DEF IndexFrom, Index
<1>2. QED
  BY <1>1 DEF Carriers

(* The counter that all threads share counts the blocks they have open. *)
BatchBalanced == batchDepth = Cardinality(openBlocks)

LEMMA TypeInit == Init => TypeOK /\ BatchBalanced
<1> SUFFICES ASSUME Init PROVE TypeOK /\ BatchBalanced
  OBVIOUS
<1> USE DEF Init, MapInit
<1>1. [l \in Label |-> NoRecord] \in RecordMap
  BY DEF RecordMap
<1>2. [s \in SourceId |-> NoId] \in Index
  BY DEF Index
<1>3. TypeOK
  BY <1>1, <1>2 DEF TypeOK, MapTypeOK
<1>4. BatchBalanced
  BY FS_EmptySet DEF BatchBalanced
<1>5. QED
  BY <1>3, <1>4

(* Entering and leaving a block keep the count. *)
LEMMA BalanceStep ==
    TypeOK /\ BatchBalanced /\ [Next]_vars => BatchBalanced'
<1> SUFFICES ASSUME TypeOK, BatchBalanced, [Next]_vars PROVE BatchBalanced'
  OBVIOUS
<1> USE DEF BatchBalanced
<1>1. IsFiniteSet(openBlocks)
  BY BlockAssumption, FS_Subset DEF TypeOK
<1>2. ASSUME NEW b \in Block, EnterBlock(b) PROVE BatchBalanced'
  BY <1>1, <1>2, FS_AddElement DEF EnterBlock, BatchEnter
<1>3. ASSUME NEW b \in Block, ExitBlock(b) PROVE BatchBalanced'
  BY <1>1, <1>3, FS_RemoveElement DEF ExitBlock, BatchExit
<1>4. CASE Crash
  BY <1>4, FS_EmptySet DEF Crash, Reload
<1>5. ASSUME UNCHANGED <<batchDepth, openBlocks>> PROVE BatchBalanced'
  BY <1>5
<1>6. ASSUME NEW l \in Label, Add(l) \/ RemoveLabel(l) PROVE BatchBalanced'
  BY <1>5, <1>6
     DEF Add, RemoveLabel, AddPending, RemoveByLabel, Mutate, mapVars, Unaided
<1>7. ASSUME NEW l \in Label, NEW f \in FollowerId, SetFollower(l, f)
      PROVE  BatchBalanced'
  BY <1>5, <1>7 DEF SetFollower, SetFollowerId, Mutate, Unaided
<1>8. ASSUME NEW l \in Label, NEW s \in SourceId, Bind(l, s)
      PROVE  BatchBalanced'
  BY <1>5, <1>8 DEF Bind, BindSourceId, Mutate
<1>9. ASSUME NEW s \in SourceId, RemoveSource(s) PROVE BatchBalanced'
  BY <1>5, <1>9 DEF RemoveSource, RemoveBySourceId, Mutate, mapVars, Unaided
<1>10. CASE UNCHANGED vars
  BY <1>5, <1>10 DEF vars, mapVars
<1>11. QED
  BY <1>2, <1>3, <1>4, <1>6, <1>7, <1>8, <1>9, <1>10 DEF Next

LEMMA TypeStep == TypeOK /\ BatchBalanced /\ [Next]_vars => TypeOK'
<1> SUFFICES ASSUME TypeOK, BatchBalanced, [Next]_vars PROVE TypeOK'
  OBVIOUS
<1> USE DEF TypeOK, Unaided
<1>1. ASSUME NEW l \in Label, Add(l) PROVE TypeOK'
  <2>1. Fresh \in Record
    BY DEF Fresh, Record
  <2>2. CASE Known(l)
    BY <1>1, <2>2 DEF Add, AddPending, mapVars, MapTypeOK
  <2>3. CASE ~Known(l)
    <3>1. coidByIbkr \in Index
      BY DEF MapTypeOK
    <3>2. QED
      BY <1>1, <2>1, <2>3, <3>1, StoreType, MutateType DEF Add, AddPending
  <2>4. QED
    BY <2>2, <2>3
<1>2. ASSUME NEW l \in Label, RemoveLabel(l) PROVE TypeOK'
  <2>1. CASE ~Known(l)
    BY <1>2, <2>1 DEF RemoveLabel, RemoveByLabel, mapVars, MapTypeOK
  <2>2. CASE Known(l)
    BY <1>2, <2>2, StoreType, ReleasedType, MutateType
       DEF RemoveLabel, RemoveByLabel
  <2>3. QED
    BY <2>1, <2>2
<1>3. ASSUME NEW l \in Label, NEW f \in FollowerId, SetFollower(l, f)
      PROVE  TypeOK'
  <2>1. [RecordOf(l) EXCEPT !.tradovate_id = f] \in Record
    BY RecordOfType DEF Record
  <2>2. coidByIbkr \in Index
    BY DEF MapTypeOK
  <2>3. QED
    BY <1>3, <2>1, <2>2, StoreType, MutateType DEF SetFollower, SetFollowerId
<1>4. ASSUME NEW l \in Label, NEW s \in SourceId, Bind(l, s) PROVE TypeOK'
  <2>1. [RecordOf(l) EXCEPT !.ibkr_order_id = s] \in Record
    BY RecordOfType DEF Record
  <2>2. [Released(l) EXCEPT ![s] = l] \in Index
    BY ReleasedType DEF Index
  <2>3. MapTypeOK'
    BY <1>4, <2>1, <2>2, StoreType, MutateType DEF Bind, BindSourceId
  <2>4. QED
    BY <1>4, <2>3 DEF Bind
<1>5. ASSUME NEW s \in SourceId, RemoveSource(s) PROVE TypeOK'
  <2>1. CASE LabelOf(s) = NoId
    BY <1>5, <2>1 DEF RemoveSource, RemoveBySourceId, mapVars, MapTypeOK
  <2>2. CASE LabelOf(s) # NoId
    <3>1. LabelOf(s) \in Label
      BY <2>2 DEF LabelOf, MapTypeOK, Index
    <3>2. [coidByIbkr EXCEPT ![s] = NoId] \in Index
      BY DEF MapTypeOK, Index
    <3>3. QED
      BY <1>5, <2>2, <3>1, <3>2, StoreType, MutateType
         DEF RemoveSource, RemoveBySourceId
  <2>3. QED
    BY <2>1, <2>2
<1>6. ASSUME NEW b \in Block, EnterBlock(b) PROVE TypeOK'
  BY <1>6 DEF EnterBlock, BatchEnter, MapTypeOK
<1>7. ASSUME NEW b \in Block, ExitBlock(b) PROVE TypeOK'
  <2>1. IsFiniteSet(openBlocks)
    BY BlockAssumption, FS_Subset
  <2>2. /\ IsFiniteSet(openBlocks \ {b})
        /\ Cardinality(openBlocks \ {b}) = batchDepth - 1
    BY <1>7, <2>1, FS_RemoveElement DEF ExitBlock, BatchBalanced
  <2>3. batchDepth - 1 \in Nat
    BY <2>2, FS_CardinalityType
  <2>4. QED
    BY <1>7, <2>3 DEF ExitBlock, BatchExit, Save, MapTypeOK
<1>8. ASSUME Crash PROVE TypeOK'
  BY <1>8, IndexFromType DEF Crash, Reload, MapTypeOK
<1>9. CASE UNCHANGED vars
  BY <1>9 DEF vars, mapVars, MapTypeOK
<1>10. QED
  BY <1>1, <1>2, <1>3, <1>4, <1>5, <1>6, <1>7, <1>8, <1>9 DEF Next

(* Every reachable state has the types, and the batch counter that all
   threads share counts the open blocks. *)
THEOREM TypeCorrect == Spec => []TypeOK /\ []BatchBalanced
<1>1. Init => TypeOK /\ BatchBalanced
  BY TypeInit
<1>2. TypeOK /\ BatchBalanced /\ [Next]_vars => TypeOK' /\ BatchBalanced'
  BY TypeStep, BalanceStep
<1>3. QED
  BY <1>1, <1>2, PTL DEF Spec

-----------------------------------------------------------------------------
(* The reverse index.                                                      *)

LEMMA SoundInit == Init => IndexSound
BY DEF Init, MapInit, IndexSound

(* A mutator keeps the index sound when the records it writes carry what
   the index it writes resolves to. *)
LEMMA SoundStep ==
    TypeOK /\ IndexSound /\ [Next]_vars => IndexSound'
<1> SUFFICES ASSUME TypeOK, IndexSound, [Next]_vars PROVE IndexSound'
  OBVIOUS
<1> SUFFICES ASSUME NEW s \in SourceId, coidByIbkr'[s] # NoId
             PROVE  /\ coidByIbkr'[s] \in Label
                    /\ byCoid'[coidByIbkr'[s]] # NoRecord
                    /\ byCoid'[coidByIbkr'[s]].ibkr_order_id = s
  BY DEF IndexSound, Carriers
<1> USE DEF TypeOK, MapTypeOK
<1>0. ASSUME coidByIbkr[s] # NoId
      PROVE  /\ coidByIbkr[s] \in Label
             /\ byCoid[coidByIbkr[s]] # NoRecord
             /\ byCoid[coidByIbkr[s]].ibkr_order_id = s
  BY <1>0 DEF IndexSound, Carriers
<1>1. ASSUME UNCHANGED <<byCoid, coidByIbkr>>
      PROVE  /\ coidByIbkr'[s] \in Label
             /\ byCoid'[coidByIbkr'[s]] # NoRecord
             /\ byCoid'[coidByIbkr'[s]].ibkr_order_id = s
  BY <1>0, <1>1
<1>2. ASSUME NEW l \in Label, Add(l)
      PROVE  /\ coidByIbkr'[s] \in Label
             /\ byCoid'[coidByIbkr'[s]] # NoRecord
             /\ byCoid'[coidByIbkr'[s]].ibkr_order_id = s
  BY <1>0, <1>2 DEF Add, AddPending, Mutate, mapVars, Known, RecordMap
<1>3. ASSUME NEW l \in Label, RemoveLabel(l)
      PROVE  /\ coidByIbkr'[s] \in Label
             /\ byCoid'[coidByIbkr'[s]] # NoRecord
             /\ byCoid'[coidByIbkr'[s]].ibkr_order_id = s
  BY <1>0, <1>3 DEF RemoveLabel, RemoveByLabel, Mutate, mapVars, Known,
                    RecordMap, Released, RecordOf
<1>4. ASSUME NEW l \in Label, NEW f \in FollowerId, SetFollower(l, f)
      PROVE  /\ coidByIbkr'[s] \in Label
             /\ byCoid'[coidByIbkr'[s]] # NoRecord
             /\ byCoid'[coidByIbkr'[s]].ibkr_order_id = s
  <2>1. [RecordOf(l) EXCEPT !.tradovate_id = f] \in Record
    BY RecordOfType DEF Record
  <2>2. [RecordOf(l) EXCEPT !.tradovate_id = f] # NoRecord
    BY <2>1, NoRecordAssumption
  <2>3. [RecordOf(l) EXCEPT !.tradovate_id = f].ibkr_order_id
          = RecordOf(l).ibkr_order_id
    BY RecordOfType DEF Record
  <2>4. QED
    BY <1>0, <1>4, <2>2, <2>3
       DEF SetFollower, SetFollowerId, Mutate, RecordMap, RecordOf, Known
<1>5. ASSUME NEW l \in Label, NEW t \in SourceId, Bind(l, t)
      PROVE  /\ coidByIbkr'[s] \in Label
             /\ byCoid'[coidByIbkr'[s]] # NoRecord
             /\ byCoid'[coidByIbkr'[s]].ibkr_order_id = s
  <2>1. [RecordOf(l) EXCEPT !.ibkr_order_id = t] \in Record
    BY RecordOfType DEF Record
  <2>2. [RecordOf(l) EXCEPT !.ibkr_order_id = t] # NoRecord
    BY <2>1, NoRecordAssumption
  <2>3. [RecordOf(l) EXCEPT !.ibkr_order_id = t].ibkr_order_id = t
    BY RecordOfType DEF Record
  <2>4. CASE s = t
    BY <1>5, <2>2, <2>3, <2>4
       DEF Bind, BindSourceId, Mutate, RecordMap, Released
  <2>5. CASE s # t
    <3>1. /\ coidByIbkr'[s] = coidByIbkr[s]
          /\ s # RecordOf(l).ibkr_order_id
      BY <1>5, <2>5 DEF Bind, BindSourceId, Mutate, Released
    <3>2. coidByIbkr[s] # l
      BY <1>0, <3>1 DEF RecordOf, Known
    <3>3. byCoid'[coidByIbkr[s]] = byCoid[coidByIbkr[s]]
      BY <1>5, <3>2 DEF Bind, BindSourceId, Mutate, RecordMap
    <3>4. QED
      BY <1>0, <3>1, <3>3
  <2>6. QED
    BY <2>4, <2>5
<1>6. ASSUME NEW t \in SourceId, RemoveSource(t)
      PROVE  /\ coidByIbkr'[s] \in Label
             /\ byCoid'[coidByIbkr'[s]] # NoRecord
             /\ byCoid'[coidByIbkr'[s]].ibkr_order_id = s
  <2>1. CASE LabelOf(t) = NoId
    BY <1>1, <1>6, <2>1 DEF RemoveSource, RemoveBySourceId, mapVars
  <2>2. CASE LabelOf(t) # NoId
    <3>1. /\ coidByIbkr[t] \in Label
          /\ byCoid[coidByIbkr[t]].ibkr_order_id = t
      BY <2>2 DEF LabelOf, IndexSound, Carriers
    <3>2. /\ s # t
          /\ coidByIbkr'[s] = coidByIbkr[s]
      BY <1>6, <2>2 DEF RemoveSource, RemoveBySourceId, Mutate, Index
    <3>3. coidByIbkr[s] # coidByIbkr[t]
      BY <1>0, <3>1, <3>2
    <3>4. byCoid'[coidByIbkr[s]] = byCoid[coidByIbkr[s]]
      BY <1>0, <1>6, <2>2, <3>1, <3>2, <3>3
         DEF RemoveSource, RemoveBySourceId, Mutate, LabelOf, RecordMap
    <3>5. QED
      BY <1>0, <3>2, <3>4
  <2>3. QED
    BY <2>1, <2>2
<1>7. CASE Crash
  <2>1. PICK winner \in [Contested(disk) -> Label] :
           /\ \A t \in Contested(disk) : winner[t] \in Carriers(disk, t)
           /\ coidByIbkr' = IndexFrom(disk, winner)
    BY <1>7 DEF Crash, Reload
  <2>2. coidByIbkr'[s] \in Carriers(disk, s)
    <3>1. CASE s \in Contested(disk)
      BY <2>1, <3>1 DEF IndexFrom
    <3>2. CASE s \notin Contested(disk) /\ Carriers(disk, s) # {}
      BY <2>1, <3>2 DEF IndexFrom
    <3>3. CASE s \notin Contested(disk) /\ Carriers(disk, s) = {}
      BY <2>1, <3>3 DEF IndexFrom
    <3>4. QED
      BY <3>1, <3>2, <3>3
  <2>3. QED
    BY <1>7, <2>2 DEF Crash, Reload, Carriers
<1>8. ASSUME NEW b \in Block, EnterBlock(b) \/ ExitBlock(b)
      PROVE  UNCHANGED <<byCoid, coidByIbkr>>
  BY <1>8 DEF EnterBlock, ExitBlock, BatchEnter, BatchExit
<1>9. UNCHANGED vars => UNCHANGED <<byCoid, coidByIbkr>>
  BY DEF vars, mapVars
<1>10. QED
  BY <1>1, <1>2, <1>3, <1>4, <1>5, <1>6, <1>7, <1>8, <1>9 DEF Next

(* A source id never resolves to a record that was removed or that carries
   another id, whatever calls, batches and restarts came before. *)
THEOREM IndexIsSound == Spec => []IndexSound
<1>1. TypeOK /\ IndexSound /\ [Next]_vars => IndexSound'
  BY SoundStep
<1>2. QED
  BY <1>1, SoundInit, TypeCorrect, PTL DEF Spec

-----------------------------------------------------------------------------
(* Durability.                                                             *)

(* What makes DurableOutsideBatch inductive: a dirty map has an open block,
   and a clean one whose last write succeeded equals the file. *)
DurableInv ==
    /\ batchDirty => batchDepth > 0
    /\ ~batchDirty /\ ~stale => disk = byCoid

(* A mutator either defers its write and says so, or writes. *)
LEMMA MutateDurable ==
    ASSUME MapTypeOK, DurableInv, NEW m, NEW idx, Mutate(m, idx)
    PROVE  DurableInv'
BY DEF MapTypeOK, DurableInv, Mutate, MarkDirtyOrSave, Save

LEMMA DurableStep ==
    TypeOK /\ DurableInv /\ [Next]_vars => DurableInv'
<1> SUFFICES ASSUME TypeOK, DurableInv, [Next]_vars PROVE DurableInv'
  OBVIOUS
<1> USE DEF TypeOK
<1>1. UNCHANGED mapVars => DurableInv'
  BY DEF mapVars, DurableInv
<1>2. ASSUME NEW l \in Label, Add(l) \/ RemoveLabel(l) PROVE DurableInv'
  BY <1>1, <1>2, MutateDurable
     DEF Add, RemoveLabel, AddPending, RemoveByLabel
<1>3. ASSUME NEW l \in Label, NEW f \in FollowerId, SetFollower(l, f)
      PROVE  DurableInv'
  BY <1>3, MutateDurable DEF SetFollower, SetFollowerId
<1>4. ASSUME NEW l \in Label, NEW s \in SourceId, Bind(l, s)
      PROVE  DurableInv'
  BY <1>4, MutateDurable DEF Bind, BindSourceId
<1>5. ASSUME NEW s \in SourceId, RemoveSource(s) PROVE DurableInv'
  BY <1>1, <1>5, MutateDurable DEF RemoveSource, RemoveBySourceId
<1>6. ASSUME NEW b \in Block, EnterBlock(b) PROVE DurableInv'
  BY <1>6 DEF EnterBlock, BatchEnter, DurableInv, MapTypeOK
<1>7. ASSUME NEW b \in Block, ExitBlock(b) PROVE DurableInv'
  BY <1>7 DEF ExitBlock, BatchExit, Save, DurableInv, MapTypeOK
<1>8. CASE Crash
  BY <1>8 DEF Crash, Reload, DurableInv
<1>9. CASE UNCHANGED vars
  BY <1>1, <1>9 DEF vars
<1>10. QED
  BY <1>2, <1>3, <1>4, <1>5, <1>6, <1>7, <1>8, <1>9 DEF Next

(* Once no thread is in a batch, the file holds the map, unless the last
   write failed. *)
THEOREM Durability == Spec => []DurableOutsideBatch
<1>1. Init => DurableInv
  BY DEF Init, MapInit, DurableInv
<1>2. TypeOK /\ DurableInv /\ [Next]_vars => DurableInv'
  BY DurableStep
<1>3. TypeOK /\ BatchBalanced /\ DurableInv => DurableOutsideBatch
  BY FS_EmptySet DEF BatchBalanced, DurableInv, DurableOutsideBatch
<1>4. QED
  BY <1>1, <1>2, <1>3, TypeCorrect, PTL DEF Spec

-----------------------------------------------------------------------------
(* Completeness of the index.                                              *)

(* What makes IndexComplete inductive: the file, which is some earlier map,
   never has two records for one id that was not shared. *)
CompleteInv ==
    \A s \in SourceId \ shared :
        /\ \A l \in Carriers(byCoid, s) : coidByIbkr[s] = l
        /\ \A k, l \in Carriers(disk, s) : k = l

LEMMA CompleteInit == Init => CompleteInv
BY DEF Init, MapInit, CompleteInv, Carriers

(* A mutator keeps the invariant when the index it writes leads to every
   carrier in the records it writes. *)
LEMMA MutateComplete ==
    ASSUME CompleteInv, NEW m, NEW idx, Mutate(m, idx), shared \subseteq shared',
           \A s \in SourceId \ shared' : \A l \in Carriers(m, s) : idx[s] = l
    PROVE  CompleteInv'
<1> SUFFICES ASSUME NEW s \in SourceId \ shared'
             PROVE  /\ \A l \in Carriers(byCoid', s) : coidByIbkr'[s] = l
                    /\ \A k, l \in Carriers(disk', s) : k = l
  BY DEF CompleteInv, Carriers
<1>1. byCoid' = m /\ coidByIbkr' = idx /\ (disk' = disk \/ disk' = m)
  BY DEF Mutate, MarkDirtyOrSave, Save
<1>2. \A k, l \in Carriers(disk, s) : k = l
  BY DEF CompleteInv
<1>3. \A l \in Carriers(m, s) : idx[s] = l
  OBVIOUS
<1>4. QED
  BY <1>1, <1>2, <1>3

(* Nothing that the invariant speaks of has changed. *)
LEMMA CompleteUnchanged ==
    CompleteInv /\ UNCHANGED <<byCoid, coidByIbkr, disk, shared>> => CompleteInv'
BY DEF CompleteInv, Carriers

LEMMA CompleteStep ==
    TypeOK /\ CompleteInv /\ [Next]_vars => CompleteInv'
<1> SUFFICES ASSUME TypeOK, CompleteInv, [Next]_vars PROVE CompleteInv'
  OBVIOUS
<1>1. ASSUME NEW s \in SourceId \ shared, NEW l \in Carriers(byCoid, s)
      PROVE  coidByIbkr[s] = l
  BY DEF CompleteInv
<1>2. MapTypeOK
  BY DEF TypeOK
<1>3. ASSUME NEW l \in Label, Add(l) PROVE CompleteInv'
  <2>1. CASE Known(l)
    BY <1>3, <2>1, CompleteUnchanged DEF Add, AddPending, mapVars, Unaided
  <2>2. CASE ~Known(l)
    <3> DEFINE m == [byCoid EXCEPT ![l] = Fresh]
    <3>1. \A s \in SourceId : Carriers(m, s) \subseteq Carriers(byCoid, s)
      BY <1>2, NoIdAssumption DEF Carriers, Fresh, MapTypeOK, RecordMap
    <3>2. \A s \in SourceId \ shared :
             \A k \in Carriers(m, s) : coidByIbkr[s] = k
      BY <1>1, <3>1
    <3>3. Mutate(m, coidByIbkr) /\ shared' = shared
      BY <1>3, <2>2 DEF Add, AddPending, Unaided
    <3>4. QED
      BY <3>2, <3>3, MutateComplete
  <2>3. QED
    BY <2>1, <2>2
<1>4. ASSUME NEW l \in Label, RemoveLabel(l) PROVE CompleteInv'
  <2>1. CASE ~Known(l)
    BY <1>4, <2>1, CompleteUnchanged
       DEF RemoveLabel, RemoveByLabel, mapVars, Unaided
  <2>2. CASE Known(l)
    <3> DEFINE m == [byCoid EXCEPT ![l] = NoRecord]
    <3>1. ASSUME NEW s \in SourceId \ shared, NEW k \in Carriers(m, s)
          PROVE  Released(l)[s] = k
      <4>1. k \in Carriers(byCoid, s) /\ k # l
        BY <1>2 DEF Carriers, MapTypeOK, RecordMap
      <4>2. coidByIbkr[s] = k
        BY <1>1, <4>1
      <4>3. l \notin Carriers(byCoid, s)
        BY <1>1, <4>1, <4>2
      <4>4. RecordOf(l).ibkr_order_id # s
        BY <2>2, <4>3 DEF Carriers, RecordOf, Known
      <4>5. QED
        BY <4>2, <4>4 DEF Released
    <3>2. Mutate(m, Released(l)) /\ shared' = shared
      BY <1>4, <2>2 DEF RemoveLabel, RemoveByLabel, Unaided
    <3>3. QED
      BY <3>1, <3>2, MutateComplete
  <2>3. QED
    BY <2>1, <2>2
<1>5. ASSUME NEW l \in Label, NEW f \in FollowerId, SetFollower(l, f)
      PROVE  CompleteInv'
  <2> DEFINE r == [RecordOf(l) EXCEPT !.tradovate_id = f]
             m == [byCoid EXCEPT ![l] = r]
  <2>1. r.ibkr_order_id = RecordOf(l).ibkr_order_id
    BY <1>2, RecordOfType DEF Record
  <2>2. \A s \in SourceId : l \in Carriers(m, s) => l \in Carriers(byCoid, s)
    <3>1. SUFFICES ASSUME NEW s \in SourceId, l \in Carriers(m, s)
                   PROVE  l \in Carriers(byCoid, s)
      OBVIOUS
    <3>2. RecordOf(l).ibkr_order_id = s
      BY <1>2, <2>1, <3>1 DEF Carriers, MapTypeOK, RecordMap
    <3>3. Known(l)
      BY <3>2, NoIdAssumption DEF RecordOf, Fresh
    <3>4. QED
      BY <3>2, <3>3 DEF RecordOf, Known, Carriers
  <2>3. \A s \in SourceId : \A k \in Carriers(m, s) : k \in Carriers(byCoid, s)
    BY <1>2, <2>2 DEF Carriers, MapTypeOK, RecordMap
  <2>4. \A s \in SourceId \ shared :
           \A k \in Carriers(m, s) : coidByIbkr[s] = k
    BY <1>1, <2>3
  <2>5. Mutate(m, coidByIbkr) /\ shared' = shared
    BY <1>5 DEF SetFollower, SetFollowerId, Unaided
  <2>6. QED
    BY <2>4, <2>5, MutateComplete
<1>6. ASSUME NEW l \in Label, NEW t \in SourceId, Bind(l, t)
      PROVE  CompleteInv'
  <2> DEFINE r   == [RecordOf(l) EXCEPT !.ibkr_order_id = t]
             m   == [byCoid EXCEPT ![l] = r]
             idx == [Released(l) EXCEPT ![t] = l]
  <2>1. Mutate(m, idx) /\ shared \subseteq shared'
    BY <1>6 DEF Bind, BindSourceId
  <2>2. ASSUME NEW s \in SourceId \ shared', NEW k \in Carriers(m, s)
        PROVE  idx[s] = k
    <3>1. r.ibkr_order_id = t
      BY <1>2, RecordOfType DEF Record
    <3>2. k \in Label /\ (k # l => k \in Carriers(byCoid, s))
      BY <1>2 DEF Carriers, MapTypeOK, RecordMap
    <3>3. k = l => s = t
      BY <1>2, <3>1 DEF Carriers, MapTypeOK, RecordMap
    <3>4. CASE s = t
      <4>1. Carriers(byCoid, t) \subseteq {l}
        BY <1>6, <2>2, <3>4 DEF Bind
      <4>2. k = l
        BY <3>2, <3>4, <4>1
      <4>3. QED
        BY <3>4, <4>2 DEF Released
    <3>5. CASE s # t
      <4>1. k # l /\ coidByIbkr[s] = k
        BY <1>1, <2>1, <3>2, <3>3, <3>5
      <4>2. l \notin Carriers(byCoid, s)
        BY <1>1, <2>1, <4>1
      <4>3. RecordOf(l).ibkr_order_id # s
        BY <4>2, NoIdAssumption DEF Carriers, RecordOf, Known, Fresh
      <4>4. QED
        BY <3>5, <4>1, <4>3 DEF Released
    <3>6. QED
      BY <3>4, <3>5
  <2>3. QED
    BY <2>1, <2>2, MutateComplete
<1>7. ASSUME NEW t \in SourceId, RemoveSource(t) PROVE CompleteInv'
  <2>1. CASE LabelOf(t) = NoId
    BY <1>7, <2>1, CompleteUnchanged
       DEF RemoveSource, RemoveBySourceId, mapVars, Unaided
  <2>2. CASE LabelOf(t) # NoId
    <3> DEFINE m   == [byCoid EXCEPT ![LabelOf(t)] = NoRecord]
               idx == [coidByIbkr EXCEPT ![t] = NoId]
    <3>1. Mutate(m, idx) /\ shared' = shared
      BY <1>7, <2>2 DEF RemoveSource, RemoveBySourceId, Unaided
    <3>2. ASSUME NEW s \in SourceId \ shared, NEW k \in Carriers(m, s)
          PROVE  idx[s] = k
      <4>1. k \in Carriers(byCoid, s) /\ k # LabelOf(t)
        BY <1>2 DEF Carriers, MapTypeOK, RecordMap
      <4>2. coidByIbkr[s] = k
        BY <1>1, <4>1
      <4>3. s # t
        BY <4>1, <4>2 DEF LabelOf
      <4>4. QED
        BY <1>2, <4>2, <4>3 DEF MapTypeOK, Index
    <3>3. QED
      BY <3>1, <3>2, MutateComplete
  <2>3. QED
    BY <2>1, <2>2
<1>8. ASSUME NEW b \in Block, EnterBlock(b) PROVE CompleteInv'
  BY <1>8, CompleteUnchanged DEF EnterBlock, BatchEnter
<1>9. ASSUME NEW b \in Block, ExitBlock(b) PROVE CompleteInv'
  <2>1. /\ UNCHANGED <<byCoid, coidByIbkr, shared>>
        /\ disk' = disk \/ disk' = byCoid
    BY <1>9 DEF ExitBlock, BatchExit, Save
  <2>2. QED
    BY <2>1 DEF CompleteInv, Carriers
<1>10. CASE Crash
  <2>1. PICK winner \in [Contested(disk) -> Label] :
           coidByIbkr' = IndexFrom(disk, winner)
    BY <1>10 DEF Crash, Reload
  <2>2. byCoid' = disk /\ UNCHANGED <<disk, shared>>
    BY <1>10 DEF Crash, Reload
  <2>3. ASSUME NEW s \in SourceId \ shared, NEW l \in Carriers(disk, s)
        PROVE  coidByIbkr'[s] = l
    <3>1. \A k, h \in Carriers(disk, s) : k = h
      BY DEF CompleteInv
    <3>2. s \notin Contested(disk)
      BY <3>1 DEF Contested
    <3>3. (CHOOSE k \in Carriers(disk, s) : TRUE) = l
      BY <2>3, <3>1
    <3>4. QED
      BY <2>1, <2>3, <3>2, <3>3 DEF IndexFrom
  <2>4. QED
    BY <2>2, <2>3 DEF CompleteInv, Carriers
<1>11. CASE UNCHANGED vars
  BY <1>11, CompleteUnchanged DEF vars, mapVars
<1>12. QED
  BY <1>3, <1>4, <1>5, <1>6, <1>7, <1>8, <1>9, <1>10, <1>11 DEF Next

(* A record that carries an id is what the id resolves to, as long as the id
   was never bound to two labels at once; restarts included. *)
THEOREM IndexIsComplete == Spec => []IndexComplete
<1>1. TypeOK /\ CompleteInv /\ [Next]_vars => CompleteInv'
  BY CompleteStep
<1>2. CompleteInv => IndexComplete
  BY DEF CompleteInv, IndexComplete
<1>3. QED
  BY <1>1, <1>2, CompleteInit, TypeCorrect, PTL DEF Spec

-----------------------------------------------------------------------------
(* Restarts.                                                               *)

(* With the file up to date, what a restart loads is what was in memory. *)
LEMMA CrashStep ==
    TypeOK /\ IndexSound /\ DurableInv /\ CompleteInv /\ Crash
      /\ ~batchDirty /\ ~stale
    => /\ byCoid' = byCoid
       /\ \A s \in SourceId \ shared : coidByIbkr'[s] = coidByIbkr[s]
<1> SUFFICES ASSUME TypeOK, IndexSound, DurableInv, CompleteInv, Crash,
                    ~batchDirty, ~stale
             PROVE  /\ byCoid' = byCoid
                    /\ \A s \in SourceId \ shared :
                          coidByIbkr'[s] = coidByIbkr[s]
  OBVIOUS
<1>1. disk = byCoid
  BY DEF DurableInv
<1>2. PICK winner \in [Contested(disk) -> Label] :
         coidByIbkr' = IndexFrom(disk, winner)
  BY DEF Crash, Reload
<1>3. ASSUME NEW s \in SourceId \ shared
      PROVE  coidByIbkr'[s] = coidByIbkr[s]
  <2>1. \A l \in Carriers(disk, s) : coidByIbkr[s] = l
    BY <1>1 DEF CompleteInv
  <2>2. s \notin Contested(disk)
    BY <2>1 DEF Contested
  <2>3. CASE Carriers(disk, s) = {}
    <3>1. coidByIbkr[s] = NoId
      BY <1>1, <2>3 DEF IndexSound
    <3>2. QED
      BY <1>2, <2>2, <2>3, <3>1 DEF IndexFrom
  <2>4. CASE Carriers(disk, s) # {}
    <3>1. (CHOOSE k \in Carriers(disk, s) : TRUE) = coidByIbkr[s]
      BY <2>1, <2>4
    <3>2. QED
      BY <1>2, <2>2, <2>4, <3>1 DEF IndexFrom
  <2>5. QED
    BY <2>3, <2>4
<1>4. QED
  BY <1>1, <1>3 DEF Crash, Reload

(* A restart loses only what an open batch had deferred or a failed write
   had left in memory. *)
THEOREM CrashIsBenign == Spec => CrashLosesOnlyDeferred
<1>1. Spec => []DurableInv
  <2>1. Init => DurableInv
    BY DEF Init, MapInit, DurableInv
  <2>2. TypeOK /\ DurableInv /\ [Next]_vars => DurableInv'
    BY DurableStep
  <2>3. QED
    BY <2>1, <2>2, TypeCorrect, PTL DEF Spec
<1>2. Spec => []CompleteInv
  <2>1. TypeOK /\ CompleteInv /\ [Next]_vars => CompleteInv'
    BY CompleteStep
  <2>2. QED
    BY <2>1, CompleteInit, TypeCorrect, PTL DEF Spec
<1>3. TypeOK /\ IndexSound /\ DurableInv /\ CompleteInv
      => [ Crash /\ ~batchDirty /\ ~stale =>
             /\ byCoid' = byCoid
             /\ \A s \in SourceId \ shared :
                   coidByIbkr'[s] = coidByIbkr[s] ]_vars
  BY CrashStep
<1>4. QED
  BY <1>1, <1>2, <1>3, TypeCorrect, IndexIsSound, PTL
     DEF Spec, CrashLosesOnlyDeferred

=============================================================================
