--------------------------- MODULE ReplicatorProofs ---------------------------
(***************************************************************************)
(* Lemmas about the replicator's steps, for any orders and bounds and for  *)
(* either source: HotPathProofs and PushPipelineProofs build on them.      *)
(* ReplicatorInv is the invariant that holds whatever runs when: types,    *)
(* the batch count and a faithful map.  The second half follows a record   *)
(* from the placement that files it to the cancel that removes it.         *)
(***************************************************************************)
EXTENDS EventReplicator, FiniteSetTheorems, TLAPS

\* placeoso answers with the ids of the exits it was sent, in the order it
\* was sent them, and may leave out the last ones.
RepliesInOrder ==
    ChildReplies \subseteq {<<>>, <<"LMT">>, <<"LMT", "STP">>}

-----------------------------------------------------------------------------
(* Names.                                                                  *)

(* A leg is the entry of an order or an exit of a bracket. *)
LEMMA LegForms ==
    /\ \A o \in Order : Entry(o) \in Leg
    /\ \A b \in Bracket : <<b, "LMT">> \in ExitLeg /\ <<b, "STP">> \in ExitLeg
    /\ ExitLeg \subseteq Leg
    /\ Leg \subseteq MapLabel
    /\ \A leg \in Leg : \/ leg \in ExitLeg
                        \/ leg[1] \in Order /\ leg = Entry(leg[1])
    /\ \A leg \in ExitLeg : \/ leg[1] \in Bracket /\ leg = <<leg[1], "LMT">>
                            \/ leg[1] \in Bracket /\ leg = <<leg[1], "STP">>
BY DEF Leg, ExitLeg, LegsOf, Exits, Entry, Order, MapLabel

(* The siblings of a bracket's exits are each other. *)
LEMMA SiblingForms ==
    ASSUME NEW leg \in ExitLeg
    PROVE  /\ Sibling(leg) \in ExitLeg
           /\ Sibling(Sibling(leg)) = leg
BY LegForms DEF Sibling

(* The label a poll gives a leg is one of the map's, and the leg's own
   unless it is no leg at all. *)
LEMMA PollForms ==
    ASSUME NEW leg \in Leg
    PROVE  /\ PollLabel(leg) \in MapLabel
           /\ PollLabel(leg) \in Leg => PollLabel(leg) = leg
<1>1. CASE leg \in Misnamed
  <2>1. PollLabel(leg) = <<leg[1], "STPLMT">>
    BY <1>1 DEF PollLabel, GhostLabel
  <2>2. PollLabel(leg) \in MapLabel
    BY <1>1 DEF PollLabel, MapLabel
  <2>3. <<leg[1], "STPLMT">> \notin Leg
    BY LegForms DEF Entry
  <2>4. QED
    BY <2>1, <2>2, <2>3
<1>2. CASE leg \notin Misnamed
  BY <1>2, LegForms DEF PollLabel
<1>3. QED
  BY <1>1, <1>2

(* None is neither a leg nor a label. *)
LEMMA NoIdForms == NoId \notin Leg /\ NoId \notin MapLabel
BY NamesAssumption, NoIdAssumption

(* An event is about a leg, and a NEW about an entry. *)
LEMMA EventForms ==
    ASSUME NEW e \in Event
    PROVE  /\ e.leg \in Leg
           /\ e.kind \in {"NEW", "CANCEL", "MODIFY", "FILL"}
           /\ e.kind = "NEW" =>
                 e.leg[1] \in Order /\ e.leg = Entry(e.leg[1]) /\ e.n = 0
           /\ e.kind = "MODIFY" => e.n \in 1 .. MaxVer
           /\ e.kind = "CANCEL" => e.n \in 1 .. MaxCancels
BY LegForms DEF Event, Entry

-----------------------------------------------------------------------------
(* The order map.                                                          *)

\* The labels the id of leg s may be filed under.  Events that carry ids
\* bind it to the leg's own label, polls to the label they read.
OwnLabels(s) ==
    IF IdsInEvents THEN {s, PollLabel(s)} ELSE {PollLabel(s)}

LEMMA OwnLabelForms ==
    ASSUME NEW s \in Leg
    PROVE  /\ OwnLabels(s) \subseteq MapLabel
           /\ OwnLabels(s) \subseteq {s, PollLabel(s)}
           /\ \A o \in Order : s = Entry(o) => s \in OwnLabels(s)
<1>1. ASSUME NEW o \in Order, s = Entry(o) PROVE PollLabel(s) = s
  BY <1>1, LegAssumption DEF PollLabel, Entry
<1>2. QED
  BY <1>1, PollForms, LegForms DEF OwnLabels

\* The records of m lead to the order placed for their label, and carry the
\* id of its leg.
Faithful(m) ==
    \A l \in MapLabel : m[l] # NoRecord =>
        /\ m[l].tradovate_id \in {NoId, l}
        /\ m[l].ibkr_order_id # NoId =>
              l \in OwnLabels(m[l].ibkr_order_id)

FaithfulIndex(idx) ==
    \A s \in Leg : idx[s] \in {NoId} \cup OwnLabels(s)

\* What is not in the file is marked, and nothing is marked outside a batch.
Accounted ==
    /\ batchDepth = 0 => ~batchDirty
    /\ ~batchDirty /\ ~stale => disk = byCoid

MapOK ==
    /\ MapTypeOK
    /\ Faithful(byCoid) /\ Faithful(disk) /\ FaithfulIndex(coidByIbkr)
    /\ Accounted

LEMMA MapInitOK == MapInit => MapOK /\ batchDepth = 0
<1> SUFFICES ASSUME MapInit PROVE MapOK
  BY DEF MapInit
<1> USE NamesAssumption DEF MapInit
<1>1. [l \in Label |-> NoRecord] \in RecordMap
  BY DEF RecordMap
<1>2. [s \in SourceId |-> NoId] \in Index
  BY DEF Index
<1>3. Faithful(byCoid) /\ Faithful(disk) /\ FaithfulIndex(coidByIbkr)
  BY DEF Faithful, FaithfulIndex
<1>4. QED
  BY <1>1, <1>2, <1>3 DEF MapOK, MapTypeOK, Accounted

LEMMA RecordOfOK ==
    ASSUME MapOK, NEW l \in MapLabel
    PROVE  /\ RecordOf(l) \in Record
           /\ RecordOf(l).tradovate_id \in {NoId, l}
           /\ RecordOf(l).ibkr_order_id # NoId =>
                 l \in OwnLabels(RecordOf(l).ibkr_order_id)
BY NamesAssumption
   DEF MapOK, MapTypeOK, RecordOf, Known, RecordMap, Record, Fresh, Faithful

(* What an id leads to at the follower is its own leg's order. *)
LEMMA FollowerOfOK ==
    ASSUME MapOK, NEW s \in Leg
    PROVE  /\ LabelOf(s) \in {NoId} \cup OwnLabels(s)
           /\ LabelOf(s) \in {NoId, s, PollLabel(s)}
           /\ FollowerOf(s) \in {NoId, s}
<1>0. LabelOf(s) \in {NoId} \cup OwnLabels(s)
  BY DEF MapOK, FaithfulIndex, LabelOf
<1>1. LabelOf(s) \in {NoId, s, PollLabel(s)}
  BY <1>0, OwnLabelForms
<1>2. ASSUME LabelOf(s) # NoId PROVE FollowerOf(s) \in {NoId, s}
  <2>1. LabelOf(s) \in MapLabel
    BY <1>1, <1>2, PollForms, LegForms
  <2>2. /\ RecordOf(LabelOf(s)).tradovate_id \in {NoId, LabelOf(s)}
        /\ RecordOf(LabelOf(s)).tradovate_id \in Leg \cup {NoId}
    BY <2>1, RecordOfOK, NamesAssumption DEF Record
  <2>3. QED
    BY <1>1, <1>2, <2>2, PollForms DEF FollowerOf
<1>3. QED
  BY <1>0, <1>1, <1>2 DEF FollowerOf

(* Writing a faithful map with a faithful index, deferred, done or failed. *)
LEMMA MutateOK ==
    ASSUME MapOK, NEW m \in RecordMap, Faithful(m),
           NEW idx \in Index, FaithfulIndex(idx), Mutate(m, idx)
    PROVE  MapOK' /\ batchDepth' = batchDepth
<1> USE DEF Mutate, MarkDirtyOrSave, Save
<1>1. MapTypeOK'
  BY DEF MapOK, MapTypeOK
<1>2. Faithful(byCoid)' /\ FaithfulIndex(coidByIbkr)'
  BY DEF Faithful, FaithfulIndex
<1>3. Faithful(disk)'
  BY DEF MapOK, Faithful
<1>4. Accounted'
  BY DEF MapOK, Accounted, MapTypeOK
<1>5. QED
  BY <1>1, <1>2, <1>3, <1>4 DEF MapOK

LEMMA UnchangedOK ==
    ASSUME MapOK, UNCHANGED mapVars
    PROVE  MapOK' /\ batchDepth' = batchDepth
BY DEF MapOK, MapTypeOK, mapVars, Faithful, FaithfulIndex, Accounted

(* Storing a faithful record, or none, keeps a map faithful. *)
LEMMA StoreOK ==
    ASSUME MapOK, NEW l \in MapLabel, NEW r \in Record \cup {NoRecord},
           r # NoRecord =>
              /\ r.tradovate_id \in {NoId, l}
              /\ r.ibkr_order_id # NoId =>
                    l \in OwnLabels(r.ibkr_order_id)
    PROVE  /\ [byCoid EXCEPT ![l] = r] \in RecordMap
           /\ Faithful([byCoid EXCEPT ![l] = r])
BY NamesAssumption DEF MapOK, MapTypeOK, RecordMap, Faithful

LEMMA ReleasedOK ==
    ASSUME MapOK, NEW l \in MapLabel
    PROVE  Released(l) \in Index /\ FaithfulIndex(Released(l))
BY NamesAssumption
   DEF MapOK, MapTypeOK, Released, Index, FaithfulIndex

LEMMA AddPendingOK ==
    ASSUME MapOK, NEW l \in MapLabel, AddPending(l)
    PROVE  MapOK' /\ batchDepth' = batchDepth
<1>1. CASE Known(l)
  BY <1>1, UnchangedOK DEF AddPending
<1>2. CASE ~Known(l)
  <2>1. /\ [byCoid EXCEPT ![l] = Fresh] \in RecordMap
        /\ Faithful([byCoid EXCEPT ![l] = Fresh])
    BY StoreOK DEF Fresh, Record
  <2>2. coidByIbkr \in Index /\ FaithfulIndex(coidByIbkr)
    BY DEF MapOK, MapTypeOK
  <2>3. QED
    BY <1>2, <2>1, <2>2, MutateOK DEF AddPending
<1>3. QED
  BY <1>1, <1>2

LEMMA SetFollowerIdOK ==
    ASSUME MapOK, NEW l \in Leg, SetFollowerId(l, l)
    PROVE  MapOK' /\ batchDepth' = batchDepth
<1> DEFINE r == [RecordOf(l) EXCEPT !.tradovate_id = l]
<1>1. l \in MapLabel
  BY LegForms
<1>2. /\ r \in Record /\ r.tradovate_id = l
      /\ r.ibkr_order_id = RecordOf(l).ibkr_order_id
  BY <1>1, RecordOfOK, NamesAssumption DEF Record
<1>3. /\ [byCoid EXCEPT ![l] = r] \in RecordMap
      /\ Faithful([byCoid EXCEPT ![l] = r])
  <2> HIDE DEF r
  <2>1. QED
    BY <1>1, <1>2, RecordOfOK, StoreOK
<1>4. coidByIbkr \in Index /\ FaithfulIndex(coidByIbkr)
  BY DEF MapOK, MapTypeOK
<1>5. QED
  BY <1>3, <1>4, MutateOK DEF SetFollowerId

LEMMA BindSourceIdOK ==
    ASSUME MapOK, NEW s \in Leg, NEW l \in OwnLabels(s),
           BindSourceId(l, s)
    PROVE  MapOK' /\ batchDepth' = batchDepth
<1> DEFINE r == [RecordOf(l) EXCEPT !.ibkr_order_id = s]
           idx == [Released(l) EXCEPT ![s] = l]
<1>1. l \in MapLabel
  BY OwnLabelForms
<1>2. /\ r \in Record /\ r.ibkr_order_id = s
      /\ r.tradovate_id = RecordOf(l).tradovate_id
  BY <1>1, RecordOfOK, NamesAssumption DEF Record
<1>3. /\ [byCoid EXCEPT ![l] = r] \in RecordMap
      /\ Faithful([byCoid EXCEPT ![l] = r])
  <2> HIDE DEF r
  <2>1. QED
    BY <1>1, <1>2, RecordOfOK, StoreOK
<1>4. idx \in Index /\ FaithfulIndex(idx)
  BY <1>1, ReleasedOK, NamesAssumption DEF Index, FaithfulIndex
<1>5. QED
  BY <1>3, <1>4, MutateOK DEF BindSourceId

LEMMA RemoveBySourceIdOK ==
    ASSUME MapOK, NEW s \in Leg, RemoveBySourceId(s)
    PROVE  MapOK' /\ batchDepth' = batchDepth
<1>1. CASE LabelOf(s) = NoId
  BY <1>1, UnchangedOK DEF RemoveBySourceId
<1>2. CASE LabelOf(s) # NoId
  <2>1. LabelOf(s) \in MapLabel
    BY <1>2, FollowerOfOK, PollForms, LegForms
  <2>2. /\ [byCoid EXCEPT ![LabelOf(s)] = NoRecord] \in RecordMap
        /\ Faithful([byCoid EXCEPT ![LabelOf(s)] = NoRecord])
    BY <2>1, StoreOK
  <2>3. /\ [coidByIbkr EXCEPT ![s] = NoId] \in Index
        /\ FaithfulIndex([coidByIbkr EXCEPT ![s] = NoId])
    BY NamesAssumption DEF MapOK, MapTypeOK, Index, FaithfulIndex
  <2>4. QED
    BY <1>2, <2>2, <2>3, MutateOK DEF RemoveBySourceId
<1>3. QED
  BY <1>1, <1>2

LEMMA RemoveByLabelOK ==
    ASSUME MapOK, NEW l \in MapLabel, RemoveByLabel(l)
    PROVE  MapOK' /\ batchDepth' = batchDepth
<1>1. CASE ~Known(l)
  BY <1>1, UnchangedOK DEF RemoveByLabel
<1>2. CASE Known(l)
  BY <1>2, StoreOK, ReleasedOK, MutateOK DEF RemoveByLabel
<1>3. QED
  BY <1>1, <1>2

(* A restart loads a faithful map from a faithful file. *)
LEMMA PruneOK ==
    ASSUME MapOK, NEW gone \in SUBSET MapLabel, ReloadThenPrune(gone)
    PROVE  MapOK' /\ batchDepth' = 0
<1> USE NamesAssumption
<1>1. PICK winner \in [Contested(disk) -> Label] :
          /\ \A s \in Contested(disk) : winner[s] \in Carriers(disk, s)
          /\ coidByIbkr' =
                [s \in SourceId |-> IF Carriers(disk, s) \cap gone # {}
                                   THEN NoId ELSE IndexFrom(disk, winner)[s]]
  BY DEF ReloadThenPrune
<1>2. PICK kept \in IF SaveMayFail THEN SUBSET gone ELSE {{}} :
          /\ disk' = [l \in Label |-> IF l \in gone \ kept
                                     THEN NoRecord ELSE disk[l]]
          /\ stale' = (kept # {})
  BY DEF ReloadThenPrune
<1>3. byCoid' = [l \in Label |-> IF l \in gone THEN NoRecord ELSE disk[l]]
  BY DEF ReloadThenPrune
<1>4. batchDepth' = 0 /\ batchDirty' = FALSE
  BY DEF ReloadThenPrune
<1>5. byCoid' \in RecordMap /\ disk' \in RecordMap
  BY <1>2, <1>3 DEF MapOK, MapTypeOK, RecordMap
<1>6. Faithful(byCoid)' /\ Faithful(disk)'
  BY <1>2, <1>3 DEF MapOK, Faithful
<1>7. ASSUME NEW s \in Leg
      PROVE  \A l \in Carriers(disk, s) : l \in OwnLabels(s)
  BY <1>7, NoIdForms DEF MapOK, Faithful, Carriers
<1>8. ASSUME NEW s \in Leg
      PROVE  IndexFrom(disk, winner)[s] \in {NoId} \cup OwnLabels(s)
  BY <1>1, <1>7, <1>8 DEF IndexFrom
<1>9. FaithfulIndex(coidByIbkr)'
  BY <1>1, <1>8 DEF FaithfulIndex
<1>10. coidByIbkr' \in Index
  BY <1>1, <1>8, OwnLabelForms DEF Index
<1>11. Accounted'
  BY <1>2, <1>3, <1>4 DEF Accounted
<1>12. QED
  BY <1>2, <1>4, <1>5, <1>6, <1>9, <1>10, <1>11 DEF MapOK, MapTypeOK

-----------------------------------------------------------------------------
(* The threads.                                                            *)

\* One update of the map: set_follower_id, or bind_source_id when the
\* events carry ids.
MapOp == {<<"set", leg, leg>> : leg \in Leg}
           \cup IF IdsInEvents THEN {<<"bind", leg, leg>> : leg \in Leg} ELSE {}

ThreadRecord ==
    [pc     : {"idle", "reserve", "place", "enter", "register", "label",
               "lookup", "call", "remove", "cascade", "callsib",
               "removesib", "tidysib", "done"},
     label  : MapLabel \cup {NoId},
     fid    : Leg \cup {NoId},
     todo   : Seq(MapOp),
     result : {"none", "ok", "skipped", "notfound", "fault", "lost"}]

\* What a thread of e may be doing, and with what in its locals.
ThreadOK(e, t) ==
    /\ t \in ThreadRecord
    /\ t.pc \in {"reserve", "place", "enter", "register"} => e.kind = "NEW"
    /\ t.pc = "enter" => e.leg[1] \in Bracket
    /\ t.pc = "register" /\ e.leg[1] \in Single => t.todo # <<>>
    /\ t.pc \in {"remove", "cascade", "callsib", "removesib", "tidysib"} =>
          e.kind \in {"CANCEL", "FILL"}
    /\ t.label \in {NoId, e.leg, PollLabel(e.leg)}
    /\ t.pc = "call" => t.fid = e.leg
    /\ t.pc \in {"callsib", "removesib", "tidysib"} =>
          e.leg \in ExitLeg /\ t.label = e.leg
    /\ t.pc = "callsib" => t.fid = Sibling(e.leg)

ThreadsOK ==
    /\ task \in [Event -> ThreadRecord]
    /\ \A e \in Event : ThreadOK(e, task[e])

\* The threads inside the batch() block of a bracket.
InBatch == {e \in Event : task[e].pc = "register" /\ e.leg[1] \in Bracket}

BatchCounted ==
    IsFiniteSet(InBatch) /\ batchDepth = Cardinality(InBatch)

LEMMA ThreadStep ==
    ASSUME ThreadsOK, NEW e \in Event, NEW t, ThreadOK(e, t),
           task' = [task EXCEPT ![e] = t]
    PROVE  ThreadsOK'
<1>1. t \in ThreadRecord
  BY DEF ThreadOK
<1>2. task' \in [Event -> ThreadRecord]
  BY <1>1 DEF ThreadsOK
<1>3. ASSUME NEW d \in Event PROVE ThreadOK(d, task'[d])
  BY DEF ThreadsOK
<1>4. QED
  BY <1>2, <1>3 DEF ThreadsOK

(* Steps outside the blocks leave the count alone; entering and leaving a
   block change it by one. *)
LEMMA BatchKept ==
    ASSUME ThreadsOK, BatchCounted, batchDepth' = batchDepth,
           NEW e \in Event, NEW t, task' = [task EXCEPT ![e] = t],
           (task[e].pc = "register" <=> t.pc = "register")
              \/ e.leg[1] \notin Bracket
    PROVE  BatchCounted'
<1>1. InBatch' = InBatch
  BY DEF InBatch, ThreadsOK
<1>2. QED
  BY <1>1 DEF BatchCounted

LEMMA BatchEntered ==
    ASSUME ThreadsOK, BatchCounted, batchDepth' = batchDepth + 1,
           NEW e \in Event, NEW t, task' = [task EXCEPT ![e] = t],
           task[e].pc # "register", t.pc = "register", e.leg[1] \in Bracket
    PROVE  BatchCounted'
<1>1. InBatch' = InBatch \cup {e} /\ e \notin InBatch
  BY DEF InBatch, ThreadsOK
<1>2. QED
  BY <1>1, FS_AddElement DEF BatchCounted

LEMMA BatchLeft ==
    ASSUME ThreadsOK, BatchCounted, batchDepth' = batchDepth - 1,
           NEW e \in Event, NEW t, task' = [task EXCEPT ![e] = t],
           task[e].pc = "register", t.pc # "register", e.leg[1] \in Bracket
    PROVE  BatchCounted'
<1>1. InBatch' = InBatch \ {e} /\ e \in InBatch
  BY DEF InBatch, ThreadsOK
<1>2. QED
  BY <1>1, FS_RemoveElement DEF BatchCounted

(* A thread starts at the first step of its event's handler, and one that
   ends has no locals. *)
LEMMA StartForms ==
    ASSUME NEW e \in Event
    PROVE  /\ ThreadOK(e, Thread(FirstPc(e), NoId, NoId, <<>>, "none"))
           /\ FirstPc(e) \in {"place", "reserve", "label", "lookup"}
<1>1. /\ FirstPc(e) \in {"place", "reserve", "label", "lookup"}
      /\ FirstPc(e) \in {"place", "reserve"} => e.kind = "NEW"
  BY EventForms DEF FirstPc
<1>2. QED
  BY <1>1 DEF ThreadOK, ThreadRecord, Thread

LEMMA ReturnForms ==
    ASSUME NEW e \in Event,
           NEW result \in {"ok", "skipped", "notfound", "fault", "lost"}
    PROVE  ThreadOK(e, Thread("done", NoId, NoId, <<>>, result))
BY DEF ThreadOK, ThreadRecord, Thread

(* Starting threads that run no block. *)
LEMMA StartingOK ==
    ASSUME ThreadsOK, BatchCounted, NEW es, es \cap InBatch = {},
           task' = Starting(es), batchDepth' = batchDepth
    PROVE  ThreadsOK' /\ BatchCounted'
<1>1. ASSUME NEW e \in Event PROVE ThreadOK(e, task'[e])
  BY StartForms DEF Starting, ThreadsOK
<1>2. ThreadsOK'
  BY <1>1 DEF Starting, ThreadsOK, ThreadOK
<1>3. InBatch' = InBatch
  <2>1. ASSUME NEW e \in Event, e \in es
        PROVE  task'[e].pc # "register" /\ e \notin InBatch
    BY <2>1, StartForms DEF Starting, Thread
  <2>2. ASSUME NEW e \in Event, e \notin es PROVE task'[e] = task[e]
    BY <2>2 DEF Starting
  <2>3. QED
    BY <2>1, <2>2 DEF InBatch
<1>4. QED
  BY <1>2, <1>3 DEF BatchCounted

(* The updates a placement has to make are pairs of a leg with itself. *)
LEMMA RegistrationForms ==
    ASSUME RepliesInOrder, NEW o \in Order,
           NEW roles \in {<<>>} \cup ChildReplies,
           roles = <<>> \/ o \in Bracket
    PROVE  /\ Registrations(Entry(o), roles) \in Seq(MapOp)
           /\ Registrations(Entry(o), roles) # <<>>
<1> DEFINE N == Len(roles)
           legAt(i) == IF i = 0 THEN Entry(o) ELSE <<Entry(o)[1], roles[i]>>
           labelAt(i) == IF i = 0 THEN Entry(o)
                         ELSE <<Entry(o)[1], <<"LMT", "STP">>[i]>>
<1>1. N \in {0, 1, 2}
  BY DEF RepliesInOrder
<1>2. ASSUME NEW i \in 0 .. N PROVE labelAt(i) = legAt(i) /\ legAt(i) \in Leg
  <2>1. CASE i = 0
    BY <2>1, LegForms
  <2>2. CASE i # 0
    <3>1. o \in Bracket /\ Entry(o)[1] = o
      BY <1>2, <2>2 DEF Entry
    <3>2. roles[i] = <<"LMT", "STP">>[i] /\ roles[i] \in {"LMT", "STP"}
      BY <1>2, <2>2 DEF RepliesInOrder
    <3>3. <<o, "LMT">> \in Leg /\ <<o, "STP">> \in Leg
      BY <3>1, LegForms
    <3>4. QED
      BY <2>2, <3>1, <3>2, <3>3
  <2>3. QED
    BY <2>1, <2>2
<1> DEFINE set(i)  == <<"set", labelAt(i), legAt(i)>>
           bind(i) == <<"bind", labelAt(i), labelAt(i)>>
<1>3. ASSUME NEW i \in 0 .. N 
      PROVE  set(i) \in MapOp /\ (IdsInEvents => bind(i) \in MapOp)
  <2> HIDE DEF legAt, labelAt
  <2>1. QED
    BY <1>2, <1>3 DEF MapOp
<1> DEFINE both == [k \in 1 .. 2 * (N + 1) |->
                      IF k % 2 = 1 THEN set((k - 1) \div 2)
                      ELSE bind((k \div 2) - 1)]
           sets == [k \in 1 .. N + 1 |-> set(k - 1)]
<1>4. Registrations(Entry(o), roles) = IF IdsInEvents THEN both ELSE sets
  BY DEF Registrations
<1> HIDE DEF set, bind
<1>5. IdsInEvents => both \in Seq(MapOp) /\ both # <<>>
  <2> SUFFICES ASSUME IdsInEvents PROVE both \in Seq(MapOp) /\ both # <<>>
    OBVIOUS
  <2>1. ASSUME NEW k \in 1 .. 2 * (N + 1)
        PROVE  /\ k % 2 = 1 => (k - 1) \div 2 \in 0 .. N
               /\ k % 2 # 1 => (k \div 2) - 1 \in 0 .. N
    <3> HIDE DEF N
    <3>1. k \in {1, 2, 3, 4, 5, 6} /\ (k > 2 => N > 0) /\ (k > 4 => N = 2)
      BY <1>1, <2>1
    <3>2. QED
      BY <1>1, <3>1
  <2>2. ASSUME NEW k \in 1 .. 2 * (N + 1) PROVE both[k] \in MapOp
    BY <1>3, <2>1, <2>2
  <2> HIDE DEF N
  <2>3. 2 * (N + 1) \in Nat /\ 1 \in 1 .. 2 * (N + 1)
    BY <1>1
  <2>4. both \in Seq(MapOp)
    BY <2>2, <2>3
  <2>5. DOMAIN both # {}
    BY <2>3
  <2>6. QED
    BY <2>4, <2>5
<1>6. sets \in Seq(MapOp) /\ sets # <<>>
  <2>1. ASSUME NEW k \in 1 .. N + 1 PROVE sets[k] \in MapOp
    BY <1>1, <1>3, <2>1
  <2> HIDE DEF N, set
  <2>2. N + 1 \in Nat /\ 1 \in 1 .. N + 1
    BY <1>1
  <2>3. sets \in Seq(MapOp)
    BY <2>1, <2>2
  <2>4. DOMAIN sets # {}
    BY <2>2
  <2>5. QED
    BY <2>3, <2>4
<1>7. QED
  BY <1>4, <1>5, <1>6

-----------------------------------------------------------------------------
(* The follower.                                                           *)

FollowerOK ==
    /\ fol \in [Leg -> {"none", "open", "cancelled", "filled"}]
    /\ folVer \in [Leg -> 0 .. MaxVer]
    /\ faults \in 0 .. MaxFaults

LEMMA FaultOK ==
    ASSUME FollowerOK, UNCHANGED faults \/ Fault
    PROVE  faults' \in 0 .. MaxFaults
BY FaultAssumption DEF FollowerOK, Fault

LEMMA EndedOK ==
    ASSUME FollowerOK, NEW leg, NEW how \in {"cancelled", "filled"}
    PROVE  Ended(leg, how) \in [Leg -> {"none", "open", "cancelled", "filled"}]
BY DEF FollowerOK, Ended

LEMMA PlaceOK ==
    ASSUME FollowerOK, NEW legs, NEW out, Place(legs, out)
    PROVE  FollowerOK'
<1>1. faults' \in 0 .. MaxFaults
  BY FaultOK DEF Place
<1>2. QED
  BY <1>1 DEF Place, FollowerOK

LEMMA CancelAtOK ==
    ASSUME FollowerOK, NEW leg, NEW out, CancelAt(leg, out)
    PROVE  FollowerOK'
<1>1. faults' \in 0 .. MaxFaults
  BY FaultOK DEF CancelAt
<1>2. QED
  BY <1>1, EndedOK DEF CancelAt, FollowerOK

LEMMA ModifyAtOK ==
    ASSUME FollowerOK, NEW leg, NEW ver \in 0 .. MaxVer, NEW out,
           ModifyAt(leg, ver, out)
    PROVE  FollowerOK'
<1>1. faults' \in 0 .. MaxFaults
  BY FaultOK DEF ModifyAt
<1>2. QED
  BY <1>1 DEF ModifyAt, FollowerOK

LEMMA FollowerFillOK ==
    ASSUME FollowerOK, NEW leg \in Leg, FollowerFill(leg)
    PROVE  FollowerOK'
BY EndedOK DEF FollowerFill, FollowerOK

-----------------------------------------------------------------------------
(* The steps.                                                              *)

\* The inductive invariant of the replicator, whatever its source does.
ReplicatorInv ==
    /\ MapOK
    /\ FollowerOK
    /\ ThreadsOK
    /\ BatchCounted
    /\ opened \subseteq MapLabel

(* It implies the types, the faithful map and the settled file. *)
LEMMA InvGives ==
    ASSUME ReplicatorInv
    PROVE  ReplicatorTypeOK /\ MappingFaithful /\ SettledIsDurable
<1>1. ReplicatorTypeOK
  <2>1. ASSUME NEW e \in Event PROVE ThreadTypeOK(task[e])
    <3>1. task[e] \in ThreadRecord
      BY DEF ReplicatorInv, ThreadsOK
    <3>2. ASSUME NEW i \in DOMAIN task[e].todo
          PROVE  task[e].todo[i] \in {"set", "bind"} \X MapLabel \X Leg
      <4>1. task[e].todo[i] \in MapOp
        BY <3>1, <3>2 DEF ThreadRecord
      <4>2. QED
        BY <4>1, LegForms DEF MapOp
    <3>3. QED
      BY <3>1, <3>2 DEF ThreadRecord, ThreadTypeOK
  <2>2. DOMAIN task = Event
    BY DEF ReplicatorInv, ThreadsOK
  <2>3. QED
    BY <2>1, <2>2 DEF ReplicatorInv, ReplicatorTypeOK, FollowerOK, MapOK
<1>2. MappingFaithful
  BY DEF ReplicatorInv, MapOK, Faithful, OwnLabels, MappingFaithful, Known
<1>3. SettledIsDurable
  <2> SUFFICES ASSUME Running = {}, ~stale
               PROVE  batchDepth = 0 /\ disk = byCoid
    BY DEF SettledIsDurable
  <2>1. InBatch = {}
    BY DEF Running, Started, Finished, InBatch
  <2>2. batchDepth = 0
    BY <2>1, FS_EmptySet DEF ReplicatorInv, BatchCounted
  <2>3. QED
    BY <2>2 DEF ReplicatorInv, MapOK, Accounted
<1>4. QED
  BY <1>1, <1>2, <1>3

LEMMA ReplicatorInitOK == ReplicatorInit => ReplicatorInv
<1> SUFFICES ASSUME ReplicatorInit PROVE ReplicatorInv
  OBVIOUS
<1> USE DEF ReplicatorInit
<1>1. MapOK /\ batchDepth = 0
  BY MapInitOK
<1>2. FollowerOK
  BY FaultAssumption, BoundAssumption DEF FollowerInit, FollowerOK
<1>3. ThreadsOK
  <2>1. ASSUME NEW e \in Event PROVE ThreadOK(e, Idle)
    BY DEF ThreadOK, ThreadRecord, Idle, Thread
  <2>2. QED
    BY <2>1 DEF ThreadsOK, ThreadOK
<1>4. BatchCounted
  <2>1. InBatch = {}
    BY DEF InBatch, Idle, Thread
  <2>2. QED
    BY <1>1, <2>1, FS_EmptySet DEF BatchCounted
<1>5. QED
  BY <1>1, <1>2, <1>3, <1>4 DEF ReplicatorInv

(* A step that neither enters nor leaves a block keeps the invariant when it
   keeps the map, the follower and its own thread in order. *)
LEMMA MoveOK ==
    ASSUME ReplicatorInv, MapOK', FollowerOK', opened' \subseteq MapLabel,
           batchDepth' = batchDepth,
           NEW e \in Event, NEW t, ThreadOK(e, t),
           task' = [task EXCEPT ![e] = t],
           (task[e].pc = "register" <=> t.pc = "register")
              \/ e.leg[1] \notin Bracket
    PROVE  ReplicatorInv'
BY ThreadStep, BatchKept DEF ReplicatorInv

(* What of the state a step that leaves the follower or the map alone keeps. *)
LEMMA FolUnchangedOK ==
    ASSUME FollowerOK, UNCHANGED folVars PROVE FollowerOK'
BY DEF FollowerOK, folVars

LEMMA NonEmpty ==
    ASSUME NEW S, NEW seq \in Seq(S), Len(seq) # 0
    PROVE  seq # <<>>
OBVIOUS

(* NEW: the label is reserved, the order placed, the answer filed. *)
LEMMA NewOK ==
    ASSUME ReplicatorInv, RepliesInOrder, NEW e \in Event,
           \/ Reserve(e) \/ PlaceOrder(e) \/ PlaceBracket(e)
           \/ EnterBatch(e) \/ Register(e) \/ ExitBatch(e)
    PROVE  ReplicatorInv'
<1> DEFINE th == task[e]
<1>0. /\ MapOK /\ FollowerOK /\ ThreadsOK /\ BatchCounted
      /\ opened \subseteq MapLabel
      /\ ThreadOK(e, th) /\ th \in ThreadRecord
  BY DEF ReplicatorInv, ThreadsOK
<1>1. CASE Reserve(e)
  <2> DEFINE t == [th EXCEPT !.pc = "place"]
  <2>1. e.leg \in MapLabel /\ e.kind = "NEW"
    BY <1>0, <1>1, EventForms, LegForms DEF Reserve, At, ThreadOK
  <2>2. MapOK' /\ batchDepth' = batchDepth
    BY <1>0, <1>1, <2>1, AddPendingOK DEF Reserve
  <2>3. ThreadOK(e, t)
    BY <1>0, <1>1, <2>1 DEF Reserve, At, ThreadOK, ThreadRecord
  <2>4. FollowerOK' /\ opened' \subseteq MapLabel
    BY <1>0, <1>1, FolUnchangedOK DEF Reserve
  <2>5. /\ task' = [task EXCEPT ![e] = t]
        /\ th.pc # "register" /\ t.pc # "register"
    BY <1>0, <1>1 DEF Reserve, Goto, At, ThreadRecord
  <2>6. QED
    BY <2>2, <2>3, <2>4, <2>5, MoveOK
<1>2. ASSUME NEW out, Place(LegsOf(e.leg[1]), out) \/ Place({e.leg}, out),
             Raised(out), At(e, "place"), Return(e, out),
             UNCHANGED <<mapVars, opened>>
      PROVE  ReplicatorInv'
  <2> DEFINE t == Thread("done", NoId, NoId, <<>>, out)
  <2>1. ThreadOK(e, t)
    BY <1>2, ReturnForms DEF Raised
  <2>2. FollowerOK'
    BY <1>0, <1>2, PlaceOK
  <2>3. MapOK' /\ batchDepth' = batchDepth /\ opened' \subseteq MapLabel
    BY <1>0, <1>2, UnchangedOK
  <2>4. task' = [task EXCEPT ![e] = t] /\ th.pc # "register" /\ t.pc # "register"
    BY <1>2 DEF Return, At, Thread
  <2>5. QED
    BY <2>1, <2>2, <2>3, <2>4, MoveOK
<1>3. CASE PlaceOrder(e)
  <2>1. PICK out \in {"ok", "fault"} :
           /\ Place({e.leg}, out)
           /\ IF Raised(out) THEN Return(e, out)
              ELSE task' = [task EXCEPT
                               ![e].pc = "register",
                               ![e].todo = Registrations(e.leg, <<>>)]
    BY <1>3 DEF PlaceOrder
  <2>2. CASE Raised(out)
    BY <1>2, <1>3, <2>1, <2>2 DEF PlaceOrder
  <2>3. CASE ~Raised(out)
    <3> DEFINE todo == Registrations(e.leg, <<>>)
               t == [th EXCEPT !.pc = "register", !.todo = todo]
    <3>1. e.kind = "NEW" /\ e.leg[1] \in Order /\ e.leg = Entry(e.leg[1])
      BY <1>0, <1>3, EventForms DEF PlaceOrder, At, ThreadOK
    <3>2. todo \in Seq(MapOp) /\ todo # <<>>
      BY <3>1, RegistrationForms
    <3>3. ThreadOK(e, t)
      <4> HIDE DEF todo
      <4>1. QED
        BY <1>0, <3>1, <3>2 DEF ThreadOK, ThreadRecord
    <3>4. FollowerOK'
      BY <1>0, <2>1, PlaceOK
    <3>5. MapOK' /\ batchDepth' = batchDepth /\ opened' \subseteq MapLabel
      BY <1>0, <1>3, UnchangedOK DEF PlaceOrder
    <3>6. e.leg[1] \notin Bracket
      BY <1>3, LegAssumption DEF PlaceOrder
    <3>7. task' = [task EXCEPT ![e] = t]
      BY <2>1, <2>3
    <3>8. QED
      BY <3>3, <3>4, <3>5, <3>6, <3>7, MoveOK
  <2>4. QED
    BY <2>2, <2>3
<1>4. CASE PlaceBracket(e)
  <2>1. PICK out \in {"ok", "fault"} :
           /\ Place(LegsOf(e.leg[1]), out)
           /\ IF Raised(out) THEN Return(e, out)
              ELSE \E roles \in ChildReplies :
                      task' = [task EXCEPT
                                  ![e].pc = "enter",
                                  ![e].todo = Registrations(e.leg, roles)]
    BY <1>4 DEF PlaceBracket
  <2>2. CASE Raised(out)
    BY <1>2, <1>4, <2>1, <2>2 DEF PlaceBracket
  <2>3. CASE ~Raised(out)
    <3>1. PICK roles \in ChildReplies :
             task' = [task EXCEPT ![e].pc = "enter",
                                  ![e].todo = Registrations(e.leg, roles)]
      BY <2>1, <2>3
    <3> DEFINE todo == Registrations(e.leg, roles)
               t == [th EXCEPT !.pc = "enter", !.todo = todo]
    <3>2. /\ e.kind = "NEW" /\ e.leg[1] \in Bracket
          /\ e.leg[1] \in Order /\ e.leg = Entry(e.leg[1])
      BY <1>0, <1>4, EventForms DEF PlaceBracket, At, ThreadOK
    <3>3. todo \in Seq(MapOp)
      BY <3>2, RegistrationForms
    <3>4. ThreadOK(e, t)
      <4> HIDE DEF todo
      <4>1. QED
        BY <1>0, <3>2, <3>3 DEF ThreadOK, ThreadRecord
    <3>5. FollowerOK'
      BY <1>0, <2>1, PlaceOK
    <3>6. MapOK' /\ batchDepth' = batchDepth /\ opened' \subseteq MapLabel
      BY <1>0, <1>4, UnchangedOK DEF PlaceBracket
    <3>7. task' = [task EXCEPT ![e] = t]
      BY <3>1
    <3>8. th.pc # "register" /\ t.pc # "register"
      BY <1>0, <1>4 DEF PlaceBracket, At, ThreadRecord
    <3> HIDE DEF t
    <3>9. QED
      BY <3>4, <3>5, <3>6, <3>7, <3>8, MoveOK
  <2>4. QED
    BY <2>2, <2>3
<1>5. CASE EnterBatch(e)
  <2> DEFINE t == [th EXCEPT !.pc = "register"]
  <2>1. e.leg[1] \in Bracket /\ e.kind = "NEW" /\ th.pc = "enter"
    BY <1>0, <1>5 DEF EnterBatch, At, ThreadOK
  <2>2. ThreadOK(e, t)
    BY <1>0, <2>1, LegAssumption DEF ThreadOK, ThreadRecord
  <2>3. task' = [task EXCEPT ![e] = t]
    BY <1>5 DEF EnterBatch, Goto
  <2>4. t.pc = "register"
    BY <1>0 DEF ThreadRecord
  <2>5. MapOK' /\ batchDepth' = batchDepth + 1
    BY <1>0, <1>5 DEF EnterBatch, BatchEnter, MapOK, MapTypeOK, Faithful,
                      FaithfulIndex, Accounted
  <2>6. FollowerOK' /\ opened' \subseteq MapLabel
    BY <1>0, <1>5, FolUnchangedOK DEF EnterBatch
  <2> HIDE DEF t
  <2>7. ThreadsOK' /\ BatchCounted'
    BY <1>0, <2>1, <2>2, <2>3, <2>4, <2>5, ThreadStep, BatchEntered
  <2>8. QED
    BY <2>5, <2>6, <2>7 DEF ReplicatorInv
<1>6. CASE Register(e)
  <2> DEFINE op == Head(th.todo)
             t == IF e.leg[1] \in Single /\ Len(th.todo) = 1
                  THEN Thread("done", NoId, NoId, <<>>, "ok")
                  ELSE [th EXCEPT !.todo = Tail(th.todo)]
  <2>1. th.pc = "register" /\ th.todo # <<>> /\ th.todo \in Seq(MapOp)
    BY <1>0, <1>6 DEF Register, At, ThreadRecord
  <2>2. op \in MapOp
    BY <2>1
  <2>3. op[2] \in Leg /\ op[3] = op[2]
    BY <2>2 DEF MapOp
  <2>0. op[1] # "set" => op[2] \in OwnLabels(op[2])
    BY <2>2 DEF MapOp, OwnLabels
  <2>4. IF op[1] = "set" THEN SetFollowerId(op[2], op[2])
        ELSE BindSourceId(op[2], op[2])
    BY <1>6, <2>3 DEF Register
  <2>5. MapOK' /\ batchDepth' = batchDepth
    BY <1>0, <2>0, <2>3, <2>4, SetFollowerIdOK, BindSourceIdOK
  <2>6. ThreadOK(e, t)
    <3>1. CASE e.leg[1] \in Single /\ Len(th.todo) = 1
      BY <3>1, ReturnForms
    <3>2. CASE ~(e.leg[1] \in Single /\ Len(th.todo) = 1)
      <4>1. /\ Tail(th.todo) \in Seq(MapOp)
            /\ e.leg[1] \in Single => Tail(th.todo) # <<>>
        <5>1. /\ Tail(th.todo) \in Seq(MapOp)
              /\ Len(Tail(th.todo)) = Len(th.todo) - 1
          BY <2>1
        <5>2. Len(th.todo) \in Nat /\ Len(th.todo) # 0
          BY <2>1
        <5>3. e.leg[1] \in Single => Len(Tail(th.todo)) # 0
          BY <3>2, <5>1, <5>2
        <5>4. QED
          BY <5>1, <5>3, NonEmpty
      <4>2. QED
        BY <1>0, <2>1, <3>2, <4>1 DEF ThreadOK, ThreadRecord
    <3>3. QED
      BY <3>1, <3>2
  <2>7. task' = [task EXCEPT ![e] = t]
    BY <1>6 DEF Register, Return
  <2>8. FollowerOK' /\ opened' \subseteq MapLabel
    BY <1>0, <1>6, FolUnchangedOK DEF Register
  <2>9. t.pc = "register" \/ e.leg[1] \notin Bracket
    BY <1>0, <2>1, LegAssumption DEF ThreadRecord, Thread
  <2> HIDE DEF t
  <2>10. QED
    BY <2>1, <2>5, <2>6, <2>7, <2>8, <2>9, MoveOK
<1>7. CASE ExitBatch(e)
  <2> DEFINE t == Thread("done", NoId, NoId, <<>>, "ok")
  <2>1. /\ th.pc = "register" /\ e.leg[1] \in Bracket
        /\ t.pc # "register"
    BY <1>0, <1>7, EventForms DEF ExitBatch, At, ThreadOK, Order, Thread
  <2>2. ThreadOK(e, t)
    BY ReturnForms
  <2>3. task' = [task EXCEPT ![e] = t]
    BY <1>7 DEF ExitBatch, Return
  <2>4. batchDepth' = batchDepth - 1
    BY <1>7 DEF ExitBatch, BatchExit
  <2> HIDE DEF t
  <2>5. ThreadsOK' /\ BatchCounted'
    BY <1>0, <2>1, <2>2, <2>3, <2>4, ThreadStep, BatchLeft
  <2>6. batchDepth' \in Nat
    BY <2>5, FS_CardinalityType DEF BatchCounted
  <2>7. MapOK'
    <3> USE DEF ExitBatch, BatchExit, Save
    <3>1. MapTypeOK'
      BY <1>0, <1>7, <2>6 DEF MapOK, MapTypeOK
    <3>2. Faithful(byCoid)' /\ Faithful(disk)' /\ FaithfulIndex(coidByIbkr)'
      BY <1>0, <1>7 DEF MapOK, Faithful, FaithfulIndex
    <3>3. Accounted'
      BY <1>0, <1>7, <2>4 DEF MapOK, MapTypeOK, Accounted
    <3>4. QED
      BY <3>1, <3>2, <3>3 DEF MapOK
  <2>8. FollowerOK' /\ opened' \subseteq MapLabel
    BY <1>0, <1>7, FolUnchangedOK DEF ExitBatch
  <2>9. QED
    BY <2>5, <2>7, <2>8 DEF ReplicatorInv
<1>8. QED
  BY <1>1, <1>3, <1>4, <1>5, <1>6, <1>7

(* CANCEL, MODIFY and FILL: every call is about the event's own order or,
   in a cascade, about its sibling's. *)
LEMMA ChangeOK ==
    ASSUME ReplicatorInv, NEW e \in Event,
           \/ ResolveLabel(e) \/ LookupCancel(e)
           \/ CancelPrimary(e) \/ RemovePrimary(e)
           \/ LookupModify(e) \/ ModifyFollower(e) \/ ApplyFill(e)
    PROVE  ReplicatorInv'
<1> DEFINE th == task[e]
<1>0. /\ MapOK /\ FollowerOK /\ ThreadsOK /\ BatchCounted
      /\ opened \subseteq MapLabel
      /\ ThreadOK(e, th) /\ th \in ThreadRecord
      /\ e.leg \in Leg
      /\ LabelOf(e.leg) \in {NoId, e.leg, PollLabel(e.leg)}
      /\ LabelOf(e.leg) \in MapLabel \cup {NoId}
      /\ FollowerOf(e.leg) \in {NoId, e.leg}
  BY EventForms, FollowerOfOK, PollForms, LegForms
     DEF ReplicatorInv, ThreadsOK
<1>1. CASE ResolveLabel(e)
  <2> DEFINE t == [th EXCEPT !.pc = "lookup", !.label = LabelOf(e.leg)]
  <2>1. ThreadOK(e, t)
    BY <1>0 DEF ThreadOK, ThreadRecord
  <2>2. MapOK' /\ batchDepth' = batchDepth /\ FollowerOK' /\ opened' \subseteq MapLabel
    BY <1>0, <1>1, UnchangedOK, FolUnchangedOK DEF ResolveLabel
  <2>3. /\ task' = [task EXCEPT ![e] = t]
        /\ th.pc # "register" /\ t.pc # "register"
    BY <1>0, <1>1 DEF ResolveLabel, At, ThreadRecord
  <2>4. QED
    BY <2>1, <2>2, <2>3, MoveOK
<1>2. CASE LookupCancel(e)
  <2> DEFINE fid == FollowerOf(e.leg)
             skip == fid # NoId /\ SkipsCancel(th.label)
             t == IF fid = NoId THEN Thread("done", NoId, NoId, <<>>, "skipped")
                  ELSE IF skip THEN Thread("done", NoId, NoId, <<>>, "ok")
                  ELSE [th EXCEPT !.pc = "call", !.fid = fid]
  <2>1. ThreadOK(e, t)
    <3>1. CASE fid = NoId \/ skip
      BY <3>1, ReturnForms
    <3>2. CASE fid # NoId /\ ~skip
      BY <1>0, <3>2 DEF ThreadOK, ThreadRecord
    <3>3. QED
      BY <3>1, <3>2
  <2>2. MapOK' /\ batchDepth' = batchDepth
    BY <1>0, <1>2, RemoveBySourceIdOK, UnchangedOK DEF LookupCancel
  <2>3. FollowerOK' /\ opened' \subseteq MapLabel
    BY <1>0, <1>2, FolUnchangedOK DEF LookupCancel
  <2>4. task' = [task EXCEPT ![e] = t]
    BY <1>2 DEF LookupCancel, Return
  <2>5. th.pc # "register" /\ t.pc # "register"
    BY <1>0, <1>2 DEF LookupCancel, At, Thread, ThreadRecord
  <2> HIDE DEF t
  <2>6. QED
    BY <2>1, <2>2, <2>3, <2>4, <2>5, MoveOK
<1>3. CASE CancelPrimary(e)
  <2>1. PICK out \in {"ok", "notfound", "fault"} :
           /\ CancelAt(task[e].fid, out)
           /\ IF Raised(out) THEN Return(e, out) ELSE Goto(e, "remove")
    BY <1>3 DEF CancelPrimary
  <2> DEFINE t == IF Raised(out) THEN Thread("done", NoId, NoId, <<>>, out)
                  ELSE [th EXCEPT !.pc = "remove"]
  <2>2. ThreadOK(e, t)
    <3>1. CASE Raised(out)
      BY <3>1, ReturnForms DEF Raised
    <3>2. CASE ~Raised(out)
      BY <1>0, <1>3, <3>2 DEF CancelPrimary, ThreadOK, ThreadRecord
    <3>3. QED
      BY <3>1, <3>2
  <2>3. FollowerOK'
    BY <1>0, <2>1, CancelAtOK
  <2>4. MapOK' /\ batchDepth' = batchDepth /\ opened' \subseteq MapLabel
    BY <1>0, <1>3, UnchangedOK DEF CancelPrimary
  <2>5. task' = [task EXCEPT ![e] = t]
    BY <2>1 DEF Return, Goto
  <2>6. th.pc # "register" /\ t.pc # "register"
    BY <1>0, <1>3 DEF CancelPrimary, At, Thread, ThreadRecord
  <2> HIDE DEF t
  <2>7. QED
    BY <2>2, <2>3, <2>4, <2>5, <2>6, MoveOK
<1>4. CASE RemovePrimary(e)
  <2> DEFINE t == [th EXCEPT !.pc = "cascade"]
  <2>1. ThreadOK(e, t)
    BY <1>0, <1>4 DEF RemovePrimary, At, ThreadOK, ThreadRecord
  <2>2. MapOK' /\ batchDepth' = batchDepth
    BY <1>0, <1>4, RemoveBySourceIdOK DEF RemovePrimary
  <2>3. FollowerOK' /\ opened' \subseteq MapLabel
    BY <1>0, <1>4, FolUnchangedOK DEF RemovePrimary
  <2>4. /\ task' = [task EXCEPT ![e] = t]
        /\ th.pc # "register" /\ t.pc # "register"
    BY <1>0, <1>4 DEF RemovePrimary, Goto, At, ThreadRecord
  <2>5. QED
    BY <2>1, <2>2, <2>3, <2>4, MoveOK
<1>5. CASE LookupModify(e)
  <2> DEFINE fid == FollowerOf(e.leg)
             t == IF fid = NoId THEN Thread("done", NoId, NoId, <<>>, "skipped")
                  ELSE [th EXCEPT !.pc = "call", !.fid = fid]
  <2>1. ThreadOK(e, t)
    <3>1. CASE fid = NoId
      BY <3>1, ReturnForms
    <3>2. CASE fid # NoId
      BY <1>0, <3>2 DEF ThreadOK, ThreadRecord
    <3>3. QED
      BY <3>1, <3>2
  <2>2. MapOK' /\ batchDepth' = batchDepth /\ FollowerOK' /\ opened' \subseteq MapLabel
    BY <1>0, <1>5, UnchangedOK, FolUnchangedOK DEF LookupModify
  <2>3. task' = [task EXCEPT ![e] = t]
    BY <1>5 DEF LookupModify, Return
  <2>4. th.pc # "register" /\ t.pc # "register"
    BY <1>0, <1>5 DEF LookupModify, At, Thread, ThreadRecord
  <2> HIDE DEF t
  <2>5. QED
    BY <2>1, <2>2, <2>3, <2>4, MoveOK
<1>6. CASE ModifyFollower(e)
  <2>1. PICK out \in {"ok", "notfound", "fault"} :
           ModifyAt(task[e].fid, e.n, out) /\ Return(e, out)
    BY <1>6 DEF ModifyFollower
  <2> DEFINE t == Thread("done", NoId, NoId, <<>>, out)
  <2>2. ThreadOK(e, t)
    BY ReturnForms
  <2>3. e.n \in 0 .. MaxVer
    BY <1>6, EventForms, BoundAssumption DEF ModifyFollower
  <2>4. FollowerOK'
    BY <1>0, <2>1, <2>3, ModifyAtOK
  <2>5. MapOK' /\ batchDepth' = batchDepth /\ opened' \subseteq MapLabel
    BY <1>0, <1>6, UnchangedOK DEF ModifyFollower
  <2>6. /\ task' = [task EXCEPT ![e] = t]
        /\ th.pc # "register" /\ t.pc # "register"
    BY <1>6, <2>1 DEF ModifyFollower, Return, At, Thread
  <2>7. QED
    BY <2>2, <2>4, <2>5, <2>6, MoveOK
<1>7. CASE ApplyFill(e)
  <2> DEFINE t == [th EXCEPT !.pc = "cascade", !.label = LabelOf(e.leg)]
  <2>1. ThreadOK(e, t)
    BY <1>0, <1>7 DEF ApplyFill, ThreadOK, ThreadRecord
  <2>2. MapOK' /\ batchDepth' = batchDepth /\ FollowerOK'
    BY <1>0, <1>7, UnchangedOK, FolUnchangedOK DEF ApplyFill
  <2>3. opened' \subseteq MapLabel
    BY <1>0, <1>7 DEF ApplyFill
  <2>4. /\ task' = [task EXCEPT ![e] = t]
        /\ th.pc # "register" /\ t.pc # "register"
    BY <1>0, <1>7 DEF ApplyFill, At, ThreadRecord
  <2>5. QED
    BY <2>1, <2>2, <2>3, <2>4, MoveOK
<1>8. QED
  BY <1>1, <1>2, <1>3, <1>4, <1>5, <1>6, <1>7

(* The cascade to the sibling. *)
LEMMA CascadeOK ==
    ASSUME ReplicatorInv, NEW e \in Event,
           LookupSibling(e) \/ CancelSibling(e) \/ RemoveSibling(e)
    PROVE  ReplicatorInv'
<1> DEFINE th == task[e]
<1>0. /\ MapOK /\ FollowerOK /\ ThreadsOK /\ BatchCounted
      /\ opened \subseteq MapLabel
      /\ ThreadOK(e, th) /\ th \in ThreadRecord
      /\ e.leg \in Leg
  BY EventForms DEF ReplicatorInv, ThreadsOK
<1>1. Uncascaded(e) \in {"ok", "skipped"}
  BY DEF Uncascaded
<1>2. CASE LookupSibling(e)
  <2> DEFINE fid == IF ~NativeOco /\ Synthetic(th.label) /\ th.label \in ExitLeg
                    THEN RecordOf(Sibling(th.label)).tradovate_id
                    ELSE NoId
             t == IF fid = NoId
                  THEN Thread("done", NoId, NoId, <<>>, Uncascaded(e))
                  ELSE [th EXCEPT !.pc = "callsib", !.fid = fid]
  <2>1. ThreadOK(e, t)
    <3>1. CASE fid = NoId
      BY <1>1, <3>1, ReturnForms
    <3>2. CASE fid # NoId
      <4>1. th.label \in ExitLeg /\ th.label # NoId
        BY <3>2 DEF Synthetic
      <4>2. th.label = e.leg
        BY <1>0, <4>1, LegForms, PollForms DEF ThreadOK
      <4>3. Sibling(e.leg) \in ExitLeg /\ Sibling(e.leg) \in Leg
        BY <4>1, <4>2, SiblingForms, LegForms
      <4>4. Sibling(e.leg) \in MapLabel
        BY <4>3, LegForms
      <4>5. fid = Sibling(e.leg)
        BY <1>0, <3>2, <4>2, <4>4, RecordOfOK
      <4>6. QED
        BY <1>0, <1>2, <3>2, <4>1, <4>2, <4>3, <4>5
           DEF LookupSibling, At, ThreadOK, ThreadRecord
    <3>3. QED
      BY <3>1, <3>2
  <2>2. MapOK' /\ batchDepth' = batchDepth /\ FollowerOK' /\ opened' \subseteq MapLabel
    BY <1>0, <1>2, UnchangedOK, FolUnchangedOK DEF LookupSibling
  <2>3. task' = [task EXCEPT ![e] = t]
    BY <1>2 DEF LookupSibling, Return
  <2>4. th.pc # "register" /\ t.pc # "register"
    BY <1>0, <1>2 DEF LookupSibling, At, Thread, ThreadRecord
  <2> HIDE DEF t
  <2>5. QED
    BY <2>1, <2>2, <2>3, <2>4, MoveOK
<1>3. CASE CancelSibling(e)
  <2>1. PICK out \in {"ok", "notfound", "fault"} :
           /\ CancelAt(task[e].fid, out)
           /\ Goto(e, IF Raised(out) THEN "tidysib" ELSE "removesib")
    BY <1>3 DEF CancelSibling
  <2> DEFINE t == [th EXCEPT !.pc = IF Raised(out) THEN "tidysib"
                                    ELSE "removesib"]
  <2>2. ThreadOK(e, t)
    BY <1>0, <1>3 DEF CancelSibling, At, ThreadOK, ThreadRecord
  <2>3. FollowerOK'
    BY <1>0, <2>1, CancelAtOK
  <2>4. MapOK' /\ batchDepth' = batchDepth /\ opened' \subseteq MapLabel
    BY <1>0, <1>3, UnchangedOK DEF CancelSibling
  <2>5. /\ task' = [task EXCEPT ![e] = t]
        /\ th.pc # "register" /\ t.pc # "register"
    BY <1>0, <1>3, <2>1 DEF CancelSibling, Goto, At, ThreadRecord
  <2>6. QED
    BY <2>2, <2>3, <2>4, <2>5, MoveOK
<1>4. CASE RemoveSibling(e)
  <2> DEFINE result == IF At(e, "tidysib") THEN Uncascaded(e) ELSE "ok"
             t == Thread("done", NoId, NoId, <<>>, result)
  <2>1. ThreadOK(e, t)
    BY <1>1, ReturnForms
  <2>2. Sibling(th.label) \in MapLabel
    BY <1>0, <1>4, SiblingForms, LegForms DEF RemoveSibling, ThreadOK
  <2>3. MapOK' /\ batchDepth' = batchDepth
    BY <1>0, <1>4, <2>2, RemoveByLabelOK DEF RemoveSibling
  <2>4. FollowerOK' /\ opened' \subseteq MapLabel
    BY <1>0, <1>4, FolUnchangedOK DEF RemoveSibling
  <2>5. /\ task' = [task EXCEPT ![e] = t]
        /\ th.pc # "register" /\ t.pc # "register"
    BY <1>4 DEF RemoveSibling, Return, Thread
  <2>6. QED
    BY <2>1, <2>3, <2>4, <2>5, MoveOK
<1>5. QED
  BY <1>2, <1>3, <1>4

(* Every step of every thread keeps the invariant. *)
LEMMA StepOK ==
    ASSUME ReplicatorInv, RepliesInOrder, NEW e \in Event, Step(e)
    PROVE  ReplicatorInv'
BY NewOK, ChangeOK, CascadeOK DEF Step

(* And so does a restart, wherever it hits. *)
LEMMA RestartOK ==
    ASSUME ReplicatorInv, Restart
    PROVE  ReplicatorInv'
<1>1. PICK gone \in SUBSET Prunable :
         /\ IF gone = Prunable THEN UNCHANGED faults ELSE Fault
         /\ ReloadThenPrune(gone)
  BY DEF Restart
<1>2. gone \in SUBSET MapLabel
  BY DEF Prunable
<1>3. MapOK' /\ batchDepth' = 0
  BY <1>1, <1>2, PruneOK DEF ReplicatorInv
<1>4. FollowerOK'
  BY <1>1, FaultOK DEF ReplicatorInv, FollowerOK, Restart
<1>5. ASSUME NEW e \in Event
      PROVE  /\ ThreadOK(e, task'[e])
             /\ task'[e].pc # "register"
  <2>1. CASE e \in Running
    BY <2>1, ReturnForms DEF Restart, Thread
  <2>2. CASE e \notin Running
    BY <2>2 DEF ReplicatorInv, ThreadsOK, Restart, Running, Started, Finished
  <2>3. QED
    BY <2>1, <2>2
<1>6. ThreadsOK'
  BY <1>5 DEF ThreadsOK, ThreadOK, Restart
<1>7. BatchCounted'
  <2>1. InBatch' = {}
    BY <1>5 DEF InBatch
  <2>2. QED
    BY <1>3, <2>1, FS_EmptySet DEF BatchCounted
<1>8. opened' \subseteq MapLabel
  BY DEF Restart
<1>9. QED
  BY <1>3, <1>4, <1>6, <1>7, <1>8 DEF ReplicatorInv

(* A step is one of a thread that runs, and starts or resets no other. *)
LEMMA StepOwn ==
    ASSUME ReplicatorInv, NEW e \in Event, Step(e)
    PROVE  /\ Started(e) /\ Started(e)'
           /\ \A d \in Event : d # e => task'[d] = task[d]
<1>0. task \in [Event -> ThreadRecord]
  BY DEF ReplicatorInv, ThreadsOK
<1> USE <1>0 DEF Started, At
<1>1. CASE Reserve(e)
  BY <1>1 DEF Reserve, Goto, ThreadRecord
<1>2. CASE PlaceOrder(e)
  BY <1>2 DEF PlaceOrder, Return, Thread, ThreadRecord
<1>3. CASE PlaceBracket(e)
  BY <1>3 DEF PlaceBracket, Return, Thread, ThreadRecord
<1>4. CASE EnterBatch(e)
  BY <1>4 DEF EnterBatch, Goto, ThreadRecord
<1>5. CASE Register(e)
  <2>1. \/ task' = [task EXCEPT ![e] = Thread("done", NoId, NoId, <<>>, "ok")]
        \/ task' = [task EXCEPT ![e].todo = Tail(task[e].todo)]
    BY <1>5 DEF Register, Return
  <2>2. task[e].pc = "register"
    BY <1>5 DEF Register
  <2>3. QED
    BY <2>1, <2>2 DEF Thread, ThreadRecord
<1>6. CASE ExitBatch(e)
  BY <1>6 DEF ExitBatch, Return, Thread
<1>7. CASE ResolveLabel(e)
  BY <1>7 DEF ResolveLabel, ThreadRecord
<1>8. CASE LookupCancel(e)
  BY <1>8 DEF LookupCancel, Return, Thread, ThreadRecord
<1>9. CASE CancelPrimary(e)
  BY <1>9 DEF CancelPrimary, Return, Goto, Thread, ThreadRecord
<1>10. CASE RemovePrimary(e)
  BY <1>10 DEF RemovePrimary, Goto, ThreadRecord
<1>11. CASE LookupSibling(e)
  BY <1>11 DEF LookupSibling, Return, Thread, ThreadRecord
<1>12. CASE CancelSibling(e)
  BY <1>12 DEF CancelSibling, Goto, ThreadRecord
<1>13. CASE RemoveSibling(e)
  BY <1>13 DEF RemoveSibling, Return, Thread
<1>14. CASE LookupModify(e)
  BY <1>14 DEF LookupModify, Return, Thread, ThreadRecord
<1>15. CASE ModifyFollower(e)
  BY <1>15 DEF ModifyFollower, Return, Thread
<1>16. CASE ApplyFill(e)
  BY <1>16 DEF ApplyFill, ThreadRecord
<1>17. QED
  BY <1>1, <1>2, <1>3, <1>4, <1>5, <1>6, <1>7, <1>8, <1>9, <1>10, <1>11,
     <1>12, <1>13, <1>14, <1>15, <1>16 DEF Step

(* What a follower without native OCO newly reports cancelled is the order
   of the leg whose cancel or fill is applied, or its sibling. *)
LEMMA StepCancels ==
    ASSUME ReplicatorInv, ~NativeOco, NEW e \in Event, Step(e),
           NEW leg \in Leg, fol'[leg] = "cancelled", fol[leg] # "cancelled"
    PROVE  /\ e.kind \in {"CANCEL", "FILL"}
           /\ leg = e.leg \/ (e.leg \in ExitLeg /\ leg = Sibling(e.leg))
<1>0. /\ fol \in [Leg -> {"none", "open", "cancelled", "filled"}]
      /\ ThreadOK(e, task[e])
  BY DEF ReplicatorInv, FollowerOK, ThreadsOK
<1>1. ASSUME NEW fid, NEW out, CancelAt(fid, out) PROVE leg = fid
  BY <1>0, <1>1 DEF CancelAt, Ended, Dragged
<1>2. CASE CancelPrimary(e)
  <2>1. leg = task[e].fid
    BY <1>1, <1>2 DEF CancelPrimary
  <2>2. e.kind = "CANCEL" /\ task[e].pc = "call"
    BY <1>2 DEF CancelPrimary, At
  <2>3. task[e].fid = e.leg
    BY <1>0, <2>2 DEF ThreadOK
  <2>4. QED
    BY <2>1, <2>2, <2>3
<1>3. CASE CancelSibling(e)
  BY <1>0, <1>1, <1>3 DEF CancelSibling, At, ThreadOK
<1>4. ASSUME NEW legs, NEW out, Place(legs, out) PROVE FALSE
  BY <1>0, <1>4 DEF Place
<1>5. CASE PlaceOrder(e) \/ PlaceBracket(e)
  BY <1>4, <1>5 DEF PlaceOrder, PlaceBracket
<1>6. CASE UNCHANGED fol
  BY <1>6
<1>7. QED
  BY <1>2, <1>3, <1>5, <1>6
     DEF Step, Reserve, EnterBatch, Register, ExitBatch, ResolveLabel,
         LookupCancel, RemovePrimary, LookupSibling, RemoveSibling,
         LookupModify, ModifyFollower, ModifyAt, ApplyFill, folVars

(* The thread of an order is one of the events, and each has its own. *)
LEMMA NewForms ==
    /\ \A o \in Order : NewOf(o) \in Event
    /\ \A o, p \in Order : NewOf(o) = NewOf(p) => o = p
    /\ \A o, p \in Order : Entry(p) \in LegsOf(o) => o = p
BY DEF NewOf, Event, Entry, LegsOf, Exits

\* IBKR's requests carry no order ids, and Tradovate groups no exits.
LiveDirection == RepliesInOrder /\ ~IdsInEvents /\ ~NativeOco

Filed(m, l) == m[l] # NoRecord /\ m[l].tradovate_id # NoId

\* The index still leads to the record of leg l, if that holds an id.
Held(l) == LabelOf(l) = l \/ ~Filed(byCoid, l)

\* The placement of the order of leg l is past the call of the broker.
Placed(l) == task[NewOf(l[1])].pc \notin {"idle", "reserve", "place"}

\* The placement of the order of leg l has yet to file the id of l.
Pending(l) ==
    LET todo == task[NewOf(l[1])].todo
    IN  \E i \in DOMAIN todo : todo[i][2] = l

Settled(l) == Placed(l) /\ ~Pending(l)

\* The order of leg l is over at the follower.
Over(l) == fol[l] \in {"cancelled", "filled"}

-----------------------------------------------------------------------------
(* What a use of the map does to the follower id of leg l.                 *)

KeepsFiling(l) ==
    /\ Filed(byCoid', l) => Filed(byCoid, l)
    /\ Filed(disk', l) => Filed(disk, l) \/ Filed(byCoid, l)
    /\ PollLabel(l) = l /\ Held(l) => Held(l)'

LEMMA UnchangedFiling ==
    ASSUME NEW l, UNCHANGED mapVars PROVE KeepsFiling(l)
BY DEF KeepsFiling, Filed, Held, LabelOf, mapVars

LEMMA MutateFiling ==
    ASSUME NEW l, NEW m, NEW idx, Mutate(m, idx),
           Filed(m, l) => Filed(byCoid, l),
           PollLabel(l) = l /\ Held(l) => idx[l] = l \/ ~Filed(m, l)
    PROVE  KeepsFiling(l)
BY DEF Mutate, MarkDirtyOrSave, Save, KeepsFiling, Filed, Held, LabelOf

(* The label an id is filed under is one label, and no other id's. *)
LEMMA OneLabel ==
    ASSUME ~IdsInEvents, NEW l \in Leg, PollLabel(l) = l,
           NEW s \in Leg, l \in OwnLabels(s)
    PROVE  s = l
BY PollForms DEF OwnLabels

LEMMA MapParts ==
    ASSUME MapOK
    PROVE  /\ byCoid \in [MapLabel -> Record \cup {NoRecord}]
           /\ coidByIbkr \in [Leg -> MapLabel \cup {NoId}]
           /\ \A s \in Leg : LabelOf(s) \in {NoId} \cup OwnLabels(s)
BY NamesAssumption
   DEF MapOK, MapTypeOK, RecordMap, Index, FaithfulIndex, LabelOf

LEMMA AddPendingFiling ==
    ASSUME MapOK, NEW l \in Leg, NEW k \in MapLabel, AddPending(k)
    PROVE  KeepsFiling(l)
<1>1. CASE Known(k)
  BY <1>1, UnchangedFiling DEF AddPending
<1>2. CASE ~Known(k)
  <2> DEFINE m == [byCoid EXCEPT ![k] = Fresh]
  <2>1. Filed(m, l) => Filed(byCoid, l)
    BY MapParts, LegForms DEF Filed, Fresh
  <2>2. Mutate(m, coidByIbkr)
    BY <1>2 DEF AddPending
  <2> HIDE DEF m
  <2>3. QED
    BY <2>1, <2>2, MutateFiling DEF Held, LabelOf
<1>3. QED
  BY <1>1, <1>2

LEMMA SetFollowerIdFiling ==
    ASSUME MapOK, NEW l \in Leg, NEW k \in MapLabel, k # l,
           SetFollowerId(k, k)
    PROVE  KeepsFiling(l)
<1> DEFINE m == [byCoid EXCEPT ![k] = [RecordOf(k) EXCEPT !.tradovate_id = k]]
<1>1. Filed(m, l) => Filed(byCoid, l)
  BY MapParts, LegForms DEF Filed
<1>2. Mutate(m, coidByIbkr)
  BY DEF SetFollowerId
<1> HIDE DEF m
<1>3. QED
  BY <1>1, <1>2, MutateFiling DEF Held, LabelOf

LEMMA BindSourceIdFiling ==
    ASSUME MapOK, ~IdsInEvents, NEW l \in Leg,
           NEW s \in Leg, NEW k \in OwnLabels(s), BindSourceId(k, s)
    PROVE  KeepsFiling(l)
<1> DEFINE r == [RecordOf(k) EXCEPT !.ibkr_order_id = s]
           m == [byCoid EXCEPT ![k] = r]
           idx == [Released(k) EXCEPT ![s] = k]
<1>1. k \in MapLabel
  BY OwnLabelForms
<1>2. r.tradovate_id = RecordOf(k).tradovate_id
  BY <1>1, RecordOfOK DEF Record
<1>3. Filed(m, l) => Filed(byCoid, l)
  BY <1>1, <1>2, MapParts, LegForms DEF Filed, RecordOf, Known, Fresh
<1>4. ASSUME PollLabel(l) = l, Held(l) PROVE idx[l] = l \/ ~Filed(m, l)
  <2>1. CASE s = l
    <3>1. k = l
      BY <1>4, <2>1 DEF OwnLabels
    <3>2. QED
      BY <2>1, <3>1, NamesAssumption DEF Released
  <2>2. CASE s # l
    <3>1. RecordOf(k).ibkr_order_id # l
      <4>1. SUFFICES ASSUME RecordOf(k).ibkr_order_id = l PROVE FALSE
        OBVIOUS
      <4>2. k \in OwnLabels(l)
        BY <1>1, <4>1, RecordOfOK, NoIdForms
      <4>3. k = l
        BY <1>4, <4>2 DEF OwnLabels
      <4>4. QED
        BY <1>4, <2>2, <4>3, OneLabel
    <3>2. idx[l] = LabelOf(l)
      BY <2>2, <3>1, NamesAssumption DEF Released, LabelOf
    <3> HIDE DEF m, idx
    <3>3. QED
      BY <1>3, <1>4, <3>2 DEF Held
  <2>3. QED
    BY <2>1, <2>2
<1>5. Mutate(m, idx)
  BY DEF BindSourceId
<1> HIDE DEF m, idx
<1>6. QED
  BY <1>3, <1>4, <1>5, MutateFiling

LEMMA RemoveBySourceIdFiling ==
    ASSUME MapOK, ~IdsInEvents, NEW l \in Leg, NEW s \in Leg,
           RemoveBySourceId(s)
    PROVE  /\ KeepsFiling(l)
           /\ s = l /\ PollLabel(l) = l /\ Held(l) => ~Filed(byCoid', l)
<1>1. CASE LabelOf(s) = NoId
  <2>1. KeepsFiling(l) /\ byCoid' = byCoid
    BY <1>1, UnchangedFiling DEF RemoveBySourceId, mapVars
  <2>2. QED
    BY <1>1, <2>1, NoIdForms DEF Held
<1>2. CASE LabelOf(s) # NoId
  <2> DEFINE m == [byCoid EXCEPT ![LabelOf(s)] = NoRecord]
             idx == [coidByIbkr EXCEPT ![s] = NoId]
  <2>1. LabelOf(s) = PollLabel(s) /\ LabelOf(s) \in MapLabel
    BY <1>2, MapParts, PollForms DEF OwnLabels
  <2>2. Filed(m, l) => Filed(byCoid, l)
    BY <2>1, MapParts, LegForms DEF Filed
  <2>3. s = l /\ PollLabel(l) = l => ~Filed(m, l)
    BY <2>1, MapParts DEF Filed
  <2>4. s # l => idx[l] = LabelOf(l)
    BY MapParts DEF LabelOf
  <2>5. Mutate(m, idx)
    BY <1>2 DEF RemoveBySourceId
  <2>6. byCoid' = m
    BY <2>5 DEF Mutate
  <2> HIDE DEF m, idx
  <2>7. PollLabel(l) = l /\ Held(l) => idx[l] = l \/ ~Filed(m, l)
    BY <2>2, <2>3, <2>4 DEF Held
  <2>8. QED
    BY <2>2, <2>3, <2>5, <2>6, <2>7, MutateFiling
<1>3. QED
  BY <1>1, <1>2

LEMMA RemoveByLabelFiling ==
    ASSUME MapOK, ~IdsInEvents, NEW l \in Leg, NEW k \in MapLabel,
           RemoveByLabel(k)
    PROVE  KeepsFiling(l)
<1>1. CASE ~Known(k)
  BY <1>1, UnchangedFiling DEF RemoveByLabel
<1>2. CASE Known(k)
  <2> DEFINE m == [byCoid EXCEPT ![k] = NoRecord]
  <2>1. Filed(m, l) => Filed(byCoid, l)
    BY MapParts, LegForms DEF Filed
  <2>2. k = l => ~Filed(m, l)
    BY MapParts DEF Filed
  <2>3. ASSUME PollLabel(l) = l, k # l PROVE Released(k)[l] = LabelOf(l)
    <3>1. RecordOf(k).ibkr_order_id # l
      <4>1. SUFFICES ASSUME RecordOf(k).ibkr_order_id = l PROVE FALSE
        OBVIOUS
      <4>2. k \in OwnLabels(l)
        BY <4>1, RecordOfOK, NoIdForms
      <4>3. QED
        BY <2>3, <4>2 DEF OwnLabels
    <3>2. QED
      BY <3>1, NamesAssumption DEF Released, LabelOf
  <2>4. Mutate(m, Released(k))
    BY <1>2 DEF RemoveByLabel
  <2> HIDE DEF m
  <2>5. PollLabel(l) = l /\ Held(l) => Released(k)[l] = l \/ ~Filed(m, l)
    BY <2>1, <2>2, <2>3 DEF Held
  <2>6. QED
    BY <2>1, <2>4, <2>5, MutateFiling
<1>3. QED
  BY <1>1, <1>2

LEMMA BatchFiling ==
    ASSUME NEW l, BatchEnter \/ BatchExit
    PROVE  KeepsFiling(l)
BY DEF BatchEnter, BatchExit, Save, KeepsFiling, Filed, Held, LabelOf

-----------------------------------------------------------------------------
(* The placements.                                                         *)

\* What the placement of order o has yet to file: the ids of its own legs,
\* each at most once, and none before the broker was called.
TodoOK(o, t) ==
    /\ t.pc \in {"idle", "reserve", "place"} => t.todo = <<>>
    /\ \A i \in DOMAIN t.todo : t.todo[i][2][1] = o
    /\ \A i, j \in DOMAIN t.todo : t.todo[i][2] = t.todo[j][2] => i = j

TodosOK == \A o \in Order : TodoOK(o, task[NewOf(o)])

LEMMA NewEvent ==
    ASSUME NEW e \in Event, e.kind = "NEW"
    PROVE  e.leg[1] \in Order /\ e = NewOf(e.leg[1])
BY DEF Event, NewOf, Entry

LEMMA LegOrder == \A l \in Leg : l[1] \in Order
BY LegForms DEF Order, Entry

LEMMA RegistrationsOnce ==
    ASSUME RepliesInOrder, ~IdsInEvents, NEW o \in Order,
           NEW roles \in {<<>>} \cup ChildReplies
    PROVE  LET todo == Registrations(Entry(o), roles)
           IN  /\ \A i \in DOMAIN todo : todo[i][2][1] = o
               /\ \A i, j \in DOMAIN todo : todo[i][2] = todo[j][2] => i = j
<1> DEFINE N == Len(roles)
           legAt(i) == IF i = 0 THEN Entry(o) ELSE <<Entry(o)[1], roles[i]>>
           labelAt(i) == IF i = 0 THEN Entry(o)
                         ELSE <<Entry(o)[1], <<"LMT", "STP">>[i]>>
           sets == [k \in 1 .. N + 1 |-> <<"set", labelAt(k - 1), legAt(k - 1)>>]
<1>1. N \in {0, 1, 2}
  BY DEF RepliesInOrder
<1>2. Registrations(Entry(o), roles) = sets
  BY DEF Registrations
<1>3. /\ labelAt(0) = <<o, "ENTRY">>
      /\ labelAt(1) = <<o, "LMT">>
      /\ labelAt(2) = <<o, "STP">>
  BY DEF Entry
<1> HIDE DEF N, labelAt, legAt
<1>4. \A i \in DOMAIN sets : sets[i][2] = labelAt(i - 1) /\ i - 1 \in {0, 1, 2}
  BY <1>1
<1>5. \A i \in {0, 1, 2} : labelAt(i)[1] = o
  BY <1>3
<1>6. \A i, j \in {0, 1, 2} : labelAt(i) = labelAt(j) => i = j
  BY <1>3
<1> HIDE DEF sets
<1>7. DOMAIN sets \subseteq Int
  BY <1>1 DEF sets
<1>8. QED
  BY <1>2, <1>4, <1>5, <1>6, <1>7

(* The tail of what is left to file. *)
LEMMA TailTodo ==
    ASSUME NEW o, NEW todo \in Seq(MapOp), todo # <<>>,
           \A i \in DOMAIN todo : todo[i][2][1] = o,
           \A i, j \in DOMAIN todo : todo[i][2] = todo[j][2] => i = j
    PROVE  /\ \A i \in DOMAIN Tail(todo) :
                 /\ Tail(todo)[i][2][1] = o
                 /\ \E j \in DOMAIN todo : todo[j][2] = Tail(todo)[i][2]
                 /\ Tail(todo)[i][2] # Head(todo)[2]
           /\ \A i, j \in DOMAIN Tail(todo) :
                 Tail(todo)[i][2] = Tail(todo)[j][2] => i = j
<1>1. Len(todo) \in Nat /\ Len(todo) > 0 /\ DOMAIN todo = 1 .. Len(todo)
  OBVIOUS
<1>2. /\ DOMAIN Tail(todo) = 1 .. Len(todo) - 1
      /\ \A i \in 1 .. Len(todo) - 1 : Tail(todo)[i] = todo[i + 1]
      /\ Head(todo) = todo[1]
  OBVIOUS
<1>3. \A i \in 1 .. Len(todo) - 1 : i + 1 \in DOMAIN todo /\ i + 1 # 1
  BY <1>1
<1>4. 1 \in DOMAIN todo
  BY <1>1
<1>5. \A i \in DOMAIN Tail(todo) :
         /\ Tail(todo)[i][2][1] = o
         /\ \E j \in DOMAIN todo : todo[j][2] = Tail(todo)[i][2]
         /\ Tail(todo)[i][2] # Head(todo)[2]
  BY <1>2, <1>3, <1>4
<1>6. ASSUME NEW i \in DOMAIN Tail(todo), NEW j \in DOMAIN Tail(todo),
             Tail(todo)[i][2] = Tail(todo)[j][2]
      PROVE  i = j
  <2>1. i + 1 = j + 1
    BY <1>2, <1>3, <1>6
  <2>2. i \in Int /\ j \in Int
    BY <1>1, <1>2, <1>6
  <2>3. QED
    BY <2>1, <2>2
<1>7. QED
  BY <1>5, <1>6

LEMMA EmptyTodo ==
    ASSUME NEW o, NEW t, t.todo = <<>> PROVE TodoOK(o, t)
BY DEF TodoOK

\* What a step may do to the placements: it takes none back.
PlacementsKept ==
    /\ TodosOK'
    /\ \A l \in Leg : /\ Settled(l) => Settled(l)'
                      /\ Placed(l) => Placed(l)'

(* A step of a thread that places nothing, and steps of no thread. *)
LEMMA OtherPlacements ==
    ASSUME TodosOK, \A o \in Order : task'[NewOf(o)] = task[NewOf(o)]
    PROVE  PlacementsKept
<1>1. TodosOK'
  BY DEF TodosOK, TodoOK
<1>2. \A l \in Leg : /\ Settled(l) => Settled(l)'
                     /\ Placed(l) => Placed(l)'
  BY LegOrder DEF Settled, Placed, Pending
<1>3. QED
  BY <1>1, <1>2 DEF PlacementsKept

(* The thread of an order moves on to t. *)
LEMMA OwnPlacement ==
    ASSUME ReplicatorInv, TodosOK, NEW o \in Order, NEW t,
           task' = [task EXCEPT ![NewOf(o)] = t],
           TodoOK(o, t),
           t.pc \in {"idle", "reserve", "place"} =>
              task[NewOf(o)].pc \in {"idle", "reserve", "place"},
           \/ task[NewOf(o)].pc \in {"idle", "reserve", "place"}
           \/ \A i \in DOMAIN t.todo :
                 \E j \in DOMAIN task[NewOf(o)].todo :
                    task[NewOf(o)].todo[j][2] = t.todo[i][2]
    PROVE  PlacementsKept
<1>0. task \in [Event -> ThreadRecord]
  BY DEF ReplicatorInv, ThreadsOK
<1>1. /\ task'[NewOf(o)] = t
      /\ \A p \in Order : p # o => task'[NewOf(p)] = task[NewOf(p)]
  BY <1>0, NewForms
<1>2. TodosOK'
  BY <1>1 DEF TodosOK, TodoOK
<1>3. ASSUME NEW l \in Leg
      PROVE  (Settled(l) => Settled(l)') /\ (Placed(l) => Placed(l)')
  <2>1. CASE l[1] # o
    BY <1>1, <2>1, LegOrder DEF Settled, Placed, Pending
  <2>2. CASE l[1] = o
    BY <1>1, <2>2 DEF Settled, Placed, Pending
  <2>3. QED
    BY <2>1, <2>2
<1>4. QED
  BY <1>2, <1>3 DEF PlacementsKept

-----------------------------------------------------------------------------
(* The steps.                                                              *)

(* A step files an id only when the placement that has it pending does so,
   and then it is pending no more; it unfiles at will. *)
LEMMA StepFiling ==
    ASSUME LiveDirection, ReplicatorInv, TodosOK, NEW e \in Event, Step(e)
    PROVE  /\ PlacementsKept
           /\ \A l \in Leg : KeepsFiling(l) \/ (Pending(l) /\ Settled(l)')
<1> DEFINE th == task[e]
           Conclusion ==
              /\ PlacementsKept
              /\ \A l \in Leg : KeepsFiling(l) \/ (Pending(l) /\ Settled(l)')
<1>0. /\ RepliesInOrder /\ ~IdsInEvents
      /\ MapOK /\ ThreadOK(e, th) /\ th \in ThreadRecord
      /\ task \in [Event -> ThreadRecord]
      /\ e.leg \in Leg /\ e.leg \in MapLabel
  BY EventForms, LegForms DEF LiveDirection, ReplicatorInv, ThreadsOK
<1>1. ASSUME e.kind # "NEW", \A l \in Leg : KeepsFiling(l) PROVE Conclusion
  <2>1. \A o \in Order : task'[NewOf(o)] = task[NewOf(o)]
    <3>1. \A o \in Order : NewOf(o) \in Event /\ NewOf(o) # e
      BY <1>1, NewForms DEF NewOf
    <3>2. QED
      BY <3>1, StepOwn
  <2>2. QED
    BY <1>1, <2>1, OtherPlacements
<1>2. ASSUME e.kind = "NEW"
      PROVE  /\ e.leg[1] \in Order /\ e = NewOf(e.leg[1])
             /\ e.leg = Entry(e.leg[1])
             /\ TodoOK(e.leg[1], th)
  BY <1>2, NewEvent, EventForms DEF TodosOK
<1> DEFINE o == e.leg[1]
           done(result) == Thread("done", NoId, NoId, <<>>, result)
<1>3. ASSUME e.kind = "NEW", NEW result, task' = [task EXCEPT ![e] = done(result)]
      PROVE  PlacementsKept
  <2>1. /\ done(result).todo = <<>> /\ done(result).pc = "done"
        /\ DOMAIN done(result).todo = {}
    BY DEF Thread
  <2> HIDE DEF done, th, o
  <2>2. o \in Order /\ e = NewOf(o) /\ TodoOK(o, done(result))
    BY <1>2, <1>3, <2>1, EmptyTodo DEF o
  <2>3. QED
    BY <1>3, <2>1, <2>2, OwnPlacement
<1>4. CASE Reserve(e)
  <2>1. e.kind = "NEW" /\ th.pc = "reserve"
    BY <1>0, <1>4 DEF Reserve, At, ThreadOK
  <2> DEFINE t == [th EXCEPT !.pc = "place"]
  <2>2. task' = [task EXCEPT ![e] = t]
    BY <1>4 DEF Reserve, Goto
  <2>3. t.pc = "place" /\ t.todo = <<>>
    BY <1>0, <1>2, <2>1 DEF TodoOK, ThreadRecord
  <2> HIDE DEF t
  <2>4. PlacementsKept
    BY <1>2, <2>1, <2>2, <2>3, EmptyTodo, OwnPlacement
  <2>5. \A l \in Leg : KeepsFiling(l)
    BY <1>0, <1>4, AddPendingFiling DEF Reserve
  <2>6. QED
    BY <2>4, <2>5
<1>5. ASSUME At(e, "place"), NEW pc \in {"register", "enter"},
             NEW roles \in {<<>>} \cup ChildReplies,
             task' = [task EXCEPT ![e].pc = pc,
                                  ![e].todo = Registrations(e.leg, roles)]
      PROVE  PlacementsKept
  <2>1. e.kind = "NEW" /\ th.pc = "place"
    BY <1>0, <1>5 DEF At, ThreadOK
  <2> DEFINE todo == Registrations(e.leg, roles)
             t == [th EXCEPT !.pc = pc, !.todo = todo]
  <2>2. /\ \A i \in DOMAIN todo : todo[i][2][1] = o
        /\ \A i, j \in DOMAIN todo : todo[i][2] = todo[j][2] => i = j
    BY <1>0, <1>2, <2>1, RegistrationsOnce
  <2>3. task' = [task EXCEPT ![e] = t]
    BY <1>5
  <2> HIDE DEF todo
  <2>4. t.pc = pc /\ t.todo = todo
    BY <1>0 DEF ThreadRecord
  <2> HIDE DEF t
  <2>5. TodoOK(o, t)
    BY <2>2, <2>4 DEF TodoOK
  <2>6. QED
    BY <1>2, <2>1, <2>3, <2>4, <2>5, OwnPlacement
<1>6. CASE PlaceOrder(e)
  <2>1. e.kind = "NEW" /\ At(e, "place") /\ UNCHANGED mapVars
    BY <1>0, <1>6 DEF PlaceOrder, At, ThreadOK
  <2>2. \/ \E result : task' = [task EXCEPT ![e] = done(result)]
        \/ task' = [task EXCEPT ![e].pc = "register",
                                ![e].todo = Registrations(e.leg, <<>>)]
    BY <1>6 DEF PlaceOrder, Return
  <2> HIDE DEF done
  <2>3. PlacementsKept
    BY <1>3, <1>5, <2>1, <2>2
  <2>4. QED
    BY <2>1, <2>3, UnchangedFiling
<1>7. CASE PlaceBracket(e)
  <2>1. e.kind = "NEW" /\ At(e, "place") /\ UNCHANGED mapVars
    BY <1>0, <1>7 DEF PlaceBracket, At, ThreadOK
  <2>2. \/ \E result : task' = [task EXCEPT ![e] = done(result)]
        \/ \E roles \in ChildReplies :
              task' = [task EXCEPT ![e].pc = "enter",
                                   ![e].todo = Registrations(e.leg, roles)]
    BY <1>7 DEF PlaceBracket, Return
  <2> HIDE DEF done
  <2>3. PlacementsKept
    BY <1>3, <1>5, <2>1, <2>2
  <2>4. QED
    BY <2>1, <2>3, UnchangedFiling
<1>8. CASE EnterBatch(e)
  <2>1. e.kind = "NEW" /\ th.pc = "enter"
    BY <1>0, <1>8 DEF EnterBatch, At, ThreadOK
  <2> DEFINE t == [th EXCEPT !.pc = "register"]
  <2>2. task' = [task EXCEPT ![e] = t]
    BY <1>8 DEF EnterBatch, Goto
  <2>3. t.pc = "register" /\ t.todo = th.todo
    BY <1>0 DEF ThreadRecord
  <2> HIDE DEF t
  <2>4. TodoOK(o, t)
    BY <1>2, <2>1, <2>3 DEF TodoOK
  <2>5. PlacementsKept
    BY <1>2, <2>1, <2>2, <2>3, <2>4, OwnPlacement
  <2>6. \A l \in Leg : KeepsFiling(l)
    BY <1>8, BatchFiling DEF EnterBatch
  <2>7. QED
    BY <2>5, <2>6
<1>9. CASE Register(e)
  <2>1. /\ e.kind = "NEW" /\ th.pc = "register"
        /\ th.todo # <<>> /\ th.todo \in Seq(MapOp)
    BY <1>0, <1>9 DEF Register, At, ThreadOK, ThreadRecord
  <2>2. /\ Head(th.todo) \in MapOp
        /\ Head(th.todo) = th.todo[1] /\ 1 \in DOMAIN th.todo
    BY <2>1
  <2>3. PICK k \in Leg : Head(th.todo) = <<"set", k, k>>
    BY <1>0, <2>2 DEF MapOp
  <2> DEFINE t == IF e.leg[1] \in Single /\ Len(th.todo) = 1
                  THEN done("ok") ELSE [th EXCEPT !.todo = Tail(th.todo)]
  <2>4. SetFollowerId(k, k)
    BY <1>9, <2>3 DEF Register
  <2>5. task' = [task EXCEPT ![e] = t]
    BY <1>9 DEF Register, Return
  <2>6. t.pc \in {"register", "done"} /\ t.todo \in {<<>>, Tail(th.todo)}
    BY <1>0, <2>1 DEF Thread, ThreadRecord
  <2>7. /\ \A i \in DOMAIN t.todo :
              /\ t.todo[i][2][1] = o
              /\ \E j \in DOMAIN th.todo : th.todo[j][2] = t.todo[i][2]
              /\ t.todo[i][2] # k
        /\ \A i, j \in DOMAIN t.todo : t.todo[i][2] = t.todo[j][2] => i = j
    <3> HIDE DEF t
    <3>1. CASE t.todo = <<>>
      BY <3>1
    <3>2. CASE t.todo = Tail(th.todo)
      <4>1. /\ \A i \in DOMAIN th.todo : th.todo[i][2][1] = o
            /\ \A i, j \in DOMAIN th.todo :
                  th.todo[i][2] = th.todo[j][2] => i = j
            /\ Head(th.todo)[2] = k
        BY <1>2, <2>1, <2>3 DEF TodoOK
      <4> HIDE DEF th
      <4>2. QED
        BY <2>1, <3>2, <4>1, TailTodo
    <3>3. QED
      BY <2>6, <3>1, <3>2
  <2> HIDE DEF t
  <2>8. TodoOK(o, t)
    BY <2>6, <2>7 DEF TodoOK
  <2>9. PlacementsKept
    <3>1. o \in Order /\ e = NewOf(o)
      BY <1>2, <2>1
    <3> HIDE DEF o
    <3>2. QED
      BY <2>1, <2>5, <2>6, <2>7, <2>8, <3>1, OwnPlacement
  <2>10. k[1] = o
    BY <1>2, <2>1, <2>2, <2>3 DEF TodoOK
  <2>11. task'[NewOf(k[1])] = t
    BY <1>0, <1>2, <2>1, <2>5, <2>10
  <2>12. Pending(k)
    BY <1>2, <2>1, <2>2, <2>3, <2>10 DEF Pending
  <2>13. Settled(k)'
    <3>1. \A i \in DOMAIN t.todo : t.todo[i][2] # k
      BY <2>7
    <3>2. QED
      BY <2>6, <2>11, <3>1 DEF Settled, Placed, Pending
  <2>14. \A l \in Leg : l # k => KeepsFiling(l)
    BY <1>0, <2>3, <2>4, LegForms, SetFollowerIdFiling
  <2>15. QED
    BY <2>9, <2>12, <2>13, <2>14
<1>10. CASE ExitBatch(e)
  <2>1. e.kind = "NEW"
    BY <1>0, <1>10 DEF ExitBatch, At, ThreadOK
  <2>2. task' = [task EXCEPT ![e] = done("ok")]
    BY <1>10 DEF ExitBatch, Return
  <2>3. \A l \in Leg : KeepsFiling(l)
    BY <1>10, BatchFiling DEF ExitBatch
  <2>4. QED
    BY <1>3, <2>1, <2>2, <2>3
<1>11. CASE \/ ResolveLabel(e) \/ CancelPrimary(e) \/ LookupModify(e)
            \/ ModifyFollower(e) \/ ApplyFill(e)
  <2>1. e.kind # "NEW" /\ UNCHANGED mapVars
    BY <1>11 DEF ResolveLabel, CancelPrimary, LookupModify, ModifyFollower,
                 ApplyFill
  <2>2. QED
    BY <1>1, <2>1, UnchangedFiling
<1>12. CASE LookupCancel(e)
  <2>1. e.kind # "NEW"
    BY <1>12 DEF LookupCancel
  <2>2. \A l \in Leg : KeepsFiling(l)
    BY <1>0, <1>12, RemoveBySourceIdFiling, UnchangedFiling DEF LookupCancel
  <2>3. QED
    BY <1>1, <2>1, <2>2
<1>13. CASE RemovePrimary(e)
  <2>1. e.kind # "NEW"
    BY <1>0, <1>13 DEF RemovePrimary, At, ThreadOK
  <2>2. \A l \in Leg : KeepsFiling(l)
    BY <1>0, <1>13, RemoveBySourceIdFiling DEF RemovePrimary
  <2>3. QED
    BY <1>1, <2>1, <2>2
<1>14. CASE LookupSibling(e) \/ CancelSibling(e)
  <2>1. e.kind # "NEW"
    BY <1>0, <1>14 DEF LookupSibling, CancelSibling, At, ThreadOK
  <2>2. UNCHANGED mapVars
    BY <1>14 DEF LookupSibling, CancelSibling
  <2>3. QED
    BY <1>1, <2>1, <2>2, UnchangedFiling
<1>15. CASE RemoveSibling(e)
  <2>1. /\ e.kind # "NEW"
        /\ th.label = e.leg /\ e.leg \in ExitLeg
    BY <1>0, <1>15 DEF RemoveSibling, ThreadOK
  <2>2. Sibling(th.label) \in MapLabel
    BY <2>1, SiblingForms, LegForms
  <2>3. \A l \in Leg : KeepsFiling(l)
    BY <1>0, <1>15, <2>2, RemoveByLabelFiling DEF RemoveSibling
  <2>4. QED
    BY <1>1, <2>1, <2>3
<1>16. QED
  BY <1>4, <1>6, <1>7, <1>8, <1>9, <1>10, <1>11, <1>12, <1>13, <1>14, <1>15
     DEF Step

\* Only orders that were placed are at the follower.
PlacedThere == \A l \in Leg : fol[l] # "none" => Placed(l)

(* No step reopens an order that is over at the follower. *)
LEMMA StepOver ==
    ASSUME ReplicatorInv, PlacedThere, NEW e \in Event, Step(e)
    PROVE  \A l \in Leg : /\ Over(l) => Over(l)'
                          /\ fol'[l] # "none" => fol[l] # "none" \/ Placed(l)'
<1>0. /\ FollowerOK /\ ThreadOK(e, task[e])
      /\ task \in [Event -> ThreadRecord]
  BY DEF ReplicatorInv, ThreadsOK
<1>1. ASSUME NEW fid, NEW out, CancelAt(fid, out)
      PROVE  \A l \in Leg : /\ Over(l) => Over(l)'
                            /\ fol'[l] # "none" => fol[l] # "none"
  BY <1>0, <1>1 DEF CancelAt, Ended, Dragged, Over, FollowerOK
<1>2. ASSUME At(e, "place"), NEW out,
             Place({e.leg}, out) \/ Place(LegsOf(e.leg[1]), out),
             task'[e].pc \in {"register", "enter", "done"}
      PROVE  \A l \in Leg : /\ Over(l) => Over(l)'
                            /\ fol'[l] # "none" => fol[l] # "none" \/ Placed(l)'
  <2>1. e.kind = "NEW" /\ task[e].pc = "place"
    BY <1>0, <1>2 DEF At, ThreadOK
  <2>2. e.leg[1] \in Order /\ e = NewOf(e.leg[1])
    BY <2>1, NewEvent
  <2>3. ASSUME NEW l \in Leg, l \in {e.leg} \cup LegsOf(e.leg[1])
        PROVE  fol[l] = "none" /\ Placed(l)'
    <3>1. l[1] = e.leg[1]
      BY <2>3 DEF LegsOf, Exits, Entry
    <3>2. QED
      BY <1>2, <2>1, <2>2, <3>1 DEF PlacedThere, Placed
  <2>4. QED
    BY <1>0, <1>2, <2>3 DEF Place, Over, FollowerOK
<1>3. CASE PlaceOrder(e) \/ PlaceBracket(e)
  <2>1. task'[e].pc \in {"register", "enter", "done"}
    BY <1>0, <1>3 DEF PlaceOrder, PlaceBracket, Return, Thread, ThreadRecord
  <2>2. QED
    BY <1>2, <1>3, <2>1 DEF PlaceOrder, PlaceBracket
<1>4. CASE CancelPrimary(e) \/ CancelSibling(e)
  BY <1>1, <1>4 DEF CancelPrimary, CancelSibling
<1>5. CASE UNCHANGED fol
  BY <1>5 DEF Over
<1>6. QED
  BY <1>3, <1>4, <1>5
     DEF Step, Reserve, EnterBatch, Register, ExitBatch, ResolveLabel,
         LookupCancel, RemovePrimary, LookupSibling, RemoveSibling,
         LookupModify, ModifyFollower, ModifyAt, ApplyFill, folVars

-----------------------------------------------------------------------------
(* The invariant.                                                          *)

\* A follower id is on file only once its placement is done with it.
FilesSettled ==
    \A l \in Leg : Filed(byCoid, l) \/ Filed(disk, l) => Settled(l)

Forgotten(l) == Settled(l) /\ Over(l) /\ ~Filed(byCoid, l)

\* Where a cancel is, and what is then true of its leg.
CancelOK(e) ==
    LET t == task[e]
        l == e.leg
    IN  /\ t.pc # "done" => t.result = "none"
        /\ t.pc \in {"call", "remove"} =>
              PollLabel(l) = l /\ Settled(l) /\ Held(l)
        /\ t.pc = "remove" => Over(l)
        /\ faults = 0 =>
              /\ t.pc \in {"cascade", "callsib", "removesib", "tidysib"} =>
                    Forgotten(l)
              /\ t.result = "ok" => Forgotten(l)

FilingInv ==
    /\ TodosOK
    /\ PlacedThere
    /\ FilesSettled
    /\ \A e \in Event : e.kind = "CANCEL" => CancelOK(e)

\* A step that takes no placement back, files what is pending only, reopens
\* nothing at the follower and undoes no fault.
Onward ==
    /\ PlacementsKept
    /\ \A l \in Leg : KeepsFiling(l) \/ (Pending(l) /\ Settled(l)')
    /\ \A l \in Leg : /\ Over(l) => Over(l)'
                      /\ fol'[l] # "none" => fol[l] # "none" \/ Placed(l)'
    /\ faults' = 0 => faults = 0

LEMMA OnwardKeeps ==
    ASSUME FilingInv, Onward
    PROVE  /\ TodosOK' /\ PlacedThere' /\ FilesSettled'
           /\ \A l \in Leg : PollLabel(l) = l /\ Settled(l) /\ Held(l) =>
                 Settled(l)' /\ Held(l)'
           /\ \A l \in Leg : Forgotten(l) => Forgotten(l)'
           /\ \A e \in Event : e.kind = "CANCEL" /\ task'[e] = task[e] =>
                 CancelOK(e)'
<1>1. TodosOK'
  BY DEF Onward, PlacementsKept
<1>2. PlacedThere'
  BY DEF FilingInv, Onward, PlacementsKept, PlacedThere, Placed
<1>3. FilesSettled'
  BY DEF FilingInv, Onward, PlacementsKept, FilesSettled, KeepsFiling, Filed,
         Settled, Placed, Pending
<1>4. \A l \in Leg : Settled(l) => KeepsFiling(l) /\ Settled(l)'
  BY DEF Onward, PlacementsKept, Settled, Placed, Pending
<1>5. \A l \in Leg : PollLabel(l) = l /\ Settled(l) /\ Held(l) =>
         Settled(l)' /\ Held(l)'
  BY <1>4 DEF KeepsFiling
<1>6. \A l \in Leg : Forgotten(l) => Forgotten(l)'
  BY <1>4 DEF Onward, Forgotten, KeepsFiling, Filed, Over, Settled, Placed, Pending
<1>7. ASSUME NEW e \in Event, e.kind = "CANCEL", task'[e] = task[e]
      PROVE  CancelOK(e)'
  <2>1. CancelOK(e) /\ e.leg \in Leg
    BY <1>7, EventForms DEF FilingInv
  <2>2. Over(e.leg) => Over(e.leg)'
    BY <2>1 DEF Onward, Over
  <2>3. faults' = 0 => faults = 0
    BY DEF Onward
  <2>4. QED
    BY <1>5, <1>6, <1>7, <2>1, <2>2, <2>3 DEF CancelOK
<1>8. QED
  BY <1>1, <1>2, <1>3, <1>5, <1>6, <1>7

(* Faults are never undone. *)
LEMMA FaultsCount ==
    ASSUME ReplicatorInv, NEW e \in Event, Step(e)
    PROVE  faults' = 0 => faults = 0
<1>0. faults \in Nat
  BY FaultAssumption DEF ReplicatorInv, FollowerOK
<1>1. ASSUME Fault \/ UNCHANGED faults PROVE faults' = 0 => faults = 0
  BY <1>0, <1>1 DEF Fault
<1>2. CASE \/ PlaceOrder(e) \/ PlaceBracket(e) \/ CancelPrimary(e)
           \/ CancelSibling(e) \/ ModifyFollower(e)
  BY <1>1, <1>2
     DEF PlaceOrder, PlaceBracket, CancelPrimary, CancelSibling,
         ModifyFollower, Place, CancelAt, ModifyAt
<1>3. CASE UNCHANGED faults
  BY <1>3
<1>4. QED
  BY <1>2, <1>3
     DEF Step, Reserve, EnterBatch, Register, ExitBatch, ResolveLabel,
         LookupCancel, RemovePrimary, LookupSibling, RemoveSibling,
         LookupModify, ApplyFill, folVars

LEMMA StepOnward ==
    ASSUME LiveDirection, ReplicatorInv, FilingInv, NEW e \in Event, Step(e)
    PROVE  Onward
BY StepFiling, StepOver, FaultsCount DEF LiveDirection, FilingInv, Onward

(* The steps of a cancel keep what is true of its leg. *)
LEMMA OwnCancel ==
    ASSUME LiveDirection, ReplicatorInv, FilingInv,
           NEW e \in Event, e.kind = "CANCEL", Step(e)
    PROVE  CancelOK(e)'
<1> DEFINE l == e.leg
           th == task[e]
           done(result) == Thread("done", NoId, NoId, <<>>, result)
<1>0. /\ ~IdsInEvents /\ ~NativeOco /\ MapOK
      /\ CancelOK(e) /\ l \in Leg
      /\ ThreadOK(e, th) /\ th \in ThreadRecord
      /\ task \in [Event -> ThreadRecord]
      /\ FollowerOK
  BY EventForms DEF LiveDirection, ReplicatorInv, ThreadsOK, FilingInv
<1>1. /\ PollLabel(l) = l /\ Settled(l) /\ Held(l) => Settled(l)' /\ Held(l)'
      /\ Forgotten(l) => Forgotten(l)'
      /\ Settled(l) => Settled(l)'
      /\ Over(l) => Over(l)'
      /\ faults' = 0 => faults = 0
  <2>1. Onward
    BY StepOnward
  <2>2. Settled(l) => Settled(l)'
    BY <1>0, <2>1 DEF Onward, PlacementsKept, Settled, Placed, Pending
  <2>3. Over(l) => Over(l)'
    BY <1>0, <2>1 DEF Onward, Over
  <2>4. PollLabel(l) = l /\ Settled(l) /\ Held(l) => Settled(l)' /\ Held(l)'
    BY <1>0, <2>1, OnwardKeeps DEF Settled, Placed, Pending, Held, LabelOf, Filed
  <2>5. Forgotten(l) => Forgotten(l)'
    BY <1>0, <2>1, OnwardKeeps
       DEF Forgotten, Settled, Placed, Pending, Over, Filed
  <2>6. QED
    BY <2>1, <2>2, <2>3, <2>4, <2>5 DEF Onward
<1>2. ASSUME NEW result, result # "ok", task' = [task EXCEPT ![e] = done(result)]
      PROVE  CancelOK(e)'
  <2>1. task'[e].pc = "done" /\ task'[e].result = result
    BY <1>0, <1>2 DEF Thread
  <2>2. QED
    BY <1>2, <2>1 DEF CancelOK
<1>3. CASE ResolveLabel(e)
  <2>1. task'[e].pc = "lookup" /\ task'[e].result = "none"
    BY <1>0, <1>3 DEF ResolveLabel, At, CancelOK, ThreadRecord
  <2>2. QED
    BY <2>1 DEF CancelOK
<1>4. CASE LookupCancel(e)
  <2>1. CASE FollowerOf(l) = NoId
    BY <1>2, <1>4, <2>1 DEF LookupCancel, Return
  <2>2. CASE FollowerOf(l) # NoId
    <3>1. ~SkipsCancel(th.label)
      BY <1>0 DEF SkipsCancel
    <3>2. /\ task' = [task EXCEPT ![e].pc = "call", ![e].fid = FollowerOf(l)]
          /\ UNCHANGED mapVars /\ th.pc = "lookup"
      BY <1>4, <2>2, <3>1 DEF LookupCancel, At
    <3>3. task'[e].pc = "call" /\ task'[e].result = "none"
      BY <1>0, <3>2 DEF CancelOK, ThreadRecord
    <3>4. LabelOf(l) # NoId /\ FollowerOf(l) = l
      BY <1>0, <2>2, FollowerOfOK DEF FollowerOf
    <3>5. LabelOf(l) = PollLabel(l) /\ LabelOf(l) \in MapLabel
      BY <1>0, <3>4, MapParts, PollForms DEF OwnLabels
    <3>6. RecordOf(LabelOf(l)).tradovate_id = l
      BY <3>4 DEF FollowerOf
    <3>7. LabelOf(l) = l /\ PollLabel(l) = l
      BY <1>0, <3>5, <3>6, RecordOfOK, NoIdForms
    <3>8. Filed(byCoid, l)
      BY <1>0, <3>6, <3>7, NoIdForms DEF Filed, RecordOf, Known, Fresh
    <3>9. Settled(l) /\ Held(l)
      BY <1>0, <3>7, <3>8 DEF FilingInv, FilesSettled, Held
    <3>10. QED
      BY <1>1, <3>3, <3>7, <3>9 DEF CancelOK
  <2>3. QED
    BY <2>1, <2>2
<1>5. CASE CancelPrimary(e)
  <2>1. th.pc = "call" /\ th.fid = l
    BY <1>0, <1>5 DEF CancelPrimary, At, ThreadOK
  <2>2. PICK out \in {"ok", "notfound", "fault"} :
           /\ CancelAt(l, out)
           /\ IF Raised(out) THEN Return(e, out) ELSE Goto(e, "remove")
    BY <1>5, <2>1 DEF CancelPrimary
  <2>3. CASE Raised(out)
    BY <1>2, <2>2, <2>3 DEF Raised, Return
  <2>4. CASE ~Raised(out)
    <3>1. task'[e].pc = "remove" /\ task'[e].result = "none"
      BY <1>0, <2>1, <2>2, <2>4 DEF Goto, CancelOK, ThreadRecord
    <3>2. out = "ok"
      BY <2>4 DEF Raised
    <3>3. Over(l)'
      BY <1>0, <2>2, <3>2 DEF CancelAt, Ended, Over
    <3>4. PollLabel(l) = l /\ Settled(l)' /\ Held(l)'
      BY <1>0, <1>1, <2>1 DEF CancelOK
    <3>5. QED
      BY <3>1, <3>3, <3>4 DEF CancelOK
  <2>5. QED
    BY <2>3, <2>4
<1>6. CASE RemovePrimary(e)
  <2>1. th.pc = "remove"
    BY <1>6 DEF RemovePrimary, At
  <2>2. task'[e].pc = "cascade" /\ task'[e].result = "none"
    BY <1>0, <1>6, <2>1 DEF RemovePrimary, Goto, CancelOK, ThreadRecord
  <2>3. PollLabel(l) = l /\ Held(l) /\ Settled(l)' /\ Over(l)'
    BY <1>0, <1>1, <2>1 DEF CancelOK
  <2>4. ~Filed(byCoid', l)
    BY <1>0, <1>6, <2>3, RemoveBySourceIdFiling DEF RemovePrimary
  <2>5. Forgotten(l)'
    BY <2>3, <2>4 DEF Forgotten, Filed
  <2>6. QED
    BY <2>2, <2>5 DEF CancelOK
<1>7. ASSUME th.pc \in {"cascade", "callsib", "removesib", "tidysib"},
             \/ task'[e].pc = "done"
             \/ /\ task'[e].pc \in {"cascade", "callsib", "removesib", "tidysib"}
                /\ task'[e].result = th.result
      PROVE  CancelOK(e)'
  <2>1. faults' = 0 => Forgotten(l)'
    BY <1>0, <1>1, <1>7 DEF CancelOK
  <2>2. task'[e].pc # "done" => task'[e].result = "none"
    BY <1>0, <1>7 DEF CancelOK
  <2>3. QED
    BY <1>7, <2>1, <2>2 DEF CancelOK
<1>8. CASE LookupSibling(e)
  <2>1. th.pc = "cascade"
    BY <1>8 DEF LookupSibling, At
  <2>2. \/ task'[e].pc = "done"
        \/ task'[e].pc = "callsib" /\ task'[e].result = th.result
    BY <1>0, <1>8 DEF LookupSibling, Return, Thread, ThreadRecord
  <2>3. QED
    BY <1>7, <2>1, <2>2
<1>9. CASE CancelSibling(e)
  <2>1. th.pc = "callsib"
    BY <1>9 DEF CancelSibling, At
  <2>2. /\ task'[e].pc \in {"tidysib", "removesib"}
        /\ task'[e].result = th.result
    BY <1>0, <1>9 DEF CancelSibling, Goto, ThreadRecord
  <2>3. QED
    BY <1>7, <2>1, <2>2
<1>10. CASE RemoveSibling(e)
  <2>1. th.pc \in {"removesib", "tidysib"} /\ task'[e].pc = "done"
    BY <1>0, <1>10 DEF RemoveSibling, Return, Thread
  <2>2. QED
    BY <1>7, <2>1
<1>11. QED
  BY <1>0, <1>3, <1>4, <1>5, <1>6, <1>8, <1>9, <1>10
     DEF Step, Reserve, PlaceOrder, PlaceBracket, EnterBatch, Register,
         ExitBatch, LookupModify, ModifyFollower, ApplyFill, At, ThreadOK

\* placeoso answers with the ids of both exits.
FullReplies == ChildReplies \subseteq {<<"LMT", "STP">>}

\* An id of leg l leads to the order placed for it.
Reached(l) == PollLabel(l) = l /\ Settled(l) /\ Held(l) /\ Filed(byCoid, l)

KeepsFiled(l) == Filed(byCoid, l) => Filed(byCoid', l)

(* What removes no record of l keeps the follower id in it. *)
LEMMA MutateFiled ==
    ASSUME NEW l, NEW m, NEW idx, Mutate(m, idx),
           Filed(byCoid, l) => Filed(m, l)
    PROVE  KeepsFiled(l)
BY DEF Mutate, KeepsFiled, Filed

LEMMA UnchangedFiled ==
    ASSUME NEW l, UNCHANGED byCoid PROVE KeepsFiled(l)
BY DEF KeepsFiled, Filed

LEMMA AddPendingFiled ==
    ASSUME MapOK, NEW l \in Leg, NEW k \in MapLabel, AddPending(k)
    PROVE  KeepsFiled(l)
<1>1. CASE Known(k)
  BY <1>1, UnchangedFiled DEF AddPending, mapVars
<1>2. CASE ~Known(k)
  <2> DEFINE m == [byCoid EXCEPT ![k] = Fresh]
  <2>1. Filed(byCoid, l) => Filed(m, l)
    BY <1>2, MapParts, LegForms DEF Filed, Known
  <2>2. Mutate(m, coidByIbkr)
    BY <1>2 DEF AddPending
  <2> HIDE DEF m
  <2>3. QED
    BY <2>1, <2>2, MutateFiled
<1>3. QED
  BY <1>1, <1>2

LEMMA SetFollowerIdFiled ==
    ASSUME MapOK, NEW l \in Leg, NEW k \in Leg, SetFollowerId(k, k)
    PROVE  KeepsFiled(l) /\ Filed(byCoid', k)
<1> DEFINE r == [RecordOf(k) EXCEPT !.tradovate_id = k]
           m == [byCoid EXCEPT ![k] = r]
<1>1. r.tradovate_id = k /\ r # NoRecord /\ k # NoId /\ k \in MapLabel
  BY RecordOfOK, NoRecordAssumption, NamesAssumption, NoIdForms, LegForms
     DEF Record
<1>2. Mutate(m, coidByIbkr)
  BY DEF SetFollowerId
<1> HIDE DEF r
<1>3. Filed(m, k) /\ (Filed(byCoid, l) => Filed(m, l))
  BY <1>1, MapParts, LegForms DEF Filed
<1>4. byCoid' = m
  BY <1>2 DEF Mutate
<1> HIDE DEF m
<1>5. QED
  BY <1>2, <1>3, <1>4, MutateFiled

LEMMA BindSourceIdFiled ==
    ASSUME MapOK, NEW l \in Leg, NEW s \in Leg, NEW k \in MapLabel,
           BindSourceId(k, s)
    PROVE  KeepsFiled(l)
<1> DEFINE r == [RecordOf(k) EXCEPT !.ibkr_order_id = s]
           m == [byCoid EXCEPT ![k] = r]
           idx == [Released(k) EXCEPT ![s] = k]
<1>1. r.tradovate_id = RecordOf(k).tradovate_id /\ r # NoRecord
  BY RecordOfOK, NoRecordAssumption, NamesAssumption DEF Record
<1>2. Mutate(m, idx)
  BY DEF BindSourceId
<1> HIDE DEF r
<1>3. Filed(byCoid, l) => Filed(m, l)
  BY <1>1, MapParts, LegForms DEF Filed, RecordOf, Known
<1> HIDE DEF m, idx
<1>4. QED
  BY <1>2, <1>3, MutateFiled

\* Only the record an id leads to is removed with it.
LEMMA RemoveBySourceIdFiled ==
    ASSUME MapOK, NEW l \in Leg, NEW s \in Leg,
           RemoveBySourceId(s), l # s
    PROVE  KeepsFiled(l)
<1>1. CASE LabelOf(s) = NoId
  BY <1>1, UnchangedFiled DEF RemoveBySourceId, mapVars
<1>2. CASE LabelOf(s) # NoId
  <2> DEFINE m == [byCoid EXCEPT ![LabelOf(s)] = NoRecord]
             idx == [coidByIbkr EXCEPT ![s] = NoId]
  <2>1. LabelOf(s) \in MapLabel /\ LabelOf(s) # l
    <3>1. LabelOf(s) \in OwnLabels(s)
      BY <1>2, MapParts
    <3>2. LabelOf(s) \in {s, PollLabel(s)} /\ LabelOf(s) \in MapLabel
      BY <3>1, OwnLabelForms
    <3>3. QED
      BY <3>2, PollForms
  <2>2. Filed(byCoid, l) => Filed(m, l)
    BY <2>1, MapParts, LegForms DEF Filed
  <2>3. Mutate(m, idx)
    BY <1>2 DEF RemoveBySourceId
  <2> HIDE DEF m, idx
  <2>4. QED
    BY <2>2, <2>3, MutateFiled
<1>3. QED
  BY <1>1, <1>2

LEMMA RemoveByLabelFiled ==
    ASSUME MapOK, NEW l \in Leg, NEW k \in MapLabel, RemoveByLabel(k), l # k
    PROVE  KeepsFiled(l)
<1>1. CASE ~Known(k)
  BY <1>1, UnchangedFiled DEF RemoveByLabel, mapVars
<1>2. CASE Known(k)
  <2> DEFINE m == [byCoid EXCEPT ![k] = NoRecord]
  <2>1. Filed(byCoid, l) => Filed(m, l)
    BY MapParts, LegForms DEF Filed
  <2>2. Mutate(m, Released(k))
    BY <1>2 DEF RemoveByLabel
  <2> HIDE DEF m
  <2>3. QED
    BY <2>1, <2>2, MutateFiled
<1>3. QED
  BY <1>1, <1>2

-----------------------------------------------------------------------------
(* What the placement has filed once it is over.                           *)

(* The ids of a bracket's answer cover all its legs. *)
LEMMA RegistrationsCover ==
    ASSUME ~IdsInEvents, NEW o \in Order, NEW l \in Leg, l[1] = o,
           NEW roles \in {<<>>, <<"LMT", "STP">>},
           o \in Bracket => roles # <<>>
    PROVE  LET todo == Registrations(Entry(o), roles)
           IN  \E i \in DOMAIN todo : todo[i][2] = l
<1> DEFINE N == Len(roles)
           legAt(i) == IF i = 0 THEN Entry(o) ELSE <<Entry(o)[1], roles[i]>>
           labelAt(i) == IF i = 0 THEN Entry(o)
                         ELSE <<Entry(o)[1], <<"LMT", "STP">>[i]>>
           sets == [k \in 1 .. N + 1 |-> <<"set", labelAt(k - 1), legAt(k - 1)>>]
<1>1. Registrations(Entry(o), roles) = sets
  BY DEF Registrations
<1>2. /\ labelAt(0) = <<o, "ENTRY">>
      /\ labelAt(1) = <<o, "LMT">>
      /\ labelAt(2) = <<o, "STP">>
  BY DEF Entry
<1>3. \/ l = <<o, "ENTRY">>
      \/ o \in Bracket /\ (l = <<o, "LMT">> \/ l = <<o, "STP">>)
  BY LegForms DEF Entry
<1>4. N \in {0, 2} /\ (o \in Bracket => N = 2)
  OBVIOUS
<1> HIDE DEF N, labelAt, legAt
<1>5. \A k \in 1 .. N + 1 : k \in DOMAIN sets /\ sets[k][2] = labelAt(k - 1)
  OBVIOUS
<1> HIDE DEF sets
<1>6. l = labelAt(0) \/ (o \in Bracket /\ (l = labelAt(1) \/ l = labelAt(2)))
  BY <1>2, <1>3
<1>7. 1 \in 1 .. N + 1 /\ (N = 2 => 2 \in 1 .. N + 1 /\ 3 \in 1 .. N + 1)
  BY <1>4
<1>8. QED
  <2>1. CASE l = labelAt(0)
    <3>1. 1 \in DOMAIN sets /\ sets[1][2] = labelAt(0)
      BY <1>5, <1>7
    <3>2. QED
      BY <1>1, <2>1, <3>1
  <2>2. CASE N = 2 /\ l = labelAt(1)
    <3>1. 2 \in DOMAIN sets /\ sets[2][2] = labelAt(1)
      BY <1>5, <1>7, <2>2
    <3>2. QED
      BY <1>1, <2>2, <3>1
  <2>3. CASE N = 2 /\ l = labelAt(2)
    <3>1. 3 \in DOMAIN sets /\ sets[3][2] = labelAt(2)
      BY <1>5, <1>7, <2>3
    <3>2. QED
      BY <1>1, <2>3, <3>1
  <2>4. QED
    BY <1>4, <1>6, <2>1, <2>2, <2>3

(* A step settles a leg only by filing its id. *)
LEMMA StepSettles ==
    ASSUME LiveDirection, FullReplies, ReplicatorInv, FilingInv,
           NEW e \in Event, Step(e), faults' = 0, NEW l \in Leg, Settled(l)'
    PROVE  Settled(l) \/ Filed(byCoid', l)
<1> DEFINE o == e.leg[1]
           th == task[e]
<1>0. /\ MapOK /\ ThreadOK(e, th) /\ th \in ThreadRecord
      /\ task \in [Event -> ThreadRecord] /\ ~IdsInEvents
      /\ faults \in Nat
  BY FaultAssumption
     DEF LiveDirection, ReplicatorInv, ThreadsOK, FollowerOK
<1>1. ASSUME task'[NewOf(l[1])] = task[NewOf(l[1])] PROVE Settled(l)
  BY <1>1 DEF Settled, Placed, Pending
<1>2. CASE e.kind # "NEW" \/ l[1] # o
  <2>1. NewOf(l[1]) \in Event /\ NewOf(l[1]) # e
    BY <1>2, LegOrder, NewForms, EventForms DEF NewOf, Entry
  <2>2. QED
    BY <1>1, <2>1, StepOwn
<1>3. CASE e.kind = "NEW" /\ l[1] = o
  <2>0. /\ o \in Order /\ e = NewOf(o) /\ e.leg = Entry(o) /\ NewOf(l[1]) = e
    BY <1>3, NewEvent, EventForms
  <2>1. CASE Reserve(e)
    <3>1. task'[e].pc = "place"
      BY <1>0, <2>1 DEF Reserve, Goto, ThreadRecord
    <3>2. QED
      BY <2>0, <3>1 DEF Settled, Placed
  <2>2. ASSUME NEW roles \in {<<>>, <<"LMT", "STP">>},
               o \in Bracket => roles # <<>>, NEW pc,
               task' = [task EXCEPT ![e].pc = pc,
                                    ![e].todo = Registrations(e.leg, roles)]
        PROVE  FALSE
    <3>1. task'[e].todo = Registrations(Entry(o), roles)
      BY <1>0, <2>0, <2>2 DEF ThreadRecord
    <3>2. \E i \in DOMAIN task'[e].todo : task'[e].todo[i][2] = l
      <4> HIDE DEF o, th
      <4>1. QED
        BY <1>0, <1>3, <2>0, <2>2, <3>1, RegistrationsCover
    <3>3. QED
      BY <2>0, <3>2 DEF Settled, Pending
  <2>3. CASE PlaceOrder(e)
    <3>1. PICK out \in {"ok", "fault"} :
             /\ Place({e.leg}, out)
             /\ IF Raised(out) THEN Return(e, out)
                ELSE task' = [task EXCEPT
                                 ![e].pc = "register",
                                 ![e].todo = Registrations(e.leg, <<>>)]
      BY <2>3 DEF PlaceOrder
    <3>2. out # "fault"
      BY <1>0, <3>1 DEF Place, Fault
    <3>3. o \notin Bracket
      BY <2>3, LegAssumption DEF PlaceOrder
    <3>4. QED
      BY <2>2, <3>1, <3>2, <3>3 DEF Raised
  <2>4. CASE PlaceBracket(e)
    <3>1. PICK out \in {"ok", "fault"} :
             /\ Place(LegsOf(e.leg[1]), out)
             /\ IF Raised(out) THEN Return(e, out)
                ELSE \E roles \in ChildReplies :
                        task' = [task EXCEPT
                                    ![e].pc = "enter",
                                    ![e].todo = Registrations(e.leg, roles)]
      BY <2>4 DEF PlaceBracket
    <3>2. out # "fault"
      BY <1>0, <3>1 DEF Place, Fault
    <3>3. PICK roles \in ChildReplies :
             task' = [task EXCEPT ![e].pc = "enter",
                                  ![e].todo = Registrations(e.leg, roles)]
      BY <3>1, <3>2 DEF Raised
    <3>4. roles = <<"LMT", "STP">> /\ roles # <<>>
      BY DEF FullReplies
    <3>5. QED
      BY <2>2, <3>3, <3>4
  <2>5. CASE EnterBatch(e)
    <3>1. th.pc = "enter" /\ task'[e].todo = th.todo
      BY <1>0, <2>5 DEF EnterBatch, Goto, At, ThreadRecord
    <3>2. QED
      BY <2>0, <3>1 DEF Settled, Placed, Pending
  <2>6. CASE Register(e)
    <3>1. /\ th.pc = "register" /\ th.todo # <<>> /\ th.todo \in Seq(MapOp)
      BY <1>0, <2>6 DEF Register, At, ThreadRecord
    <3>2. PICK k \in Leg : Head(th.todo) = <<"set", k, k>>
      <4>1. Head(th.todo) \in MapOp
        BY <3>1
      <4>2. QED
        BY <1>0, <4>1 DEF MapOp
    <3>3. SetFollowerId(k, k)
      BY <2>6, <3>2 DEF Register
    <3>4. Filed(byCoid', k)
      BY <1>0, <3>3, SetFollowerIdFiled
    <3>5. CASE l = k
      BY <3>4, <3>5
    <3>6. CASE l # k
      <4>1. ASSUME NEW i \in DOMAIN th.todo, th.todo[i][2] = l PROVE FALSE
        <5>1. i # 1 /\ i \in 1 .. Len(th.todo) /\ Len(th.todo) \in Nat
          BY <3>1, <3>2, <3>6, <4>1
        <5>2. /\ i - 1 \in DOMAIN Tail(th.todo)
              /\ Tail(th.todo)[i - 1] = th.todo[i]
          BY <3>1, <5>1
        <5>3. Len(th.todo) # 1
          BY <5>1
        <5>4. task'[e].todo = Tail(th.todo)
          BY <1>0, <2>6, <5>3 DEF Register, ThreadRecord
        <5>5. QED
          BY <2>0, <4>1, <5>2, <5>4 DEF Settled, Pending
      <4>2. QED
        BY <2>0, <3>1, <4>1 DEF Settled, Placed, Pending
    <3>7. QED
      BY <3>5, <3>6
  <2>7. CASE ExitBatch(e)
    BY <2>0, <2>7 DEF ExitBatch, At, Settled, Placed, Pending
  <2>8. QED
    BY <1>0, <1>3, <2>1, <2>3, <2>4, <2>5, <2>6, <2>7
       DEF Step, ResolveLabel, LookupCancel, CancelPrimary, RemovePrimary,
           LookupSibling, CancelSibling, RemoveSibling, LookupModify,
           ModifyFollower, ApplyFill, At, ThreadOK
<1>4. QED
  BY <1>2, <1>3

(* No step opens an order whose placement is over. *)
LEMMA StepReopens ==
    ASSUME ReplicatorInv, NEW e \in Event, Step(e),
           NEW l \in Leg, Placed(l), fol'[l] = "open"
    PROVE  fol[l] = "open"
<1>0. FollowerOK /\ ThreadOK(e, task[e])
  BY DEF ReplicatorInv, ThreadsOK
<1>1. ASSUME NEW fid, NEW out, CancelAt(fid, out) PROVE fol[l] = "open"
  BY <1>0, <1>1 DEF CancelAt, Ended, Dragged, FollowerOK
<1>2. ASSUME At(e, "place"), NEW out,
             Place({e.leg}, out) \/ Place(LegsOf(e.leg[1]), out)
      PROVE  fol[l] = "open"
  <2>1. e.kind = "NEW"
    BY <1>0, <1>2 DEF At, ThreadOK
  <2>2. e = NewOf(e.leg[1])
    BY <2>1, NewEvent
  <2>3. ASSUME l \in {e.leg} \cup LegsOf(e.leg[1]) PROVE FALSE
    <3>1. l[1] = e.leg[1]
      BY <2>3 DEF LegsOf, Exits, Entry
    <3>2. QED
      BY <1>2, <2>2, <3>1 DEF Placed, At
  <2>4. QED
    BY <1>0, <1>2, <2>3 DEF Place, FollowerOK
<1>3. CASE PlaceOrder(e) \/ PlaceBracket(e)
  BY <1>2, <1>3 DEF PlaceOrder, PlaceBracket
<1>4. CASE CancelPrimary(e) \/ CancelSibling(e)
  BY <1>1, <1>4 DEF CancelPrimary, CancelSibling
<1>5. CASE UNCHANGED fol
  BY <1>5
<1>6. QED
  BY <1>3, <1>4, <1>5
     DEF Step, Reserve, EnterBatch, Register, ExitBatch, ResolveLabel,
         LookupCancel, RemovePrimary, LookupSibling, RemoveSibling,
         LookupModify, ModifyFollower, ModifyAt, ApplyFill, folVars

-----------------------------------------------------------------------------
(* Open orders stay on file.                                               *)

\* The thread of an order that was reported placed has nothing left to file.
DonePlacements ==
    \A o \in Order :
        LET t == task[NewOf(o)]
        IN  t.result = "ok" => t.pc = "done" /\ t.todo = <<>>

\* A cascade drops the sibling's record once the sibling is not open.
SiblingsOver ==
    \A e \in Event :
        faults = 0 /\ e.kind = "CANCEL"
           /\ task[e].pc \in {"removesib", "tidysib"} =>
                 fol[Sibling(e.leg)] # "open"

OpenFiled == \A l \in Leg : Settled(l) /\ fol[l] = "open" => Filed(byCoid, l)

(* A step of a thread unfiles no order that is open. *)
LEMMA StepFiled ==
    ASSUME LiveDirection, ReplicatorInv, FilingInv, SiblingsOver, faults = 0,
           NEW e \in Event, e.kind # "FILL", Step(e),
           NEW l \in Leg, fol[l] = "open"
    PROVE  KeepsFiled(l)
<1>0. /\ MapOK /\ ThreadOK(e, task[e]) /\ task[e] \in ThreadRecord
      /\ e.leg \in Leg /\ e.leg \in MapLabel /\ ~IdsInEvents /\ ~NativeOco
  BY EventForms, LegForms DEF LiveDirection, ReplicatorInv, ThreadsOK
<1>1. CASE Reserve(e)
  BY <1>0, <1>1, AddPendingFiled DEF Reserve
<1>2. CASE Register(e)
  <2>1. task[e].todo # <<>> /\ task[e].todo \in Seq(MapOp)
    BY <1>0, <1>2 DEF Register, ThreadRecord
  <2>2. Head(task[e].todo) \in MapOp
    BY <2>1
  <2>3. PICK k \in Leg : Head(task[e].todo) = <<"set", k, k>>
    BY <1>0, <2>2 DEF MapOp
  <2>4. QED
    BY <1>0, <1>2, <2>3, SetFollowerIdFiled DEF Register
<1>3. CASE RemovePrimary(e)
  <2>1. e.kind = "CANCEL" /\ task[e].pc = "remove"
    BY <1>0, <1>3 DEF RemovePrimary, At, ThreadOK
  <2>2. l # e.leg
    BY <2>1 DEF FilingInv, CancelOK, Over
  <2>3. QED
    BY <1>0, <1>3, <2>2, RemoveBySourceIdFiled DEF RemovePrimary
<1>4. CASE RemoveSibling(e)
  <2>1. /\ e.kind = "CANCEL" /\ task[e].pc \in {"removesib", "tidysib"}
        /\ task[e].label = e.leg /\ e.leg \in ExitLeg
    BY <1>0, <1>4 DEF RemoveSibling, ThreadOK
  <2>2. l # Sibling(e.leg) /\ Sibling(e.leg) \in MapLabel
    BY <2>1, SiblingForms, LegForms DEF SiblingsOver
  <2>3. QED
    BY <1>0, <1>4, <2>1, <2>2, RemoveByLabelFiled DEF RemoveSibling
<1>5. CASE LookupCancel(e)
  BY <1>0, <1>5, UnchangedFiled DEF LookupCancel, SkipsCancel, mapVars
<1>6. CASE UNCHANGED byCoid
  BY <1>6, UnchangedFiled
<1>7. QED
  BY <1>1, <1>2, <1>3, <1>4, <1>5, <1>6
     DEF Step, PlaceOrder, PlaceBracket, EnterBatch, ExitBatch, BatchEnter,
         BatchExit, ResolveLabel, CancelPrimary, LookupSibling, CancelSibling,
         LookupModify, ModifyFollower, ApplyFill, mapVars

LEMMA StepDone ==
    ASSUME ReplicatorInv, DonePlacements, NEW e \in Event, Step(e)
    PROVE  DonePlacements'
<1>0. ThreadOK(e, task[e]) /\ task \in [Event -> ThreadRecord]
  BY DEF ReplicatorInv, ThreadsOK
<1>1. CASE e.kind # "NEW"
  <2>1. \A o \in Order : task'[NewOf(o)] = task[NewOf(o)]
    <3>1. \A o \in Order : NewOf(o) \in Event /\ NewOf(o) # e
      BY <1>1, NewForms DEF NewOf
    <3>2. QED
      BY <3>1, StepOwn
  <2>2. QED
    BY <2>1 DEF DonePlacements
<1>2. CASE e.kind = "NEW"
  <2>1. e.leg[1] \in Order /\ e = NewOf(e.leg[1])
    BY <1>2, NewEvent
  <2>2. \A o \in Order : o # e.leg[1] => task'[NewOf(o)] = task[NewOf(o)]
    BY <2>1, NewForms, StepOwn
  <2>3. \/ task'[e].result = task[e].result /\ task[e].pc # "done"
        \/ task'[e].pc = "done" /\ task'[e].todo = <<>>
    BY <1>0, <1>2
       DEF Step, Reserve, PlaceOrder, PlaceBracket, EnterBatch, Register,
           ExitBatch, ResolveLabel, LookupCancel, CancelPrimary, RemovePrimary,
           LookupSibling, CancelSibling, RemoveSibling, LookupModify,
           ModifyFollower, ApplyFill, Goto, Return, At, Thread, ThreadOK,
           ThreadRecord
  <2>4. QED
    BY <2>1, <2>2, <2>3 DEF DonePlacements
<1>3. QED
  BY <1>1, <1>2

-----------------------------------------------------------------------------
(* What an id leads to.                                                    *)

(* An id that leads to a follower order leads to the one placed for it. *)
LEMMA FollowerReached ==
    ASSUME LiveDirection, MapOK, FilesSettled, NEW l \in Leg
    PROVE  FollowerOf(l) # NoId <=> Reached(l)
<1>0. ~IdsInEvents
  BY DEF LiveDirection
<1>1. ASSUME FollowerOf(l) # NoId PROVE Reached(l)
  <2>1. LabelOf(l) # NoId /\ FollowerOf(l) = l
    BY <1>1, FollowerOfOK DEF FollowerOf
  <2>2. LabelOf(l) = PollLabel(l) /\ LabelOf(l) \in MapLabel
    BY <1>0, <2>1, MapParts, PollForms DEF OwnLabels
  <2>3. RecordOf(LabelOf(l)).tradovate_id = l
    BY <2>1 DEF FollowerOf
  <2>4. LabelOf(l) = l /\ PollLabel(l) = l
    BY <2>2, <2>3, RecordOfOK, NoIdForms
  <2>5. Filed(byCoid, l)
    BY <2>3, <2>4, NoIdForms DEF Filed, RecordOf, Known, Fresh
  <2>6. QED
    BY <2>4, <2>5 DEF Reached, FilesSettled, Held
<1>2. ASSUME Reached(l) PROVE FollowerOf(l) # NoId
  BY <1>2, NoIdForms DEF Reached, Held, Filed, FollowerOf, RecordOf, Known
<1>3. QED
  BY <1>1, <1>2

(* Nothing but the end of its order takes an id out of reach. *)
LEMMA ReachedKept ==
    ASSUME NEW l \in Leg, Reached(l), KeepsFiling(l), KeepsFiled(l),
           task'[NewOf(l[1])] = task[NewOf(l[1])]
    PROVE  Reached(l)'
BY DEF Reached, KeepsFiling, KeepsFiled, Settled, Placed, Pending, Filed, Held

LEMMA StepReached ==
    ASSUME LiveDirection, ReplicatorInv, FilingInv, SiblingsOver, faults = 0,
           NEW e \in Event, e.kind # "FILL", Step(e),
           NEW l \in Leg, Reached(l), fol[l] = "open"
    PROVE  Reached(l)'
<1>1. KeepsFiled(l)
  BY StepFiled
<1>2. Onward
  BY StepOnward
<1>3. Settled(l)' /\ KeepsFiling(l)
  BY <1>2 DEF Onward, PlacementsKept, Reached, Settled
<1>4. QED
  BY <1>1, <1>3 DEF Reached, KeepsFiling, KeepsFiled, Filed, Held

ModifyOf(e, l) == e.kind = "MODIFY" /\ e.leg = l

(* What one step does to the follower's order of a leg. *)
LEMMA StepFollower ==
    ASSUME ReplicatorInv, NEW e \in Event, Step(e), NEW l \in Leg
    PROVE  /\ fol'[l] = "none" => fol[l] = "none"
           /\ ~ModifyOf(e, l) => folVer'[l] = folVer[l]
<1>0. FollowerOK /\ ThreadOK(e, task[e])
  BY DEF ReplicatorInv, ThreadsOK
<1>1. fol'[l] = "none" => fol[l] = "none"
  <2>1. CASE PlaceOrder(e) \/ PlaceBracket(e)
    BY <1>0, <2>1 DEF PlaceOrder, PlaceBracket, Place, FollowerOK
  <2>2. CASE CancelPrimary(e) \/ CancelSibling(e)
    BY <1>0, <2>2 DEF CancelPrimary, CancelSibling, CancelAt, Ended, FollowerOK
  <2>3. CASE UNCHANGED fol
    BY <2>3
  <2>4. QED
    BY <2>1, <2>2, <2>3
       DEF Step, Reserve, EnterBatch, Register, ExitBatch, ResolveLabel,
           LookupCancel, RemovePrimary, LookupSibling, RemoveSibling,
           LookupModify, ModifyFollower, ModifyAt, ApplyFill, folVars
<1>2. ASSUME ~ModifyOf(e, l) PROVE folVer'[l] = folVer[l]
  <2>1. CASE ModifyFollower(e)
    <3>1. e.kind = "MODIFY" /\ task[e].fid = e.leg /\ e.leg # l
      BY <1>0, <1>2, <2>1 DEF ModifyFollower, At, ThreadOK, ModifyOf
    <3>2. QED
      BY <1>0, <2>1, <3>1 DEF ModifyFollower, ModifyAt, FollowerOK
  <2>2. CASE UNCHANGED folVer
    BY <2>2
  <2>3. QED
    BY <2>1, <2>2
       DEF Step, Reserve, PlaceOrder, PlaceBracket, Place, EnterBatch,
           Register, ExitBatch, ResolveLabel, LookupCancel, CancelPrimary,
           CancelAt, RemovePrimary, LookupSibling, CancelSibling,
           RemoveSibling, LookupModify, ApplyFill, folVars
<1>3. QED
  BY <1>1, <1>2

(* An order is cancelled at the follower by a cancel of its own, or by the
   cascade of its sibling's once that one is over. *)
LEMMA StepCancelled ==
    ASSUME ~NativeOco, ReplicatorInv, FilingInv, faults = 0, faults' = 0,
           NEW e \in Event, e.kind # "FILL", Step(e),
           NEW l \in Leg, fol'[l] = "cancelled", fol[l] # "cancelled"
    PROVE  /\ e.kind = "CANCEL"
           /\ \/ e.leg = l /\ task[e].pc = "call"
              \/ /\ e.leg \in ExitLeg /\ l = Sibling(e.leg) /\ e.leg = Sibling(l)
                 /\ Over(e.leg) /\ task[e].pc = "callsib"
<1>0. FollowerOK /\ ThreadOK(e, task[e]) /\ e.leg \in Leg
  BY EventForms DEF ReplicatorInv, ThreadsOK
<1>1. CASE CancelPrimary(e)
  <2>1. task[e].fid = e.leg /\ e.kind = "CANCEL" /\ task[e].pc = "call"
    BY <1>0, <1>1 DEF CancelPrimary, At, ThreadOK
  <2>2. l = e.leg
    BY <1>0, <1>1, <2>1
       DEF CancelPrimary, CancelAt, Ended, Dragged, FollowerOK
  <2>3. QED
    BY <2>1, <2>2
<1>2. CASE CancelSibling(e)
  <2>1. /\ task[e].fid = Sibling(e.leg) /\ e.kind = "CANCEL"
        /\ task[e].pc = "callsib" /\ e.leg \in ExitLeg
    BY <1>0, <1>2 DEF CancelSibling, At, ThreadOK
  <2>2. l = Sibling(e.leg)
    BY <1>0, <1>2, <2>1
       DEF CancelSibling, CancelAt, Ended, Dragged, FollowerOK
  <2>3. Over(e.leg)
    BY <2>1 DEF FilingInv, CancelOK, Forgotten
  <2>4. QED
    BY <2>1, <2>2, <2>3, SiblingForms
<1>3. CASE PlaceOrder(e) \/ PlaceBracket(e)
  BY <1>0, <1>3 DEF PlaceOrder, PlaceBracket, Place, FollowerOK
<1>4. CASE UNCHANGED fol
  BY <1>4
<1>5. QED
  BY <1>1, <1>2, <1>3, <1>4
     DEF Step, Reserve, EnterBatch, Register, ExitBatch, ResolveLabel,
         LookupCancel, RemovePrimary, LookupSibling, RemoveSibling,
         LookupModify, ModifyFollower, ModifyAt, ApplyFill, folVars

=============================================================================
