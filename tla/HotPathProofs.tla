----------------------------- MODULE HotPathProofs -----------------------------
(***************************************************************************)
(* Theorems about the live IBKR -> Tradovate direction, for any orders,    *)
(* brackets, cancels, modifications, crashes and faults.                   *)
(***************************************************************************)
EXTENDS HotPath, ReplicatorProofs

SourceOK ==
    /\ src \in [Leg -> {"none", "open", "rejected", "cancelled", "filled"}]
    /\ srcVer \in [Leg -> 0 .. MaxVer]
    /\ shown \subseteq Leg
    /\ answered \subseteq Order
    /\ cancels \in [Leg -> 0 .. MaxCancels]
    /\ crashes \in 0 .. MaxCrashes
    /\ timely \cup early \cup overlapped \subseteq Leg
    /\ lossy \in BOOLEAN

\* An order that was not sent has no thread, so its thread starts once.
UnsentIdle ==
    \A o \in Order : src[Entry(o)] = "none" => ~Started(NewOf(o))

HotInv == ReplicatorInv /\ SourceOK /\ UnsentIdle

LEMMA HotInit == Init => HotInv
<1> SUFFICES ASSUME Init PROVE HotInv
  OBVIOUS
<1>1. ReplicatorInv
  BY ReplicatorInitOK DEF Init
<1>2. SourceOK
  <2>1. 0 \in 0 .. MaxVer /\ 0 \in 0 .. MaxCancels /\ 0 \in 0 .. MaxCrashes
    BY BoundAssumption, CrashAssumption
  <2>2. QED
    BY <2>1 DEF Init, SourceOK
<1>3. UnsentIdle
  <2>1. \A o \in Order : NewOf(o) \in Event
    BY DEF NewOf, Event
  <2>2. QED
    BY <2>1 DEF Init, ReplicatorInit, UnsentIdle, Started, Idle, Thread
<1>4. QED
  BY <1>1, <1>2, <1>3 DEF HotInv

LEMMA EndedForms ==
    ASSUME SourceOK, NEW leg, NEW how \in {"cancelled", "filled"}
    PROVE  /\ SourceEnded(leg, how) \in
                 [Leg -> {"none", "open", "rejected", "cancelled", "filled"}]
           /\ \A k \in Leg : SourceEnded(leg, how)[k] = "none" => src[k] = "none"
BY DEF SourceOK, SourceEnded

(* Steps that start no order keep unsent orders without a thread. *)
LEMMA UnsentKept ==
    ASSUME UnsentIdle,
           \A o \in Order : src'[Entry(o)] = "none" => src[Entry(o)] = "none",
           \A o \in Order : ~Started(NewOf(o)) => ~Started(NewOf(o))'
    PROVE  UnsentIdle'
BY DEF UnsentIdle

(* What leaves the replicator alone keeps its invariant. *)
LEMMA ReplicatorKept ==
    ASSUME ReplicatorInv, UNCHANGED replicatorVars
    PROVE  ReplicatorInv' /\ \A e \in Event : Started(e)' = Started(e)
<1> USE DEF replicatorVars
<1>1. MapOK'
  BY UnchangedOK DEF ReplicatorInv
<1>2. FollowerOK'
  BY FolUnchangedOK DEF ReplicatorInv
<1>3. ThreadsOK' /\ opened' \subseteq MapLabel
  BY DEF ReplicatorInv, ThreadsOK
<1>4. BatchCounted'
  BY DEF ReplicatorInv, BatchCounted, InBatch, mapVars
<1>5. QED
  BY <1>1, <1>2, <1>3, <1>4 DEF ReplicatorInv, Started

(* The proxy's hooks change the map and start threads. *)
LEMMA HookOK ==
    ASSUME ReplicatorInv, MapOK', batchDepth' = batchDepth,
           UNCHANGED <<folVars, task, opened>>
    PROVE  ReplicatorInv'
<1>1. FollowerOK'
  BY FolUnchangedOK DEF ReplicatorInv
<1>2. ThreadsOK' /\ opened' \subseteq MapLabel
  BY DEF ReplicatorInv, ThreadsOK
<1>3. BatchCounted'
  BY DEF ReplicatorInv, BatchCounted, InBatch
<1>4. QED
  BY <1>1, <1>2, <1>3 DEF ReplicatorInv

LEMMA SpawnOK ==
    ASSUME ReplicatorInv, NEW e, e \notin InBatch,
           task' = Starting({e}), UNCHANGED <<mapVars, folVars, opened>>
    PROVE  /\ ReplicatorInv'
           /\ \A d \in Event : d # e => task'[d] = task[d]
<1>1. MapOK' /\ batchDepth' = batchDepth
  BY UnchangedOK DEF ReplicatorInv
<1>2. FollowerOK'
  BY FolUnchangedOK DEF ReplicatorInv
<1>3. ThreadsOK' /\ BatchCounted'
  <2>1. {e} \cap InBatch = {}
    OBVIOUS
  <2>2. QED
    BY <1>1, <2>1, StartingOK DEF ReplicatorInv
<1>4. \A d \in Event : d # e => task'[d] = task[d]
  BY DEF Starting
<1>5. QED
  BY <1>1, <1>2, <1>3, <1>4 DEF ReplicatorInv

LEMMA HotStep ==
    ASSUME RepliesInOrder, HotInv, [Next]_vars
    PROVE  HotInv'
<1>0. ReplicatorInv /\ SourceOK /\ UnsentIdle
  BY DEF HotInv
<1>1. ASSUME NEW o \in Order, Submit(o) PROVE HotInv'
  <2>1. NewOf(o) \notin InBatch
    BY <1>0, <1>1, NewForms DEF Submit, UnsentIdle, Started, InBatch
  <2>2. /\ ReplicatorInv'
        /\ \A d \in Event : d # NewOf(o) => task'[d] = task[d]
    BY <1>0, <1>1, <2>1, SpawnOK DEF Submit
  <2>3. SourceOK'
    BY <1>0, <1>1 DEF Submit, SourceOK, historyVars
  <2>4. ASSUME NEW p \in Order, src'[Entry(p)] = "none"
        PROVE  ~Started(NewOf(p))'
    <3>1. Entry(p) \in Leg /\ Entry(p) \notin LegsOf(o)
      BY <1>1, <2>4, LegForms DEF Submit
    <3>2. p # o
      BY <3>1 DEF LegsOf
    <3>3. src[Entry(p)] = "none"
      BY <1>1, <2>4, <3>1 DEF Submit
    <3>4. QED
      BY <1>0, <2>2, <3>2, <3>3, NewForms DEF UnsentIdle, Started
  <2>5. QED
    BY <2>2, <2>3, <2>4 DEF HotInv, UnsentIdle
<1>2. ASSUME NEW o \in Order, OrderResponse(o) PROVE HotInv'
  <2>1. MapOK' /\ batchDepth' = batchDepth
    <3>1. CASE src[Entry(o)] = "rejected"
      BY <1>0, <1>2, <3>1, UnchangedOK DEF OrderResponse, ReplicatorInv
    <3>2. CASE src[Entry(o)] # "rejected"
      <4>1. Entry(o) \in Leg /\ Entry(o) \in OwnLabels(Entry(o))
        BY LegForms, OwnLabelForms
      <4>2. QED
        BY <1>0, <1>2, <3>2, <4>1, BindSourceIdOK DEF OrderResponse, ReplicatorInv
    <3>3. QED
      BY <3>1, <3>2
  <2>2. ReplicatorInv'
    BY <1>0, <1>2, <2>1, HookOK DEF OrderResponse
  <2>3. SourceOK'
    BY <1>0, <1>2, LegForms DEF OrderResponse, SourceOK, historyVars
  <2>4. UnsentIdle'
    BY <1>0, <1>2 DEF OrderResponse, UnsentIdle, Started
  <2>5. QED
    BY <2>2, <2>3, <2>4 DEF HotInv
<1>3. ASSUME NEW leg \in Leg, OrdersPoll(leg) PROVE HotInv'
  <2>1. MapOK' /\ batchDepth' = batchDepth
    <3>1. CASE LabelOf(EntryOf(leg)) = NoId
      BY <1>0, <1>3, <3>1, UnchangedOK DEF OrdersPoll, ReplicatorInv
    <3>2. CASE LabelOf(EntryOf(leg)) # NoId
      <4>1. PollLabel(leg) \in OwnLabels(leg)
        BY DEF OwnLabels
      <4>2. QED
        BY <1>0, <1>3, <3>2, <4>1, BindSourceIdOK DEF OrdersPoll, ReplicatorInv
    <3>3. QED
      BY <3>1, <3>2
  <2>2. ReplicatorInv'
    BY <1>0, <1>3, <2>1, HookOK DEF OrdersPoll
  <2>3. SourceOK'
    BY <1>0, <1>3 DEF OrdersPoll, SourceOK, historyVars
  <2>4. UnsentIdle'
    BY <1>0, <1>3 DEF OrdersPoll, UnsentIdle, Started
  <2>5. QED
    BY <2>2, <2>3, <2>4 DEF HotInv
<1>4. ASSUME NEW leg \in Leg, UserCancel(leg) PROVE HotInv'
  <2> DEFINE e == [kind |-> "CANCEL", leg |-> leg, n |-> cancels'[leg]]
  <2>1. e \notin InBatch
    BY <1>0 DEF InBatch, ReplicatorInv, ThreadsOK, ThreadOK
  <2>2. /\ ReplicatorInv'
        /\ \A d \in Event : d # e => task'[d] = task[d]
    <3>1. task' = Starting({e}) /\ UNCHANGED <<mapVars, folVars, opened>>
      BY <1>4 DEF UserCancel
    <3> HIDE DEF e
    <3>2. QED
      BY <1>0, <2>1, <3>1, SpawnOK
  <2>3. /\ src' \in [Leg -> {"none", "open", "rejected", "cancelled", "filled"}]
        /\ \A k \in Leg : src'[k] = "none" => src[k] = "none"
    BY <1>0, <1>4, EndedForms DEF UserCancel, SourceOK
  <2>4. cancels' \in [Leg -> 0 .. MaxCancels]
    BY <1>0, <1>4, BoundAssumption DEF UserCancel, SourceOK
  <2>5. SourceOK'
    BY <1>0, <1>4, <2>3, <2>4 DEF UserCancel, SourceOK
  <2>6. UnsentIdle'
    <3>1. \A o \in Order : NewOf(o) \in Event /\ NewOf(o) # e
      BY NewForms DEF NewOf
    <3> HIDE DEF e
    <3>2. QED
      BY <1>0, <2>2, <2>3, <3>1, LegForms, UnsentKept DEF Started
  <2>7. QED
    BY <2>2, <2>5, <2>6 DEF HotInv
<1>5. ASSUME NEW leg \in Leg, UserModify(leg) PROVE HotInv'
  <2> DEFINE e == [kind |-> "MODIFY", leg |-> leg, n |-> srcVer'[leg]]
  <2>1. e \notin InBatch
    BY <1>0 DEF InBatch, ReplicatorInv, ThreadsOK, ThreadOK
  <2>2. /\ ReplicatorInv'
        /\ \A d \in Event : d # e => task'[d] = task[d]
    <3>1. task' = Starting({e}) /\ UNCHANGED <<mapVars, folVars, opened>>
      BY <1>5 DEF UserModify
    <3> HIDE DEF e
    <3>2. QED
      BY <1>0, <2>1, <3>1, SpawnOK
  <2>4. srcVer' \in [Leg -> 0 .. MaxVer]
    BY <1>0, <1>5, BoundAssumption DEF UserModify, SourceOK
  <2>5. SourceOK'
    BY <1>0, <1>5, <2>4 DEF UserModify, SourceOK
  <2>6. UnsentIdle'
    <3>1. \A o \in Order : NewOf(o) \in Event /\ NewOf(o) # e
      BY NewForms DEF NewOf
    <3>2. src' = src
      BY <1>5 DEF UserModify
    <3> HIDE DEF e
    <3>3. QED
      BY <1>0, <2>2, <3>1, <3>2, UnsentKept DEF Started
  <2>7. QED
    BY <2>2, <2>5, <2>6 DEF HotInv
<1>6. ASSUME NEW leg \in Leg, SourceFill(leg) PROVE HotInv'
  <2>1. ReplicatorInv' /\ \A e \in Event : Started(e)' = Started(e)
    BY <1>0, <1>6, ReplicatorKept DEF SourceFill
  <2>2. SourceOK'
    BY <1>0, <1>6, EndedForms DEF SourceFill, SourceOK, historyVars
  <2>3. UnsentIdle'
    BY <1>0, <1>6, <2>1, EndedForms, LegForms, NewForms, UnsentKept
       DEF SourceFill
  <2>4. QED
    BY <2>1, <2>2, <2>3 DEF HotInv
<1>7. ASSUME NEW leg \in Leg, MarketFill(leg) PROVE HotInv'
  <2>1. FollowerOK'
    BY <1>0, <1>7, FollowerFillOK DEF MarketFill, ReplicatorInv
  <2>2. MapOK' /\ batchDepth' = batchDepth
    BY <1>0, <1>7, UnchangedOK DEF MarketFill, ReplicatorInv
  <2>3. ThreadsOK' /\ opened' \subseteq MapLabel /\ BatchCounted'
    BY <1>0, <1>7, <2>2
       DEF MarketFill, ReplicatorInv, ThreadsOK, BatchCounted, InBatch
  <2>4. SourceOK' /\ UnsentIdle'
    BY <1>0, <1>7
       DEF MarketFill, SourceOK, UnsentIdle, Started, sourceVars, historyVars
  <2>5. QED
    BY <2>1, <2>2, <2>3, <2>4 DEF HotInv, ReplicatorInv
<1>8. ASSUME NEW e \in Event, Replicate(e) PROVE HotInv'
  <2>1. ReplicatorInv'
    BY <1>0, <1>8, StepOK DEF Replicate
  <2>2. \A d \in Event : ~Started(d) => ~Started(d)'
    BY <1>0, <1>8, StepOwn DEF Replicate, Started
  <2>3. SourceOK'
    BY <1>0, <1>8 DEF Replicate, SourceOK, sourceVars, historyVars
  <2>4. UnsentIdle'
    BY <1>0, <1>8, <2>2, NewForms, UnsentKept DEF Replicate, sourceVars
  <2>5. QED
    BY <2>1, <2>3, <2>4 DEF HotInv
<1>9. ASSUME Crash PROVE HotInv'
  <2>1. ReplicatorInv'
    BY <1>0, <1>9, RestartOK DEF Crash
  <2>2. \A d \in Event : ~Started(d) => ~Started(d)'
    BY <1>9 DEF Crash, Restart, Running, Started
  <2>3. SourceOK'
    BY <1>0, <1>9, CrashAssumption DEF Crash, SourceOK
  <2>4. UnsentIdle'
    BY <1>0, <1>9, <2>2, NewForms, UnsentKept DEF Crash
  <2>5. QED
    BY <2>1, <2>3, <2>4 DEF HotInv
<1>10. CASE UNCHANGED vars
  BY <1>0, <1>10, ReplicatorKept, NewForms
     DEF vars, HotInv, SourceOK, UnsentIdle, Started, sourceVars, historyVars
<1>11. QED
  BY <1>1, <1>2, <1>3, <1>4, <1>5, <1>6, <1>7, <1>8, <1>9, <1>10 DEF Next

LEMMA HotInvariant ==
    ASSUME RepliesInOrder PROVE Spec => []HotInv
<1>1. Init => HotInv
  BY HotInit
<1>2. HotInv /\ [Next]_vars => HotInv'
  BY HotStep
<1>3. QED
  BY <1>1, <1>2, PTL DEF Spec

(* Whatever the threads, hooks, faults and crashes, every variable keeps its
   type: in particular the shared batch depth never goes below zero. *)
THEOREM HotPathTypeCorrect == RepliesInOrder /\ Spec => []TypeOK
<1>1. HotInv => TypeOK
  BY InvGives DEF HotInv, TypeOK, SourceOK
<1>2. RepliesInOrder => (Spec => []HotInv)
  BY HotInvariant
<1>3. QED
  BY <1>1, <1>2, PTL

(* Whatever the threads, hooks, faults and crashes do, a label leads to the
   order that was placed for its leg, and an id to a label of its leg. *)
THEOREM HotPathMapsFaithfully == RepliesInOrder /\ Spec => []MappingFaithful
<1>1. HotInv => MappingFaithful
  BY InvGives DEF HotInv
<1>2. RepliesInOrder => (Spec => []HotInv)
  BY HotInvariant
<1>3. QED
  BY <1>1, <1>2, PTL

(* However the batches of several brackets overlap, and wherever a crash
   hits, the file holds the map once no thread runs. *)
THEOREM HotPathSettles == RepliesInOrder /\ Spec => []SettledIsDurable
<1>1. HotInv => SettledIsDurable
  BY InvGives DEF HotInv
<1>2. RepliesInOrder => (Spec => []HotInv)
  BY HotInvariant
<1>3. QED
  BY <1>1, <1>2, PTL

-----------------------------------------------------------------------------
(* Cancels.                                                                *)

\* Only a request starts a cancel, and the addon sees no fills.
CancelsAsked ==
    \A e \in Event :
        /\ Started(e) /\ e.kind = "CANCEL" => cancels[e.leg] > 0
        /\ Started(e) => e.kind # "FILL"

LEMMA AskedStep ==
    ASSUME HotInv, CancelsAsked, [Next]_vars
    PROVE  CancelsAsked'
<1>0. ReplicatorInv /\ SourceOK
  BY DEF HotInv
<1>1. ASSUME UNCHANGED cancels, \A e \in Event : Started(e)' => Started(e)
      PROVE  CancelsAsked'
  BY <1>1 DEF CancelsAsked
<1>2. ASSUME NEW o \in Order, Submit(o) PROVE CancelsAsked'
  <2>1. \A e \in Event : e.kind # "NEW" => task'[e] = task[e]
    BY <1>2 DEF Submit, Starting, NewOf
  <2>2. UNCHANGED cancels
    BY <1>2 DEF Submit
  <2>3. \A e \in Event : e.kind = "NEW" => e.kind # "CANCEL" /\ e.kind # "FILL"
    OBVIOUS
  <2>4. QED
    BY <2>1, <2>2, <2>3 DEF CancelsAsked, Started
<1>3. ASSUME NEW leg \in Leg, UserCancel(leg) PROVE CancelsAsked'
  <2>1. \A e \in Event : Started(e)' =>
           Started(e) \/ (e.kind = "CANCEL" /\ e.leg = leg)
    BY <1>3 DEF UserCancel, Starting, Started
  <2>2. \A k \in Leg : cancels[k] > 0 \/ k = leg => cancels'[k] > 0
    BY <1>0, <1>3, BoundAssumption DEF UserCancel, SourceOK
  <2>3. QED
    BY <2>1, <2>2, EventForms DEF CancelsAsked
<1>4. ASSUME NEW leg \in Leg, UserModify(leg) PROVE CancelsAsked'
  <2>1. \A e \in Event : Started(e)' => Started(e) \/ e.kind = "MODIFY"
    BY <1>4 DEF UserModify, Starting, Started
  <2>2. UNCHANGED cancels
    BY <1>4 DEF UserModify
  <2>3. QED
    BY <2>1, <2>2 DEF CancelsAsked
<1>5. ASSUME NEW e \in Event, Replicate(e) PROVE CancelsAsked'
  <2>1. UNCHANGED cancels
    BY <1>5 DEF Replicate, sourceVars
  <2>2. \A d \in Event : Started(d)' => Started(d)
    BY <1>0, <1>5, StepOwn DEF Replicate, Started
  <2>3. QED
    BY <1>1, <2>1, <2>2
<1>6. ASSUME Crash PROVE CancelsAsked'
  <2>1. UNCHANGED cancels
    BY <1>6 DEF Crash
  <2>2. \A d \in Event : Started(d)' => Started(d)
    BY <1>6 DEF Crash, Restart, Running, Started
  <2>3. QED
    BY <1>1, <2>1, <2>2
<1>7. CASE UNCHANGED <<cancels, task>>
  BY <1>7 DEF CancelsAsked, Started
<1>8. QED
  BY <1>2, <1>3, <1>4, <1>5, <1>6, <1>7
     DEF Next, OrderResponse, OrdersPoll, SourceFill, MarketFill, vars,
         replicatorVars, sourceVars

LEMMA SpuriousStep ==
    ASSUME ~NativeOco, HotInv, CancelsAsked, NoSpuriousCancel, [Next]_vars
    PROVE  NoSpuriousCancel'
<1>0. ReplicatorInv /\ SourceOK
  BY DEF HotInv
<1> DEFINE Asked(leg) == \/ cancels[leg] > 0
                         \/ leg \in ExitLeg /\ cancels[Sibling(leg)] > 0
<1>1. \A leg \in Leg : cancels[leg] > 0 => cancels'[leg] > 0
  <2>1. ASSUME NEW leg \in Leg, UserCancel(leg)
        PROVE  \A k \in Leg : cancels[k] > 0 => cancels'[k] > 0
    BY <1>0, <2>1 DEF UserCancel, SourceOK
  <2>2. QED
    BY <2>1
       DEF Next, Submit, OrderResponse, OrdersPoll, UserModify, SourceFill,
           MarketFill, Replicate, Crash, vars, sourceVars
<1>2. \A leg \in Leg : Asked(leg) => Asked(leg)'
  BY <1>1, SiblingForms, LegForms
<1>3. ASSUME \A leg \in Leg : fol'[leg] = "cancelled" => fol[leg] = "cancelled"
      PROVE  NoSpuriousCancel'
  BY <1>2, <1>3 DEF NoSpuriousCancel
<1>4. ASSUME NEW e \in Event, Replicate(e) PROVE NoSpuriousCancel'
  <2>1. Started(e) /\ e.leg \in Leg
    BY <1>0, <1>4, StepOwn, EventForms DEF Replicate
  <2>2. ASSUME NEW leg \in Leg, fol'[leg] = "cancelled", fol[leg] # "cancelled"
        PROVE  Asked(leg)
    <3>1. /\ e.kind \in {"CANCEL", "FILL"}
          /\ leg = e.leg \/ (e.leg \in ExitLeg /\ leg = Sibling(e.leg))
      BY <1>0, <1>4, <2>2, StepCancels DEF Replicate
    <3>2. cancels[e.leg] > 0
      BY <2>1, <3>1 DEF CancelsAsked
    <3>3. QED
      BY <3>1, <3>2, SiblingForms
  <2>3. QED
    BY <1>2, <2>2 DEF NoSpuriousCancel
<1>5. ASSUME NEW leg \in Leg, MarketFill(leg) PROVE NoSpuriousCancel'
  BY <1>3, <1>5 DEF MarketFill, FollowerFill, Ended, Dragged
<1>6. CASE UNCHANGED fol
  BY <1>3, <1>6
<1>7. QED
  BY <1>4, <1>5, <1>6
     DEF Next, Submit, OrderResponse, OrdersPoll, UserCancel, UserModify,
         SourceFill, Crash, Restart, vars, replicatorVars, folVars

(* A follower without native OCO cancels nothing that the trader did not
   cancel, or the OCO sibling of it, whatever ids were bound when. *)
THEOREM CancelsAreTheTraders ==
    RepliesInOrder /\ ~NativeOco /\ Spec => []NoSpuriousCancel
<1>1. Init => CancelsAsked /\ NoSpuriousCancel
  BY DEF Init, ReplicatorInit, FollowerInit, CancelsAsked, NoSpuriousCancel,
         Started, Idle, Thread
<1>2. RepliesInOrder /\ ~NativeOco => (Spec => []NoSpuriousCancel)
  <2> SUFFICES ASSUME RepliesInOrder, ~NativeOco
               PROVE  Spec => []NoSpuriousCancel
    OBVIOUS
  <2>1. HotInv /\ CancelsAsked /\ NoSpuriousCancel /\ [Next]_vars
           => CancelsAsked' /\ NoSpuriousCancel'
    BY AskedStep, SpuriousStep
  <2>2. Spec => []HotInv
    BY HotInvariant
  <2>3. QED
    BY <1>1, <2>1, <2>2, PTL DEF Spec
<1>3. QED
  BY <1>2, PTL

-----------------------------------------------------------------------------
(* The invariant is inductive.                                             *)

LEMMA FilingInit == Init => FilingInv
<1> SUFFICES ASSUME Init PROVE FilingInv
  OBVIOUS
<1>1. \A e \in Event : task[e] = Idle
  BY DEF Init, ReplicatorInit
<1>2. TodosOK
  BY <1>1, NewForms, EmptyTodo DEF TodosOK, Idle, Thread
<1>3. PlacedThere
  BY DEF Init, ReplicatorInit, FollowerInit, PlacedThere
<1>4. FilesSettled
  BY NamesAssumption, LegForms
     DEF Init, ReplicatorInit, MapInit, FilesSettled, Filed
<1>5. ASSUME NEW e \in Event PROVE CancelOK(e)
  BY <1>1 DEF CancelOK, Idle, Thread
<1>6. QED
  BY <1>2, <1>3, <1>4, <1>5 DEF FilingInv

(* A step that goes on and leaves the cancels' threads alone. *)
LEMMA OnwardOthers ==
    ASSUME FilingInv, Onward,
           \A e \in Event : e.kind = "CANCEL" => task'[e] = task[e]
    PROVE  FilingInv'
BY OnwardKeeps DEF FilingInv

(* The steps of the proxy's own thread, and of the market at the source. *)
LEMMA HookOnward ==
    ASSUME FilingInv, \A l \in Leg : KeepsFiling(l),
           UNCHANGED folVars, PlacementsKept
    PROVE  Onward
BY DEF Onward, Over, folVars

(* A restart loads what the file holds, and asks the follower for it. *)
LEMMA CrashFiling ==
    ASSUME LiveDirection, HotInv, FilingInv, Crash
    PROVE  FilingInv'
<1>0. /\ ReplicatorInv /\ MapOK /\ ~NativeOco
      /\ task \in [Event -> ThreadRecord]
      /\ faults \in Nat
  BY FaultAssumption
     DEF HotInv, ReplicatorInv, ThreadsOK, LiveDirection, FollowerOK
<1>1. Restart
  BY DEF Crash
<1>2. PICK gone \in SUBSET Prunable :
         /\ IF gone = Prunable THEN UNCHANGED faults ELSE Fault
         /\ ReloadThenPrune(gone)
  BY <1>1 DEF Restart
<1>3. ASSUME NEW e \in Event
      PROVE  \/ e \notin Running /\ task'[e] = task[e]
             \/ /\ e \in Running /\ task[e].pc # "idle"
                /\ task'[e].pc = "done" /\ task'[e].todo = <<>>
                /\ task'[e].result = "lost"
  BY <1>1 DEF Restart, Running, Started, Thread
<1>4. PlacementsKept
  <2>1. TodosOK'
    BY <1>3, NewForms DEF FilingInv, TodosOK, TodoOK
  <2>2. \A o \in Order :
           task[NewOf(o)].pc \notin {"idle", "reserve", "place"} =>
              task'[NewOf(o)].pc \notin {"idle", "reserve", "place"}
    BY <1>3, NewForms
  <2>3. \A l \in Leg : /\ Settled(l) => Settled(l)'
                       /\ Placed(l) => Placed(l)'
    BY <1>3, <2>2, LegOrder, NewForms DEF Settled, Placed, Pending
  <2>4. QED
    BY <2>1, <2>3 DEF PlacementsKept
<1>5. UNCHANGED fol
  BY <1>1 DEF Restart
<1>6. \A l \in Leg :
         /\ Filed(byCoid', l) => Filed(disk, l) /\ l \notin gone
         /\ Filed(disk', l) => Filed(disk, l)
  BY <1>2, LegForms, NamesAssumption DEF ReloadThenPrune, Filed
<1>7. PlacedThere'
  BY <1>4, <1>5 DEF FilingInv, PlacedThere, PlacementsKept
<1>8. FilesSettled'
  BY <1>4, <1>6 DEF FilingInv, FilesSettled, PlacementsKept, Filed
<1>9. ASSUME NEW e \in Event, e.kind = "CANCEL" PROVE CancelOK(e)'
  <2> DEFINE l == e.leg
  <2>1. CancelOK(e) /\ l \in Leg
    BY <1>9, EventForms DEF FilingInv
  <2>2. CASE e \in Running
    BY <1>3, <2>2 DEF CancelOK
  <2>3. CASE e \notin Running
    <3>1. task'[e] = task[e] /\ task[e].pc \in {"idle", "done"}
      BY <1>3, <2>3 DEF Running, Started, Finished
    <3>2. ASSUME faults' = 0, task[e].result = "ok" PROVE Forgotten(l)'
      <4>1. gone = Prunable /\ faults = 0
        BY <1>0, <1>2, <3>2 DEF Fault
      <4>2. Forgotten(l)
        BY <2>1, <3>2, <4>1 DEF CancelOK
      <4>3. Filed(disk, l) => l \in Prunable
        BY <1>0, <2>1, <4>2, LegForms
           DEF MapOK, Faithful, Filed, Prunable, TerminalKnown, Forgotten, Over
      <4>4. ~Filed(byCoid', l)
        BY <1>6, <2>1, <4>1, <4>3
      <4>5. Settled(l)' /\ Over(l)'
        BY <1>4, <1>5, <2>1, <4>2 DEF PlacementsKept, Forgotten, Over
      <4>6. QED
        BY <4>4, <4>5 DEF Forgotten, Filed
    <3>3. QED
      BY <2>1, <3>1, <3>2 DEF CancelOK
  <2>4. QED
    BY <2>2, <2>3
<1>10. QED
  BY <1>4, <1>7, <1>8, <1>9 DEF FilingInv, PlacementsKept

LEMMA FilingStep ==
    ASSUME LiveDirection, HotInv, FilingInv, [Next]_vars
    PROVE  FilingInv'
<1>0. /\ ReplicatorInv /\ MapOK /\ TodosOK /\ SourceOK /\ UnsentIdle
      /\ RepliesInOrder /\ ~IdsInEvents /\ ~NativeOco
      /\ task \in [Event -> ThreadRecord]
  BY DEF HotInv, ReplicatorInv, ThreadsOK, FilingInv, LiveDirection
<1>1. ASSUME NEW o \in Order, Submit(o) PROVE FilingInv'
  <2> DEFINE t == Thread(FirstPc(NewOf(o)), NoId, NoId, <<>>, "none")
  <2>1. task' = [task EXCEPT ![NewOf(o)] = t]
    BY <1>0, <1>1 DEF Submit, Starting
  <2>2. task[NewOf(o)].pc = "idle"
    BY <1>0, <1>1 DEF Submit, UnsentIdle, Started
  <2>3. TodoOK(o, t) /\ t.todo = <<>>
    BY DEF TodoOK, Thread
  <2> HIDE DEF t
  <2>4. PlacementsKept
    BY <1>0, <2>1, <2>2, <2>3, OwnPlacement
  <2>5. Onward
    BY <1>1, <2>4, UnchangedFiling, HookOnward DEF Submit
  <2>6. \A e \in Event : e.kind = "CANCEL" => task'[e] = task[e]
    BY <2>1, <1>0 DEF NewOf
  <2>7. QED
    BY <2>5, <2>6, OnwardOthers
<1>2. ASSUME \A l \in Leg : KeepsFiling(l), UNCHANGED <<folVars, task>>
      PROVE  FilingInv'
  <2>1. PlacementsKept
    BY <1>0, <1>2, OtherPlacements
  <2>2. QED
    BY <1>2, <2>1, HookOnward, OnwardOthers
<1>3. ASSUME NEW o \in Order, OrderResponse(o) PROVE FilingInv'
  <2>1. CASE src[Entry(o)] = "rejected"
    BY <1>2, <1>3, <2>1, UnchangedFiling DEF OrderResponse
  <2>2. CASE src[Entry(o)] # "rejected"
    <3>1. Entry(o) \in Leg /\ Entry(o) \in OwnLabels(Entry(o))
      BY LegForms, OwnLabelForms
    <3>2. \A l \in Leg : KeepsFiling(l)
      BY <1>0, <1>3, <2>2, <3>1, BindSourceIdFiling DEF OrderResponse
    <3>3. QED
      BY <1>2, <1>3, <3>2 DEF OrderResponse
  <2>3. QED
    BY <2>1, <2>2
<1>4. ASSUME NEW leg \in Leg, OrdersPoll(leg) PROVE FilingInv'
  <2>1. CASE LabelOf(EntryOf(leg)) = NoId
    BY <1>2, <1>4, <2>1, UnchangedFiling DEF OrdersPoll
  <2>2. CASE LabelOf(EntryOf(leg)) # NoId
    <3>1. PollLabel(leg) \in OwnLabels(leg)
      BY DEF OwnLabels
    <3>2. \A l \in Leg : KeepsFiling(l)
      BY <1>0, <1>4, <2>2, <3>1, BindSourceIdFiling DEF OrdersPoll
    <3>3. QED
      BY <1>2, <1>4, <3>2 DEF OrdersPoll
  <2>3. QED
    BY <2>1, <2>2
<1>5. ASSUME NEW e, task' = Starting({e}), UNCHANGED <<mapVars, folVars>>,
             e.kind \in {"CANCEL", "MODIFY"}
      PROVE  FilingInv'
  <2>1. \A o \in Order : NewOf(o) \in Event /\ NewOf(o) # e
    BY <1>5, NewForms DEF NewOf
  <2>2. \A d \in Event : d # e => task'[d] = task[d]
    BY <1>5 DEF Starting
  <2>3. Onward
    BY <1>0, <1>5, <2>1, <2>2, OtherPlacements, UnchangedFiling, HookOnward
  <2>4. ASSUME e \in Event, e.kind = "CANCEL" PROVE CancelOK(e)'
    <3>1. task'[e].pc = "label" /\ task'[e].result = "none"
      BY <1>5, <2>4 DEF Starting, FirstPc, Thread
    <3>2. QED
      BY <3>1 DEF CancelOK
  <2>5. ASSUME NEW d \in Event, d.kind = "CANCEL" PROVE CancelOK(d)'
    <3>1. CASE d = e
      BY <2>4, <2>5, <3>1
    <3>2. CASE d # e
      BY <2>2, <2>3, <2>5, <3>2, OnwardKeeps
    <3>3. QED
      BY <3>1, <3>2
  <2>6. QED
    BY <2>3, <2>5, OnwardKeeps DEF FilingInv
<1>6. ASSUME NEW leg \in Leg, UserCancel(leg) \/ UserModify(leg)
      PROVE  FilingInv'
  <2>1. CASE UserCancel(leg)
    <3> DEFINE e == [kind |-> "CANCEL", leg |-> leg, n |-> cancels'[leg]]
    <3>1. /\ task' = Starting({e}) /\ UNCHANGED <<mapVars, folVars>>
          /\ e.kind \in {"CANCEL", "MODIFY"}
      BY <2>1 DEF UserCancel
    <3> HIDE DEF e
    <3>2. QED
      BY <1>5, <3>1
  <2>2. CASE UserModify(leg)
    <3> DEFINE e == [kind |-> "MODIFY", leg |-> leg, n |-> srcVer'[leg]]
    <3>1. /\ task' = Starting({e}) /\ UNCHANGED <<mapVars, folVars>>
          /\ e.kind \in {"CANCEL", "MODIFY"}
      BY <2>2 DEF UserModify
    <3> HIDE DEF e
    <3>2. QED
      BY <1>5, <3>1
  <2>3. QED
    BY <1>6, <2>1, <2>2
<1>7. ASSUME NEW leg \in Leg, MarketFill(leg) PROVE FilingInv'
  <2>1. \A l \in Leg : /\ Over(l) => Over(l)'
                       /\ fol'[l] # "none" => fol[l] # "none"
    BY <1>0, <1>7 DEF MarketFill, FollowerFill, Working, Ended, Dragged, Over
  <2>2. PlacementsKept
    BY <1>0, <1>7, OtherPlacements DEF MarketFill
  <2>3. Onward
    BY <1>7, <2>1, <2>2, UnchangedFiling
       DEF Onward, MarketFill, FollowerFill
  <2>4. QED
    BY <1>7, <2>3, OnwardOthers DEF MarketFill
<1>8. ASSUME NEW e \in Event, Replicate(e) PROVE FilingInv'
  <2>1. Step(e)
    BY <1>8 DEF Replicate
  <2>2. Onward
    BY <1>0, <2>1, StepOnward
  <2>3. ASSUME NEW d \in Event, d.kind = "CANCEL" PROVE CancelOK(d)'
    <3>1. CASE d = e
      BY <1>0, <2>1, <2>3, <3>1, OwnCancel
    <3>2. CASE d # e
      BY <1>0, <2>1, <2>2, <2>3, <3>2, StepOwn, OnwardKeeps
    <3>3. QED
      BY <3>1, <3>2
  <2>4. QED
    BY <2>2, <2>3, OnwardKeeps DEF FilingInv
<1>9. CASE UNCHANGED <<mapVars, folVars, task>>
  BY <1>2, <1>9, UnchangedFiling
<1>10. QED
  BY <1>1, <1>3, <1>4, <1>6, <1>7, <1>8, <1>9, CrashFiling
     DEF Next, SourceFill, vars, replicatorVars

(* What the invariant is for. *)
LEMMA FilingGives ==
    ASSUME HotInv, FilingInv PROVE NoResurrection
<1> SUFFICES ASSUME faults = 0,
                    NEW e \in Event, e.kind = "CANCEL", task[e].result = "ok"
             PROVE  FollowerOf(e.leg) = NoId
  BY DEF NoResurrection
<1> DEFINE l == e.leg
<1>1. l \in Leg /\ MapOK
  BY EventForms DEF HotInv, ReplicatorInv
<1>2. ~Filed(byCoid, l)
  BY DEF FilingInv, CancelOK, Forgotten
<1>3. SUFFICES ASSUME FollowerOf(l) = l PROVE FALSE
  BY <1>1, FollowerOfOK
<1>4. LabelOf(l) # NoId /\ RecordOf(LabelOf(l)).tradovate_id = l
  BY <1>1, <1>3, NoIdForms DEF FollowerOf
<1>5. LabelOf(l) \in MapLabel
  BY <1>1, <1>4, FollowerOfOK, PollForms, LegForms
<1>6. LabelOf(l) = l
  BY <1>1, <1>4, <1>5, RecordOfOK, NoIdForms
<1>7. QED
  BY <1>1, <1>2, <1>4, <1>6, NoIdForms DEF Filed, RecordOf, Known, Fresh

(* Once a cancel has been replicated, no later poll, late registration of
   another order, overlapping batch or crash makes the order's id lead to a
   follower order again. *)
THEOREM CancelledStayForgotten == LiveDirection /\ Spec => []NoResurrection
<1>1. HotInv /\ FilingInv => NoResurrection
  BY FilingGives
<1>2. Init => FilingInv
  BY FilingInit
<1>3. LiveDirection => (HotInv /\ FilingInv /\ [Next]_vars => FilingInv')
  BY FilingStep
<1>4. LiveDirection => (Spec => []HotInv)
  BY HotInvariant DEF LiveDirection
<1>5. QED
  <2> SUFFICES ASSUME LiveDirection PROVE Spec => []NoResurrection
    OBVIOUS
  <2>1. HotInv /\ FilingInv /\ [Next]_vars => FilingInv'
    BY <1>3
  <2>2. Spec => []HotInv
    BY <1>4
  <2>3. QED
    BY <1>1, <1>2, <2>1, <2>2, PTL DEF Spec

HeldInv ==
    /\ DonePlacements
    /\ SiblingsOver
    /\ faults = 0 /\ ~lossy => OpenFiled

LEMMA StepHeld ==
    ASSUME LiveDirection, FullReplies, HotInv, CancelsAsked, FilingInv,
           HeldInv, NEW e \in Event, Replicate(e)
    PROVE  HeldInv'
<1>0. /\ ReplicatorInv /\ FollowerOK /\ Step(e) /\ ~NativeOco
      /\ ThreadsOK /\ e.kind # "FILL" /\ UNCHANGED lossy
      /\ faults \in Nat
  <2>1. ReplicatorInv /\ Step(e)
    BY DEF HotInv, Replicate
  <2>2. e.kind # "FILL"
    BY <2>1, StepOwn DEF CancelsAsked
  <2>3. QED
    BY <2>1, <2>2, FaultAssumption
       DEF ReplicatorInv, LiveDirection, Replicate, historyVars, FollowerOK
<1>1. DonePlacements'
  BY <1>0, StepDone DEF HeldInv
<1>2. SiblingsOver'
  <2>1. SUFFICES ASSUME NEW d \in Event, d.kind = "CANCEL", faults' = 0,
                        task'[d].pc \in {"removesib", "tidysib"}
                 PROVE  fol'[Sibling(d.leg)] # "open"
    BY DEF SiblingsOver
  <2>2. CASE d # e
    <3>1. faults = 0 /\ task'[d] = task[d]
      BY <1>0, <2>1, <2>2, FaultsCount, StepOwn
    <3>2. d.leg \in ExitLeg
      BY <1>0, <2>1, <3>1 DEF ThreadsOK, ThreadOK
    <3>3. Placed(d.leg) /\ fol[Sibling(d.leg)] # "open"
      BY <2>1, <3>1
         DEF FilingInv, CancelOK, Forgotten, Settled, HeldInv, SiblingsOver
    <3>4. Sibling(d.leg) \in Leg /\ Placed(Sibling(d.leg))
      BY <3>2, <3>3, SiblingForms, LegForms DEF Sibling, Placed
    <3>5. QED
      BY <1>0, <3>3, <3>4, StepReopens
  <2>3. CASE d = e
    <3>1. task[e].pc = "callsib" /\ CancelSibling(e)
      BY <1>0, <2>1, <2>3
         DEF Step, Reserve, PlaceOrder, PlaceBracket, EnterBatch, Register,
             ExitBatch, ResolveLabel, LookupCancel, CancelPrimary,
             RemovePrimary, LookupSibling, CancelSibling, RemoveSibling,
             LookupModify, ModifyFollower, ApplyFill, Goto, Return, At, Thread,
             ThreadsOK, ThreadOK, ThreadRecord
    <3>2. task[e].fid = Sibling(e.leg) /\ Sibling(e.leg) \in Leg
      BY <1>0, <3>1, SiblingForms, LegForms DEF ThreadsOK, ThreadOK
    <3>3. PICK out \in {"ok", "notfound", "fault"} :
             CancelAt(Sibling(e.leg), out)
      BY <3>1, <3>2 DEF CancelSibling
    <3>4. out # "fault"
      BY <1>0, <2>1, <3>3 DEF CancelAt, Fault
    <3>5. QED
      BY <1>0, <2>3, <3>2, <3>3, <3>4 DEF CancelAt, Ended
  <2>4. QED
    BY <2>2, <2>3
<1>3. ASSUME faults' = 0, ~lossy', NEW l \in Leg, Settled(l)', fol'[l] = "open"
      PROVE  Filed(byCoid', l)
  <2>1. faults = 0 /\ ~lossy
    BY <1>0, <1>3, FaultsCount
  <2>2. Settled(l) \/ Filed(byCoid', l)
    BY <1>0, <1>3, StepSettles
  <2>3. CASE Settled(l)
    <3>1. fol[l] = "open"
      BY <1>0, <1>3, <2>3, StepReopens DEF Settled
    <3>2. Filed(byCoid, l) /\ KeepsFiled(l)
      BY <1>0, <2>1, <2>3, <3>1, StepFiled DEF HeldInv, OpenFiled
    <3>3. QED
      BY <3>2 DEF KeepsFiled
  <2>4. QED
    BY <2>2, <2>3
<1>4. QED
  BY <1>1, <1>2, <1>3 DEF HeldInv, OpenFiled, Filed

(* What unfiles and opens nothing, and starts threads at most. *)
LEMMA HeldOthers ==
    ASSUME ReplicatorInv, HeldInv, UNCHANGED <<faults, lossy>>,
           \A l \in Leg : /\ fol'[l] = "open" => fol[l] = "open"
                          /\ KeepsFiled(l),
           \A o \in Order : \/ task'[NewOf(o)] = task[NewOf(o)]
                            \/ /\ task'[NewOf(o)].result # "ok"
                               /\ task'[NewOf(o)].pc \in {"reserve", "place"},
           \A e \in Event : e.kind = "CANCEL" =>
              task'[e] = task[e] \/ task'[e].pc = "label"
    PROVE  HeldInv'
<1>1. DonePlacements'
  BY DEF HeldInv, DonePlacements
<1>2. SiblingsOver'
  <2>1. ASSUME NEW e \in Event, e.kind = "CANCEL", faults = 0,
               task[e].pc \in {"removesib", "tidysib"}
        PROVE  fol'[Sibling(e.leg)] # "open"
    <3>1. Sibling(e.leg) \in Leg /\ fol[Sibling(e.leg)] # "open"
      BY <2>1, SiblingForms, LegForms
         DEF HeldInv, SiblingsOver, ReplicatorInv, ThreadsOK, ThreadOK
    <3>2. QED
      BY <3>1
  <2>2. QED
    BY <2>1 DEF SiblingsOver
<1>3. \A l \in Leg : Settled(l)' => Settled(l)
  BY LegOrder DEF Settled, Placed, Pending
<1>4. QED
  BY <1>1, <1>2, <1>3 DEF HeldInv, OpenFiled, KeepsFiled, Filed

(* A restart that loses no record brings back every order that is open. *)
LEMMA CrashHeld ==
    ASSUME LiveDirection, HotInv, FilingInv, HeldInv, Crash
    PROVE  HeldInv'
<1>0. ReplicatorInv /\ MapOK /\ faults \in Nat
  BY FaultAssumption DEF HotInv, ReplicatorInv, FollowerOK
<1>1. Restart /\ UNCHANGED fol
  BY DEF Crash, Restart
<1>2. PICK gone \in SUBSET Prunable :
         /\ IF gone = Prunable THEN UNCHANGED faults ELSE Fault
         /\ ReloadThenPrune(gone)
  BY <1>1 DEF Restart
<1>3. ASSUME NEW e \in Event
      PROVE  \/ e \notin Running /\ task'[e] = task[e]
             \/ /\ e \in Running /\ task'[e].pc = "done"
                /\ task'[e].result = "lost"
  BY <1>1 DEF Restart, Running, Started, Thread
<1>4. DonePlacements'
  BY <1>3, NewForms DEF HeldInv, DonePlacements
<1>5. SiblingsOver'
  <2>1. \A e \in Event : task'[e].pc \notin {"removesib", "tidysib"}
    BY <1>3 DEF Running, Started, Finished
  <2>2. QED
    BY <2>1 DEF SiblingsOver
<1>6. ASSUME faults' = 0, ~lossy', NEW l \in Leg, Settled(l)', fol'[l] = "open"
      PROVE  Filed(byCoid', l)
  <2>1. gone = Prunable /\ faults = 0
    BY <1>0, <1>2, <1>6 DEF Fault
  <2>2. ~lossy /\ byCoid = disk /\ NewOf(l[1]) \notin Running
    BY <1>6, LegOrder DEF Crash
  <2>3. Settled(l)
    BY <1>3, <1>6, <2>2, LegOrder, NewForms DEF Settled, Placed, Pending
  <2>4. Filed(disk, l) /\ fol[l] = "open"
    BY <1>1, <1>6, <2>1, <2>2, <2>3 DEF HeldInv, OpenFiled
  <2>5. l \notin Prunable
    BY <1>0, <2>4, LegForms DEF MapOK, Faithful, Filed, Prunable, TerminalKnown
  <2>6. QED
    BY <1>2, <2>1, <2>4, <2>5, LegForms, NamesAssumption
       DEF ReloadThenPrune, Filed
<1>7. QED
  BY <1>4, <1>5, <1>6 DEF HeldInv, OpenFiled, Filed

LEMMA HeldStep ==
    ASSUME LiveDirection, FullReplies, HotInv, CancelsAsked, FilingInv,
           HeldInv, [Next]_vars
    PROVE  HeldInv'
<1>0. ReplicatorInv /\ MapOK /\ UnsentIdle /\ task \in [Event -> ThreadRecord]
  BY DEF HotInv, ReplicatorInv, ThreadsOK
<1>1. ASSUME NEW o \in Order, Submit(o) PROVE HeldInv'
  <2>1. \A e \in Event : task'[e] =
           IF e = NewOf(o) THEN Thread(FirstPc(e), NoId, NoId, <<>>, "none")
           ELSE task[e]
    BY <1>1 DEF Submit, Starting
  <2>2. \A p \in Order : \/ task'[NewOf(p)] = task[NewOf(p)]
                         \/ /\ task'[NewOf(p)].result # "ok"
                            /\ task'[NewOf(p)].pc \in {"reserve", "place"}
    <3>1. \A p \in Order : FirstPc(NewOf(p)) \in {"reserve", "place"}
      BY DEF FirstPc, NewOf
    <3>2. \A p \in Order : p # o => task'[NewOf(p)] = task[NewOf(p)]
      BY <2>1, NewForms
    <3>3. task'[NewOf(o)] =
             Thread(FirstPc(NewOf(o)), NoId, NoId, <<>>, "none")
      BY <2>1, NewForms
    <3>4. /\ task'[NewOf(o)].result = "none"
          /\ task'[NewOf(o)].pc = FirstPc(NewOf(o))
      BY <3>3 DEF Thread
    <3>5. QED
      BY <3>1, <3>2, <3>4
  <2>3. \A e \in Event : e.kind = "CANCEL" => task'[e] = task[e]
    BY <2>1 DEF NewOf
  <2>4. QED
    BY <1>0, <1>1, <2>2, <2>3, UnchangedFiled, HeldOthers
       DEF Submit, mapVars, folVars, historyVars
<1>2. ASSUME \A l \in Leg : KeepsFiled(l), UNCHANGED <<folVars, task, lossy>>
      PROVE  HeldInv'
  BY <1>0, <1>2, HeldOthers DEF folVars
<1>3. ASSUME NEW o \in Order, OrderResponse(o) PROVE HeldInv'
  <2>1. Entry(o) \in Leg /\ Entry(o) \in MapLabel
    BY LegForms
  <2>2. \A l \in Leg : KeepsFiled(l)
    BY <1>0, <1>3, <2>1, BindSourceIdFiled, UnchangedFiled
       DEF OrderResponse, mapVars
  <2>3. QED
    BY <1>2, <1>3, <2>2 DEF OrderResponse, historyVars
<1>4. ASSUME NEW leg \in Leg, OrdersPoll(leg) PROVE HeldInv'
  <2>1. \A l \in Leg : KeepsFiled(l)
    BY <1>0, <1>4, PollForms, BindSourceIdFiled, UnchangedFiled
       DEF OrdersPoll, mapVars
  <2>2. QED
    BY <1>2, <1>4, <2>1 DEF OrdersPoll, historyVars
<1>5. ASSUME NEW e, task' = Starting({e}), e.kind \in {"CANCEL", "MODIFY"},
             UNCHANGED <<mapVars, folVars, lossy>>
      PROVE  HeldInv'
  <2>1. \A d \in Event : d # e => task'[d] = task[d]
    BY <1>5 DEF Starting
  <2>2. \A o \in Order : task'[NewOf(o)] = task[NewOf(o)]
    BY <1>5, <2>1, NewForms DEF NewOf
  <2>3. \A d \in Event : d.kind = "CANCEL" =>
           task'[d] = task[d] \/ task'[d].pc = "label"
    BY <1>5, <2>1 DEF Starting, FirstPc, Thread
  <2>4. QED
    BY <1>0, <1>5, <2>2, <2>3, UnchangedFiled, HeldOthers DEF mapVars, folVars
<1>6. ASSUME NEW leg \in Leg, UserCancel(leg) PROVE HeldInv'
  <2> DEFINE e == [kind |-> "CANCEL", leg |-> leg, n |-> cancels'[leg]]
  <2>1. /\ task' = Starting({e}) /\ UNCHANGED <<mapVars, folVars, lossy>>
        /\ e.kind \in {"CANCEL", "MODIFY"}
    BY <1>6 DEF UserCancel
  <2> HIDE DEF e
  <2>2. QED
    BY <1>5, <2>1
<1>7. ASSUME NEW leg \in Leg, UserModify(leg) PROVE HeldInv'
  <2> DEFINE e == [kind |-> "MODIFY", leg |-> leg, n |-> srcVer'[leg]]
  <2>1. /\ task' = Starting({e}) /\ UNCHANGED <<mapVars, folVars, lossy>>
        /\ e.kind \in {"CANCEL", "MODIFY"}
    BY <1>7 DEF UserModify
  <2> HIDE DEF e
  <2>2. QED
    BY <1>5, <2>1
<1>8. ASSUME NEW leg \in Leg, MarketFill(leg) PROVE HeldInv'
  <2>1. \A l \in Leg : fol'[l] = "open" => fol[l] = "open"
    BY <1>8 DEF MarketFill, FollowerFill, Ended
  <2>2. QED
    BY <1>0, <1>8, <2>1, UnchangedFiled, HeldOthers
       DEF MarketFill, FollowerFill, mapVars, historyVars
<1>9. CASE UNCHANGED <<mapVars, folVars, task, lossy>>
  BY <1>2, <1>9, UnchangedFiled DEF mapVars
<1>10. QED
  BY <1>1, <1>3, <1>4, <1>6, <1>7, <1>8, <1>9, CrashHeld, StepHeld
     DEF Next, SourceFill, vars, replicatorVars, historyVars

LEMMA HeldInit == Init => HeldInv
<1> SUFFICES ASSUME Init PROVE HeldInv
  OBVIOUS
<1>1. \A e \in Event : task[e] = Idle
  BY DEF Init, ReplicatorInit
<1>2. DonePlacements /\ SiblingsOver
  BY <1>1, NewForms DEF DonePlacements, SiblingsOver, Idle, Thread
<1>3. OpenFiled
  BY DEF Init, ReplicatorInit, FollowerInit, OpenFiled
<1>4. QED
  BY <1>2, <1>3 DEF HeldInv

LEMMA HeldGives ==
    ASSUME HotInv, HeldInv PROVE NoOrphan
<1> SUFFICES ASSUME faults = 0, ~lossy, NEW leg \in Leg, Orphaned(leg)
             PROVE  FALSE
  BY DEF NoOrphan
<1>1. Settled(leg)
  BY LegOrder
     DEF Orphaned, HeldInv, DonePlacements, Settled, Placed, Pending
<1>2. Filed(byCoid, leg)
  BY <1>1 DEF HeldInv, OpenFiled, Orphaned
<1>3. RecordOf(leg).tradovate_id = leg
  BY <1>2, LegForms
     DEF HotInv, ReplicatorInv, MapOK, Faithful, Filed, RecordOf, Known
<1>4. QED
  BY <1>3 DEF Orphaned

\* The invariants of the live direction, together.
LiveInv == HotInv /\ CancelsAsked /\ FilingInv /\ HeldInv

LEMMA LiveInvariant ==
    ASSUME LiveDirection, FullReplies PROVE Spec => []LiveInv
<1>1. Init => LiveInv
  <2>1. Init => CancelsAsked
    BY DEF Init, ReplicatorInit, CancelsAsked, Started, Idle, Thread
  <2>2. QED
    BY <2>1, HotInit, FilingInit, HeldInit DEF LiveInv
<1>2. LiveInv /\ [Next]_vars => LiveInv'
  BY HotStep, AskedStep, FilingStep, HeldStep DEF LiveInv, LiveDirection
<1>3. QED
  BY <1>1, <1>2, PTL DEF Spec

(* Unless a call faulted or a crash cut a replication short, no thread, hook
   or restart makes the map lose an order that is open at the follower. *)
THEOREM OpenOrdersStayReachable ==
    LiveDirection /\ FullReplies /\ Spec => []NoOrphan
<1>1. LiveInv => NoOrphan
  BY HeldGives DEF LiveInv
<1>2. LiveDirection /\ FullReplies => (Spec => []LiveInv)
  BY LiveInvariant
<1>3. QED
  BY <1>1, <1>2, PTL

-----------------------------------------------------------------------------
(* Modifications.                                                          *)

\* The requests of a leg are numbered in the order they are sent.
Numbered ==
    \A e \in Event : Started(e) =>
        /\ e.kind = "CANCEL" => e.n <= cancels[e.leg]
        /\ e.kind = "MODIFY" => e.n <= srcVer[e.leg]

\* The follower's order has the trader's version, or the modification that
\* will give it that version is on its way and cannot miss it.
VersionOK(l) ==
    /\ fol[l] = "none" => folVer[l] = 0
    /\ l \notin early /\ ~Placed(l) => srcVer[l] = 0
    /\ l \notin overlapped =>
          \A e \in Running : ModifyOf(e, l) => e.n = srcVer[l]
    /\ l \notin early \cup overlapped /\ fol[l] = "open" =>
          \/ folVer[l] = srcVer[l]
          \/ \E e \in Running :
                /\ ModifyOf(e, l) /\ e.n = srcVer[l]
                /\ task[e].pc = "lookup" => Reached(l)

VersionInv ==
    /\ Numbered
    /\ lossy => crashes > 0
    /\ Untroubled => \A l \in Leg : VersionOK(l)

LEMMA NumberedStep ==
    ASSUME HotInv, Numbered, [Next]_vars
    PROVE  Numbered'
<1>0. ReplicatorInv /\ SourceOK
  BY DEF HotInv
<1>1. ASSUME \A e \in Event : Started(e)' => Started(e) \/ e.kind = "NEW",
             UNCHANGED <<cancels, srcVer>>
      PROVE  Numbered'
  BY <1>1 DEF Numbered
<1>2. ASSUME NEW o \in Order, Submit(o) PROVE Numbered'
  <2>1. \A e \in Event : Started(e)' => Started(e) \/ e.kind = "NEW"
    BY <1>2 DEF Submit, Starting, NewOf, Started
  <2>2. QED
    BY <1>1, <1>2, <2>1 DEF Submit
<1>3. ASSUME NEW leg \in Leg, UserCancel(leg) PROVE Numbered'
  <2> DEFINE e == [kind |-> "CANCEL", leg |-> leg, n |-> cancels'[leg]]
  <2>1. \A d \in Event : d # e => task'[d] = task[d]
    BY <1>3 DEF UserCancel, Starting
  <2>2. /\ cancels[leg] \in Int /\ cancels'[leg] = cancels[leg] + 1
        /\ \A k \in Leg : k # leg => cancels'[k] = cancels[k]
        /\ UNCHANGED srcVer
    BY <1>0, <1>3, BoundAssumption DEF UserCancel, SourceOK
  <2>3. e.kind = "CANCEL" /\ e.leg = leg /\ e.n = cancels'[leg]
    OBVIOUS
  <2> HIDE DEF e
  <2>4. ASSUME NEW d \in Event, Started(d)'
        PROVE  /\ d.kind = "CANCEL" => d.n <= cancels'[d.leg]
               /\ d.kind = "MODIFY" => d.n <= srcVer'[d.leg]
    <3>1. CASE d = e
      BY <2>2, <2>3, <3>1
    <3>2. CASE d # e
      <4>1. Started(d) /\ d.leg \in Leg
        BY <2>1, <2>4, <3>2, EventForms DEF Started
      <4>2. d.kind = "CANCEL" => d.n \in Int
        BY EventForms, BoundAssumption
      <4>3. QED
        BY <2>2, <4>1, <4>2 DEF Numbered
    <3>3. QED
      BY <3>1, <3>2
  <2>5. QED
    BY <2>4 DEF Numbered
<1>4. ASSUME NEW leg \in Leg, UserModify(leg) PROVE Numbered'
  <2> DEFINE e == [kind |-> "MODIFY", leg |-> leg, n |-> srcVer'[leg]]
  <2>1. \A d \in Event : d # e => task'[d] = task[d]
    BY <1>4 DEF UserModify, Starting
  <2>2. /\ srcVer[leg] \in Int /\ srcVer'[leg] = srcVer[leg] + 1
        /\ \A k \in Leg : k # leg => srcVer'[k] = srcVer[k]
        /\ UNCHANGED cancels
    BY <1>0, <1>4, BoundAssumption DEF UserModify, SourceOK
  <2>3. e.kind = "MODIFY" /\ e.leg = leg /\ e.n = srcVer'[leg]
    OBVIOUS
  <2> HIDE DEF e
  <2>4. ASSUME NEW d \in Event, Started(d)'
        PROVE  /\ d.kind = "CANCEL" => d.n <= cancels'[d.leg]
               /\ d.kind = "MODIFY" => d.n <= srcVer'[d.leg]
    <3>1. CASE d = e
      BY <2>2, <2>3, <3>1
    <3>2. CASE d # e
      <4>1. Started(d) /\ d.leg \in Leg
        BY <2>1, <2>4, <3>2, EventForms DEF Started
      <4>2. d.kind = "MODIFY" => d.n \in Int
        BY EventForms, BoundAssumption
      <4>3. QED
        BY <2>2, <4>1, <4>2 DEF Numbered
    <3>3. QED
      BY <3>1, <3>2
  <2>5. QED
    BY <2>4 DEF Numbered
<1>5. ASSUME NEW e \in Event, Replicate(e) PROVE Numbered'
  BY <1>0, <1>1, <1>5, StepOwn DEF Replicate, Started, sourceVars
<1>6. ASSUME Crash PROVE Numbered'
  BY <1>1, <1>6 DEF Crash, Restart, Running, Started
<1>7. CASE UNCHANGED <<cancels, srcVer, task>>
  BY <1>7 DEF Numbered, Started
<1>8. QED
  BY <1>2, <1>3, <1>4, <1>5, <1>6, <1>7
     DEF Next, OrderResponse, OrdersPoll, SourceFill, MarketFill, vars,
         replicatorVars, sourceVars

(* Steps that touch neither the leg's modifications nor its version. *)
LEMMA VersionOthers ==
    ASSUME NEW l \in Leg, VersionOK(l),
           fol'[l] = "none" => fol[l] = "none",
           fol'[l] = "open" => fol[l] = "open",
           UNCHANGED <<folVer[l], srcVer[l]>>,
           l \in early <=> l \in early', l \in overlapped <=> l \in overlapped',
           \A e \in Event : ModifyOf(e, l) => task'[e] = task[e],
           Placed(l) => Placed(l)',
           fol[l] = "open" /\ Reached(l) => Reached(l)'
    PROVE  VersionOK(l)'
<1>1. \A e \in Event : ModifyOf(e, l) => (e \in Running <=> e \in Running')
  BY DEF Running, Started, Finished
<1>2. (fol[l] = "none" => folVer[l] = 0)'
  BY DEF VersionOK
<1>3. (l \notin early /\ ~Placed(l) => srcVer[l] = 0)'
  BY DEF VersionOK
<1>4. (l \notin overlapped => \A e \in Running : ModifyOf(e, l) => e.n = srcVer[l])'
  BY <1>1 DEF VersionOK, ModifyOf, Running
<1>5. ASSUME l \notin early' \cup overlapped', fol'[l] = "open",
             folVer'[l] # srcVer'[l]
      PROVE  \E e \in Running' : /\ ModifyOf(e, l) /\ e.n = srcVer'[l]
                                 /\ task'[e].pc = "lookup" => Reached(l)'
  <2>1. PICK e \in Running : /\ ModifyOf(e, l) /\ e.n = srcVer[l]
                             /\ task[e].pc = "lookup" => Reached(l)
    BY <1>5 DEF VersionOK
  <2>2. e \in Event /\ e \in Running'
    BY <1>1, <2>1 DEF Running
  <2>3. QED
    BY <1>5, <2>1, <2>2
<1>6. QED
  BY <1>2, <1>3, <1>4, <1>5 DEF VersionOK, ModifyOf

LEMMA StepVersion ==
    ASSUME LiveDirection, LiveInv, NEW e \in Event, Replicate(e),
           faults = 0, faults' = 0, NEW l \in Leg, VersionOK(l)
    PROVE  VersionOK(l)'
<1>0. /\ ReplicatorInv /\ FilingInv /\ SiblingsOver /\ Step(e)
      /\ e.kind # "FILL" /\ ~NativeOco
      /\ ThreadOK(e, task[e]) /\ task \in [Event -> ThreadRecord]
      /\ FollowerOK /\ MapOK /\ faults \in Nat
      /\ srcVer' = srcVer /\ early' = early /\ overlapped' = overlapped
  <2>1. ReplicatorInv /\ Step(e) /\ HeldInv /\ FilingInv /\ CancelsAsked
    BY DEF LiveInv, HotInv, Replicate
  <2>2. e.kind # "FILL"
    BY <2>1, StepOwn DEF CancelsAsked
  <2>3. QED
    BY <2>1, <2>2, FaultAssumption
       DEF ReplicatorInv, ThreadsOK, LiveDirection, HeldInv, Replicate,
           sourceVars, historyVars, FollowerOK
<1>1. /\ Placed(l) => Placed(l)'
      /\ fol[l] = "open" /\ Reached(l) => Reached(l)'
      /\ fol'[l] = "none" => fol[l] = "none"
      /\ \A d \in Event : d # e => task'[d] = task[d]
  <2>1. Onward
    BY <1>0, StepOnward
  <2>2. QED
    BY <1>0, <2>1, StepReached, StepFollower, StepOwn
       DEF Onward, PlacementsKept
<1>2. CASE ~ModifyOf(e, l)
  <2>1. folVer'[l] = folVer[l]
    BY <1>0, <1>2, StepFollower
  <2>2. \A d \in Event : ModifyOf(d, l) => task'[d] = task[d]
    BY <1>1, <1>2
  <2>3. CASE fol'[l] = "open" => fol[l] = "open"
    BY <1>0, <1>1, <2>1, <2>2, <2>3, VersionOthers
  <2>4. CASE fol'[l] = "open" /\ fol[l] # "open"
    <3>1. ~Placed(l)
      BY <1>0, <2>4, StepReopens
    <3>2. fol[l] = "none"
      BY <1>0, <3>1 DEF FilingInv, PlacedThere
    <3>3. folVer'[l] = 0 /\ (l \notin early => srcVer'[l] = 0)
      BY <1>0, <2>1, <3>1, <3>2 DEF VersionOK
    <3>4. \A d \in Event : ModifyOf(d, l) => (d \in Running' <=> d \in Running)
      BY <2>2 DEF Running, Started, Finished
    <3>5. l \notin overlapped' =>
             \A d \in Running' : ModifyOf(d, l) => d.n = srcVer'[l]
      BY <1>0, <3>4 DEF VersionOK, Running
    <3>6. QED
      BY <1>0, <2>4, <3>3, <3>5 DEF VersionOK, ModifyOf
  <2>5. QED
    BY <2>3, <2>4
<1>3. CASE ModifyOf(e, l)
  <2>0. e.kind = "MODIFY" /\ e.leg = l
    BY <1>3 DEF ModifyOf
  <2>1. CASE LookupModify(e)
    <3>1. UNCHANGED <<fol, folVer>> /\ task[e].pc = "lookup" /\ e \in Running
      BY <2>1 DEF LookupModify, folVars, At, Running, Started, Finished
    <3>2. CASE FollowerOf(l) = NoId
      <4>1. ~Reached(l) /\ task'[e].pc = "done"
        BY <1>0, <2>0, <2>1, <3>2, FollowerReached
           DEF LookupModify, Return, Thread, FilingInv
      <4>2. \A d \in Event : ModifyOf(d, l) =>
               (d \in Running' <=> d \in Running /\ d # e)
        BY <1>1, <3>1, <4>1 DEF Running, Started, Finished
      <4>3. ASSUME l \notin early \cup overlapped, fol[l] = "open",
                   folVer[l] # srcVer[l]
            PROVE  FALSE
        <5>1. PICK d \in Running : /\ ModifyOf(d, l) /\ d.n = srcVer[l]
                                   /\ task[d].pc = "lookup" => Reached(l)
          BY <4>3 DEF VersionOK
        <5>2. e.n = srcVer[l]
          BY <1>3, <3>1, <4>3 DEF VersionOK
        <5>3. d = e
          <6>1. d \in Event /\ d.kind = "MODIFY" /\ d.leg = l
            BY <5>1 DEF Running, ModifyOf
          <6>2. QED
            BY <2>0, <5>1, <5>2, <6>1 DEF Event
        <5>4. QED
          BY <3>1, <4>1, <5>1, <5>3
      <4>4. QED
        BY <1>0, <1>1, <3>1, <4>2, <4>3 DEF VersionOK, ModifyOf, Running
    <3>3. CASE FollowerOf(l) # NoId
      <4>1. task'[e].pc = "call"
        BY <1>0, <2>0, <2>1, <3>3 DEF LookupModify, ThreadRecord
      <4>2. \A d \in Event : d \in Running' <=> d \in Running
        BY <1>1, <3>1, <4>1 DEF Running, Started, Finished
      <4>3. \A d \in Event : task'[d].pc = "lookup" => task[d].pc = "lookup"
        BY <1>1, <4>1
      <4>4. QED
        BY <1>0, <1>1, <3>1, <4>2, <4>3 DEF VersionOK, ModifyOf, Running
    <3>4. QED
      BY <3>2, <3>3
  <2>2. CASE ModifyFollower(e)
    <3>1. task[e].fid = l /\ e \in Running
      BY <1>0, <2>0, <2>2
         DEF ModifyFollower, At, ThreadOK, Running, Started, Finished
    <3>2. PICK out \in {"ok", "notfound", "fault"} :
             ModifyAt(l, e.n, out) /\ Return(e, out)
      BY <2>2, <3>1 DEF ModifyFollower
    <3>3. /\ out # "fault" /\ UNCHANGED fol
          /\ \/ out = "ok" /\ fol[l] = "open" /\ folVer'[l] = e.n
             \/ fol[l] # "open" /\ UNCHANGED folVer
      BY <1>0, <3>2 DEF ModifyAt, Fault, FollowerOK
    <3>4. \A d \in Event : d \in Running' => d \in Running
      BY <1>1, <3>1 DEF Running, Started, Finished
    <3>5. l \notin overlapped => e.n = srcVer[l]
      BY <1>3, <3>1 DEF VersionOK
    <3>6. QED
      BY <1>0, <1>1, <3>3, <3>4, <3>5 DEF VersionOK, ModifyOf, Running
  <2>3. QED
    BY <1>0, <2>0, <2>1, <2>2
       DEF Step, Reserve, PlaceOrder, PlaceBracket, EnterBatch, Register,
           ExitBatch, ResolveLabel, LookupCancel, CancelPrimary, RemovePrimary,
           LookupSibling, CancelSibling, RemoveSibling, ApplyFill, At, ThreadOK
<1>4. QED
  BY <1>2, <1>3

(* The steps of the trader, the proxy and the brokers. *)
LEMMA VersionStep ==
    ASSUME LiveDirection, FullReplies, LiveInv, VersionInv, [Next]_vars
    PROVE  VersionInv'
<1>0. /\ HotInv /\ ReplicatorInv /\ MapOK /\ FollowerOK /\ SourceOK
      /\ UnsentIdle /\ FilingInv /\ HeldInv /\ ~IdsInEvents
      /\ faults \in Nat /\ crashes \in Nat
      /\ task \in [Event -> ThreadRecord]
  BY FaultAssumption, CrashAssumption
     DEF LiveInv, HotInv, ReplicatorInv, FollowerOK, ThreadsOK, SourceOK,
         LiveDirection
<1>1. Numbered'
  BY <1>0, NumberedStep DEF VersionInv
<1>2. (lossy => crashes > 0)'
  <2>1. CASE Crash
    BY <1>0, <2>1 DEF Crash
  <2>2. CASE UNCHANGED <<lossy, crashes>>
    BY <2>2 DEF VersionInv
  <2>3. QED
    BY <2>1, <2>2
       DEF Next, Submit, OrderResponse, OrdersPoll, UserCancel, UserModify,
           SourceFill, MarketFill, Replicate, vars, sourceVars, historyVars
<1>3. ASSUME Untroubled', NEW l \in Leg PROVE VersionOK(l)'
  <2> DEFINE Quiet ==
               /\ UNCHANGED <<folVer, srcVer, early, overlapped>>
               /\ fol'[l] = "none" => fol[l] = "none"
               /\ fol'[l] = "open" => fol[l] = "open"
  <2>1. ASSUME Untroubled, Quiet,
               \A d \in Event : d.kind = "MODIFY" => task'[d] = task[d],
               task'[NewOf(l[1])] = task[NewOf(l[1])] \/ ~Placed(l),
               KeepsFiling(l), KeepsFiled(l)
        PROVE  VersionOK(l)'
    <3>1. VersionOK(l)
      BY <2>1 DEF VersionInv
    <3>2. Placed(l) => Placed(l)' /\ task'[NewOf(l[1])] = task[NewOf(l[1])]
      BY <2>1 DEF Placed
    <3>3. Reached(l) => Reached(l)'
      BY <2>1, <3>2, ReachedKept DEF Reached, Settled
    <3>4. QED
      BY <2>1, <3>1, <3>2, <3>3, VersionOthers DEF ModifyOf
  <2>2. ASSUME NEW o \in Order, Submit(o) PROVE VersionOK(l)'
    <3>1. /\ Untroubled /\ Quiet /\ UNCHANGED mapVars
          /\ \A d \in Event : d # NewOf(o) => task'[d] = task[d]
      BY <1>3, <2>2 DEF Submit, Untroubled, folVars, historyVars, Starting
    <3>2. \A d \in Event : d.kind = "MODIFY" => task'[d] = task[d]
      BY <3>1 DEF NewOf
    <3>3. task'[NewOf(l[1])] = task[NewOf(l[1])] \/ ~Placed(l)
      <4>1. CASE l[1] = o
        BY <1>0, <2>2, <4>1 DEF Submit, UnsentIdle, Started, Placed
      <4>2. CASE l[1] # o
        BY <3>1, <4>2, LegOrder, NewForms
      <4>3. QED
        BY <4>1, <4>2
    <3>4. QED
      BY <2>1, <3>1, <3>2, <3>3, UnchangedFiling, UnchangedFiled DEF mapVars
  <2>3. ASSUME NEW o \in Order, OrderResponse(o) PROVE VersionOK(l)'
    <3>1. Entry(o) \in Leg /\ Entry(o) \in OwnLabels(Entry(o))
          /\ Entry(o) \in MapLabel
      BY LegForms, OwnLabelForms
    <3>2. KeepsFiling(l) /\ KeepsFiled(l)
      BY <1>0, <2>3, <3>1, BindSourceIdFiling, BindSourceIdFiled,
         UnchangedFiling, UnchangedFiled DEF OrderResponse, mapVars
    <3>3. Untroubled /\ Quiet /\ UNCHANGED task
      BY <1>3, <2>3 DEF OrderResponse, Untroubled, folVars, historyVars
    <3>4. QED
      BY <2>1, <3>2, <3>3
  <2>4. ASSUME NEW leg \in Leg, OrdersPoll(leg) PROVE VersionOK(l)'
    <3>1. PollLabel(leg) \in OwnLabels(leg) /\ PollLabel(leg) \in MapLabel
      BY PollForms DEF OwnLabels
    <3>2. KeepsFiling(l) /\ KeepsFiled(l)
      BY <1>0, <2>4, <3>1, BindSourceIdFiling, BindSourceIdFiled,
         UnchangedFiling, UnchangedFiled DEF OrdersPoll, mapVars
    <3>3. Untroubled /\ Quiet /\ UNCHANGED task
      BY <1>3, <2>4 DEF OrdersPoll, Untroubled, folVars, historyVars
    <3>4. QED
      BY <2>1, <3>2, <3>3
  <2>5. ASSUME NEW leg \in Leg, UserCancel(leg) PROVE VersionOK(l)'
    <3> DEFINE e == [kind |-> "CANCEL", leg |-> leg, n |-> cancels'[leg]]
    <3>1. /\ Untroubled /\ Quiet /\ UNCHANGED mapVars
          /\ \A d \in Event : d # e => task'[d] = task[d]
      BY <1>3, <2>5 DEF UserCancel, Untroubled, folVars, Starting
    <3>2. e.kind = "CANCEL" /\ NewOf(l[1]) \in Event /\ NewOf(l[1]) # e
      BY LegOrder, NewForms DEF NewOf
    <3> HIDE DEF e
    <3>3. QED
      BY <2>1, <3>1, <3>2, UnchangedFiling, UnchangedFiled DEF mapVars
  <2>6. ASSUME NEW leg \in Leg, UserModify(leg) PROVE VersionOK(l)'
    <3> DEFINE e == [kind |-> "MODIFY", leg |-> leg, n |-> srcVer'[leg]]
    <3>1. /\ Untroubled /\ UNCHANGED <<mapVars, fol, folVer>>
          /\ \A d \in Event : d # e => task'[d] = task[d]
          /\ e \in Event => task'[e].pc = "lookup"
      BY <1>3, <2>6
         DEF UserModify, Untroubled, folVars, Starting, FirstPc, Thread
    <3>2. /\ e.kind = "MODIFY" /\ e.leg = leg /\ e.n = srcVer'[leg]
          /\ NewOf(l[1]) \in Event /\ NewOf(l[1]) # e
      BY LegOrder, NewForms DEF NewOf
    <3>3. /\ srcVer'[leg] = srcVer[leg] + 1 /\ srcVer[leg] \in Nat
          /\ srcVer'[leg] \in 1 .. MaxVer
          /\ leg # l => srcVer'[l] = srcVer[l]
      BY <1>0, <2>6, BoundAssumption DEF UserModify, SourceOK
    <3>4. e \in Event
      BY <3>3 DEF Event
    <3>5. VersionOK(l)
      BY <3>1 DEF VersionInv
    <3> HIDE DEF e
    <3>6. (Placed(l) <=> Placed(l)') /\ (Reached(l) => Reached(l)')
      BY <3>1, <3>2, ReachedKept, UnchangedFiling, UnchangedFiled
         DEF Placed, mapVars
    <3>7. CASE leg # l
      <4>1. /\ l \in early <=> l \in early'
            /\ l \in overlapped <=> l \in overlapped'
        BY <2>6, <3>7 DEF UserModify
      <4>2. \A d \in Event : ModifyOf(d, l) => task'[d] = task[d]
        BY <3>1, <3>2, <3>7 DEF ModifyOf
      <4>3. QED
        BY <3>1, <3>3, <3>5, <3>6, <3>7, <4>1, <4>2, VersionOthers
    <3>8. CASE leg = l
      <4>1. e \in Running' /\ ModifyOf(e, l)
        BY <3>1, <3>2, <3>4, <3>8 DEF Running, Started, Finished, ModifyOf
      <4>2. l \notin early' => Reachable(l)
        BY <2>6, <3>8 DEF UserModify
      <4>3. Reachable(l) => Reached(l)' /\ Placed(l)'
        BY <1>0, <3>6, FollowerReached, LegOrder
           DEF Reachable, Mapped, FilingInv, Reached, Settled
      <4>4. ASSUME l \notin overlapped', NEW d \in Running', ModifyOf(d, l)
            PROVE  d = e
        <5>1. d \in Event /\ d.kind = "MODIFY" /\ d.leg = l
          BY <4>4 DEF Running, ModifyOf
        <5>2. d \notin Running
          BY <2>6, <3>8, <4>4, <5>1 DEF UserModify
        <5>3. SUFFICES ASSUME d # e PROVE FALSE
          OBVIOUS
        <5>4. task'[d] = task[d]
          BY <3>1, <5>1, <5>3
        <5>5. QED
          BY <4>4, <5>1, <5>2, <5>4 DEF Running, Started, Finished
      <4>5. fol'[l] = "none" => folVer'[l] = 0
        BY <3>1, <3>5 DEF VersionOK
      <4>6. QED
        BY <3>2, <3>8, <4>1, <4>2, <4>3, <4>4, <4>5 DEF VersionOK
    <3>9. QED
      BY <3>7, <3>8
  <2>7. ASSUME NEW leg \in Leg, MarketFill(leg) PROVE VersionOK(l)'
    <3>1. Untroubled /\ UNCHANGED <<task, mapVars>>
      BY <1>3, <2>7
         DEF MarketFill, FollowerFill, Untroubled, sourceVars
    <3>2. Quiet
      BY <1>0, <2>7
         DEF MarketFill, FollowerFill, Ended, sourceVars, historyVars,
             FollowerOK
    <3>3. QED
      BY <2>1, <3>1, <3>2, UnchangedFiling, UnchangedFiled DEF mapVars
  <2>8. ASSUME NEW e \in Event, Replicate(e) PROVE VersionOK(l)'
    <3>1. Untroubled
      BY <1>0, <1>3, <2>8, FaultsCount DEF Replicate, Untroubled, sourceVars
    <3>2. QED
      BY <1>3, <2>8, <3>1, StepVersion DEF VersionInv, Untroubled
  <2>9. CASE Crash
    BY <1>0, <1>3, <2>9 DEF Crash, Untroubled
  <2>10. CASE UNCHANGED <<replicatorVars, srcVer, crashes, historyVars>>
    <3>1. Untroubled /\ Quiet /\ UNCHANGED <<task, mapVars>>
      BY <1>3, <2>10 DEF Untroubled, replicatorVars, folVars, historyVars
    <3>2. QED
      BY <2>1, <3>1, UnchangedFiling, UnchangedFiled DEF mapVars
  <2>11. QED
    BY <2>2, <2>3, <2>4, <2>5, <2>6, <2>7, <2>8, <2>9, <2>10
       DEF Next, SourceFill, vars, sourceVars
<1>4. QED
  BY <1>1, <1>2, <1>3 DEF VersionInv

LEMMA VersionInit == Init => VersionInv
<1> SUFFICES ASSUME Init PROVE VersionInv
  OBVIOUS
<1>1. \A e \in Event : ~Started(e)
  BY DEF Init, ReplicatorInit, Started, Idle, Thread
<1>2. \A l \in Leg : VersionOK(l)
  BY <1>1
     DEF Init, ReplicatorInit, FollowerInit, VersionOK, Running
<1>3. QED
  BY <1>1, <1>2 DEF Init, VersionInv, Numbered

(* Without a fault or a crash, modifications of a mapped leg that do not
   overlap leave the follower's order at the version of the last, whatever
   is placed, bound, cancelled or filled around them. *)
THEOREM ModificationsGetThrough ==
    LiveDirection /\ FullReplies /\ Spec => []ModificationsArrive
<1>1. VersionInv => ModificationsArrive
  BY DEF VersionInv, VersionOK, ModificationsArrive
<1>2. LiveDirection /\ FullReplies => (Spec => []VersionInv)
  <2> SUFFICES ASSUME LiveDirection, FullReplies PROVE Spec => []VersionInv
    OBVIOUS
  <2>1. LiveInv /\ VersionInv /\ [Next]_vars => VersionInv'
    BY VersionStep
  <2>2. QED
    BY <2>1, VersionInit, LiveInvariant, PTL DEF Spec
<1>3. QED
  BY <1>1, <1>2, PTL

-----------------------------------------------------------------------------
(* Timely cancels.                                                         *)

CancelOf(e, l) == e.kind = "CANCEL" /\ e.leg = l

\* The first cancel of l was sent once l was reachable.  Until the order is
\* down a cancel that will reach it is on its way, and every cancel that can
\* take it down knows the label, and so will look for the sibling.
TimelyOK(l) ==
    /\ PollLabel(l) = l
    /\ task[NewOf(l[1])].result = "ok"
    /\ fol[l] = "open" =>
          /\ Reached(l)
          /\ \E e \in Event : /\ CancelOf(e, l)
                              /\ task[e].pc \in {"label", "lookup", "call"}
    /\ \A e \in Event :
          CancelOf(e, l) /\ task[e].pc \in {"lookup", "call"}
             /\ task[e].label # l => fol[l] # "open"
    /\ l \in ExitLeg /\ fol[l] = "cancelled" /\ fol[Sibling(l)] = "open" =>
          \E e \in Event : /\ CancelOf(e, l) /\ task[e].label = l
                           /\ task[e].pc \in {"remove", "cascade", "callsib"}

\* An exit that only its sibling's cascade can have cancelled.
CascadedOK(l) ==
    l \in ExitLeg /\ fol[l] = "cancelled" /\ cancels[l] = 0 =>
        fol[Sibling(l)] # "open"

LandInv ==
    Untroubled =>
        /\ \A l \in timely : TimelyOK(l)
        /\ \A l \in Leg : CascadedOK(l)

(* Steps that cancel no order of the leg's pair, and no thread of the leg's
   cancels takes. *)
LEMMA TimelyOthers ==
    ASSUME NEW l \in Leg, TimelyOK(l),
           fol'[l] = "open" => fol[l] = "open",
           fol'[l] = "cancelled" /\ fol[l] # "cancelled" =>
              l \in ExitLeg /\ fol'[Sibling(l)] # "open",
           l \in ExitLeg /\ fol'[Sibling(l)] = "open" =>
              fol[Sibling(l)] = "open",
           task'[NewOf(l[1])].result = task[NewOf(l[1])].result,
           \A e \in Event : CancelOf(e, l) =>
              \/ task'[e] = task[e]
              \/ task'[e].pc = "label" /\ task[e].pc = "idle",
           fol[l] = "open" /\ Reached(l) => Reached(l)'
    PROVE  TimelyOK(l)'
<1>1. ASSUME fol'[l] = "open"
      PROVE  \E e \in Event : /\ CancelOf(e, l)
                              /\ task'[e].pc \in {"label", "lookup", "call"}
  <2>1. PICK e \in Event : /\ CancelOf(e, l)
                           /\ task[e].pc \in {"label", "lookup", "call"}
    BY <1>1 DEF TimelyOK
  <2>2. task'[e] = task[e]
    BY <2>1
  <2>3. QED
    BY <2>1, <2>2
<1>2. ASSUME l \in ExitLeg, fol'[l] = "cancelled", fol'[Sibling(l)] = "open"
      PROVE  \E e \in Event :
                /\ CancelOf(e, l) /\ task'[e].label = l
                /\ task'[e].pc \in {"remove", "cascade", "callsib"}
  <2>1. PICK e \in Event : /\ CancelOf(e, l) /\ task[e].label = l
                           /\ task[e].pc \in {"remove", "cascade", "callsib"}
    BY <1>2 DEF TimelyOK
  <2>2. task'[e] = task[e]
    BY <2>1
  <2>3. QED
    BY <2>1, <2>2
<1>3. \A e \in Event :
         CancelOf(e, l) /\ task'[e].pc \in {"lookup", "call"}
            /\ task'[e].label # l => fol'[l] # "open"
  BY DEF TimelyOK
<1>4. PollLabel(l) = l /\ task'[NewOf(l[1])].result = "ok"
  BY DEF TimelyOK
<1>5. fol'[l] = "open" => Reached(l)'
  BY DEF TimelyOK
<1>6. QED
  BY <1>1, <1>2, <1>3, <1>4, <1>5 DEF TimelyOK, CancelOf

LEMMA StepTimely ==
    ASSUME LiveDirection, SyntheticLabels, LiveInv, ~lossy,
           NEW e \in Event, Replicate(e), faults = 0, faults' = 0,
           NEW l \in Leg, TimelyOK(l)
    PROVE  TimelyOK(l)'
<1> DEFINE th == task[e]
<1>0. /\ ReplicatorInv /\ FilingInv /\ SiblingsOver /\ Step(e)
      /\ e.kind # "FILL" /\ ~NativeOco /\ OpenFiled /\ DonePlacements
      /\ ThreadOK(e, th) /\ task \in [Event -> ThreadRecord]
      /\ th \in ThreadRecord
      /\ FollowerOK /\ MapOK /\ faults \in Nat
  <2>1. ReplicatorInv /\ Step(e) /\ HeldInv /\ FilingInv /\ CancelsAsked
    BY DEF LiveInv, HotInv, Replicate
  <2>2. e.kind # "FILL"
    BY <2>1, StepOwn DEF CancelsAsked
  <2>3. QED
    BY <2>1, <2>2, FaultAssumption
       DEF ReplicatorInv, ThreadsOK, LiveDirection, HeldInv, FollowerOK
<1>1. /\ task[NewOf(l[1])].pc = "done" /\ task[NewOf(l[1])].result = "ok"
      /\ task[NewOf(l[1])].todo = <<>>
      /\ Placed(l) /\ Settled(l)
      /\ l \in ExitLeg => /\ Sibling(l) \in Leg
                          /\ Placed(Sibling(l)) /\ Settled(Sibling(l))
  BY <1>0, LegOrder, SiblingForms, LegForms
     DEF TimelyOK, DonePlacements, Placed, Settled, Pending, Sibling
<1>2. /\ fol'[l] = "open" => fol[l] = "open"
      /\ l \in ExitLeg /\ fol'[Sibling(l)] = "open" => fol[Sibling(l)] = "open"
  BY <1>0, <1>1, StepReopens
<1>3. fol[l] = "open" /\ Reached(l) => Reached(l)'
  BY <1>0, StepReached
<1>4. \A d \in Event : d # e => task'[d] = task[d]
  BY <1>0, StepOwn
<1>5. e # NewOf(l[1])
  BY <1>0, <1>1
     DEF Step, Reserve, PlaceOrder, PlaceBracket, EnterBatch, Register,
         ExitBatch, ResolveLabel, LookupCancel, CancelPrimary, RemovePrimary,
         LookupSibling, CancelSibling, RemoveSibling, LookupModify,
         ModifyFollower, ApplyFill, At
<1>6. task'[NewOf(l[1])] = task[NewOf(l[1])]
  BY <1>4, <1>5, LegOrder, NewForms
<1>7. CASE ~CancelOf(e, l)
  <2>1. ASSUME fol'[l] = "cancelled", fol[l] # "cancelled"
        PROVE  l \in ExitLeg /\ fol'[Sibling(l)] # "open"
    <3>1. /\ e.leg \in ExitLeg /\ l = Sibling(e.leg) /\ e.leg = Sibling(l)
          /\ Over(e.leg)
      BY <1>0, <1>7, <2>1, StepCancelled DEF CancelOf
    <3>2. l \in ExitLeg
      BY <3>1, SiblingForms
    <3>3. QED
      BY <1>2, <3>1, <3>2 DEF Over
  <2>2. \A d \in Event : CancelOf(d, l) => task'[d] = task[d]
    BY <1>4, <1>7
  <2>3. QED
    BY <1>2, <1>3, <1>6, <2>1, <2>2, TimelyOthers
<1>8. CASE CancelOf(e, l)
  <2>0. e.kind = "CANCEL" /\ e.leg = l
    BY <1>8 DEF CancelOf
  \* What is left to show of a step that takes no order down.
  <2>1. ASSUME UNCHANGED fol,
               fol[l] = "open" /\ Reached(l)
                  /\ th.pc \in {"label", "lookup", "call"} =>
                     task'[e].pc \in {"label", "lookup", "call"},
               task'[e].pc \in {"lookup", "call"} /\ task'[e].label # l =>
                  fol[l] # "open",
               th.label = l /\ th.pc \in {"remove", "cascade", "callsib"}
                  /\ l \in ExitLeg /\ fol[Sibling(l)] = "open" =>
                     /\ task'[e].label = l
                     /\ task'[e].pc \in {"remove", "cascade", "callsib"}
        PROVE  TimelyOK(l)'
    <3>1. ASSUME fol[l] = "open"
          PROVE  \E d \in Event : /\ CancelOf(d, l)
                                  /\ task'[d].pc \in {"label", "lookup", "call"}
      <4>1. PICK d \in Event : /\ CancelOf(d, l)
                               /\ task[d].pc \in {"label", "lookup", "call"}
        BY <3>1 DEF TimelyOK
      <4>2. Reached(l)
        BY <3>1 DEF TimelyOK
      <4>3. QED
        BY <1>4, <2>1, <3>1, <4>1, <4>2
    <3>2. ASSUME l \in ExitLeg, fol[l] = "cancelled", fol[Sibling(l)] = "open"
          PROVE  \E d \in Event :
                    /\ CancelOf(d, l) /\ task'[d].label = l
                    /\ task'[d].pc \in {"remove", "cascade", "callsib"}
      <4>1. PICK d \in Event : /\ CancelOf(d, l) /\ task[d].label = l
                               /\ task[d].pc \in {"remove", "cascade", "callsib"}
        BY <3>2 DEF TimelyOK
      <4>2. QED
        BY <1>4, <2>1, <3>2, <4>1
    <3>3. ASSUME NEW d \in Event, CancelOf(d, l),
                 task'[d].pc \in {"lookup", "call"}, task'[d].label # l
          PROVE  fol[l] # "open"
      BY <1>4, <2>1, <3>3 DEF TimelyOK
    <3>4. QED
      BY <1>1, <1>3, <1>6, <2>1, <3>1, <3>2, <3>3 DEF TimelyOK, CancelOf
  <2>2. CASE ResolveLabel(e)
    <3>1. /\ UNCHANGED fol /\ th.pc = "label"
          /\ task'[e].pc = "lookup" /\ task'[e].label = LabelOf(l)
      BY <1>0, <2>0, <2>2 DEF ResolveLabel, At, folVars, ThreadRecord
    <3>2. fol[l] = "open" => LabelOf(l) = l
      BY DEF TimelyOK, Reached, Held
    <3>3. QED
      BY <2>1, <3>1, <3>2
  <2>3. CASE LookupCancel(e)
    <3>1. /\ UNCHANGED fol /\ th.pc = "lookup"
          /\ \/ FollowerOf(l) = NoId /\ task'[e].pc = "done"
             \/ /\ FollowerOf(l) # NoId
                /\ task'[e].pc = "call" /\ task'[e].label = th.label
      BY <1>0, <2>0, <2>3
         DEF LookupCancel, SkipsCancel, At, folVars, Return, Thread,
             ThreadRecord
    <3>2. Reached(l) => FollowerOf(l) # NoId
      BY <1>0, FollowerReached DEF FilingInv
    <3>3. th.label # l => fol[l] # "open"
      BY <1>8, <3>1 DEF TimelyOK
    <3>4. QED
      BY <2>1, <3>1, <3>2, <3>3
  <2>4. CASE CancelPrimary(e)
    <3>1. th.pc = "call" /\ th.fid = l
      BY <1>0, <2>0, <2>4 DEF CancelPrimary, At, ThreadOK
    <3>2. PICK out \in {"ok", "notfound", "fault"} :
             /\ CancelAt(l, out)
             /\ IF Raised(out) THEN Return(e, out) ELSE Goto(e, "remove")
      BY <2>4, <3>1 DEF CancelPrimary
    <3>3. out # "fault"
      BY <1>0, <3>2 DEF CancelAt, Fault
    <3>4. CASE out = "notfound"
      <4>1. /\ fol[l] # "open" /\ UNCHANGED fol /\ task'[e].pc = "done"
        BY <1>0, <3>2, <3>4 DEF CancelAt, Raised, Return, Thread
      <4>2. QED
        BY <2>1, <3>1, <4>1
    <3>5. CASE out = "ok"
      <4>1. /\ fol[l] = "open" /\ fol'[l] = "cancelled"
            /\ task'[e].pc = "remove" /\ task'[e].label = th.label
        BY <1>0, <3>2, <3>5 DEF CancelAt, Ended, Raised, Goto, ThreadRecord
      <4>2. th.label = l
        BY <1>8, <3>1, <4>1 DEF TimelyOK
      <4>3. QED
        BY <1>1, <1>6, <1>8, <4>1, <4>2 DEF TimelyOK, CancelOf
    <3>6. QED
      BY <3>3, <3>4, <3>5
  <2>5. CASE RemovePrimary(e)
    <3>1. /\ UNCHANGED fol /\ th.pc = "remove"
          /\ task'[e].pc = "cascade" /\ task'[e].label = th.label
      BY <1>0, <2>5 DEF RemovePrimary, Goto, At, folVars, ThreadRecord
    <3>2. QED
      BY <2>1, <3>1
  <2>6. CASE LookupSibling(e)
    <3>1. UNCHANGED fol /\ th.pc = "cascade"
      BY <2>6 DEF LookupSibling, At, folVars
    <3>2. task'[e].pc \in {"done", "callsib"}
      BY <1>0, <2>6 DEF LookupSibling, Return, Thread, ThreadRecord
    <3>3. ASSUME th.label = l, l \in ExitLeg, fol[Sibling(l)] = "open"
          PROVE  task'[e].pc = "callsib" /\ task'[e].label = l
      <4>1. Filed(byCoid, Sibling(l)) /\ Sibling(l) \in MapLabel
        BY <1>0, <1>1, <3>3, LegForms DEF OpenFiled
      <4>2. RecordOf(Sibling(l)).tradovate_id # NoId
        BY <4>1 DEF Filed, RecordOf, Known
      <4>3. Synthetic(l)
        BY <3>3, NoIdForms, LegForms DEF Synthetic
      <4>4. QED
        BY <1>0, <2>6, <3>3, <4>2, <4>3 DEF LookupSibling, ThreadRecord
    <3>4. QED
      BY <2>1, <3>1, <3>2, <3>3
  <2>7. CASE CancelSibling(e)
    <3>1. /\ th.pc = "callsib" /\ th.fid = Sibling(l) /\ l \in ExitLeg
          /\ task'[e].pc \in {"tidysib", "removesib"}
      BY <1>0, <2>0, <2>7 DEF CancelSibling, At, ThreadOK, Goto, ThreadRecord
    <3>2. PICK out \in {"ok", "notfound", "fault"} : CancelAt(Sibling(l), out)
      BY <2>7, <3>1 DEF CancelSibling
    <3>3. out # "fault"
      BY <1>0, <3>2 DEF CancelAt, Fault
    <3>4. /\ fol'[Sibling(l)] # "open"
          /\ Sibling(l) # l
      BY <1>0, <1>1, <3>1, <3>2, <3>3, LegForms
         DEF CancelAt, Ended, FollowerOK, Sibling
    <3>5. Over(l)
      BY <1>0, <2>0, <3>1 DEF FilingInv, CancelOK, Forgotten
    <3>6. fol'[l] # "open"
      BY <1>2, <3>5 DEF Over
    <3>7. QED
      BY <1>1, <1>6, <3>4, <3>6 DEF TimelyOK
  <2>8. CASE RemoveSibling(e)
    <3>1. /\ UNCHANGED fol /\ th.pc \in {"removesib", "tidysib"}
          /\ task'[e].pc = "done"
      BY <1>0, <2>8 DEF RemoveSibling, folVars, Return, Thread
    <3>2. QED
      BY <2>1, <3>1
  <2>9. QED
    BY <1>0, <2>0, <2>2, <2>3, <2>4, <2>5, <2>6, <2>7, <2>8
       DEF Step, Reserve, PlaceOrder, PlaceBracket, EnterBatch, Register,
           ExitBatch, LookupModify, ModifyFollower, ApplyFill, At, ThreadOK
<1>9. QED
  BY <1>7, <1>8

LEMMA LandStep ==
    ASSUME LiveDirection, FullReplies, SyntheticLabels, LiveInv, VersionInv,
           LandInv, [Next]_vars
    PROVE  LandInv'
<1>0. /\ HotInv /\ ReplicatorInv /\ MapOK /\ FollowerOK /\ SourceOK
      /\ UnsentIdle /\ CancelsAsked /\ FilingInv /\ HeldInv /\ Numbered
      /\ ~IdsInEvents /\ ~NativeOco
      /\ faults \in Nat /\ crashes \in Nat
      /\ task \in [Event -> ThreadRecord]
  BY FaultAssumption, CrashAssumption
     DEF LiveInv, HotInv, ReplicatorInv, FollowerOK, ThreadsOK, SourceOK,
         LiveDirection, VersionInv
<1>1. SUFFICES ASSUME Untroubled' PROVE LandInv'
  BY DEF LandInv
<1>2. CASE Crash
  BY <1>0, <1>1, <1>2 DEF Crash, Untroubled
\* Steps of the proxy's own thread, the trader and the markets.
<1>3. ASSUME Untroubled, UNCHANGED faults,
             \A k \in Leg : /\ fol'[k] = "open" => fol[k] = "open"
                            /\ fol'[k] = "cancelled" => fol[k] = "cancelled"
                            /\ cancels[k] \in Nat /\ cancels'[k] >= cancels[k],
             \A o \in Order :
                task'[NewOf(o)] = task[NewOf(o)] \/ ~Started(NewOf(o)),
             \A d \in Event : d.kind = "CANCEL" =>
                \/ task'[d] = task[d]
                \/ task'[d].pc = "label" /\ task[d].pc = "idle",
             \A k \in Leg : KeepsFiling(k) /\ KeepsFiled(k),
             timely' = timely
      PROVE  LandInv'
  <2>1. ASSUME NEW l \in timely PROVE TimelyOK(l)'
    <3>1. TimelyOK(l) /\ l \in Leg
      BY <1>0, <1>3, <2>1 DEF LandInv, SourceOK
    <3>2. task'[NewOf(l[1])] = task[NewOf(l[1])]
      <4>1. Started(NewOf(l[1]))
        BY <1>0, <3>1, LegOrder
           DEF TimelyOK, HeldInv, DonePlacements, Started
      <4>2. QED
        BY <1>3, <3>1, <4>1, LegOrder
    <3>3. Reached(l) => Reached(l)'
      BY <1>3, <3>1, <3>2, ReachedKept
    <3>4. l \in ExitLeg => Sibling(l) \in Leg
      BY SiblingForms, LegForms
    <3>5. QED
      BY <1>3, <3>1, <3>2, <3>3, <3>4, TimelyOthers DEF CancelOf
  <2>2. ASSUME NEW l \in Leg PROVE CascadedOK(l)'
    <3>1. l \in ExitLeg => Sibling(l) \in Leg
      BY SiblingForms, LegForms
    <3>2. CascadedOK(l)
      BY <1>3 DEF LandInv
    <3>3. cancels'[l] = 0 => cancels[l] = 0
      BY <1>3, <1>0 DEF SourceOK
    <3>4. QED
      BY <1>3, <3>1, <3>2, <3>3 DEF CascadedOK
  <2>3. QED
    BY <1>3, <2>1, <2>2 DEF LandInv
<1>4. \A k \in Leg : cancels[k] \in Nat /\ cancels[k] >= cancels[k]
  BY <1>0, BoundAssumption DEF SourceOK
<1>5. ASSUME NEW o \in Order, Submit(o) PROVE LandInv'
  <2>1. /\ Untroubled /\ UNCHANGED <<mapVars, fol, faults, cancels, timely>>
        /\ \A d \in Event : d # NewOf(o) => task'[d] = task[d]
    BY <1>1, <1>5 DEF Submit, Untroubled, folVars, historyVars, Starting
  <2>2. ~Started(NewOf(o))
    BY <1>0, <1>5 DEF Submit, UnsentIdle
  <2>3. \A p \in Order :
           task'[NewOf(p)] = task[NewOf(p)] \/ ~Started(NewOf(p))
    BY <2>1, <2>2, NewForms
  <2>4. \A d \in Event : d.kind = "CANCEL" => task'[d] = task[d]
    BY <2>1 DEF NewOf
  <2>5. QED
    BY <1>3, <1>4, <2>1, <2>3, <2>4, UnchangedFiling, UnchangedFiled
       DEF mapVars
<1>6. ASSUME NEW o \in Order, OrderResponse(o) PROVE LandInv'
  <2>1. /\ Entry(o) \in Leg /\ Entry(o) \in OwnLabels(Entry(o))
        /\ Entry(o) \in MapLabel
    BY LegForms, OwnLabelForms
  <2>2. \A k \in Leg : KeepsFiling(k) /\ KeepsFiled(k)
    BY <1>0, <1>6, <2>1, BindSourceIdFiling, BindSourceIdFiled,
       UnchangedFiling, UnchangedFiled DEF OrderResponse, mapVars
  <2>3. Untroubled /\ UNCHANGED <<fol, faults, cancels, timely, task>>
    BY <1>1, <1>6 DEF OrderResponse, Untroubled, folVars, historyVars
  <2>4. QED
    BY <1>3, <1>4, <2>2, <2>3
<1>7. ASSUME NEW leg \in Leg, OrdersPoll(leg) PROVE LandInv'
  <2>1. PollLabel(leg) \in OwnLabels(leg) /\ PollLabel(leg) \in MapLabel
    BY PollForms DEF OwnLabels
  <2>2. \A k \in Leg : KeepsFiling(k) /\ KeepsFiled(k)
    BY <1>0, <1>7, <2>1, BindSourceIdFiling, BindSourceIdFiled,
       UnchangedFiling, UnchangedFiled DEF OrdersPoll, mapVars
  <2>3. Untroubled /\ UNCHANGED <<fol, faults, cancels, timely, task>>
    BY <1>1, <1>7 DEF OrdersPoll, Untroubled, folVars, historyVars
  <2>4. QED
    BY <1>3, <1>4, <2>2, <2>3
<1>8. ASSUME NEW leg \in Leg, UserCancel(leg) PROVE LandInv'
  <2> DEFINE e == [kind |-> "CANCEL", leg |-> leg, n |-> cancels'[leg]]
  <2>1. /\ Untroubled /\ UNCHANGED <<mapVars, fol, faults>>
        /\ \A d \in Event : d # e => task'[d] = task[d]
        /\ e \in Event => task'[e].pc = "label"
    BY <1>1, <1>8
       DEF UserCancel, Untroubled, folVars, Starting, FirstPc, Thread
  <2>2. /\ cancels'[leg] = cancels[leg] + 1 /\ cancels[leg] \in Nat
        /\ cancels'[leg] \in 1 .. MaxCancels
        /\ \A k \in Leg : k # leg => cancels'[k] = cancels[k]
    BY <1>0, <1>8, BoundAssumption DEF UserCancel, SourceOK
  <2>3. /\ e.kind = "CANCEL" /\ e.leg = leg /\ e.n = cancels[leg] + 1
        /\ e \in Event
        /\ \A o \in Order : NewOf(o) \in Event /\ NewOf(o) # e
    BY <2>2, NewForms DEF Event, NewOf
  <2>4. timely' = timely
           \/ (timely' = timely \cup {leg} /\ Reachable(leg) /\ cancels[leg] = 0)
    BY <1>8 DEF UserCancel
  <2> HIDE DEF e
  <2>5. task[e].pc = "idle"
    BY <1>0, <2>2, <2>3 DEF Numbered, Started
  <2>6. \A k \in Leg : KeepsFiling(k) /\ KeepsFiled(k)
    BY <2>1, UnchangedFiling, UnchangedFiled DEF mapVars
  <2>7. \A k \in Leg : cancels[k] \in Nat /\ cancels'[k] >= cancels[k]
    BY <1>4, <2>2
  <2>8. \A o \in Order : task'[NewOf(o)] = task[NewOf(o)]
    BY <2>1, <2>3
  <2>9. \A d \in Event :
           \/ task'[d] = task[d]
           \/ task'[d].pc = "label" /\ task[d].pc = "idle"
    BY <2>1, <2>3, <2>5
  <2>10. ASSUME NEW l \in timely PROVE TimelyOK(l)'
    <3>1. TimelyOK(l) /\ l \in Leg
      BY <1>0, <2>1, <2>10 DEF LandInv, SourceOK
    <3>2. task'[NewOf(l[1])] = task[NewOf(l[1])]
      BY <2>8, <3>1, LegOrder
    <3>3. Reached(l) => Reached(l)'
      BY <2>6, <3>1, <3>2, ReachedKept
    <3>4. QED
      BY <2>1, <2>9, <3>1, <3>2, <3>3, TimelyOthers
  <2>11. ASSUME Reachable(leg), cancels[leg] = 0 PROVE TimelyOK(leg)'
    <3>1. Reached(leg)
      BY <1>0, <2>11, FollowerReached DEF Reachable, Mapped, FilingInv
    <3>2. task'[NewOf(leg[1])] = task[NewOf(leg[1])]
      BY <2>8, LegOrder
    <3>3. Reached(leg)'
      BY <2>6, <3>1, <3>2, ReachedKept
    <3>4. /\ PollLabel(leg) = leg
          /\ task'[NewOf(leg[1])].result = "ok"
      BY <2>11, <3>1, <3>2 DEF Reached, Reachable
    <3>5. CancelOf(e, leg) /\ task'[e].pc = "label"
      BY <2>1, <2>3 DEF CancelOf
    <3>6. \A d \in Event : CancelOf(d, leg) =>
             task'[d].pc \in {"idle", "label"}
      <4>1. \A d \in Event : CancelOf(d, leg) => task[d].pc = "idle"
        BY <1>0, <2>11 DEF CancelsAsked, Started, CancelOf
      <4>2. QED
        BY <2>9, <4>1
    <3>7. leg \in ExitLeg /\ fol[leg] = "cancelled" => fol[Sibling(leg)] # "open"
      BY <2>1, <2>11 DEF LandInv, CascadedOK
    <3>8. UNCHANGED fol
      BY <2>1
    <3>9. QED
      BY <2>3, <3>3, <3>4, <3>5, <3>6, <3>7, <3>8 DEF TimelyOK, CancelOf
  <2>12. ASSUME NEW l \in Leg PROVE CascadedOK(l)'
    <3>1. CascadedOK(l)
      BY <2>1 DEF LandInv
    <3>2. cancels'[l] = 0 => cancels[l] = 0
      BY <2>2
    <3>3. QED
      BY <2>1, <3>1, <3>2 DEF CascadedOK
  <2>13. QED
    BY <2>4, <2>10, <2>11, <2>12 DEF LandInv
<1>9. ASSUME NEW leg \in Leg, UserModify(leg) PROVE LandInv'
  <2> DEFINE e == [kind |-> "MODIFY", leg |-> leg, n |-> srcVer'[leg]]
  <2>1. /\ Untroubled /\ UNCHANGED <<mapVars, fol, faults, cancels, timely>>
        /\ \A d \in Event : d # e => task'[d] = task[d]
    BY <1>1, <1>9 DEF UserModify, Untroubled, folVars, Starting
  <2>2. /\ e.kind = "MODIFY"
        /\ \A o \in Order : NewOf(o) \in Event /\ NewOf(o) # e
    BY NewForms DEF NewOf
  <2> HIDE DEF e
  <2>3. /\ \A o \in Order : task'[NewOf(o)] = task[NewOf(o)]
        /\ \A d \in Event : d.kind = "CANCEL" => task'[d] = task[d]
    BY <2>1, <2>2
  <2>4. QED
    BY <1>3, <1>4, <2>1, <2>3, UnchangedFiling, UnchangedFiled DEF mapVars
<1>10. ASSUME NEW leg \in Leg, MarketFill(leg) PROVE LandInv'
  <2>1. Untroubled /\ UNCHANGED <<task, mapVars, faults, cancels, timely>>
    BY <1>1, <1>10
       DEF MarketFill, FollowerFill, Untroubled, sourceVars, historyVars
  <2>2. \A k \in Leg : /\ fol'[k] = "open" => fol[k] = "open"
                       /\ fol'[k] = "cancelled" => fol[k] = "cancelled"
    BY <1>0, <1>10 DEF MarketFill, FollowerFill, Ended, Dragged, FollowerOK
  <2>3. QED
    BY <1>3, <1>4, <2>1, <2>2, UnchangedFiling, UnchangedFiled DEF mapVars
<1>11. ASSUME NEW e \in Event, Replicate(e) PROVE LandInv'
  <2>1. /\ Step(e) /\ Untroubled /\ timely' = timely /\ cancels' = cancels
        /\ faults = 0 /\ faults' = 0 /\ crashes = 0
    BY <1>0, <1>1, <1>11, FaultsCount
       DEF Replicate, Untroubled, sourceVars, historyVars
  <2>2. ~lossy
    BY <2>1 DEF VersionInv
  <2>3. \A l \in timely : TimelyOK(l)'
    <3>1. timely \subseteq Leg
      BY <1>0 DEF SourceOK
    <3>2. QED
      BY <1>11, <2>1, <2>2, <3>1, StepTimely DEF LandInv
  <2>4. ASSUME NEW l \in Leg, l \in ExitLeg, fol'[l] = "cancelled",
               cancels'[l] = 0
        PROVE  fol'[Sibling(l)] # "open"
    <3>1. e.kind # "FILL" /\ (e.kind = "CANCEL" => cancels[e.leg] > 0)
      BY <1>0, <2>1, StepOwn DEF CancelsAsked
    <3>2. Sibling(l) \in Leg
      BY <2>4, SiblingForms, LegForms
    <3>3. CASE fol[l] = "cancelled"
      <4>1. fol[Sibling(l)] # "open"
        BY <2>1, <2>4, <3>3 DEF LandInv, CascadedOK
      <4>2. Placed(Sibling(l))
        BY <1>0, <3>3 DEF FilingInv, PlacedThere, Placed, Sibling
      <4>3. QED
        BY <1>0, <2>1, <3>2, <4>1, <4>2, StepReopens
    <3>4. CASE fol[l] # "cancelled"
      <4>1. Over(Sibling(l))
        BY <1>0, <2>1, <2>4, <3>1, <3>4, StepCancelled
      <4>2. Over(Sibling(l))'
        BY <1>0, <2>1, <3>2, <4>1, StepOver DEF FilingInv, Over
      <4>3. QED
        BY <4>2 DEF Over
    <3>5. QED
      BY <3>3, <3>4
  <2>5. QED
    BY <2>1, <2>3, <2>4 DEF LandInv, CascadedOK
<1>12. CASE UNCHANGED <<replicatorVars, cancels, crashes, historyVars>>
  <2>1. Untroubled /\ UNCHANGED <<task, mapVars, fol, faults, cancels, timely>>
    BY <1>1, <1>12 DEF Untroubled, replicatorVars, folVars, historyVars
  <2>2. QED
    BY <1>3, <1>4, <2>1, UnchangedFiling, UnchangedFiled DEF mapVars
<1>13. QED
  BY <1>2, <1>5, <1>6, <1>7, <1>8, <1>9, <1>10, <1>11, <1>12
     DEF Next, SourceFill, vars, sourceVars

(* With no thread left, no cancel is on its way. *)
LEMMA LandGives ==
    ASSUME SourceOK, LandInv PROVE TimelyCancelLands
<1> SUFFICES ASSUME Running = {}, Untroubled, NEW leg \in timely
             PROVE  CancelledThere(leg)
  BY DEF TimelyCancelLands
<1>1. \A e \in Event : task[e].pc \in {"idle", "done"}
  BY DEF Running, Started, Finished
<1>2. TimelyOK(leg)
  BY DEF LandInv
<1>3. QED
  BY <1>1, <1>2 DEF TimelyOK, CancelledThere

(* Without a fault or a crash, the first cancel of a leg, sent once the leg
   is reachable, takes the follower's order down and the open sibling with
   it, whatever other cancels of the leg and its sibling race with it. *)
THEOREM TimelyCancelsLand ==
    LiveDirection /\ FullReplies /\ SyntheticLabels /\ Spec
       => []TimelyCancelLands
<1>1. LiveInv /\ LandInv => TimelyCancelLands
  BY LandGives DEF LiveInv, HotInv
<1>2. Init => LandInv
  BY DEF Init, ReplicatorInit, FollowerInit, LandInv, CascadedOK
<1>3. QED
  <2> SUFFICES ASSUME LiveDirection, FullReplies, SyntheticLabels
               PROVE  Spec => []TimelyCancelLands
    OBVIOUS
  <2>1. LiveInv /\ VersionInv /\ [Next]_vars => VersionInv'
    BY VersionStep
  <2>2. LiveInv /\ VersionInv /\ LandInv /\ [Next]_vars => LandInv'
    BY LandStep
  <2>3. QED
    BY <1>1, <1>2, <2>1, <2>2, VersionInit, LiveInvariant, PTL DEF Spec

=============================================================================
