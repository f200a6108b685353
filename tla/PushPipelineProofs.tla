-------------------------- MODULE PushPipelineProofs --------------------------
(***************************************************************************)
(* Theorems about the Tradovate-source direction, for any orders, faults   *)
(* and crashes.  Types, faithfulness and durability follow from the        *)
(* replicator alone, whatever the channel delivers.  That nothing is lost  *)
(* hold of, and that cancels and modifications arrive, needs the order of  *)
(* the events: OrderInv says which events are pushed, in which order the   *)
(* replicator takes them, and ApplyInv what those that are over have done  *)
(* to the map and to the follower.                                         *)
(***************************************************************************)
EXTENDS PushPipeline, ReplicatorProofs, SequenceTheorems

LEMMA PushStep ==
    ASSUME RepliesInOrder, ReplicatorInv, [Next]_vars
    PROVE  ReplicatorInv'
<1>1. CASE Listen
  <2>1. task' = Starting({Head(inbox)}) /\ {Head(inbox)} \cap InBatch = {}
    BY <1>1 DEF Listen, Running, Started, Finished, InBatch
  <2>2. /\ MapOK' /\ batchDepth' = batchDepth
        /\ FollowerOK' /\ opened' \subseteq MapLabel
    BY <1>1, UnchangedOK, FolUnchangedOK DEF Listen, ReplicatorInv
  <2>3. ThreadsOK' /\ BatchCounted'
    BY <2>1, <2>2, StartingOK DEF ReplicatorInv
  <2>4. QED
    BY <2>2, <2>3 DEF ReplicatorInv
<1>2. ASSUME NEW e \in Event, Replicate(e) PROVE ReplicatorInv'
  BY <1>2, StepOK DEF Replicate
<1>3. CASE Crash
  BY <1>3, RestartOK DEF Crash
<1>4. ASSUME NEW leg \in Leg, MarketFill(leg) PROVE ReplicatorInv'
  <2>1. FollowerOK'
    BY <1>4, FollowerFillOK DEF MarketFill, ReplicatorInv
  <2>2. MapOK' /\ batchDepth' = batchDepth
    BY <1>4, UnchangedOK DEF MarketFill, ReplicatorInv
  <2>3. ThreadsOK' /\ opened' \subseteq MapLabel /\ BatchCounted'
    BY <1>4, <2>2
       DEF MarketFill, ReplicatorInv, ThreadsOK, BatchCounted, InBatch
  <2>4. QED
    BY <2>1, <2>2, <2>3 DEF ReplicatorInv
<1>5. CASE UNCHANGED replicatorVars
  <2>1. MapOK' /\ batchDepth' = batchDepth /\ FollowerOK'
    BY <1>5, UnchangedOK, FolUnchangedOK DEF replicatorVars, ReplicatorInv
  <2>2. ThreadsOK' /\ opened' \subseteq MapLabel /\ BatchCounted'
    BY <1>5, <2>1
       DEF replicatorVars, ReplicatorInv, ThreadsOK, BatchCounted, InBatch
  <2>3. QED
    BY <2>1, <2>2 DEF ReplicatorInv
<1>6. QED
  BY <1>1, <1>2, <1>3, <1>4, <1>5
     DEF Next, SourceNew, SourceCancel, SourceModify, SourceFill, vars

LEMMA PushInvariant ==
    ASSUME RepliesInOrder PROVE Spec => []ReplicatorInv
<1>1. Init => ReplicatorInv
  BY ReplicatorInitOK DEF Init
<1>2. ReplicatorInv /\ [Next]_vars => ReplicatorInv'
  BY PushStep
<1>3. QED
  BY <1>1, <1>2, PTL DEF Spec

(* Whatever is pushed and wherever a crash hits, a label leads to the order
   placed for its leg and an id to a label of its leg; a native-OCO follower
   and events that carry ids make no difference. *)
THEOREM PushMapsFaithfully == RepliesInOrder /\ Spec => []MappingFaithful
<1>1. ReplicatorInv => MappingFaithful
  BY InvGives
<1>2. RepliesInOrder => (Spec => []ReplicatorInv)
  BY PushInvariant
<1>3. QED
  BY <1>1, <1>2, PTL

(* Between two events, and after a restart, the file holds the map. *)
THEOREM PushSettles == RepliesInOrder /\ Spec => []SettledIsDurable
<1>1. ReplicatorInv => SettledIsDurable
  BY InvGives
<1>2. RepliesInOrder => (Spec => []ReplicatorInv)
  BY PushInvariant
<1>3. QED
  BY <1>1, <1>2, PTL

-----------------------------------------------------------------------------
(* Types, and one event at a time.                                         *)

PushTyped ==
    /\ src \in [Leg -> {"none", "open", "cancelled", "dropped", "filled"}]
    /\ srcVer \in [Leg -> 0 .. MaxVer]
    /\ inbox \in Seq(Event)
    /\ crashes \in 0 .. MaxCrashes
    /\ missed \in BOOLEAN
    /\ \A d, e \in Running : d = e

LEMMA ReportForms ==
    ASSUME NEW l \in Leg
    PROVE  /\ CancelOf(l) \in Event /\ FillOf(l) \in Event
           /\ \A n \in 1 .. MaxVer :
                 [kind |-> "MODIFY", leg |-> l, n |-> n] \in Event
BY CancelAssumption, BoundAssumption DEF CancelOf, FillOf, Event

(* What the strategy ends with a leg are exits of its order, and their
   reports are cancels of those that it ended at the exchange. *)
LEMMA DragForms ==
    ASSUME NEW l \in Leg, NEW how
    PROVE  /\ \A k : Drags(l, how, k) => k \in Leg /\ k \in ExitLeg /\ k[1] = l[1]
           /\ DragReports(l, how) \in Seq(Event)
           /\ CancelReport(l) \in Seq(Event)
<1>1. ASSUME NEW k, Drags(l, how, k)
      PROVE  k \in Leg /\ k \in ExitLeg /\ k[1] = l[1]
  BY <1>1, LegForms DEF Drags, Exits
<1>2. ASSUME NEW k \in Leg PROVE CancelReport(k) \in Seq(Event)
  BY <1>2, ReportForms DEF CancelReport
<1>3. ASSUME NEW k
      PROVE (IF Drags(l, how, k) THEN CancelReport(k) ELSE <<>>) \in Seq(Event)
  BY <1>1, <1>2
<1>4. QED
  BY <1>1, <1>2, <1>3 DEF DragReports

LEMMA StepRuns ==
    ASSUME ReplicatorInv, NEW e \in Event, Step(e)
    PROVE  e \in Running /\ Running' \subseteq Running
<1>1. task[e].pc # "done"
  BY DEF Step, Reserve, PlaceOrder, PlaceBracket, EnterBatch, Register,
         ExitBatch, ResolveLabel, LookupCancel, CancelPrimary, RemovePrimary,
         LookupSibling, CancelSibling, RemoveSibling, LookupModify,
         ModifyFollower, ApplyFill, At
<1>2. e \in Running
  BY <1>1, StepOwn DEF Running, Finished
<1>3. QED
  BY <1>2, StepOwn DEF Running, Started, Finished

LEMMA TypedStep ==
    ASSUME ReplicatorInv, PushTyped, [Next]_vars
    PROVE  PushTyped'
<1>1. ASSUME NEW o \in Order, SourceNew(o) PROVE PushTyped'
  <2>1. <<NewOf(o)>> \in Seq(Event)
    BY NewForms
  <2>2. inbox' \in Seq(Event)
    BY <1>1, <2>1 DEF PushTyped, SourceNew, Push
  <2>3. src' \in [Leg -> {"none", "open", "cancelled", "dropped", "filled"}]
    BY <1>1 DEF PushTyped, SourceNew
  <2>4. QED
    BY <1>1, <2>2, <2>3
       DEF PushTyped, SourceNew, replicatorVars, Running, Started, Finished
<1>2. ASSUME NEW l \in Leg, NEW how \in {"cancelled", "dropped", "filled"}
      PROVE  SourceEnded(l, how) \in
                [Leg -> {"none", "open", "cancelled", "dropped", "filled"}]
  BY <1>2 DEF SourceEnded, Dropped, PushTyped
<1>3. ASSUME NEW l \in Leg, SourceCancel(l) \/ SourceFill(l) PROVE PushTyped'
  <2>1. inbox' \in Seq(Event)
    <3>1. /\ DragReports(l, "cancelled") \in Seq(Event)
          /\ DragReports(l, "filled") \in Seq(Event)
          /\ CancelReport(l) \in Seq(Event) /\ <<FillOf(l)>> \in Seq(Event)
      BY DragForms, ReportForms
    <3>2. \A s, t \in Seq(Event) : inbox \o (s \o t) \in Seq(Event)
      BY DEF PushTyped
    <3>3. QED
      BY <1>3, <3>1, <3>2 DEF SourceCancel, SourceFill, Push
  <2>2. src' \in [Leg -> {"none", "open", "cancelled", "dropped", "filled"}]
    BY <1>2, <1>3 DEF SourceCancel, SourceFill, Dropped
  <2>3. QED
    BY <1>3, <2>1, <2>2
       DEF PushTyped, SourceCancel, SourceFill, replicatorVars, Running,
           Started, Finished
<1>4. ASSUME NEW l \in Leg, SourceModify(l) PROVE PushTyped'
  <2>1. /\ srcVer' = [srcVer EXCEPT ![l] = srcVer[l] + 1]
        /\ srcVer[l] + 1 \in 1 .. MaxVer
    BY <1>4, BoundAssumption DEF PushTyped, SourceModify
  <2>2. srcVer' \in [Leg -> 0 .. MaxVer] /\ srcVer'[l] \in 1 .. MaxVer
    BY <2>1, BoundAssumption DEF PushTyped
  <2>3. <<[kind |-> "MODIFY", leg |-> l, n |-> srcVer'[l]]>> \in Seq(Event)
    BY <2>2, ReportForms
  <2>4. inbox' \in Seq(Event)
    BY <1>4, <2>3 DEF PushTyped, SourceModify, Push
  <2>5. QED
    BY <1>4, <2>2, <2>4
       DEF PushTyped, SourceModify, replicatorVars, Running, Started, Finished
<1>5. CASE Listen
  <2>1. inbox' \in Seq(Event)
    BY <1>5 DEF PushTyped, Listen
  <2>2. Running' \subseteq {Head(inbox)}
    BY <1>5 DEF Listen, Starting, Running, Started, Finished
  <2>3. QED
    BY <1>5, <2>1, <2>2 DEF PushTyped, Listen, sourceVars
<1>6. ASSUME NEW e \in Event, Replicate(e) PROVE PushTyped'
  BY <1>6, StepRuns DEF PushTyped, Replicate, sourceVars
<1>7. ASSUME NEW l \in Leg, MarketFill(l) PROVE PushTyped'
  BY <1>7 DEF PushTyped, MarketFill, sourceVars, Running, Started, Finished
<1>8. CASE Crash
  <2>1. Running' = {}
    BY <1>8 DEF Crash, Restart, Running, Started, Finished, Thread
  <2>2. crashes' \in 0 .. MaxCrashes
    BY <1>8, CrashAssumption DEF Crash, PushTyped
  <2>3. QED
    BY <1>8, <2>1, <2>2 DEF PushTyped, Crash
<1>9. CASE UNCHANGED vars
  BY <1>9
     DEF PushTyped, vars, replicatorVars, sourceVars, Running, Started, Finished
<1>10. QED
  BY <1>1, <1>3, <1>4, <1>5, <1>6, <1>7, <1>8, <1>9 DEF Next

PushInv == ReplicatorInv /\ PushTyped

LEMMA PushInit == Init => PushInv
<1> SUFFICES ASSUME Init PROVE PushInv
  OBVIOUS
<1>1. Running = {}
  BY DEF Init, ReplicatorInit, Running, Started, Idle, Thread
<1>2. 0 \in 0 .. MaxVer /\ 0 \in 0 .. MaxCrashes /\ <<>> \in Seq(Event)
  BY BoundAssumption, CrashAssumption
<1>3. PushTyped
  BY <1>1, <1>2 DEF Init, PushTyped
<1>4. QED
  BY <1>3, ReplicatorInitOK DEF Init, PushInv

LEMMA TypedInvariant ==
    ASSUME RepliesInOrder PROVE Spec => []PushInv
<1>1. Init => PushInv
  BY PushInit
<1>2. PushInv /\ [Next]_vars => PushInv'
  BY PushStep, TypedStep DEF PushInv
<1>3. QED
  BY <1>1, <1>2, PTL DEF Spec

(* Whatever the channel delivers and wherever crashes hit, the variables keep
   their types and the listener runs one event at a time. *)
THEOREM PushTypeCorrect == RepliesInOrder /\ Spec => []TypeOK
<1>1. PushInv => TypeOK
  <2> SUFFICES ASSUME PushInv PROVE TypeOK
    OBVIOUS
  <2>1. Cardinality(Running) <= 1
    <3>1. CASE Running = {}
      BY <3>1, FS_EmptySet
    <3>2. ASSUME NEW e \in Running PROVE Cardinality(Running) <= 1
      <4>1. Running = {e}
        BY <3>2 DEF PushInv, PushTyped
      <4>2. Cardinality({e}) = 1
        BY FS_Singleton
      <4>3. QED
        BY <4>1, <4>2
    <3>3. QED
      BY <3>1, <3>2
  <2>2. \A i \in DOMAIN inbox : inbox[i] \in Event
    BY DEF PushInv, PushTyped
  <2>3. QED
    BY <2>1, <2>2, InvGives DEF PushInv, PushTyped, TypeOK
<1>2. RepliesInOrder => (Spec => []PushInv)
  BY TypedInvariant
<1>3. QED
  BY <1>1, <1>2, PTL

-----------------------------------------------------------------------------
(* The order in which the events reach the replicator.                     *)

\* No call has faulted, and no crash lost anything.
Lossless == faults = 0 /\ ~missed

Queued(q, e) == \E i \in DOMAIN q : q[i] = e

\* Modifications of one leg come in the order of their versions.
Before(d, e) ==
    d.kind = "MODIFY" /\ e.kind = "MODIFY" /\ d.leg = e.leg => d.n < e.n

\* What waits in q is pushed once, after the order it is about, and in order.
QueueOK(q) ==
    /\ \A i \in DOMAIN q : ~Started(q[i])
    /\ \A i, j \in DOMAIN q : q[i] = q[j] => i = j
    /\ \A i \in DOMAIN q :
          LET new == NewOf(q[i].leg[1])
          IN  Started(new) \/ \E j \in 1 .. i : q[j] = new
    /\ \A i, j \in DOMAIN q : i < j => Before(q[i], q[j])
    /\ \A i \in DOMAIN q : \A e \in Event : Started(e) => Before(e, q[i])

Pushed(e) == Started(e) \/ Queued(inbox, e)

ModifyTo(l, n) == [kind |-> "MODIFY", leg |-> l, n |-> n]

\* What was pushed agrees with the source, which has pushed all it must.
SourceTold ==
    /\ \A e \in Event : Pushed(e) =>
          /\ src[EntryOf(e.leg)] # "none"
          /\ e.kind = "MODIFY" => e.n <= srcVer[e.leg]
          /\ e.kind \in {"CANCEL", "FILL"} => src[e.leg] # "open"
    /\ \A l \in Leg :
          /\ src[l] = "cancelled" => Pushed(CancelOf(l))
          /\ srcVer[l] > 0 => Pushed(ModifyTo(l, srcVer[l]))
          /\ src[l] # "none" => src[EntryOf(l)] # "none" /\ Pushed(NewOf(l[1]))
          /\ src[l] = "dropped" => l \in ExitLeg

\* An order is placed before anything else about it is applied, and its legs
\* are modified in the order of the versions.
ThreadsInOrder ==
    /\ \A e \in Event : Started(e) /\ e.kind # "NEW" =>
          Finished(NewOf(e.leg[1]))
    /\ \A d \in Event, e \in Running : Started(d) => d = e \/ Before(d, e)

OrderInv == QueueOK(inbox) /\ SourceTold /\ ThreadsInOrder

LEMMA Enqueue ==
    ASSUME NEW q \in Seq(Event), QueueOK(q), NEW e \in Event,
           ~Started(e), ~Queued(q, e),
           \/ e.kind = "NEW"
           \/ Started(NewOf(e.leg[1])) \/ Queued(q, NewOf(e.leg[1])),
           \A d \in Event : Started(d) \/ Queued(q, d) => Before(d, e)
    PROVE  /\ q \o <<e>> \in Seq(Event) /\ QueueOK(q \o <<e>>)
           /\ \A d : Queued(q \o <<e>>, d) <=> Queued(q, d) \/ d = e
<1> DEFINE r == q \o <<e>>
<1>1. /\ r \in Seq(Event) /\ Len(r) = Len(q) + 1 /\ DOMAIN r = 1 .. Len(q) + 1
      /\ DOMAIN q = 1 .. Len(q) /\ Len(q) \in Nat
      /\ r[Len(q) + 1] = e
      /\ \A i \in DOMAIN q : r[i] = q[i] /\ q[i] \in Event
  OBVIOUS
<1> HIDE DEF r
<1>2. \A d : Queued(r, d) <=> Queued(q, d) \/ d = e
  BY <1>1 DEF Queued
<1>3. \A i \in DOMAIN r : ~Started(r[i])
  BY <1>1 DEF QueueOK
<1>4. \A i, j \in DOMAIN r : r[i] = r[j] => i = j
  BY <1>1 DEF QueueOK, Queued
<1>5. ASSUME NEW i \in DOMAIN r
      PROVE  LET new == NewOf(r[i].leg[1])
             IN  Started(new) \/ \E j \in 1 .. i : r[j] = new
  <2>1. CASE i \in DOMAIN q
    BY <1>1, <2>1 DEF QueueOK
  <2>2. CASE i = Len(q) + 1
    BY <1>1, <2>2, NewEvent DEF Queued
  <2>3. QED
    BY <1>1, <2>1, <2>2
<1>6. \A i, j \in DOMAIN r : i < j => Before(r[i], r[j])
  <2>1. ASSUME NEW i \in DOMAIN q PROVE Before(r[i], e)
    BY <1>1 DEF Queued
  <2>2. ASSUME NEW i \in DOMAIN q, NEW j \in DOMAIN q, i < j
        PROVE  Before(r[i], r[j])
    BY <1>1, <2>2 DEF QueueOK
  <2>3. QED
    BY <1>1, <2>1, <2>2
<1>7. \A i \in DOMAIN r : \A d \in Event : Started(d) => Before(d, r[i])
  BY <1>1 DEF QueueOK
<1>8. QED
  BY <1>1, <1>2, <1>3, <1>4, <1>5, <1>6, <1>7 DEF QueueOK, r

(* A report on a leg is pushed once, after its order. *)
LEMMA EnqueueReport ==
    ASSUME NEW q \in Seq(Event), QueueOK(q), NEW e \in Event,
           e.kind \in {"CANCEL", "FILL"},
           ~Started(e), ~Queued(q, e),
           Started(NewOf(e.leg[1])) \/ Queued(q, NewOf(e.leg[1])),
           NEW r, r \in {<<>>, <<e>>}
    PROVE  /\ q \o r \in Seq(Event) /\ QueueOK(q \o r)
           /\ \A d : Queued(q \o r, d) <=> Queued(q, d) \/ (r # <<>> /\ d = e)
<1>1. CASE r = <<e>>
  BY <1>1, Enqueue DEF Before
<1>2. CASE r = <<>>
  <2>1. q \o r = q
    BY <1>2
  <2>2. QED
    BY <1>2, <2>1
<1>3. QED
  BY <1>1, <1>2

(* The steps of the source broker. *)
LEMMA NewOrder ==
    ASSUME PushInv, OrderInv, NEW o \in Order, SourceNew(o)
    PROVE  OrderInv'
<1> DEFINE e == NewOf(o)
<1>0. /\ inbox \in Seq(Event) /\ e \in Event /\ e.kind = "NEW" /\ e.leg = Entry(o)
      /\ e.leg[1] = o /\ EntryOf(e.leg) = Entry(o) /\ Entry(o) \in Leg
      /\ QueueOK(inbox) /\ src[Entry(o)] = "none"
  BY NewForms, LegForms
     DEF PushInv, PushTyped, NewOf, Entry, EntryOf, OrderInv, SourceNew
<1>1. /\ task' = task /\ inbox' = inbox \o <<e>> /\ srcVer' = srcVer
      /\ src' = [leg \in Leg |-> IF leg \in LegsOf(o) THEN "open" ELSE src[leg]]
  BY DEF SourceNew, Push, replicatorVars
<1>2. ~Pushed(e)
  BY <1>0 DEF OrderInv, SourceTold
<1>3. QueueOK(inbox \o <<e>>) /\ \A d : Queued(inbox', d) <=> Queued(inbox, d) \/ d = e
  <2>1. \A d \in Event : Started(d) \/ Queued(inbox, d) => Before(d, e)
    BY <1>0 DEF Before
  <2> HIDE DEF e
  <2>2. QED
    BY <1>0, <1>1, <1>2, <2>1, Enqueue DEF Pushed
<1>4. QueueOK(inbox)'
  BY <1>1, <1>3 DEF QueueOK, Started
<1>5. \A d : Pushed(d)' <=> Pushed(d) \/ d = e
  BY <1>1, <1>3 DEF Pushed, Started, Queued
<1>6. \A l \in Leg : l \in LegsOf(o) <=> l[1] = o
  BY LegForms, LegAssumption DEF LegsOf, Exits, Entry, Order
<1>7. ASSUME NEW d \in Event, Pushed(d)'
      PROVE  /\ src'[EntryOf(d.leg)] # "none"
             /\ d.kind = "MODIFY" => d.n <= srcVer'[d.leg]
             /\ d.kind \in {"CANCEL", "FILL"} => src'[d.leg] # "open"
  <2>1. CASE d = e
    BY <1>0, <1>1, <2>1 DEF LegsOf
  <2>2. CASE Pushed(d)
    <3>1. d.leg \in Leg /\ EntryOf(d.leg) \in Leg /\ EntryOf(d.leg)[1] = d.leg[1]
      BY EventForms, LegForms, LegOrder DEF EntryOf, Entry
    <3>2. src[EntryOf(d.leg)] # "none"
      BY <2>2 DEF OrderInv, SourceTold
    <3>3. d.leg[1] # o
      BY <1>0, <3>1, <3>2 DEF EntryOf
    <3>4. src'[EntryOf(d.leg)] = src[EntryOf(d.leg)] /\ src'[d.leg] = src[d.leg]
      BY <1>1, <1>6, <3>1, <3>3
    <3>5. QED
      BY <1>1, <2>2, <3>4 DEF OrderInv, SourceTold
  <2>3. QED
    BY <1>5, <1>7, <2>1, <2>2
<1>8. ASSUME NEW l \in Leg
      PROVE  /\ src'[l] = "cancelled" => Pushed(CancelOf(l))'
             /\ srcVer'[l] > 0 => Pushed(ModifyTo(l, srcVer[l]))'
             /\ src'[l] # "none" => src'[EntryOf(l)] # "none" /\ Pushed(NewOf(l[1]))'
             /\ src'[l] = "dropped" => l \in ExitLeg
  <2>1. EntryOf(l) \in Leg /\ EntryOf(l)[1] = l[1]
    BY LegForms, LegOrder DEF EntryOf, Entry
  <2>2. CASE l[1] = o
    BY <1>1, <1>5, <1>6, <2>1, <2>2 DEF OrderInv, SourceTold, ModifyTo
  <2>3. CASE l[1] # o
    BY <1>1, <1>5, <1>6, <2>1, <2>3 DEF OrderInv, SourceTold, ModifyTo, CancelOf
  <2>4. QED
    BY <2>2, <2>3
<1>9. SourceTold'
  BY <1>7, <1>8 DEF SourceTold, ModifyTo
<1>10. ThreadsInOrder'
  BY <1>1 DEF OrderInv, ThreadsInOrder, Started, Finished, Running
<1>11. QED
  BY <1>4, <1>9, <1>10 DEF OrderInv

LEMMA NewVersion ==
    ASSUME PushInv, OrderInv, NEW l \in Leg, SourceModify(l)
    PROVE  OrderInv'
<1> DEFINE n == srcVer[l] + 1
           e == ModifyTo(l, n)
<1>0. /\ inbox \in Seq(Event) /\ QueueOK(inbox) /\ srcVer \in [Leg -> 0 .. MaxVer]
      /\ MaxVer \in Nat /\ src[l] = "open" /\ srcVer[l] < MaxVer
  BY BoundAssumption DEF PushInv, PushTyped, OrderInv, SourceModify
<1>1. n \in 1 .. MaxVer
  BY <1>0
<1>2. e \in Event /\ e.kind = "MODIFY" /\ e.leg = l /\ e.n = n
  BY <1>1, ReportForms DEF ModifyTo
<1>3. /\ task' = task /\ src' = src /\ srcVer' = [srcVer EXCEPT ![l] = n]
      /\ srcVer'[l] = n /\ inbox' = inbox \o <<e>>
  BY <1>0 DEF SourceModify, Push, replicatorVars, ModifyTo
<1>4. ASSUME NEW d \in Event, Pushed(d), d.kind = "MODIFY", d.leg = l
      PROVE  d.n < n /\ d.n \in Nat
  <2>1. d.n <= srcVer[l] /\ d.n \in 1 .. MaxVer
    BY <1>4, EventForms DEF OrderInv, SourceTold
  <2>2. QED
    BY <1>0, <2>1
<1>5. ~Pushed(e)
  BY <1>1, <1>2, <1>4
<1>6. Pushed(NewOf(l[1])) /\ src[EntryOf(l)] # "none"
  BY <1>0 DEF OrderInv, SourceTold
<1>7. \A d \in Event : Pushed(d) => Before(d, e)
  BY <1>2, <1>4 DEF Before
<1> HIDE DEF e
<1>8. QueueOK(inbox \o <<e>>) /\ \A d : Queued(inbox', d) <=> Queued(inbox, d) \/ d = e
  BY <1>0, <1>2, <1>3, <1>5, <1>6, <1>7, Enqueue DEF Pushed
<1>9. QueueOK(inbox)'
  BY <1>3, <1>8 DEF QueueOK, Started
<1>10. \A d : Pushed(d)' <=> Pushed(d) \/ d = e
  BY <1>3, <1>8 DEF Pushed, Started, Queued
<1>11. ASSUME NEW d \in Event, Pushed(d)'
       PROVE  /\ src[EntryOf(d.leg)] # "none"
              /\ d.kind = "MODIFY" => d.n <= srcVer'[d.leg]
              /\ d.kind \in {"CANCEL", "FILL"} => src[d.leg] # "open"
  <2>1. CASE d = e
    BY <1>0, <1>1, <1>2, <1>3, <1>6, <2>1
  <2>2. CASE Pushed(d)
    <3>1. /\ src[EntryOf(d.leg)] # "none"
          /\ d.kind = "MODIFY" => d.n <= srcVer[d.leg]
          /\ d.kind \in {"CANCEL", "FILL"} => src[d.leg] # "open"
      BY <2>2 DEF OrderInv, SourceTold
    <3>2. ASSUME d.kind = "MODIFY" PROVE d.n <= srcVer'[d.leg]
      <4>1. CASE d.leg = l
        BY <1>1, <1>3, <1>4, <2>2, <3>2, <4>1
      <4>2. CASE d.leg # l
        BY <1>0, <1>3, <3>1, <3>2, <4>2, EventForms
      <4>3. QED
        BY <4>1, <4>2
    <3>3. QED
      BY <3>1, <3>2
  <2>3. QED
    BY <1>10, <1>11, <2>1, <2>2
<1>12. ASSUME NEW k \in Leg
       PROVE  /\ src[k] = "cancelled" => Pushed(CancelOf(k))'
              /\ srcVer'[k] > 0 => Pushed(ModifyTo(k, srcVer[k]))'
              /\ src[k] # "none" => src[EntryOf(k)] # "none" /\ Pushed(NewOf(k[1]))'
              /\ src[k] = "dropped" => k \in ExitLeg
  <2>1. /\ src[k] = "cancelled" => Pushed(CancelOf(k))
        /\ srcVer[k] > 0 => Pushed(ModifyTo(k, srcVer[k]))
        /\ src[k] # "none" => src[EntryOf(k)] # "none" /\ Pushed(NewOf(k[1]))
        /\ src[k] = "dropped" => k \in ExitLeg
    BY DEF OrderInv, SourceTold
  <2>2. srcVer'[k] > 0 => Pushed(ModifyTo(k, srcVer[k]))'
    <3>1. ModifyTo(k, srcVer[k])' = ModifyTo(k, srcVer'[k])
      BY DEF ModifyTo
    <3>2. CASE k = l
      BY <1>3, <1>10, <3>1, <3>2 DEF e
    <3>3. CASE k # l
      BY <1>0, <1>3, <1>10, <2>1, <3>1, <3>3
    <3>4. QED
      BY <3>2, <3>3
  <2>3. QED
    BY <1>10, <2>1, <2>2 DEF CancelOf
<1>13. SourceTold'
  BY <1>3, <1>11, <1>12 DEF SourceTold
<1>14. ThreadsInOrder'
  BY <1>3 DEF OrderInv, ThreadsInOrder, Started, Finished, Running
<1>15. QED
  BY <1>9, <1>13, <1>14 DEF OrderInv

LEMMA Regroup ==
    ASSUME NEW p \in Seq(Event), NEW a \in Seq(Event),
           NEW b \in Seq(Event), NEW c \in Seq(Event)
    PROVE  p \o (a \o (b \o c)) = ((p \o a) \o b) \o c
<1> DEFINE d == p \o a
           f == b \o c
<1>1. d \in Seq(Event) /\ f \in Seq(Event)
  OBVIOUS
<1>2. (p \o a) \o f = p \o (a \o f)
  <2> HIDE DEF f
  <2>1. QED
    BY <1>1, ConcatAssociative
<1>3. (d \o b) \o c = d \o (b \o c)
  <2> HIDE DEF d
  <2>1. QED
    BY <1>1, ConcatAssociative
<1>4. QED
  BY <1>2, <1>3

(* A leg ends at the source, and the strategy ends its exits with it. *)
LEMMA Ending ==
    ASSUME PushInv, OrderInv, NEW l \in Leg, src[l] = "open",
           NEW how \in {"cancelled", "dropped", "filled"}, NEW kind,
           \A k : Drags(l, how, k) <=> Drags(l, kind, k),
           NEW e, e \in {CancelOf(l), FillOf(l)},
           NEW r, r \in {<<>>, <<e>>},
           how = "cancelled" => r = <<CancelOf(l)>>,
           how = "dropped" => l \in ExitLeg,
           src' = SourceEnded(l, how),
           inbox' = inbox \o (r \o DragReports(l, kind)),
           UNCHANGED <<task, srcVer>>
    PROVE  OrderInv'
<1> DEFINE tp == <<l[1], "LMT">>
           sl == <<l[1], "STP">>
           rep(k) == IF Drags(l, kind, k) THEN CancelReport(k) ELSE <<>>
           q1 == inbox \o r
           q2 == q1 \o rep(tp)
           q3 == q2 \o rep(sl)
<1>0. /\ inbox \in Seq(Event) /\ QueueOK(inbox)
      /\ src \in [Leg -> {"none", "open", "cancelled", "dropped", "filled"}]
      /\ e \in Event /\ e.leg = l /\ e.kind \in {"CANCEL", "FILL"}
      /\ Pushed(NewOf(l[1]))
  <2>1. e \in Event /\ e.leg = l /\ e.kind \in {"CANCEL", "FILL"}
    <3>1. CASE e = CancelOf(l)
      BY <3>1, ReportForms DEF CancelOf
    <3>2. CASE e = FillOf(l)
      BY <3>2, ReportForms DEF FillOf
    <3>3. QED
      BY <3>1, <3>2
  <2>2. QED
    BY <2>1 DEF PushInv, PushTyped, OrderInv, SourceTold
<1>1. ASSUME NEW k, Drags(l, kind, k)
      PROVE  /\ k \in Leg /\ k \in ExitLeg /\ k # l /\ src[k] = "open"
             /\ k[1] = l[1] /\ k \in {tp, sl}
             /\ CancelOf(k) \in Event /\ CancelOf(k).leg = k
             /\ CancelOf(k).kind = "CANCEL"
  BY <1>1, DragForms, ReportForms DEF Drags, CancelOf, Exits
<1>2. \A d \in Event : d.kind \in {"CANCEL", "FILL"} /\ src[d.leg] = "open" =>
         ~Started(d) /\ ~Queued(inbox, d)
  BY DEF OrderInv, SourceTold, Pushed
<1>3. \A k : rep(k) \in {<<>>, <<CancelOf(k)>>}
  BY DEF CancelReport
<1>4. /\ q1 \in Seq(Event) /\ QueueOK(q1)
      /\ \A d : Queued(q1, d) <=> Queued(inbox, d) \/ (r # <<>> /\ d = e)
  BY <1>0, <1>2, EnqueueReport DEF Pushed
<1> HIDE DEF q1
<1>5. /\ q2 \in Seq(Event) /\ QueueOK(q2)
      /\ \A d : Queued(q2, d) <=>
            Queued(q1, d) \/ (rep(tp) # <<>> /\ d = CancelOf(tp))
  <2>1. CASE Drags(l, kind, tp)
    <3>1. ~Started(CancelOf(tp)) /\ ~Queued(q1, CancelOf(tp))
      BY <1>0, <1>1, <1>2, <1>4, <2>1
    <3>2. Started(NewOf(tp[1])) \/ Queued(q1, NewOf(tp[1]))
      BY <1>0, <1>4 DEF Pushed
    <3>3. CancelOf(tp) \in Event /\ CancelOf(tp).leg = tp /\ CancelOf(tp).kind = "CANCEL"
      BY <1>1, <2>1
    <3>4. rep(tp) \in {<<>>, <<CancelOf(tp)>>}
      BY <1>3
    <3> HIDE DEF rep, tp
    <3>5. QED
      BY <1>4, <3>1, <3>2, <3>3, <3>4, EnqueueReport
  <2>2. CASE ~Drags(l, kind, tp)
    <3>1. rep(tp) = <<>>
      BY <2>2
    <3> HIDE DEF rep, tp
    <3>2. q2 = q1
      BY <1>4, <3>1
    <3>3. QED
      BY <1>4, <3>1, <3>2
  <2>3. QED
    BY <2>1, <2>2
<1> HIDE DEF q2
<1>6. /\ q3 \in Seq(Event) /\ QueueOK(q3)
      /\ \A d : Queued(q3, d) <=>
            Queued(q2, d) \/ (rep(sl) # <<>> /\ d = CancelOf(sl))
  <2>1. CASE Drags(l, kind, sl)
    <3>1. ~Started(CancelOf(sl)) /\ ~Queued(q2, CancelOf(sl))
      <4>1. CancelOf(sl) # CancelOf(tp)
        BY DEF CancelOf
      <4>2. QED
        BY <1>0, <1>1, <1>2, <1>4, <1>5, <2>1, <4>1
    <3>2. Started(NewOf(sl[1])) \/ Queued(q2, NewOf(sl[1]))
      BY <1>0, <1>4, <1>5 DEF Pushed
    <3>3. CancelOf(sl) \in Event /\ CancelOf(sl).leg = sl /\ CancelOf(sl).kind = "CANCEL"
      BY <1>1, <2>1
    <3>4. rep(sl) \in {<<>>, <<CancelOf(sl)>>}
      BY <1>3
    <3> HIDE DEF rep, sl
    <3>5. QED
      BY <1>5, <3>1, <3>2, <3>3, <3>4, EnqueueReport
  <2>2. CASE ~Drags(l, kind, sl)
    <3>1. rep(sl) = <<>>
      BY <2>2
    <3> HIDE DEF rep, sl
    <3>2. q3 = q2
      BY <1>5, <3>1
    <3>3. QED
      BY <1>5, <3>1, <3>2
  <2>3. QED
    BY <2>1, <2>2
<1>7. inbox' = q3
  <2>1. DragReports(l, kind) = rep(tp) \o rep(sl)
    BY DEF DragReports
  <2>2. r \in Seq(Event)
    <3>1. <<e>> \in Seq(Event) /\ <<>> \in Seq(Event)
      BY <1>0
    <3>2. QED
      BY <3>1
  <2>3. ASSUME NEW k PROVE rep(k) \in Seq(Event)
    <3>1. CASE Drags(l, kind, k)
      <4>1. CancelOf(k) \in Event
        BY <1>1, <3>1
      <4>2. <<CancelOf(k)>> \in Seq(Event) /\ <<>> \in Seq(Event)
        BY <4>1
      <4>3. QED
        BY <1>3, <4>2
    <3>2. CASE ~Drags(l, kind, k)
      BY <3>2
    <3>3. QED
      BY <3>1, <3>2
  <2>4. rep(tp) \in Seq(Event) /\ rep(sl) \in Seq(Event)
    BY <2>3
  <2> HIDE DEF rep, tp, sl
  <2>5. inbox \o (r \o (rep(tp) \o rep(sl))) = ((inbox \o r) \o rep(tp)) \o rep(sl)
    <3>1. \A p, a, b, c \in Seq(Event) :
             p \o (a \o (b \o c)) = ((p \o a) \o b) \o c
      BY Regroup
    <3>2. inbox \in Seq(Event)
      BY <1>0
    <3> DEFINE x == rep(tp)
               y == rep(sl)
    <3>3. x \in Seq(Event) /\ y \in Seq(Event)
      BY <2>4
    <3> HIDE DEF x, y
    <3>4. inbox \o (r \o (x \o y)) = ((inbox \o r) \o x) \o y
      <4>1. \A a, b, c \in Seq(Event) :
               inbox \o (a \o (b \o c)) = ((inbox \o a) \o b) \o c
        BY <3>1, <3>2, Zenon
      <4>2. \A b, c \in Seq(Event) :
               inbox \o (r \o (b \o c)) = ((inbox \o r) \o b) \o c
        BY <2>2, <4>1, Zenon
      <4>3. QED
        BY <3>3, <4>2, Zenon
    <3>5. QED
      BY <3>4 DEF x, y
  <2>6. QED
    BY <2>1, <2>5 DEF q3, q2, q1
<1> HIDE DEF q3
<1>8. \A d : Pushed(d)' <=> \/ Pushed(d) \/ (r # <<>> /\ d = e)
                            \/ \E k \in {tp, sl} : rep(k) # <<>> /\ d = CancelOf(k)
  <2>1. \A d : Queued(inbox', d) <=>
                  \/ Queued(inbox, d) \/ (r # <<>> /\ d = e)
                  \/ \E k \in {tp, sl} : rep(k) # <<>> /\ d = CancelOf(k)
    <3> HIDE DEF rep, tp, sl
    <3>1. QED
      BY <1>4, <1>5, <1>6, <1>7
  <2>2. \A d : Pushed(d)' <=> Started(d) \/ Queued(inbox', d)
    BY DEF Pushed, Started, Queued
  <2> HIDE DEF rep, tp, sl
  <2>3. QED
    BY <2>1, <2>2 DEF Pushed
<1>9. QueueOK(inbox)'
  BY <1>6, <1>7 DEF QueueOK, Started
<1>10. \A k \in Leg : src'[k] = IF k = l THEN how
                               ELSE IF Drags(l, kind, k) THEN Dropped(k) ELSE src[k]
  BY DEF SourceEnded
<1>11. \A k \in Leg : /\ src'[k] = "open" => src[k] = "open" /\ k # l
                                               /\ ~Drags(l, kind, k)
                      /\ src'[k] = "none" <=> src[k] = "none"
  BY <1>1, <1>10 DEF Dropped
<1>12. ASSUME NEW d \in Event, Pushed(d)'
       PROVE  /\ src'[EntryOf(d.leg)] # "none"
              /\ d.kind = "MODIFY" => d.n <= srcVer[d.leg]
              /\ d.kind \in {"CANCEL", "FILL"} => src'[d.leg] # "open"
  <2>1. d.leg \in Leg /\ EntryOf(d.leg) \in Leg
    BY EventForms, LegForms, LegOrder DEF EntryOf
  <2>2. CASE Pushed(d)
    BY <1>11, <2>1, <2>2 DEF OrderInv, SourceTold
  <2>3. CASE d = e
    BY <1>0, <1>11, <2>1, <2>3 DEF OrderInv, SourceTold
  <2>4. ASSUME NEW k \in {tp, sl}, rep(k) # <<>>, d = CancelOf(k)
        PROVE  /\ src'[EntryOf(d.leg)] # "none" /\ d.kind = "CANCEL"
               /\ src'[d.leg] # "open"
    <3>1. Drags(l, kind, k)
      BY <2>4
    <3>2. k \in Leg /\ src[k] = "open" /\ d.leg = k /\ d.kind = "CANCEL"
      BY <1>1, <2>4, <3>1
    <3>3. src[EntryOf(k)] # "none"
      BY <3>2 DEF OrderInv, SourceTold
    <3>4. QED
      BY <1>11, <2>1, <3>1, <3>2, <3>3
  <2>5. QED
    BY <1>8, <1>12, <2>2, <2>3, <2>4
<1>13. ASSUME NEW k \in Leg
       PROVE  /\ src'[k] = "cancelled" => Pushed(CancelOf(k))'
              /\ srcVer[k] > 0 => Pushed(ModifyTo(k, srcVer[k]))'
              /\ src'[k] # "none" => src'[EntryOf(k)] # "none" /\ Pushed(NewOf(k[1]))'
              /\ src'[k] = "dropped" => k \in ExitLeg
  <2>1. /\ src[k] = "cancelled" => Pushed(CancelOf(k))
        /\ srcVer[k] > 0 => Pushed(ModifyTo(k, srcVer[k]))
        /\ src[k] # "none" => src[EntryOf(k)] # "none" /\ Pushed(NewOf(k[1]))
        /\ src[k] = "dropped" => k \in ExitLeg
    BY DEF OrderInv, SourceTold
  <2>2. EntryOf(k) \in Leg
    BY LegForms, LegOrder DEF EntryOf
  <2>3. ASSUME src'[k] = "cancelled" PROVE Pushed(CancelOf(k))'
    <3>1. CASE k = l
      <4>1. r = <<CancelOf(l)>> /\ r = <<e>>
        BY <1>10, <2>3, <3>1
      <4>2. e = CancelOf(l) /\ r # <<>>
        BY <4>1
      <4>3. QED
        BY <1>8, <3>1, <4>2
    <3>2. CASE k # l /\ Drags(l, kind, k)
      <4>1. Dropped(k) = "cancelled" /\ k \in {tp, sl}
        BY <1>1, <1>10, <2>3, <3>2
      <4>2. rep(k) = <<CancelOf(k)>>
        BY <3>2, <4>1 DEF Dropped, CancelReport
      <4>3. rep(k) # <<>>
        <5> HIDE DEF rep
        <5>1. QED
          BY <4>2
      <4>4. QED
        BY <1>8, <4>1, <4>3
    <3>3. CASE k # l /\ ~Drags(l, kind, k)
      BY <1>8, <1>10, <2>1, <2>3, <3>3
    <3>4. QED
      BY <3>1, <3>2, <3>3
  <2>4. src'[k] = "dropped" => k \in ExitLeg
    BY <1>1, <1>10, <2>1
  <2>5. QED
    BY <1>8, <1>11, <2>1, <2>2, <2>3, <2>4
<1>14. SourceTold'
  BY <1>12, <1>13 DEF SourceTold, ModifyTo, CancelOf, NewOf
<1>15. ThreadsInOrder'
  BY DEF OrderInv, ThreadsInOrder, Started, Finished, Running
<1>16. QED
  BY <1>9, <1>14, <1>15 DEF OrderInv

LEMMA LegEnds ==
    ASSUME PushInv, OrderInv, NEW l \in Leg, SourceCancel(l) \/ SourceFill(l)
    PROVE  OrderInv'
<1>1. CASE SourceCancel(l)
  <2>1. /\ src[l] = "open" /\ src' = SourceEnded(l, Dropped(l))
        /\ inbox' = inbox \o (CancelReport(l) \o DragReports(l, "cancelled"))
        /\ UNCHANGED <<task, srcVer>>
    BY <1>1 DEF SourceCancel, Push, replicatorVars
  <2>2. /\ Dropped(l) \in {"cancelled", "dropped"}
        /\ \A k : Drags(l, Dropped(l), k) <=> Drags(l, "cancelled", k)
        /\ CancelReport(l) \in {<<>>, <<CancelOf(l)>>}
        /\ Dropped(l) = "cancelled" => CancelReport(l) = <<CancelOf(l)>>
        /\ Dropped(l) = "dropped" => l \in ExitLeg
    BY DEF Dropped, Drags, CancelReport, AtExchange
  <2>3. QED
    BY <2>1, <2>2, Ending
<1>2. CASE SourceFill(l)
  BY <1>2, Ending DEF SourceFill, Push, replicatorVars
<1>3. QED
  BY <1>1, <1>2

(* The listener takes the next event. *)
LEMMA NextEvent ==
    ASSUME PushInv, OrderInv, Listen
    PROVE  OrderInv'
<1> DEFINE e == Head(inbox)
<1>0. /\ inbox \in Seq(Event) /\ QueueOK(inbox) /\ inbox # <<>>
      /\ Running = {} /\ inbox' = Tail(inbox) /\ task' = Starting({e})
      /\ src' = src /\ srcVer' = srcVer
  BY DEF PushInv, PushTyped, OrderInv, Listen, sourceVars
<1>1. /\ e \in Event /\ e = inbox[1] /\ Len(inbox) \in Nat /\ Len(inbox) >= 1
      /\ DOMAIN inbox = 1 .. Len(inbox)
      /\ Tail(inbox) \in Seq(Event) /\ DOMAIN Tail(inbox) = 1 .. Len(inbox) - 1
      /\ \A i \in DOMAIN Tail(inbox) : /\ i + 1 \in DOMAIN inbox
                                       /\ Tail(inbox)[i] = inbox[i + 1]
  BY <1>0
<1> HIDE DEF e
<1>2. \A d \in Event : /\ Started(d)' <=> Started(d) \/ d = e
                       /\ Finished(d)' <=> Started(d) /\ d # e
  <2>1. \A d \in Event : d # e => task'[d] = task[d]
    BY <1>0 DEF Starting
  <2>2. task'[e] = Thread(FirstPc(e), NoId, NoId, <<>>, "none")
    BY <1>0, <1>1 DEF Starting
  <2>3. task'[e].pc \notin {"idle", "done"}
    <3>1. FirstPc(e) \in {"place", "reserve", "label", "lookup"}
      BY <1>1, StartForms
    <3>2. task'[e].pc = FirstPc(e)
      BY <2>2 DEF Thread
    <3>3. QED
      BY <3>1, <3>2
  <2>4. ~Started(e)
    BY <1>0, <1>1 DEF QueueOK
  <2>5. QED
    BY <1>0, <2>1, <2>3, <2>4 DEF Started, Finished, Running
<1>3. \A d : Queued(inbox, d) <=> d = e \/ Queued(Tail(inbox), d)
  <2>1. ASSUME NEW d, Queued(inbox, d), d # e PROVE Queued(Tail(inbox), d)
    <3>1. PICK i \in DOMAIN inbox : inbox[i] = d
      BY <2>1 DEF Queued
    <3>2. i - 1 \in DOMAIN Tail(inbox) /\ Tail(inbox)[i - 1] = d
      BY <1>1, <2>1, <3>1
    <3>3. QED
      BY <3>2 DEF Queued
  <2>2. QED
    BY <1>1, <2>1 DEF Queued
<1>4. \A d \in Event : Pushed(d)' <=> Pushed(d)
  <2>1. \A d \in Event : Pushed(d)' <=> Started(d)' \/ Queued(Tail(inbox), d)
    BY <1>0 DEF Pushed, Queued
  <2>2. QED
    BY <1>2, <1>3, <2>1 DEF Pushed
<1>5. QueueOK(inbox)'
  <2> DEFINE q == Tail(inbox)
  <2>1. \A i \in DOMAIN q : q[i] # e /\ q[i] \in Event /\ ~Started(q[i])
    BY <1>0, <1>1 DEF QueueOK
  <2>2. \A i \in DOMAIN q : task'[q[i]].pc = "idle"
    BY <1>2, <2>1 DEF Started
  <2>3. \A i, j \in DOMAIN q : q[i] = q[j] => i = j
    BY <1>0, <1>1 DEF QueueOK
  <2>4. ASSUME NEW i \in DOMAIN q
        PROVE  \/ task'[NewOf(q[i].leg[1])].pc # "idle"
               \/ \E j \in 1 .. i : q[j] = NewOf(q[i].leg[1])
    <3> DEFINE new == NewOf(q[i].leg[1])
    <3>1. new \in Event
      BY <2>1, EventForms, LegOrder, NewForms
    <3>2. Started(new) \/ \E j \in 1 .. i + 1 : inbox[j] = new
      BY <1>0, <1>1, <2>4 DEF QueueOK
    <3>3. ASSUME NEW j \in 1 .. i + 1, inbox[j] = new, j # 1
          PROVE  \E k \in 1 .. i : q[k] = new
      <4>1. j - 1 \in 1 .. i /\ q[j - 1] = inbox[j]
        BY <1>1, <2>4, <3>3
      <4>2. QED
        BY <3>3, <4>1
    <3>4. CASE \E j \in 1 .. i + 1 : inbox[j] = new /\ j # 1
      BY <3>3, <3>4
    <3>5. CASE Started(new) \/ inbox[1] = new
      BY <1>1, <1>2, <3>1, <3>5 DEF Started
    <3>6. QED
      BY <3>2, <3>4, <3>5
  <2>5. \A i, j \in DOMAIN q : i < j => Before(q[i], q[j])
    BY <1>0, <1>1 DEF QueueOK
  <2>6. ASSUME NEW i \in DOMAIN q, NEW d \in Event, Started(d)'
        PROVE  Before(d, q[i])
    <3>1. i + 1 \in DOMAIN inbox /\ q[i] = inbox[i + 1] /\ 1 \in DOMAIN inbox /\ 1 < i + 1
      BY <1>1
    <3>2. CASE d = e
      BY <1>0, <1>1, <3>1, <3>2 DEF QueueOK
    <3>3. CASE Started(d)
      BY <1>0, <3>1, <3>3 DEF QueueOK
    <3>4. QED
      BY <1>2, <2>6, <3>2, <3>3
  <2>7. inbox' = q
    BY <1>0
  <2> HIDE DEF q
  <2>8. QED
    BY <2>2, <2>3, <2>4, <2>5, <2>6, <2>7 DEF QueueOK, Started
<1>6. SourceTold'
  <2>1. \A l \in Leg : CancelOf(l) \in Event /\ NewOf(l[1]) \in Event
    BY ReportForms, NewForms, LegOrder
  <2>2. \A l \in Leg : srcVer[l] > 0 => ModifyTo(l, srcVer[l]) \in Event
    BY ReportForms DEF PushInv, PushTyped, ModifyTo
  <2>3. QED
    BY <1>0, <1>4, <2>1, <2>2 DEF OrderInv, SourceTold, ModifyTo
<1>7. ThreadsInOrder'
  <2>1. ASSUME NEW d \in Event, Started(d)', d.kind # "NEW"
        PROVE  Finished(NewOf(d.leg[1]))'
    <3> DEFINE new == NewOf(d.leg[1])
    <3>1. new \in Event /\ new.kind = "NEW"
      BY EventForms, LegOrder, NewForms DEF NewOf
    <3>2. Started(new)
      <4>1. CASE d = e
        <5>1. Started(new) \/ inbox[1] = new
          BY <1>0, <1>1, <4>1 DEF QueueOK
        <5>2. QED
          BY <1>1, <2>1, <3>1, <4>1, <5>1
      <4>2. CASE Started(d)
        BY <2>1, <4>2 DEF OrderInv, ThreadsInOrder, Finished, Started
      <4>3. QED
        BY <1>2, <2>1, <4>1, <4>2
    <3>3. new # e
      BY <1>0, <1>1, <3>2 DEF QueueOK
    <3>4. QED
      BY <1>2, <3>1, <3>2, <3>3
  <2>2. ASSUME NEW d \in Event, NEW f \in Event, f \in Running', Started(d)'
        PROVE  d = f \/ Before(d, f)
    <3>1. f = e
      BY <1>2, <2>2 DEF Running
    <3>2. QED
      BY <1>0, <1>1, <1>2, <2>2, <3>1 DEF QueueOK
  <2>3. QED
    BY <2>1, <2>2 DEF ThreadsInOrder, Running
<1>8. QED
  BY <1>5, <1>6, <1>7 DEF OrderInv

(* Nothing else starts a thread or pushes an event. *)
LEMMA OrderKept ==
    ASSUME PushInv, OrderInv, UNCHANGED <<src, srcVer, inbox>>,
           \A e \in Event : /\ Started(e)' <=> Started(e)
                            /\ Finished(e) => Finished(e)'
    PROVE  OrderInv'
<1>1. \A d \in Event : Pushed(d)' <=> Pushed(d)
  BY DEF Pushed, Queued
<1>2. Running' \subseteq Running
  BY DEF Running
<1>3. \A l \in Leg : CancelOf(l) \in Event /\ NewOf(l[1]) \in Event
  BY ReportForms, NewForms, LegOrder
<1>4. QueueOK(inbox)'
  <2>1. \A i \in DOMAIN inbox : inbox[i] \in Event
    BY DEF PushInv, PushTyped
  <2>2. \A i \in DOMAIN inbox : NewOf(inbox[i].leg[1]) \in Event
    BY <2>1, EventForms, LegOrder, NewForms
  <2>3. QED
    BY <2>1, <2>2 DEF OrderInv, QueueOK
<1>5. SourceTold'
  <2>1. \A l \in Leg : srcVer[l] > 0 => ModifyTo(l, srcVer[l]) \in Event
    BY ReportForms DEF PushInv, PushTyped, ModifyTo
  <2>2. QED
    BY <1>1, <1>3, <2>1 DEF OrderInv, SourceTold, ModifyTo
<1>6. ThreadsInOrder'
  <2>1. \A e \in Event : e.kind # "NEW" => NewOf(e.leg[1]) \in Event
    BY EventForms, LegOrder, NewForms
  <2>2. QED
    BY <1>2, <2>1 DEF OrderInv, ThreadsInOrder
<1>7. QED
  BY <1>4, <1>5, <1>6 DEF OrderInv

\* A crash that loses nothing hits the listener between two events, when the
\* file holds the map.
LEMMA QuietCrash ==
    ASSUME PushInv, Crash, ~missed'
    PROVE  /\ ~missed /\ inbox = <<>> /\ inbox' = inbox /\ disk = byCoid
           /\ \A e \in Event : task'[e] = task[e]
BY DEF Crash, Restart, Running, PushInv, PushTyped

LEMMA OrderStep ==
    ASSUME PushInv, OrderInv, Lossless', [Next]_vars
    PROVE  OrderInv'
<1>1. ASSUME NEW e \in Event, Replicate(e) PROVE OrderInv'
  <2>1. ReplicatorInv /\ Step(e) /\ UNCHANGED <<src, srcVer, inbox>>
    BY <1>1 DEF Replicate, PushInv, sourceVars
  <2>2. \A d \in Event : /\ Started(d)' <=> Started(d)
                         /\ Finished(d) => Finished(d)'
    <3>1. Started(e) /\ Started(e)' /\ ~Finished(e)
      BY <2>1, StepOwn, StepRuns DEF Running
    <3>2. \A d \in Event : d # e => task'[d] = task[d]
      BY <2>1, StepOwn
    <3>3. QED
      BY <3>1, <3>2 DEF Started, Finished
  <2>3. QED
    BY <2>1, <2>2, OrderKept
<1>2. CASE Crash
  <2>1. UNCHANGED <<src, srcVer, inbox>>
    BY <1>2, QuietCrash DEF Crash, Lossless
  <2>2. \A e \in Event : task'[e] = task[e]
    BY <1>2, QuietCrash DEF Lossless
  <2>3. QED
    BY <2>1, <2>2, OrderKept DEF Started, Finished
<1>3. ASSUME NEW l \in Leg, MarketFill(l) PROVE OrderInv'
  BY <1>3, OrderKept DEF MarketFill, sourceVars, Started, Finished
<1>4. CASE UNCHANGED vars
  BY <1>4, OrderKept DEF vars, replicatorVars, sourceVars, Started, Finished
<1>5. QED
  BY <1>1, <1>2, <1>3, <1>4, NewOrder, NewVersion, LegEnds, NextEvent DEF Next

-----------------------------------------------------------------------------
(* What the placements file in this direction: ids and source ids.         *)

\* The Tradovate source's orders go to IBKR, which groups the exits; every
\* leg's label is its own order id, and IBKR answers with all the ids.
PushDirection ==
    /\ RepliesInOrder /\ FullReplies
    /\ IdsInEvents /\ NativeOco /\ ~SyntheticLabels /\ Misnamed = {}

\* The record of leg l carries its source id, and the id leads to it.
Linked(l) ==
    LabelOf(l) = l /\ byCoid[l] # NoRecord /\ byCoid[l].ibkr_order_id = l

KeepsLinked(l) == Linked(l) => Linked(l)'

LEMMA OwnNames ==
    ASSUME PushDirection, NEW l \in Leg
    PROVE  PollLabel(l) = l /\ OwnLabels(l) = {l}
BY DEF PushDirection, PollLabel, OwnLabels

LEMMA MutateLinked ==
    ASSUME NEW l, NEW m, NEW idx, Mutate(m, idx), Linked(l),
           idx[l] = l, m[l] # NoRecord, m[l].ibkr_order_id = l
    PROVE  Linked(l)'
BY DEF Mutate, Linked, LabelOf

LEMMA AddPendingLinked ==
    ASSUME MapOK, NEW l \in Leg, NEW k \in MapLabel, AddPending(k)
    PROVE  KeepsLinked(l)
<1>1. CASE Known(k)
  BY <1>1 DEF AddPending, mapVars, KeepsLinked, Linked, LabelOf
<1>2. CASE ~Known(k)
  <2> DEFINE m == [byCoid EXCEPT ![k] = Fresh]
  <2>1. Mutate(m, coidByIbkr)
    BY <1>2 DEF AddPending
  <2>2. Linked(l) => m[l] = byCoid[l]
    BY <1>2, MapParts DEF Linked, Known
  <2> HIDE DEF m
  <2>3. QED
    BY <2>1, <2>2, MutateLinked DEF KeepsLinked, Linked, LabelOf
<1>3. QED
  BY <1>1, <1>2

LEMMA SetFollowerIdLinked ==
    ASSUME MapOK, NEW l \in Leg, NEW k \in Leg, SetFollowerId(k, k)
    PROVE  KeepsLinked(l)
<1> DEFINE r == [RecordOf(k) EXCEPT !.tradovate_id = k]
           m == [byCoid EXCEPT ![k] = r]
<1>1. /\ r.ibkr_order_id = RecordOf(k).ibkr_order_id /\ r # NoRecord
      /\ k \in MapLabel
  BY RecordOfOK, NoRecordAssumption, NamesAssumption, LegForms DEF Record
<1>2. Mutate(m, coidByIbkr)
  BY DEF SetFollowerId
<1> HIDE DEF r
<1>3. Linked(l) => m[l] # NoRecord /\ m[l].ibkr_order_id = l
  BY <1>1, MapParts, LegForms DEF Linked, RecordOf, Known
<1> HIDE DEF m
<1>4. QED
  BY <1>2, <1>3, MutateLinked DEF KeepsLinked, Linked, LabelOf

LEMMA BindSourceIdLinked ==
    ASSUME PushDirection, MapOK, NEW l \in Leg, NEW k \in Leg,
           BindSourceId(k, k)
    PROVE  KeepsLinked(l) /\ Linked(k)'
<1> DEFINE r == [RecordOf(k) EXCEPT !.ibkr_order_id = k]
           m == [byCoid EXCEPT ![k] = r]
           idx == [Released(k) EXCEPT ![k] = k]
<1>1. /\ r.ibkr_order_id = k /\ r # NoRecord /\ k \in MapLabel
      /\ RecordOf(k).ibkr_order_id \in {NoId, k}
  <2>1. k \in MapLabel /\ RecordOf(k) \in Record
    BY RecordOfOK, LegForms
  <2>2. RecordOf(k).ibkr_order_id \in Leg \cup {NoId}
    BY <2>1, NamesAssumption DEF Record
  <2>3. RecordOf(k).ibkr_order_id # NoId =>
           k \in OwnLabels(RecordOf(k).ibkr_order_id)
    BY <2>1, RecordOfOK
  <2>4. RecordOf(k).ibkr_order_id \in {NoId, k}
    BY <2>2, <2>3, OwnNames
  <2>5. QED
    BY <2>1, <2>4, NoRecordAssumption, NamesAssumption DEF Record
<1>2. Mutate(m, idx)
  BY DEF BindSourceId
<1>3. /\ idx[k] = k
      /\ l # k => idx[l] = LabelOf(l)
  BY <1>1, NoIdForms, NamesAssumption DEF Released, LabelOf
<1> HIDE DEF r
<1>4. /\ m[k] # NoRecord /\ m[k].ibkr_order_id = k
      /\ l # k => m[l] = byCoid[l]
  BY <1>1, MapParts, LegForms
<1>5. byCoid' = m /\ coidByIbkr' = idx
  BY <1>2 DEF Mutate
<1> HIDE DEF m, idx
<1>6. Linked(k)'
  BY <1>3, <1>4, <1>5 DEF Linked, LabelOf
<1>7. QED
  BY <1>3, <1>4, <1>5, <1>6 DEF KeepsLinked, Linked, LabelOf

LEMMA RemoveBySourceIdLinked ==
    ASSUME PushDirection, MapOK, NEW l \in Leg, NEW s \in Leg,
           RemoveBySourceId(s), l # s
    PROVE  KeepsLinked(l)
<1>1. CASE LabelOf(s) = NoId
  BY <1>1 DEF RemoveBySourceId, mapVars, KeepsLinked, Linked, LabelOf
<1>2. CASE LabelOf(s) # NoId
  <2> DEFINE m == [byCoid EXCEPT ![s] = NoRecord]
             idx == [coidByIbkr EXCEPT ![s] = NoId]
  <2>1. LabelOf(s) = s
    BY <1>2, MapParts, OwnNames
  <2>2. Mutate(m, idx)
    BY <1>2, <2>1 DEF RemoveBySourceId
  <2>3. m[l] = byCoid[l] /\ idx[l] = LabelOf(l)
    BY MapParts DEF LabelOf
  <2> HIDE DEF m, idx
  <2>4. QED
    BY <2>2, <2>3, MutateLinked DEF KeepsLinked, Linked
<1>3. QED
  BY <1>1, <1>2

(* A leg whose record holds both ids is found by its own id. *)
LEMMA LinkedFound ==
    ASSUME NEW l \in Leg, Filed(byCoid, l), Linked(l)
    PROVE  FollowerOf(l) # NoId
BY NoIdForms DEF Filed, Linked, FollowerOf, RecordOf, Known

\* The placement of leg l has yet to make this update of its record.
PendingOp(op, l) ==
    LET todo == task[NewOf(l[1])].todo
    IN  \E i \in DOMAIN todo : todo[i] = <<op, l, l>>

(* The placement's updates file both ids of every leg. *)
LEMMA RegistrationsComplete ==
    ASSUME IdsInEvents, NEW o \in Order, NEW l \in Leg, l[1] = o,
           NEW roles \in {<<>>, <<"LMT", "STP">>},
           o \in Bracket => roles # <<>>, NEW op \in {"set", "bind"}
    PROVE  LET todo == Registrations(Entry(o), roles)
           IN  \E i \in DOMAIN todo : todo[i] = <<op, l, l>>
<1> DEFINE N == Len(roles)
           legAt(i) == IF i = 0 THEN Entry(o) ELSE <<Entry(o)[1], roles[i]>>
           labelAt(i) == IF i = 0 THEN Entry(o)
                         ELSE <<Entry(o)[1], <<"LMT", "STP">>[i]>>
           set(i)  == <<"set", labelAt(i), legAt(i)>>
           bind(i) == <<"bind", labelAt(i), labelAt(i)>>
           ops == [k \in 1 .. 2 * (N + 1) |->
                     IF k % 2 = 1 THEN set((k - 1) \div 2) ELSE bind((k \div 2) - 1)]
<1>1. Registrations(Entry(o), roles) = ops
  BY DEF Registrations
<1>2. /\ labelAt(0) = <<o, "ENTRY">> /\ legAt(0) = <<o, "ENTRY">>
      /\ labelAt(1) = <<o, "LMT">> /\ labelAt(2) = <<o, "STP">>
      /\ roles # <<>> => legAt(1) = <<o, "LMT">> /\ legAt(2) = <<o, "STP">>
  BY DEF Entry
<1>3. \/ l = <<o, "ENTRY">>
      \/ o \in Bracket /\ (l = <<o, "LMT">> \/ l = <<o, "STP">>)
  BY LegForms DEF Entry
<1>4. N \in {0, 2} /\ (roles # <<>> => N = 2)
  OBVIOUS
<1> HIDE DEF N, labelAt, legAt
<1>5. /\ 1 \in DOMAIN ops /\ ops[1] = set(0)
      /\ 2 \in DOMAIN ops /\ ops[2] = bind(0)
      /\ N = 2 => /\ 3 \in DOMAIN ops /\ ops[3] = set(1)
                  /\ 4 \in DOMAIN ops /\ ops[4] = bind(1)
                  /\ 5 \in DOMAIN ops /\ ops[5] = set(2)
                  /\ 6 \in DOMAIN ops /\ ops[6] = bind(2)
  <2> HIDE DEF set, bind
  <2>1. QED
    BY <1>4
<1> HIDE DEF ops
<1>6. CASE l = <<o, "ENTRY">>
  BY <1>1, <1>2, <1>5, <1>6
<1>7. CASE o \in Bracket /\ l = <<o, "LMT">>
  BY <1>1, <1>2, <1>4, <1>5, <1>7
<1>8. CASE o \in Bracket /\ l = <<o, "STP">>
  BY <1>1, <1>2, <1>4, <1>5, <1>8
<1>9. QED
  BY <1>3, <1>6, <1>7, <1>8

-----------------------------------------------------------------------------
(* The placements' steps.                                                  *)

(* No step takes a placement back. *)
LEMMA StepPlaced ==
    ASSUME ReplicatorInv, NEW e \in Event, Step(e), NEW l \in Leg, Placed(l)
    PROVE  Placed(l)'
<1>0. task \in [Event -> ThreadRecord] /\ ThreadOK(e, task[e])
  BY DEF ReplicatorInv, ThreadsOK
<1>1. CASE e # NewOf(l[1])
  BY <1>1, StepOwn, LegOrder, NewForms DEF Placed
<1>2. CASE e = NewOf(l[1])
  <2>1. task[e].pc \notin {"idle", "reserve", "place"} /\ e.kind = "NEW"
    BY <1>2 DEF Placed, NewOf
  <2>2. task'[e].pc \notin {"idle", "reserve", "place"}
    BY <1>0, <2>1
       DEF Step, Reserve, PlaceOrder, PlaceBracket, EnterBatch, Register,
           ExitBatch, ResolveLabel, LookupCancel, CancelPrimary, RemovePrimary,
           LookupSibling, CancelSibling, RemoveSibling, LookupModify,
           ModifyFollower, ApplyFill, Goto, Return, At, Thread, ThreadOK,
           ThreadRecord
  <2>3. QED
    BY <1>2, <2>2 DEF Placed
<1>3. QED
  BY <1>1, <1>2

(* An update is pending from the placement until it is made. *)
LEMMA StepPending ==
    ASSUME ReplicatorInv, NEW e \in Event, Step(e), NEW l \in Leg, Placed(l),
           NEW op \in {"set", "bind"}, PendingOp(op, l)
    PROVE  \/ PendingOp(op, l)'
           \/ Register(e) /\ Head(task[e].todo) = <<op, l, l>>
<1> DEFINE th == task[e]
<1>0. task \in [Event -> ThreadRecord] /\ ThreadOK(e, th) /\ th \in ThreadRecord
  BY DEF ReplicatorInv, ThreadsOK
<1>1. CASE e # NewOf(l[1])
  BY <1>1, StepOwn, LegOrder, NewForms DEF PendingOp
<1>2. CASE e = NewOf(l[1])
  <2>1. th.pc \notin {"idle", "reserve", "place"} /\ e.kind = "NEW"
    BY <1>2 DEF Placed, NewOf
  <2>2. PICK i \in DOMAIN th.todo : th.todo[i] = <<op, l, l>>
    BY <1>2 DEF PendingOp
  <2>3. CASE EnterBatch(e)
    <3>1. task'[e].todo = th.todo
      BY <1>0, <2>3 DEF EnterBatch, Goto, ThreadRecord
    <3>2. QED
      BY <1>2, <2>2, <3>1 DEF PendingOp
  <2>4. CASE Register(e)
    <3>1. th.todo \in Seq(MapOp) /\ th.todo # <<>>
      BY <1>0, <2>4 DEF Register, ThreadRecord
    <3>2. CASE i = 1
      BY <2>2, <2>4, <3>1, <3>2
    <3>3. CASE i # 1
      <4>1. i \in 1 .. Len(th.todo) /\ Len(th.todo) \in Nat
        BY <3>1
      <4>2. /\ i - 1 \in DOMAIN Tail(th.todo) /\ Tail(th.todo)[i - 1] = th.todo[i]
            /\ Len(th.todo) # 1
        BY <3>1, <3>3, <4>1
      <4>3. task'[e].todo = Tail(th.todo)
        BY <1>0, <2>4, <4>2 DEF Register, ThreadRecord
      <4>4. QED
        BY <1>2, <2>2, <4>2, <4>3 DEF PendingOp
    <3>4. QED
      BY <3>2, <3>3
  <2>5. CASE ExitBatch(e)
    <3>1. th.todo = <<>>
      BY <2>5 DEF ExitBatch
    <3>2. QED
      BY <2>2, <3>1
  <2>6. QED
    BY <1>0, <2>1, <2>3, <2>4, <2>5
       DEF Step, Reserve, PlaceOrder, PlaceBracket, ResolveLabel, LookupCancel,
           CancelPrimary, RemovePrimary, LookupSibling, CancelSibling,
           RemoveSibling, LookupModify, ModifyFollower, ApplyFill, At, ThreadOK
<1>3. QED
  BY <1>1, <1>2

(* The step that places a leg has both its updates to make. *)
LEMMA StepPlaces ==
    ASSUME PushDirection, ReplicatorInv, NEW e \in Event, Step(e), faults' = 0,
           NEW l \in Leg, ~Placed(l), Placed(l)', NEW op \in {"set", "bind"}
    PROVE  PendingOp(op, l)'
<1> DEFINE o == e.leg[1]
           th == task[e]
<1>0. /\ task \in [Event -> ThreadRecord] /\ ThreadOK(e, th) /\ th \in ThreadRecord
      /\ IdsInEvents /\ FullReplies /\ faults \in Nat
  BY FaultAssumption
     DEF PushDirection, ReplicatorInv, ThreadsOK, FollowerOK
<1>1. e = NewOf(l[1]) /\ th.pc \in {"idle", "reserve", "place"}
  <2>1. e = NewOf(l[1])
    BY StepOwn, LegOrder, NewForms DEF Placed
  <2>2. QED
    BY <2>1 DEF Placed
<1>2. o = l[1] /\ o \in Order /\ e.leg = Entry(o) /\ e = NewOf(o) /\ e.kind = "NEW"
  BY <1>1, LegOrder DEF NewOf, Entry
<1>3. ASSUME NEW roles \in {<<>>, <<"LMT", "STP">>},
             o \in Bracket => roles # <<>>, NEW pc,
             task' = [task EXCEPT ![e].pc = pc,
                                  ![e].todo = Registrations(e.leg, roles)]
      PROVE  PendingOp(op, l)'
  <2>1. task'[e].todo = Registrations(Entry(o), roles)
    BY <1>0, <1>2, <1>3 DEF ThreadRecord
  <2>2. \E i \in DOMAIN task'[e].todo : task'[e].todo[i] = <<op, l, l>>
    <3> HIDE DEF o, th
    <3>1. LET todo == Registrations(Entry(o), roles)
          IN  \E i \in DOMAIN todo : todo[i] = <<op, l, l>>
      BY <1>0, <1>2, <1>3, RegistrationsComplete
    <3>2. QED
      BY <2>1, <3>1
  <2>3. QED
    BY <1>1, <2>2 DEF PendingOp
<1>4. CASE Reserve(e)
  <2>1. task'[e].pc = "place"
    BY <1>0, <1>4 DEF Reserve, Goto, ThreadRecord
  <2>2. QED
    BY <1>1, <2>1 DEF Placed
<1>5. CASE PlaceOrder(e)
  <2>1. PICK out \in {"ok", "fault"} :
           /\ Place({e.leg}, out)
           /\ IF Raised(out) THEN Return(e, out)
              ELSE task' = [task EXCEPT
                               ![e].pc = "register",
                               ![e].todo = Registrations(e.leg, <<>>)]
    BY <1>5 DEF PlaceOrder
  <2>2. out # "fault"
    BY <1>0, <2>1 DEF Place, Fault
  <2>3. o \notin Bracket
    BY <1>5, LegAssumption DEF PlaceOrder
  <2>4. QED
    BY <1>3, <2>1, <2>2, <2>3 DEF Raised
<1>6. CASE PlaceBracket(e)
  <2>1. PICK out \in {"ok", "fault"} :
           /\ Place(LegsOf(e.leg[1]), out)
           /\ IF Raised(out) THEN Return(e, out)
              ELSE \E roles \in ChildReplies :
                      task' = [task EXCEPT
                                  ![e].pc = "enter",
                                  ![e].todo = Registrations(e.leg, roles)]
    BY <1>6 DEF PlaceBracket
  <2>2. out # "fault"
    BY <1>0, <2>1 DEF Place, Fault
  <2>3. PICK roles \in ChildReplies :
           task' = [task EXCEPT ![e].pc = "enter",
                                ![e].todo = Registrations(e.leg, roles)]
    BY <2>1, <2>2 DEF Raised
  <2>4. roles = <<"LMT", "STP">> /\ roles # <<>>
    BY <1>0 DEF FullReplies
  <2>5. QED
    BY <1>3, <2>3, <2>4
<1>7. QED
  BY <1>0, <1>1, <1>2, <1>4, <1>5, <1>6
     DEF Step, EnterBatch, Register, ExitBatch, ResolveLabel, LookupCancel,
         CancelPrimary, RemovePrimary, LookupSibling, CancelSibling,
         RemoveSibling, LookupModify, ModifyFollower, ApplyFill, At, ThreadOK

\* Updates that are over were made: no placement ends with one to make.
DoneFiling == \A o \in Order : Finished(NewOf(o)) => task[NewOf(o)].todo = <<>>

LEMMA StepDoneFiling ==
    ASSUME ReplicatorInv, DoneFiling, NEW e \in Event, Step(e)
    PROVE  DoneFiling'
<1>0. ThreadOK(e, task[e]) /\ task \in [Event -> ThreadRecord]
  BY DEF ReplicatorInv, ThreadsOK
<1>1. task'[e].pc = "done" => task'[e].todo = <<>> \/ e.kind # "NEW"
  BY <1>0
     DEF Step, Reserve, PlaceOrder, PlaceBracket, EnterBatch, Register,
         ExitBatch, ResolveLabel, LookupCancel, CancelPrimary, RemovePrimary,
         LookupSibling, CancelSibling, RemoveSibling, LookupModify,
         ModifyFollower, ApplyFill, Goto, Return, At, Thread, ThreadOK,
         ThreadRecord
<1>2. ASSUME NEW o \in Order, Finished(NewOf(o))'
      PROVE  task'[NewOf(o)].todo = <<>>
  <2>1. CASE NewOf(o) = e
    BY <1>1, <1>2, <2>1 DEF Finished, NewOf
  <2>2. CASE NewOf(o) # e
    <3>1. task'[NewOf(o)] = task[NewOf(o)]
      BY <2>2, StepOwn, NewForms
    <3>2. QED
      BY <1>2, <3>1 DEF DoneFiling, Finished
  <2>3. QED
    BY <2>1, <2>2
<1>3. QED
  BY <1>2 DEF DoneFiling

-----------------------------------------------------------------------------
(* What was applied is in force at the follower.                           *)

\* The exits of a bracket live and go with its entry.
EntryLeads ==
    \A b \in Bracket : \A x \in Exits(b) :
        /\ fol[Entry(b)] = "none" => fol[x] = "none"
        /\ fol[Entry(b)] = "cancelled" => fol[x] # "open"

\* A native-OCO follower gets no cascade, and only a cancel removes a record.
NoCascade ==
    \A e \in Event :
        /\ task[e].pc \notin {"callsib", "removesib", "tidysib"}
        /\ task[e].pc = "remove" => e.kind = "CANCEL"

\* The map leads to every open order, but for the updates still to make.
OpenMapped ==
    \A l \in Leg : Placed(l) /\ fol[l] = "open" =>
        /\ PendingOp("set", l) \/ Filed(byCoid, l)
        /\ PendingOp("bind", l) \/ Linked(l)

CancelsApplied ==
    \A e \in Event :
        /\ e.kind = "CANCEL" /\ Started(e)
        /\ task[e].pc \notin {"label", "lookup", "call"}
        => fol[e.leg] # "open"

VersionsApplied ==
    /\ \A l \in Leg : folVer[l] <= srcVer[l]
    /\ \A e \in Event :
          /\ e.kind = "MODIFY" /\ Finished(e)
          /\ e.n = srcVer[e.leg] /\ fol[e.leg] = "open"
          => folVer[e.leg] = e.n

ApplyInv ==
    /\ PlacedThere /\ DonePlacements /\ DoneFiling /\ NoCascade
    /\ OpenMapped /\ EntryLeads /\ CancelsApplied /\ VersionsApplied

LEMMA AfterPlacement ==
    ASSUME OrderInv, NEW e \in Event, e.kind # "NEW", Started(e)
    PROVE  Finished(NewOf(e.leg[1])) /\ Placed(e.leg)
BY DEF OrderInv, ThreadsInOrder, Finished, Placed

(* An event that finds no follower order finds none that is open. *)
LEMMA NothingFound ==
    ASSUME PushInv, OrderInv, ApplyInv, NEW e \in Event, e.kind # "NEW",
           Started(e), FollowerOf(e.leg) = NoId
    PROVE  fol[e.leg] # "open"
<1>1. e.leg \in Leg /\ e.leg[1] \in Order /\ Placed(e.leg)
      /\ Finished(NewOf(e.leg[1]))
  BY EventForms, LegOrder, AfterPlacement
<1>2. task[NewOf(e.leg[1])].todo = <<>>
  BY <1>1 DEF ApplyInv, DoneFiling
<1>3. ~PendingOp("set", e.leg) /\ ~PendingOp("bind", e.leg)
  BY <1>2 DEF PendingOp
<1>4. ~Filed(byCoid, e.leg) \/ ~Linked(e.leg)
  BY <1>1, LinkedFound
<1>5. QED
  BY <1>1, <1>3, <1>4 DEF ApplyInv, OpenMapped

LEMMA StepPlain ==
    ASSUME PushDirection, ReplicatorInv, NoCascade, NEW e \in Event, Step(e)
    PROVE  NoCascade'
<1>0. /\ NativeOco /\ ThreadOK(e, task[e]) /\ task[e] \in ThreadRecord
      /\ task \in [Event -> ThreadRecord]
      /\ task[e].pc \notin {"callsib", "removesib", "tidysib"}
  BY DEF PushDirection, ReplicatorInv, ThreadsOK, NoCascade
<1>1. CASE LookupSibling(e)
  <2>1. Return(e, Uncascaded(e))
    BY <1>0, <1>1 DEF LookupSibling
  <2>2. task'[e].pc = "done"
    BY <1>0, <2>1 DEF Return, Thread
  <2>3. QED
    BY <2>2, StepOwn DEF NoCascade
<1>2. CASE CancelPrimary(e)
  <2>1. task'[e].pc \in {"done", "remove"} /\ e.kind = "CANCEL"
    BY <1>0, <1>2 DEF CancelPrimary, Return, Goto, Thread, ThreadRecord
  <2>2. QED
    BY <2>1, StepOwn DEF NoCascade
<1>3. CASE ~LookupSibling(e) /\ ~CancelPrimary(e)
  <2>1. task'[e].pc \notin {"callsib", "removesib", "tidysib", "remove"}
    BY <1>0, <1>3
       DEF Step, Reserve, PlaceOrder, PlaceBracket, EnterBatch, Register,
           ExitBatch, ResolveLabel, LookupCancel, RemovePrimary,
           CancelSibling, RemoveSibling, LookupModify,
           ModifyFollower, ApplyFill, Goto, Return, At, Thread, ThreadOK,
           ThreadRecord
  <2>2. QED
    BY <2>1, StepOwn DEF NoCascade
<1>4. QED
  BY <1>1, <1>2, <1>3

(* No step loses hold of an order that is open. *)
LEMMA StepHolds ==
    ASSUME PushDirection, PushInv, ApplyInv, NEW e \in Event, Step(e),
           NEW l \in Leg, fol[l] = "open"
    PROVE  KeepsFiled(l) /\ KeepsLinked(l)
<1>0. /\ MapOK /\ ThreadOK(e, task[e]) /\ task[e] \in ThreadRecord
      /\ e.leg \in Leg /\ e.leg \in MapLabel
      /\ task[e].pc \notin {"callsib", "removesib", "tidysib"}
  BY EventForms, LegForms
     DEF PushInv, ReplicatorInv, ThreadsOK, ApplyInv, NoCascade
<1>1. CASE Reserve(e)
  BY <1>0, <1>1, AddPendingFiled, AddPendingLinked DEF Reserve
<1>2. CASE Register(e)
  <2>1. task[e].todo # <<>> /\ task[e].todo \in Seq(MapOp)
    BY <1>0, <1>2 DEF Register, ThreadRecord
  <2>2. Head(task[e].todo) \in MapOp
    BY <2>1
  <2>3. PICK k \in Leg : Head(task[e].todo) \in {<<"set", k, k>>, <<"bind", k, k>>}
    BY <2>2 DEF MapOp
  <2>4. k \in MapLabel /\ (SetFollowerId(k, k) \/ BindSourceId(k, k))
    BY <1>2, <2>3, LegForms DEF Register
  <2>5. QED
    BY <1>0, <2>4, SetFollowerIdFiled, SetFollowerIdLinked, BindSourceIdFiled,
       BindSourceIdLinked
<1>3. CASE RemovePrimary(e)
  <2>1. e.kind = "CANCEL" /\ task[e].pc = "remove" /\ Started(e)
    BY <1>3 DEF RemovePrimary, At, ApplyInv, NoCascade, Started
  <2>2. l # e.leg
    BY <2>1 DEF ApplyInv, CancelsApplied
  <2>3. QED
    BY <1>0, <1>3, <2>2, RemoveBySourceIdFiled, RemoveBySourceIdLinked
       DEF RemovePrimary
<1>4. CASE LookupCancel(e)
  <2>1. ~SkipsCancel(task[e].label)
    BY DEF SkipsCancel, Synthetic, PushDirection
  <2>2. UNCHANGED mapVars
    BY <1>4, <2>1 DEF LookupCancel
  <2>3. QED
    BY <2>2, UnchangedFiled DEF mapVars, KeepsLinked, Linked, LabelOf
<1>5. CASE UNCHANGED <<byCoid, coidByIbkr>>
  BY <1>5, UnchangedFiled DEF KeepsLinked, Linked, LabelOf
<1>6. QED
  BY <1>0, <1>1, <1>2, <1>3, <1>4, <1>5
     DEF Step, PlaceOrder, PlaceBracket, EnterBatch, ExitBatch, BatchEnter,
         BatchExit, ResolveLabel, CancelPrimary, LookupSibling, CancelSibling,
         RemoveSibling, LookupModify, ModifyFollower, ApplyFill, mapVars

LEMMA StepMapped ==
    ASSUME PushDirection, PushInv, ApplyInv, faults' = 0,
           NEW e \in Event, Step(e)
    PROVE  OpenMapped'
<1> SUFFICES ASSUME NEW l \in Leg, Placed(l)', fol'[l] = "open"
             PROVE  /\ PendingOp("set", l)' \/ Filed(byCoid', l)
                    /\ PendingOp("bind", l)' \/ Linked(l)'
  BY DEF OpenMapped, Filed
<1>0. ReplicatorInv /\ MapOK
  BY DEF PushInv, ReplicatorInv
<1>1. CASE ~Placed(l)
  BY <1>0, <1>1, StepPlaces
<1>2. CASE Placed(l)
  <2>1. fol[l] = "open"
    BY <1>0, <1>2, StepReopens
  <2>2. KeepsFiled(l) /\ KeepsLinked(l)
    BY <2>1, StepHolds
  <2>3. /\ PendingOp("set", l) \/ Filed(byCoid, l)
        /\ PendingOp("bind", l) \/ Linked(l)
    BY <1>2, <2>1 DEF ApplyInv, OpenMapped
  <2>4. ASSUME PendingOp("set", l) PROVE PendingOp("set", l)' \/ Filed(byCoid', l)
    <3>1. \/ PendingOp("set", l)'
          \/ Register(e) /\ Head(task[e].todo) = <<"set", l, l>>
      BY <1>0, <1>2, <2>4, StepPending
    <3>2. ASSUME Register(e), Head(task[e].todo) = <<"set", l, l>>
          PROVE  Filed(byCoid', l)
      <4>1. SetFollowerId(l, l)
        BY <3>2 DEF Register
      <4>2. QED
        BY <1>0, <4>1, SetFollowerIdFiled
    <3>3. QED
      BY <3>1, <3>2
  <2>5. ASSUME PendingOp("bind", l) PROVE PendingOp("bind", l)' \/ Linked(l)'
    <3>1. \/ PendingOp("bind", l)'
          \/ Register(e) /\ Head(task[e].todo) = <<"bind", l, l>>
      BY <1>0, <1>2, <2>5, StepPending
    <3>2. ASSUME Register(e), Head(task[e].todo) = <<"bind", l, l>>
          PROVE  Linked(l)'
      <4>1. BindSourceId(l, l)
        BY <3>2 DEF Register
      <4>2. QED
        BY <1>0, <4>1, BindSourceIdLinked
    <3>3. QED
      BY <3>1, <3>2
  <2>6. QED
    BY <2>2, <2>3, <2>4, <2>5 DEF KeepsFiled, KeepsLinked
<1>3. QED
  BY <1>1, <1>2

(* An order that ends at the follower takes its exits with it or stays. *)
LEMMA EndedLeads ==
    ASSUME NativeOco, FollowerOK, EntryLeads, NEW l \in Leg, fol[l] = "open",
           NEW how \in {"cancelled", "filled"}, fol' = Ended(l, how)
    PROVE  EntryLeads'
<1> SUFFICES ASSUME NEW b \in Bracket, NEW x \in Exits(b)
             PROVE  /\ fol'[Entry(b)] = "none" => fol'[x] = "none"
                    /\ fol'[Entry(b)] = "cancelled" => fol'[x] # "open"
  BY DEF EntryLeads
<1>1. /\ Entry(b) \in Leg /\ Entry(b) \notin ExitLeg /\ Entry(b)[1] = b
      /\ x \in Leg /\ x \in ExitLeg /\ x # Entry(b)
  <2>1. b \in Order /\ x \in {<<b, "LMT">>, <<b, "STP">>}
    BY DEF Order, Exits
  <2>2. Entry(b) \notin ExitLeg
    BY LegForms DEF Entry
  <2>3. QED
    BY <2>1, <2>2, LegForms DEF Entry
<1>2. Entry(b) \notin Dragged(l, how)
  <2>1. l \in ExitLeg => Sibling(l) \in ExitLeg
    BY SiblingForms
  <2>2. l[1] \in Bracket => Exits(l[1]) \subseteq ExitLeg
    BY LegForms DEF Exits
  <2>3. QED
    BY <1>1, <2>1, <2>2 DEF Dragged
<1>3. fol'[Entry(b)] = IF Entry(b) = l THEN how ELSE fol[Entry(b)]
  BY <1>1, <1>2 DEF Ended
<1>4. fol'[x] = "open" => fol[x] = "open" /\ x # l /\ x \notin Dragged(l, how)
  BY <1>1 DEF Ended
<1>5. fol[x] = "none" => fol'[x] = "none"
  BY <1>1 DEF Ended
<1>6. fol[Entry(b)] = "none" => fol[x] = "none"
  BY DEF EntryLeads
<1>7. fol[Entry(b)] = "cancelled" => fol[x] # "open"
  BY DEF EntryLeads
<1>8. CASE Entry(b) = l
  <2>1. how = "cancelled" => x \in Dragged(l, how)
    BY <1>1, <1>8 DEF Dragged
  <2>2. QED
    BY <1>3, <1>4, <1>8, <2>1
<1>9. CASE Entry(b) # l
  BY <1>3, <1>4, <1>5, <1>6, <1>7, <1>9
<1>10. QED
  BY <1>8, <1>9

LEMMA StepLeads ==
    ASSUME PushDirection, ReplicatorInv, NoCascade, EntryLeads, faults' = 0,
           NEW e \in Event, Step(e)
    PROVE  EntryLeads'
<1>0. /\ FollowerOK /\ ThreadOK(e, task[e]) /\ NativeOco /\ e.leg \in Leg
      /\ task[e].pc \notin {"callsib", "removesib", "tidysib"}
      /\ faults \in Nat
  BY EventForms, FaultAssumption
     DEF PushDirection, ReplicatorInv, ThreadsOK, NoCascade, FollowerOK
<1>1. CASE CancelPrimary(e)
  <2>1. task[e].fid = e.leg
    BY <1>0, <1>1 DEF CancelPrimary, At, ThreadOK
  <2>2. PICK out \in {"ok", "notfound", "fault"} : CancelAt(e.leg, out)
    BY <1>1, <2>1 DEF CancelPrimary
  <2>3. out # "fault"
    BY <1>0, <2>2 DEF CancelAt, Fault
  <2>4. \/ fol' = fol
        \/ fol[e.leg] = "open" /\ fol' = Ended(e.leg, "cancelled")
    BY <2>2, <2>3 DEF CancelAt
  <2>5. QED
    BY <1>0, <2>4, EndedLeads DEF EntryLeads
<1>2. CASE PlaceOrder(e) \/ PlaceBracket(e)
  <2>1. e = NewOf(e.leg[1]) /\ e.leg[1] \in Order /\ e.leg = Entry(e.leg[1])
    BY <1>0, <1>2, NewEvent, EventForms
       DEF PlaceOrder, PlaceBracket, At, ThreadOK
  <2>2. PICK legs \in {{e.leg}, LegsOf(e.leg[1])}, out \in {"ok", "fault"} :
           /\ Place(legs, out)
           /\ \/ legs = LegsOf(e.leg[1])
              \/ legs = {e.leg} /\ e.leg[1] \in Single
    <3>1. CASE PlaceOrder(e)
      BY <3>1 DEF PlaceOrder
    <3>2. CASE PlaceBracket(e)
      BY <3>2 DEF PlaceBracket
    <3>3. QED
      BY <1>2, <3>1, <3>2
  <2>3. out # "fault"
    BY <1>0, <2>2 DEF Place, Fault
  <2>4. fol' = [leg \in Leg |-> IF leg \in legs THEN "open" ELSE fol[leg]]
    BY <2>2, <2>3 DEF Place
  <2>5. ASSUME NEW b \in Bracket, NEW x \in Exits(b)
        PROVE  /\ fol'[Entry(b)] = "none" => fol'[x] = "none"
               /\ fol'[Entry(b)] = "cancelled" => fol'[x] # "open"
    <3>1. b \in Order /\ Entry(b) \in Leg /\ x \in Leg /\ x[1] = b /\ Entry(b)[1] = b
      BY LegForms DEF Order, Exits, Entry
    <3>2. Entry(b) \in legs <=> b = e.leg[1]
      BY <2>1, <2>2, <3>1, LegAssumption DEF LegsOf, Exits, Entry
    <3>3. x \in legs => b = e.leg[1]
      BY <2>1, <2>2, <3>1, LegAssumption DEF LegsOf, Exits, Entry
    <3>4. QED
      BY <2>4, <3>1, <3>2, <3>3 DEF EntryLeads
  <2>6. QED
    BY <2>5 DEF EntryLeads
<1>3. CASE UNCHANGED fol
  BY <1>3 DEF EntryLeads
<1>4. QED
  BY <1>0, <1>1, <1>2, <1>3
     DEF Step, Reserve, EnterBatch, Register, ExitBatch, ResolveLabel,
         LookupCancel, RemovePrimary, LookupSibling, CancelSibling,
         RemoveSibling, LookupModify, ModifyFollower, ModifyAt, ApplyFill,
         folVars, At

LEMMA StepCancelsApplied ==
    ASSUME PushDirection, PushInv, OrderInv, ApplyInv, faults' = 0,
           NEW e \in Event, Step(e)
    PROVE  CancelsApplied'
<1>0. /\ ReplicatorInv /\ FollowerOK /\ ThreadOK(e, task[e])
      /\ task \in [Event -> ThreadRecord] /\ faults \in Nat
  BY FaultAssumption DEF PushInv, ReplicatorInv, ThreadsOK, FollowerOK
<1>1. Started(e)
  BY <1>0, StepOwn
<1>2. ASSUME NEW l \in Leg, Placed(l), fol[l] # "open" PROVE fol'[l] # "open"
  BY <1>0, <1>2, StepReopens
<1>3. ASSUME NEW d \in Event, d # e, d.kind = "CANCEL", Started(d)',
             task'[d].pc \notin {"label", "lookup", "call"}
      PROVE  fol'[d.leg] # "open"
  <2>1. task'[d] = task[d]
    BY <1>0, <1>3, StepOwn
  <2>2. Started(d) /\ fol[d.leg] # "open"
    BY <1>3, <2>1 DEF ApplyInv, CancelsApplied, Started
  <2>3. QED
    BY <1>2, <1>3, <2>2, AfterPlacement, EventForms
<1>4. ASSUME e.kind = "CANCEL", task'[e].pc \notin {"label", "lookup", "call"}
      PROVE  fol'[e.leg] # "open"
  <2>1. Placed(e.leg) /\ e.leg \in Leg
    BY <1>1, <1>4, AfterPlacement, EventForms
  <2>2. CASE LookupCancel(e)
    <3>1. FollowerOf(e.leg) = NoId
      <4>1. ~SkipsCancel(task[e].label)
        BY DEF SkipsCancel, Synthetic, PushDirection
      <4>2. ASSUME FollowerOf(e.leg) # NoId
            PROVE task' = [task EXCEPT ![e].pc = "call", ![e].fid = FollowerOf(e.leg)]
        BY <2>2, <4>1, <4>2 DEF LookupCancel
      <4>3. QED
        BY <1>0, <1>4, <4>2 DEF ThreadRecord
    <3>2. fol[e.leg] # "open"
      BY <1>1, <1>4, <3>1, NothingFound
    <3>3. QED
      BY <1>2, <2>1, <3>2
  <2>3. CASE CancelPrimary(e)
    <3>1. task[e].fid = e.leg
      BY <1>0, <2>3 DEF CancelPrimary, At, ThreadOK
    <3>2. PICK out \in {"ok", "notfound", "fault"} : CancelAt(e.leg, out)
      BY <2>3, <3>1 DEF CancelPrimary
    <3>3. out # "fault"
      BY <1>0, <3>2 DEF CancelAt, Fault
    <3>4. QED
      BY <1>0, <2>1, <3>2, <3>3 DEF CancelAt, Ended
  <2>4. CASE task[e].pc \notin {"label", "lookup", "call"}
    <3>1. fol[e.leg] # "open"
      BY <1>1, <1>4, <2>4 DEF ApplyInv, CancelsApplied
    <3>2. QED
      BY <1>2, <2>1, <3>1
  <2>5. CASE ResolveLabel(e)
    <3>1. task'[e].pc = "lookup"
      BY <1>0, <2>5 DEF ResolveLabel, ThreadRecord
    <3>2. QED
      BY <1>4, <3>1
  <2>6. QED
    BY <1>4, <2>2, <2>3, <2>4, <2>5
       DEF Step, Reserve, PlaceOrder, PlaceBracket, EnterBatch, Register,
           ExitBatch, RemovePrimary, LookupSibling, CancelSibling,
           RemoveSibling, LookupModify, ModifyFollower, ApplyFill, At
<1>5. QED
  BY <1>3, <1>4 DEF CancelsApplied

LEMMA StepVersionsApplied ==
    ASSUME PushDirection, PushInv, OrderInv, ApplyInv, faults' = 0,
           NEW e \in Event, Step(e), srcVer' = srcVer
    PROVE  VersionsApplied'
<1>0. /\ ReplicatorInv /\ FollowerOK /\ ThreadOK(e, task[e])
      /\ task \in [Event -> ThreadRecord] /\ faults \in Nat
      /\ folVer \in [Leg -> 0 .. MaxVer] /\ srcVer \in [Leg -> 0 .. MaxVer]
  BY FaultAssumption
     DEF PushInv, PushTyped, ReplicatorInv, ThreadsOK, FollowerOK
<1>1. /\ Started(e) /\ e \in Running
      /\ \A d \in Event : d # e => task'[d] = task[d]
  BY <1>0, StepOwn, StepRuns
<1>2. ASSUME NEW l \in Leg, ~ModifyOf(e, l) PROVE folVer'[l] = folVer[l]
  BY <1>0, <1>2, StepFollower
<1>3. ASSUME NEW l \in Leg, Placed(l), fol'[l] = "open" PROVE fol[l] = "open"
  BY <1>0, <1>3, StepReopens
<1>4. ASSUME e.kind = "MODIFY"
      PROVE  /\ e.leg \in Leg /\ e.n \in 1 .. MaxVer /\ e.n <= srcVer[e.leg]
             /\ folVer'[e.leg] \in {folVer[e.leg], e.n}
             /\ Finished(e)' /\ fol'[e.leg] = "open" => folVer'[e.leg] = e.n
  <2>1. e.leg \in Leg /\ e.n \in 1 .. MaxVer /\ e.n <= srcVer[e.leg]
    BY <1>1, <1>4, EventForms DEF OrderInv, SourceTold, Pushed
  <2>2. CASE LookupModify(e)
    <3>1. folVer' = folVer /\ fol' = fol
      BY <2>2 DEF LookupModify, folVars
    <3>2. ASSUME Finished(e)' PROVE fol[e.leg] # "open"
      <4>1. FollowerOf(e.leg) = NoId
        BY <1>0, <2>2, <3>2 DEF LookupModify, Finished, ThreadRecord
      <4>2. QED
        BY <1>1, <1>4, <4>1, NothingFound
    <3>3. QED
      BY <2>1, <3>1, <3>2
  <2>3. CASE ModifyFollower(e)
    <3>1. task[e].fid = e.leg
      BY <1>0, <2>3 DEF ModifyFollower, At, ThreadOK
    <3>2. PICK out \in {"ok", "notfound", "fault"} : ModifyAt(e.leg, e.n, out)
      BY <2>3, <3>1 DEF ModifyFollower
    <3>3. out = "ok"
      BY <1>0, <3>2 DEF ModifyAt, Fault, PushDirection
    <3>4. QED
      BY <1>0, <2>1, <3>2, <3>3 DEF ModifyAt
  <2>4. QED
    BY <1>0, <1>4, <2>2, <2>3
       DEF Step, Reserve, PlaceOrder, PlaceBracket, EnterBatch, Register,
           ExitBatch, ResolveLabel, LookupCancel, CancelPrimary, RemovePrimary,
           LookupSibling, CancelSibling, RemoveSibling, ApplyFill, At, ThreadOK
<1>5. ASSUME NEW l \in Leg PROVE folVer'[l] <= srcVer[l]
  <2>1. folVer[l] <= srcVer[l] /\ folVer[l] \in Nat /\ srcVer[l] \in Nat
    BY <1>0, BoundAssumption DEF ApplyInv, VersionsApplied
  <2>2. QED
    BY <1>2, <1>4, <2>1 DEF ModifyOf
<1>6. ASSUME NEW d \in Event, d.kind = "MODIFY", Finished(d)',
             d.n = srcVer[d.leg], fol'[d.leg] = "open"
      PROVE  folVer'[d.leg] = d.n
  <2>1. CASE d = e
    BY <1>4, <1>6, <2>1
  <2>2. CASE d # e
    <3>1. task'[d] = task[d] /\ Finished(d) /\ Started(d)
      BY <1>1, <1>6, <2>2 DEF Finished, Started
    <3>2. d.leg \in Leg /\ Placed(d.leg) /\ d.n \in Nat
      BY <1>6, <3>1, AfterPlacement, EventForms
    <3>3. folVer[d.leg] = d.n
      BY <1>3, <1>6, <3>1, <3>2 DEF ApplyInv, VersionsApplied
    <3>4. ~ModifyOf(e, d.leg)
      <4>1. ASSUME ModifyOf(e, d.leg) PROVE FALSE
        <5>1. Before(d, e)
          BY <1>1, <2>2, <3>1 DEF OrderInv, ThreadsInOrder
        <5>2. d.n < e.n /\ e.n <= srcVer[d.leg] /\ e.n \in Nat
          BY <1>4, <1>6, <4>1, <5>1 DEF Before, ModifyOf
        <5>3. QED
          BY <1>6, <3>2, <5>2
      <4>2. QED
        BY <4>1
    <3>5. QED
      BY <1>2, <3>2, <3>3, <3>4
  <2>3. QED
    BY <2>1, <2>2
<1>7. QED
  BY <1>5, <1>6 DEF VersionsApplied

(* Steps that change no record, and no follower order but to end one. *)
LEMMA ApplyKept ==
    ASSUME PushInv, OrderInv, ApplyInv,
           UNCHANGED <<byCoid, folVer>>, \A l \in Leg : KeepsLinked(l),
           \A e \in Event : \/ task'[e] = task[e]
                            \/ /\ ~Started(e)
                               /\ task'[e] = Thread(FirstPc(e), NoId, NoId, <<>>, "none"),
           \A l \in Leg : /\ fol'[l] = "open" => fol[l] = "open"
                          /\ fol'[l] = "none" <=> fol[l] = "none"
                          /\ srcVer'[l] \in Nat /\ srcVer'[l] >= srcVer[l]
                          /\ Pushed(ModifyTo(l, srcVer'[l])) => srcVer'[l] = srcVer[l],
           EntryLeads'
    PROVE  ApplyInv'
<1>1. \A e \in Event : task'[e] # task[e] =>
         /\ ~Started(e)
         /\ task'[e].pc \in {"place", "reserve", "label", "lookup"}
         /\ task'[e].todo = <<>> /\ task'[e].result = "none"
         /\ e.kind = "CANCEL" => task'[e].pc = "label"
  <2> SUFFICES ASSUME NEW e \in Event, task'[e] # task[e]
               PROVE  /\ ~Started(e)
                      /\ task'[e].pc \in {"place", "reserve", "label", "lookup"}
                      /\ task'[e].todo = <<>> /\ task'[e].result = "none"
                      /\ e.kind = "CANCEL" => task'[e].pc = "label"
    OBVIOUS
  <2>0. ~Started(e) /\ task'[e] = Thread(FirstPc(e), NoId, NoId, <<>>, "none")
    OBVIOUS
  <2>1. /\ ~Started(e) /\ task'[e].pc = FirstPc(e)
        /\ task'[e].todo = <<>> /\ task'[e].result = "none"
    BY <2>0 DEF Thread
  <2>2. FirstPc(e) \in {"place", "reserve", "label", "lookup"}
    BY StartForms
  <2>3. e.kind = "CANCEL" => FirstPc(e) = "label"
    BY DEF FirstPc
  <2>4. QED
    BY <2>1, <2>2, <2>3
<1>2. ASSUME NEW o \in Order, Started(NewOf(o))
      PROVE  task'[NewOf(o)] = task[NewOf(o)]
  BY <1>2, NewForms
<1>3. \A l \in Leg : Placed(l) => Started(NewOf(l[1]))
  BY DEF Placed, Started
<1>4. \A l \in Leg : Placed(l)' <=> Placed(l)
  <2>1. ASSUME NEW l \in Leg PROVE Placed(l)' <=> Placed(l)
    <3>1. NewOf(l[1]) \in Event /\ NewOf(l[1]).kind = "NEW" /\ NewOf(l[1]).leg[1] = l[1]
      BY LegOrder, NewForms DEF NewOf, Entry
    <3>2. CASE task'[NewOf(l[1])] = task[NewOf(l[1])]
      BY <3>2 DEF Placed
    <3>3. CASE task'[NewOf(l[1])] # task[NewOf(l[1])]
      <4>0. /\ ~Started(NewOf(l[1]))
            /\ task'[NewOf(l[1])] =
                  Thread(FirstPc(NewOf(l[1])), NoId, NoId, <<>>, "none")
        BY <3>1, <3>3
      <4>1. task'[NewOf(l[1])].pc = FirstPc(NewOf(l[1])) /\ ~Started(NewOf(l[1]))
        BY <4>0 DEF Thread
      <4>2. FirstPc(NewOf(l[1])) \in {"place", "reserve"}
        BY <3>1 DEF FirstPc
      <4>3. QED
        BY <4>1, <4>2 DEF Placed, Started
    <3>4. QED
      BY <3>2, <3>3
  <2>2. QED
    BY <2>1
<1>5. PlacedThere'
  BY <1>4 DEF ApplyInv, PlacedThere
<1>6. DonePlacements' /\ DoneFiling'
  <2>1. ASSUME NEW o \in Order
        PROVE  /\ task'[NewOf(o)].result = "ok" =>
                     task'[NewOf(o)].pc = "done" /\ task'[NewOf(o)].todo = <<>>
               /\ Finished(NewOf(o))' => task'[NewOf(o)].todo = <<>>
    <3>1. CASE task'[NewOf(o)] = task[NewOf(o)]
      BY <3>1 DEF ApplyInv, DonePlacements, DoneFiling, Finished
    <3>2. CASE task'[NewOf(o)] # task[NewOf(o)]
      BY <1>1, <3>2, NewForms
    <3>3. QED
      BY <3>1, <3>2
  <2>2. QED
    BY <2>1 DEF DonePlacements, DoneFiling
<1>7. NoCascade'
  BY <1>1 DEF ApplyInv, NoCascade
<1>8. OpenMapped'
  <2>1. ASSUME NEW l \in Leg, Placed(l), NEW op
        PROVE  PendingOp(op, l)' <=> PendingOp(op, l)
    BY <1>2, <1>3, <2>1, LegOrder DEF PendingOp
  <2>2. QED
    BY <1>4, <2>1 DEF ApplyInv, OpenMapped, KeepsLinked, Filed
<1>9. CancelsApplied'
  BY <1>1, EventForms DEF ApplyInv, CancelsApplied, Started
<1>10. VersionsApplied'
  <2>1. ASSUME NEW l \in Leg PROVE folVer'[l] <= srcVer'[l]
    <3>1. /\ folVer[l] \in Nat /\ srcVer[l] \in Nat /\ folVer[l] <= srcVer[l]
          /\ srcVer'[l] \in Nat /\ srcVer'[l] >= srcVer[l] /\ folVer' = folVer
      BY BoundAssumption
         DEF PushInv, PushTyped, ReplicatorInv, FollowerOK, ApplyInv,
             VersionsApplied
    <3>2. QED
      BY <3>1
  <2>2. ASSUME NEW e \in Event, e.kind = "MODIFY", Finished(e)',
               e.n = srcVer'[e.leg], fol'[e.leg] = "open"
        PROVE  folVer'[e.leg] = e.n
    <3>1. task'[e] = task[e] /\ Finished(e) /\ e.leg \in Leg
      BY <1>1, <2>2, EventForms DEF Finished
    <3>2. e = ModifyTo(e.leg, e.n)
      BY <2>2 DEF Event, ModifyTo
    <3>3. Pushed(ModifyTo(e.leg, srcVer'[e.leg]))
      BY <2>2, <3>1, <3>2 DEF Pushed, Started, Finished
    <3>4. e.n = srcVer[e.leg] /\ fol[e.leg] = "open"
      BY <2>2, <3>1, <3>3
    <3>5. QED
      BY <2>2, <3>1, <3>4 DEF ApplyInv, VersionsApplied
  <2>3. QED
    BY <2>1, <2>2 DEF VersionsApplied
<1>11. QED
  BY <1>5, <1>6, <1>7, <1>8, <1>9, <1>10 DEF ApplyInv


LEMMA SameMapLinked ==
    ASSUME UNCHANGED mapVars
    PROVE  \A l \in Leg : KeepsLinked(l)
BY DEF mapVars, KeepsLinked, Linked, LabelOf

(* A restart loads what memory held: no order is known to be over, so nothing
   is pruned, and each id is carried by one record alone. *)
LEMMA CrashKeeps ==
    ASSUME PushDirection, PushInv, Crash, ~missed'
    PROVE  byCoid' = byCoid /\ faults' = faults /\ \A l \in Leg : KeepsLinked(l)
<1>1. Prunable = {}
  BY DEF Prunable, TerminalKnown, PushDirection
<1>2. faults' = faults /\ ReloadThenPrune({})
  BY <1>1 DEF Crash, Restart
<1>3. MapOK /\ disk = byCoid
  BY QuietCrash DEF PushInv, ReplicatorInv
<1>4. byCoid' = byCoid
  <2>1. byCoid = [l \in Label |-> byCoid[l]]
    BY <1>3 DEF MapOK, MapTypeOK, RecordMap
  <2>2. QED
    BY <1>2, <1>3, <2>1 DEF ReloadThenPrune
<1>5. ASSUME NEW l \in Leg, Linked(l) PROVE coidByIbkr'[l] = l
  <2>1. l \in Label /\ l \in SourceId
    BY NamesAssumption DEF MapLabel
  <2>2. Carriers(disk, l) = {l}
    <3>1. ASSUME NEW k \in Carriers(disk, l) PROVE k = l
      <4>1. k \in MapLabel /\ byCoid[k] # NoRecord /\ byCoid[k].ibkr_order_id = l
        BY <1>3, <3>1, NamesAssumption DEF Carriers
      <4>2. k \in OwnLabels(l)
        BY <1>3, <4>1, NoIdForms DEF MapOK, Faithful
      <4>3. QED
        BY <4>2, OwnNames
    <3>2. l \in Carriers(disk, l)
      BY <1>3, <1>5, <2>1 DEF Carriers, Linked
    <3>3. QED
      BY <3>1, <3>2
  <2>3. l \notin Contested(disk)
    BY <2>2 DEF Contested
  <2>4. PICK winner \in [Contested(disk) -> Label] :
          coidByIbkr' = [s \in SourceId |-> IF Carriers(disk, s) \cap {} # {}
                                           THEN NoId ELSE IndexFrom(disk, winner)[s]]
    BY <1>2 DEF ReloadThenPrune
  <2>5. coidByIbkr'[l] = IndexFrom(disk, winner)[l]
    BY <2>1, <2>4
  <2>6. IndexFrom(disk, winner)[l] = CHOOSE k \in {l} : TRUE
    BY <2>1, <2>2, <2>3 DEF IndexFrom
  <2>7. QED
    BY <2>5, <2>6
<1>6. QED
  BY <1>2, <1>4, <1>5 DEF KeepsLinked, Linked, LabelOf

LEMMA ReplicateApplies ==
    ASSUME PushDirection, PushInv, OrderInv, ApplyInv, faults' = 0,
           NEW e \in Event, Replicate(e)
    PROVE  ApplyInv'
<1>1. Step(e) /\ ReplicatorInv /\ srcVer' = srcVer
  BY DEF Replicate, PushInv, sourceVars
<1>2. PlacedThere'
  <2>1. \A l \in Leg : fol'[l] # "none" => fol[l] # "none" \/ Placed(l)'
    BY <1>1, StepOver DEF ApplyInv
  <2>2. \A l \in Leg : Placed(l) => Placed(l)'
    BY <1>1, StepPlaced
  <2>3. QED
    BY <2>1, <2>2 DEF ApplyInv, PlacedThere
<1>3. DonePlacements'
  BY <1>1, StepDone DEF ApplyInv
<1>4. DoneFiling' /\ NoCascade' /\ OpenMapped' /\ EntryLeads'
  BY <1>1, StepDoneFiling, StepPlain, StepMapped, StepLeads DEF ApplyInv
<1>5. CancelsApplied' /\ VersionsApplied'
  BY <1>1, StepCancelsApplied, StepVersionsApplied
<1>6. QED
  BY <1>2, <1>3, <1>4, <1>5 DEF ApplyInv

LEMMA ApplyStep ==
    ASSUME PushDirection, PushInv, OrderInv, ApplyInv, Lossless', [Next]_vars
    PROVE  ApplyInv'
<1>0. /\ srcVer \in [Leg -> Nat] /\ srcVer \in [Leg -> 0 .. MaxVer]
      /\ FollowerOK
  BY BoundAssumption DEF PushInv, PushTyped, ReplicatorInv
<1>1. ASSUME NEW o \in Order, SourceNew(o) PROVE ApplyInv'
  <2>1. /\ UNCHANGED <<mapVars, byCoid, folVer, fol, task, srcVer>>
    BY <1>1 DEF SourceNew, replicatorVars, mapVars, folVars
  <2>2. EntryLeads'
    BY <2>1 DEF ApplyInv, EntryLeads
  <2>3. QED
    BY <1>0, <2>1, <2>2, SameMapLinked, ApplyKept
<1>2. ASSUME NEW l \in Leg, SourceCancel(l) \/ SourceFill(l) PROVE ApplyInv'
  <2>1. /\ UNCHANGED <<mapVars, byCoid, folVer, fol, task, srcVer>>
    BY <1>2 DEF SourceCancel, SourceFill, replicatorVars, mapVars, folVars
  <2>2. EntryLeads'
    BY <2>1 DEF ApplyInv, EntryLeads
  <2>3. QED
    BY <1>0, <2>1, <2>2, SameMapLinked, ApplyKept
<1>3. ASSUME NEW l \in Leg, SourceModify(l) PROVE ApplyInv'
  <2>1. /\ UNCHANGED <<mapVars, byCoid, folVer, fol, task>>
        /\ srcVer[l] < MaxVer /\ srcVer' = [srcVer EXCEPT ![l] = @ + 1]
    BY <1>3 DEF SourceModify, replicatorVars, mapVars, folVars
  <2>2. EntryLeads'
    BY <2>1 DEF ApplyInv, EntryLeads
  <2>3. ASSUME NEW k \in Leg
        PROVE  /\ srcVer'[k] \in Nat /\ srcVer'[k] >= srcVer[k]
               /\ Pushed(ModifyTo(k, srcVer'[k])) => srcVer'[k] = srcVer[k]
    <3>1. CASE k # l
      BY <1>0, <2>1, <3>1
    <3>2. CASE k = l
      <4>1. srcVer'[k] = srcVer[k] + 1 /\ srcVer[k] \in Nat /\ srcVer'[k] \in 1 .. MaxVer
        BY <1>0, <2>1, <3>2, BoundAssumption
      <4>2. ModifyTo(k, srcVer'[k]) \in Event
        BY <4>1, ReportForms DEF ModifyTo
      <4>3. ~Pushed(ModifyTo(k, srcVer'[k]))
        BY <4>1, <4>2 DEF OrderInv, SourceTold, ModifyTo
      <4>4. QED
        BY <4>1, <4>3
    <3>3. QED
      BY <3>1, <3>2
  <2>4. QED
    BY <2>1, <2>2, <2>3, SameMapLinked, ApplyKept
<1>4. CASE Listen
  <2>1. /\ UNCHANGED <<mapVars, byCoid, folVer, fol, srcVer>>
        /\ task' = Starting({Head(inbox)}) /\ inbox # <<>>
    BY <1>4 DEF Listen, mapVars, folVars, sourceVars
  <2>2. EntryLeads'
    BY <2>1 DEF ApplyInv, EntryLeads
  <2>3. ~Started(Head(inbox))
    <3>1. inbox \in Seq(Event)
      BY DEF PushInv, PushTyped
    <3>2. 1 \in DOMAIN inbox /\ Head(inbox) = inbox[1]
      BY <2>1, <3>1
    <3>3. QED
      BY <3>2 DEF OrderInv, QueueOK
  <2>4. \A e \in Event : \/ task'[e] = task[e]
                         \/ /\ ~Started(e)
                            /\ task'[e] = Thread(FirstPc(e), NoId, NoId, <<>>, "none")
    BY <2>1, <2>3 DEF Starting
  <2>5. \A l \in Leg : KeepsLinked(l)
    BY <2>1, SameMapLinked
  <2>6. \A l \in Leg :
           /\ fol'[l] = "open" => fol[l] = "open"
           /\ fol'[l] = "none" <=> fol[l] = "none"
           /\ srcVer'[l] \in Nat /\ srcVer'[l] >= srcVer[l]
           /\ Pushed(ModifyTo(l, srcVer'[l])) => srcVer'[l] = srcVer[l]
    BY <1>0, <2>1
  <2>7. QED
    BY <2>1, <2>2, <2>4, <2>5, <2>6, ApplyKept, Zenon
<1>5. ASSUME NEW l \in Leg, MarketFill(l) PROVE ApplyInv'
  <2>1. /\ UNCHANGED <<mapVars, byCoid, folVer, task, srcVer>>
        /\ fol[l] = "open" /\ fol' = Ended(l, "filled")
    BY <1>5 DEF MarketFill, FollowerFill, Working, mapVars, sourceVars
  <2>2. EntryLeads'
    BY <1>0, <2>1, EndedLeads DEF ApplyInv, PushDirection
  <2>3. \A k \in Leg : /\ fol'[k] = "open" => fol[k] = "open"
                       /\ fol'[k] = "none" <=> fol[k] = "none"
    BY <1>0, <2>1 DEF Ended, FollowerOK
  <2>4. QED
    BY <1>0, <2>1, <2>2, <2>3, SameMapLinked, ApplyKept
<1>6. CASE Crash
  <2>1. /\ byCoid' = byCoid /\ \A l \in Leg : KeepsLinked(l)
        /\ UNCHANGED <<fol, folVer, srcVer>>
        /\ \A e \in Event : task'[e] = task[e]
    BY <1>6, CrashKeeps, QuietCrash DEF Crash, Restart, Lossless
  <2>2. EntryLeads'
    BY <2>1 DEF ApplyInv, EntryLeads
  <2>3. QED
    BY <1>0, <2>1, <2>2, ApplyKept
<1>7. CASE UNCHANGED vars
  <2>1. /\ UNCHANGED <<mapVars, byCoid, folVer, fol, task, srcVer>>
    BY <1>7 DEF vars, sourceVars, replicatorVars, mapVars, folVars
  <2>2. EntryLeads'
    BY <2>1 DEF ApplyInv, EntryLeads
  <2>3. QED
    BY <1>0, <2>1, <2>2, SameMapLinked, ApplyKept
<1>8. ASSUME NEW e \in Event, Replicate(e) PROVE ApplyInv'
  BY <1>8, ReplicateApplies DEF Lossless
<1>9. QED
  BY <1>1, <1>2, <1>3, <1>4, <1>5, <1>6, <1>7, <1>8 DEF Next

\* Nothing is found again once lost, and no fault is forgotten.
LEMMA LosslessBefore ==
    ASSUME PushDirection, PushInv, Lossless', [Next]_vars
    PROVE  Lossless
<1>1. ASSUME NEW e \in Event, Replicate(e) PROVE Lossless
  BY <1>1, FaultsCount DEF Replicate, PushInv, Lossless, sourceVars
<1>2. CASE Crash
  BY <1>2, CrashKeeps, QuietCrash DEF Lossless
<1>3. CASE UNCHANGED <<faults, missed>>
  BY <1>3 DEF Lossless
<1>4. QED
  BY <1>1, <1>2, <1>3
     DEF Next, SourceNew, SourceCancel, SourceModify, SourceFill, Listen,
         MarketFill, FollowerFill, vars, sourceVars, replicatorVars, folVars

PipelineInv == PushInv /\ (Lossless => OrderInv /\ ApplyInv)

LEMMA PipelineInvariant ==
    ASSUME PushDirection PROVE Spec => []PipelineInv
<1>1. ASSUME Init PROVE OrderInv /\ ApplyInv
  <2>1. /\ \A e \in Event : task[e].pc = "idle" /\ task[e].result = "none"
        /\ \A e \in Event : ~Started(e) /\ ~Finished(e)
        /\ \A l \in Leg : src[l] = "none" /\ srcVer[l] = 0 /\ fol[l] = "none"
                          /\ folVer[l] = 0
        /\ inbox = <<>>
    BY <1>1
       DEF Init, ReplicatorInit, FollowerInit, Idle, Thread, Started, Finished
  <2>2. \A e \in Event : ~Pushed(e)
    BY <2>1 DEF Pushed, Queued
  <2>3. OrderInv
    <3>1. QueueOK(inbox)
      BY <2>1 DEF QueueOK
    <3>2. SourceTold
      BY <2>1, <2>2 DEF SourceTold
    <3>3. ThreadsInOrder
      BY <2>1 DEF ThreadsInOrder, Running
    <3>4. QED
      BY <3>1, <3>2, <3>3 DEF OrderInv
  <2>4. \A o \in Order : NewOf(o) \in Event
    BY NewForms
  <2>5. PlacedThere /\ OpenMapped
    BY <2>1 DEF PlacedThere, OpenMapped
  <2>6. DonePlacements /\ DoneFiling /\ NoCascade
    BY <2>1, <2>4 DEF DonePlacements, DoneFiling, NoCascade
  <2>7. \A b \in Bracket : b \in Order /\ Entry(b) \in Leg /\ Exits(b) \subseteq Leg
    BY LegForms DEF Order, Exits
  <2>8. EntryLeads
    BY <2>1, <2>7 DEF EntryLeads
  <2>9. CancelsApplied /\ VersionsApplied
    BY <2>1 DEF CancelsApplied, VersionsApplied
  <2>10. QED
    BY <2>3, <2>5, <2>6, <2>8, <2>9 DEF ApplyInv
<1>2. Init => PipelineInv
  <2>1. Init => PushInv
    BY PushInit
  <2>2. QED
    BY <1>1, <2>1 DEF PipelineInv
<1>3. PipelineInv /\ [Next]_vars => PipelineInv'
  <2> SUFFICES ASSUME PipelineInv, [Next]_vars PROVE PipelineInv'
    OBVIOUS
  <2>1. PushInv /\ PushInv'
    BY PushStep, TypedStep DEF PipelineInv, PushInv, PushDirection
  <2>2. ASSUME Lossless' PROVE OrderInv' /\ ApplyInv'
    <3>1. OrderInv /\ ApplyInv
      BY <2>1, <2>2, LosslessBefore DEF PipelineInv
    <3>2. QED
      BY <2>1, <2>2, <3>1, OrderStep, ApplyStep
  <2>3. QED
    BY <2>1, <2>2 DEF PipelineInv
<1>4. QED
  BY <1>2, <1>3, PTL DEF Spec


(* Between two events every event that was pushed has been applied. *)
LEMMA AllApplied ==
    ASSUME CaughtUp, NEW e \in Event, Pushed(e)
    PROVE  Finished(e) /\ Started(e)
<1>1. Started(e)
  BY DEF CaughtUp, Pushed, Queued
<1>2. QED
  BY <1>1 DEF CaughtUp, Running

LEMMA PushedForms ==
    ASSUME PushInv, NEW l \in Leg
    PROVE  /\ CancelOf(l) \in Event /\ NewOf(l[1]) \in Event
           /\ srcVer[l] \in Nat /\ folVer[l] \in Nat
           /\ srcVer[l] > 0 => ModifyTo(l, srcVer[l]) \in Event
<1>1. srcVer[l] \in 0 .. MaxVer /\ folVer[l] \in 0 .. MaxVer
  BY DEF PushInv, PushTyped, ReplicatorInv, FollowerOK
<1>2. QED
  BY <1>1, ReportForms, NewForms, LegOrder, BoundAssumption DEF ModifyTo

(* The replicator never loses hold of a live follower order, whatever order
   the events, the executions and the crashes between events come in: the
   record of an open order is filed by its placement and removed by its own
   cancel alone, and a restart finds in the file what memory held. *)
THEOREM PushKeepsHold == PushDirection /\ Spec => []NoOrphan
<1>1. PipelineInv => NoOrphan
  <2> SUFFICES ASSUME PipelineInv, faults = 0, ~missed,
                      NEW l \in Leg, Orphaned(l)
               PROVE  FALSE
    BY DEF NoOrphan
  <2>1. PushInv /\ ApplyInv /\ MapOK
    BY DEF PipelineInv, Lossless, PushInv, ReplicatorInv
  <2>2. l[1] \in Order /\ fol[l] = "open" /\ task[NewOf(l[1])].result = "ok"
        /\ RecordOf(l).tradovate_id # l
    BY LegOrder DEF Orphaned
  <2>3. task[NewOf(l[1])].pc = "done" /\ task[NewOf(l[1])].todo = <<>>
    BY <2>1, <2>2 DEF ApplyInv, DonePlacements
  <2>4. Placed(l) /\ ~PendingOp("set", l)
    BY <2>3 DEF Placed, PendingOp
  <2>5. Filed(byCoid, l)
    BY <2>1, <2>2, <2>4 DEF ApplyInv, OpenMapped
  <2>6. byCoid[l].tradovate_id = l
    BY <2>1, <2>5 DEF MapOK, Faithful, Filed, MapLabel
  <2>7. QED
    BY <2>2, <2>5, <2>6 DEF RecordOf, Known, Filed
<1>2. PushDirection => (Spec => []PipelineInv)
  BY PipelineInvariant
<1>3. QED
  BY <1>1, <1>2, PTL

(* What the source cancelled is not left working at the follower, also across
   restarts between events: a leg whose cancellation was reported, save an exit
   that ended because the other one executed, and an exit that went unreported
   with its entry, unless the follower's entry filled. *)
THEOREM PushCancelsArrive == PushDirection /\ Spec => []CancelsArrive
<1>1. PipelineInv => CancelsArrive
  <2> SUFFICES ASSUME PipelineInv, CaughtUp, NEW l \in Leg,
                      \/ src[l] = "cancelled" /\ ~ClosedByItsSibling(l)
                      \/ /\ src[l] = "dropped"
                         /\ src[EntryOf(l)] = "cancelled"
                         /\ fol[EntryOf(l)] # "filled"
               PROVE  fol[l] # "open"
    BY DEF CancelsArrive
  <2>1. PushInv /\ OrderInv /\ ApplyInv /\ FollowerOK
    BY DEF PipelineInv, CaughtUp, Lossless, PushInv, ReplicatorInv
  <2>2. ASSUME NEW k \in Leg, src[k] = "cancelled" PROVE fol[k] # "open"
    <3>1. CancelOf(k) \in Event /\ Pushed(CancelOf(k))
      BY <2>1, <2>2, PushedForms DEF OrderInv, SourceTold
    <3>2. Finished(CancelOf(k)) /\ Started(CancelOf(k))
      BY <3>1, AllApplied
    <3>3. CancelOf(k).kind = "CANCEL" /\ CancelOf(k).leg = k
      BY DEF CancelOf
    <3>4. QED
      BY <2>1, <3>1, <3>2, <3>3 DEF ApplyInv, CancelsApplied, Finished
  <2>3. CASE src[l] = "dropped" /\ src[EntryOf(l)] = "cancelled"
             /\ fol[EntryOf(l)] # "filled"
    <3>1. l \in ExitLeg
      BY <2>1, <2>3 DEF OrderInv, SourceTold
    <3>2. PICK b \in Bracket : l \in Exits(b)
      BY <3>1 DEF ExitLeg
    <3>3. EntryOf(l) = Entry(b) /\ Entry(b) \in Leg
      BY <3>2, LegForms DEF EntryOf, Exits, Order
    <3>4. fol[Entry(b)] \in {"none", "cancelled"}
      BY <2>1, <2>2, <2>3, <3>3 DEF FollowerOK
    <3>5. QED
      BY <2>1, <3>2, <3>4 DEF ApplyInv, EntryLeads
  <2>4. QED
    BY <2>2, <2>3
<1>2. PushDirection => (Spec => []PipelineInv)
  BY PipelineInvariant
<1>3. QED
  BY <1>1, <1>2, PTL

(* One listener keeps the order of modifications: between two events, and
   after a restart, every open follower order is at the source's version. *)
THEOREM PushModificationsArrive ==
    PushDirection /\ Spec => []ModificationsArrive
<1>1. PipelineInv => ModificationsArrive
  <2> SUFFICES ASSUME PipelineInv, CaughtUp, NEW l \in Leg, fol[l] = "open"
               PROVE  folVer[l] = srcVer[l]
    BY DEF ModificationsArrive
  <2>1. PushInv /\ OrderInv /\ ApplyInv
    BY DEF PipelineInv, CaughtUp, Lossless
  <2>2. srcVer[l] \in Nat /\ folVer[l] \in Nat
    BY <2>1, PushedForms
  <2>3. CASE srcVer[l] = 0
    BY <2>1, <2>2, <2>3 DEF ApplyInv, VersionsApplied
  <2>4. CASE srcVer[l] > 0
    <3>1. ModifyTo(l, srcVer[l]) \in Event /\ Pushed(ModifyTo(l, srcVer[l]))
      BY <2>1, <2>4, PushedForms DEF OrderInv, SourceTold
    <3>2. Finished(ModifyTo(l, srcVer[l]))
      BY <3>1, AllApplied
    <3>3. /\ ModifyTo(l, srcVer[l]).kind = "MODIFY"
          /\ ModifyTo(l, srcVer[l]).leg = l
          /\ ModifyTo(l, srcVer[l]).n = srcVer[l]
      BY DEF ModifyTo
    <3>4. QED
      BY <2>1, <3>1, <3>2, <3>3 DEF ApplyInv, VersionsApplied
  <2>5. QED
    BY <2>2, <2>3, <2>4
<1>2. PushDirection => (Spec => []PipelineInv)
  BY PipelineInvariant
<1>3. QED
  BY <1>1, <1>2, PTL

=============================================================================
