-------------------------- MODULE EventReplicator --------------------------
(***************************************************************************)
(* tradesync/event_replicator.py: apply(event) on the thread that runs it, *)
(* one action per use of the order map's lock or of the follower broker.   *)
(* The thread of event e is task[e].  Which threads run at the same time   *)
(* is the source's business: HotPath starts one per request.               *)
(***************************************************************************)
EXTENDS OrderMap, FollowerBroker

CONSTANTS
    MaxVer,           \* modifications of one leg
    MaxCancels,       \* cancel requests for one leg
    IdsInEvents,      \* TRUE: NEW events carry source ids (Tradovate source)
    SyntheticLabels,  \* TRUE: exits are filed under "<entry>#<role>"
    ChildReplies      \* sequences of exit roles placeoso may answer with

\* The map's keys and ids are the legs' names.
ASSUME NamesAssumption ==
    Label = MapLabel /\ SourceId = Leg /\ FollowerId = Leg

ASSUME BoundAssumption == MaxVer \in Nat /\ MaxCancels \in Nat

VARIABLES
    task,             \* event -> the thread that applies it
    opened            \* _opened_bracket_bases

replicatorVars == <<mapVars, folVars, task, opened>>

Event ==
    [kind : {"NEW"}, leg : {Entry(o) : o \in Order}, n : {0}]
      \cup [kind : {"CANCEL"}, leg : Leg, n : 1 .. MaxCancels]
      \cup [kind : {"MODIFY"}, leg : Leg, n : 1 .. MaxVer]
      \cup [kind : {"FILL"}, leg : Leg, n : {0}]

NewOf(o) == [kind |-> "NEW", leg |-> Entry(o), n |-> 0]

\* A thread: where it is, its locals, and the outcome it returned.
Thread(pc, label, fid, todo, result) ==
    [pc |-> pc, label |-> label, fid |-> fid, todo |-> todo,
     result |-> result]

Idle == Thread("idle", NoId, NoId, <<>>, "none")

ReplicatorInit ==
    /\ MapInit
    /\ FollowerInit
    /\ task = [e \in Event |-> Idle]
    /\ opened = {}

FirstPc(e) ==
    CASE e.kind = "NEW"    -> IF e.leg[1] \in Bracket THEN "place" ELSE "reserve"
      [] e.kind = "CANCEL" -> "label"
      [] e.kind = "MODIFY" -> "lookup"
      [] e.kind = "FILL"   -> "label"

Started(e)  == task[e].pc # "idle"
Finished(e) == task[e].pc = "done"
Running     == {e \in Event : Started(e) /\ ~Finished(e)}

\* The tasks after the threads of the events in es start.
Starting(es) ==
    [e \in Event |-> IF e \in es
                     THEN Thread(FirstPc(e), NoId, NoId, <<>>, "none")
                     ELSE task[e]]

At(e, pc) == task[e].pc = pc

Goto(e, pc) == task' = [task EXCEPT ![e].pc = pc]

Return(e, result) ==
    task' = [task EXCEPT ![e] = Thread("done", NoId, NoId, <<>>, result)]

\* What an exception of the follower call makes the handler return.
Raised(out) == out \in {"notfound", "fault"}

-----------------------------------------------------------------------------
(* NEW.                                                                    *)

\* _apply_new_single: record_for_source_label, then add_pending
Reserve(e) ==
    /\ At(e, "reserve")
    /\ AddPending(e.leg)
    /\ Goto(e, "place")
    /\ UNCHANGED <<folVars, opened>>

\* Faulty: the child ids zipped against the exits in the wrong order
RegistrationsSwapped(entry, roles) ==
    <<<<"set", entry, entry>>>>
      \o [i \in 1 .. Len(roles) |->
            <<"set", <<entry[1], <<"STP", "LMT">>[i]>>, <<entry[1], roles[i]>>>>]

\* Faulty: only the entry is bound to its source id
RegistrationsUnbound(entry, roles) ==
    <<<<"set", entry, entry>>, <<"bind", entry, entry>>>>
      \o [i \in 1 .. Len(roles) |->
            <<"set", <<entry[1], roles[i]>>, <<entry[1], roles[i]>>>>]

\* One map update per element: <<operation, label, id>>.
Registrations(entry, roles) ==
    LET legAt(i) == IF i = 0 THEN entry ELSE <<entry[1], roles[i]>>
        \* zip(bracket.children, placed.child_order_ids): the children are
        \* sent as take-profit, stop-loss; the ids come as roles says
        labelAt(i) == IF i = 0 THEN entry
                      ELSE <<entry[1], <<"LMT", "STP">>[i]>>
        set(i)  == <<"set", labelAt(i), legAt(i)>>
        bind(i) == <<"bind", labelAt(i), labelAt(i)>>
        N == Len(roles)
    IN  IF IdsInEvents
        THEN [k \in 1 .. 2 * (N + 1) |->
                 IF k % 2 = 1 THEN set((k - 1) \div 2) ELSE bind((k \div 2) - 1)]
        ELSE [k \in 1 .. N + 1 |-> set(k - 1)]

PlaceOrder(e) ==
    /\ At(e, "place") /\ e.leg[1] \in Single
    /\ \E out \in {"ok", "fault"} :
          /\ Place({e.leg}, out)
          /\ IF Raised(out) THEN Return(e, out)
             ELSE task' = [task EXCEPT
                              ![e].pc = "register",
                              ![e].todo = Registrations(e.leg, <<>>)]
    /\ UNCHANGED <<mapVars, opened>>

PlaceBracket(e) ==
    /\ At(e, "place") /\ e.leg[1] \in Bracket
    /\ \E out \in {"ok", "fault"} :
          /\ Place(LegsOf(e.leg[1]), out)
          /\ IF Raised(out) THEN Return(e, out)
             ELSE \E roles \in ChildReplies :
                     task' = [task EXCEPT
                                 ![e].pc = "enter",
                                 ![e].todo = Registrations(e.leg, roles)]
    /\ UNCHANGED <<mapVars, opened>>

\* with self._order_map.batch():
EnterBatch(e) ==
    /\ At(e, "enter")
    /\ BatchEnter
    /\ Goto(e, "register")
    /\ UNCHANGED <<folVars, opened>>

\* set_follower_id or bind_source_id, in the order the handler makes them
Register(e) ==
    /\ At(e, "register") /\ task[e].todo # <<>>
    /\ LET op == Head(task[e].todo)
       IN  IF op[1] = "set" THEN SetFollowerId(op[2], op[3])
           ELSE BindSourceId(op[2], op[3])
    /\ IF e.leg[1] \in Single /\ Len(task[e].todo) = 1
       THEN Return(e, "ok")
       ELSE task' = [task EXCEPT ![e].todo = Tail(@)]
    /\ UNCHANGED <<folVars, opened>>

ExitBatch(e) ==
    /\ At(e, "register") /\ task[e].todo = <<>>
    /\ BatchExit
    /\ Return(e, "ok")
    /\ UNCHANGED <<folVars, opened>>

-----------------------------------------------------------------------------
(* CANCEL.                                                                 *)

\* source_label_for_source_id; the follower id is read under the lock again
ResolveLabel(e) ==
    /\ At(e, "label") /\ e.kind = "CANCEL"
    /\ task' = [task EXCEPT ![e].pc = "lookup", ![e].label = LabelOf(e.leg)]
    /\ UNCHANGED <<mapVars, folVars, opened>>

\* The label has the synthetic shape "<entry>#<role>".
Synthetic(label) ==
    label # NoId /\ SyntheticLabels /\ label \in MapLabel /\ label[2] # "ENTRY"

\* An OCO-driven exit cancel, which a native-OCO follower must not see.
SkipsCancel(label) ==
    NativeOco /\ Synthetic(label) /\ EntryOf(label) \in opened

\* Faulty: a cancel is dropped while a modification of the leg runs
LookupCancelUnlessModified(e) ==
    /\ At(e, "lookup") /\ e.kind = "CANCEL"
    /\ LET fid  == FollowerOf(e.leg)
           busy == \E m \in Running : m.kind = "MODIFY" /\ m.leg = e.leg
       IN  IF fid = NoId \/ busy THEN Return(e, "skipped")
           ELSE task' = [task EXCEPT ![e].pc = "call", ![e].fid = fid]
    /\ UNCHANGED <<mapVars, folVars, opened>>

LookupCancel(e) ==
    /\ At(e, "lookup") /\ e.kind = "CANCEL"
    /\ LET fid  == FollowerOf(e.leg)
           skip == fid # NoId /\ SkipsCancel(task[e].label)
       IN  /\ IF skip THEN RemoveBySourceId(e.leg) ELSE UNCHANGED mapVars
           /\ IF fid = NoId THEN Return(e, "skipped")
              ELSE IF skip THEN Return(e, "ok")
              ELSE task' = [task EXCEPT ![e].pc = "call", ![e].fid = fid]
    /\ UNCHANGED <<folVars, opened>>

CancelPrimary(e) ==
    /\ At(e, "call") /\ e.kind = "CANCEL"
    /\ \E out \in {"ok", "notfound", "fault"} :
          /\ CancelAt(task[e].fid, out)
          /\ IF Raised(out) THEN Return(e, out) ELSE Goto(e, "remove")
    /\ UNCHANGED <<mapVars, opened>>

\* Faulty: the bracket's entry is removed in place of the cancelled leg
RemovePrimaryOfEntry(e) ==
    /\ At(e, "remove")
    /\ RemoveByLabel(EntryOf(e.leg))
    /\ Goto(e, "cascade")
    /\ UNCHANGED <<folVars, opened>>

RemovePrimary(e) ==
    /\ At(e, "remove")
    /\ RemoveBySourceId(e.leg)
    /\ Goto(e, "cascade")
    /\ UNCHANGED <<folVars, opened>>

-----------------------------------------------------------------------------
(* _cascade_oco_sibling, after a cancel or a fill.                         *)

\* What a FILL with nothing to cascade returns is the skip of line 415.
Uncascaded(e) == IF e.kind = "FILL" THEN "skipped" ELSE "ok"

\* Faulty: cascades from any leg, whatever the follower
LookupSiblingUnguarded(e) ==
    /\ At(e, "cascade")
    /\ LET label == task[e].label
           fid   == IF label \in Leg /\ label[1] \in Bracket
                    THEN RecordOf(Sibling(label)).tradovate_id ELSE NoId
       IN  IF fid = NoId THEN Return(e, Uncascaded(e))
           ELSE task' = [task EXCEPT ![e].pc = "callsib", ![e].fid = fid]
    /\ UNCHANGED <<mapVars, folVars, opened>>

\* Faulty: looks up the leg that was just removed
LookupSiblingSameRole(e) ==
    /\ At(e, "cascade")
    /\ LET label == task[e].label
           fid   == IF label \in ExitLeg
                    THEN RecordOf(label).tradovate_id ELSE NoId
       IN  IF fid = NoId THEN Return(e, Uncascaded(e))
           ELSE task' = [task EXCEPT ![e].pc = "callsib", ![e].fid = fid]
    /\ UNCHANGED <<mapVars, folVars, opened>>

\* record_for_source_label of the sibling
LookupSibling(e) ==
    /\ At(e, "cascade")
    /\ LET label == task[e].label
           fid   == IF /\ ~NativeOco
                       /\ Synthetic(label)
                       /\ label \in ExitLeg        \* role LMT or STP
                    THEN RecordOf(Sibling(label)).tradovate_id
                    ELSE NoId
       IN  IF fid = NoId THEN Return(e, Uncascaded(e))
           ELSE task' = [task EXCEPT ![e].pc = "callsib", ![e].fid = fid]
    /\ UNCHANGED <<mapVars, folVars, opened>>

\* A sibling cancel that raises is logged; the mapping is dropped anyway.
CancelSibling(e) ==
    /\ At(e, "callsib")
    /\ \E out \in {"ok", "notfound", "fault"} :
          /\ CancelAt(task[e].fid, out)
          /\ Goto(e, IF Raised(out) THEN "tidysib" ELSE "removesib")
    /\ UNCHANGED <<mapVars, opened>>

RemoveSibling(e) ==
    /\ task[e].pc \in {"removesib", "tidysib"}
    /\ RemoveByLabel(Sibling(task[e].label))
    /\ Return(e, IF At(e, "tidysib") THEN Uncascaded(e) ELSE "ok")
    /\ UNCHANGED <<folVars, opened>>

-----------------------------------------------------------------------------
(* MODIFY and FILL.                                                        *)

LookupModify(e) ==
    /\ At(e, "lookup") /\ e.kind = "MODIFY"
    /\ LET fid == FollowerOf(e.leg)
       IN  IF fid = NoId THEN Return(e, "skipped")
           ELSE task' = [task EXCEPT ![e].pc = "call", ![e].fid = fid]
    /\ UNCHANGED <<mapVars, folVars, opened>>

\* Faulty: every modification sends the payload of the first
ModifyFollowerStale(e) ==
    /\ At(e, "call") /\ e.kind = "MODIFY"
    /\ \E out \in {"ok", "notfound", "fault"} :
          /\ ModifyAt(task[e].fid, 1, out)
          /\ Return(e, out)
    /\ UNCHANGED <<mapVars, opened>>

ModifyFollower(e) ==
    /\ At(e, "call") /\ e.kind = "MODIFY"
    /\ \E out \in {"ok", "notfound", "fault"} :
          /\ ModifyAt(task[e].fid, e.n, out)
          /\ Return(e, out)
    /\ UNCHANGED <<mapVars, opened>>

\* _apply_fill: a fill whose label has no "#" opens a position
ApplyFill(e) ==
    /\ At(e, "label") /\ e.kind = "FILL"
    /\ LET label == LabelOf(e.leg)
       IN  /\ task' = [task EXCEPT ![e].pc = "cascade", ![e].label = label]
           /\ opened' = IF label # NoId /\ ~Synthetic(label)
                        THEN opened \cup {label} ELSE opened
    /\ UNCHANGED <<mapVars, folVars>>

-----------------------------------------------------------------------------
Step(e) ==
    \/ Reserve(e) \/ PlaceOrder(e) \/ PlaceBracket(e)
    \/ EnterBatch(e) \/ Register(e) \/ ExitBatch(e)
    \/ ResolveLabel(e) \/ LookupCancel(e)
    \/ CancelPrimary(e) \/ RemovePrimary(e)
    \/ LookupSibling(e) \/ CancelSibling(e) \/ RemoveSibling(e)
    \/ LookupModify(e) \/ ModifyFollower(e) \/ ApplyFill(e)

(* The process dies and restarts: the threads and the opened set are gone, *)
(* the map is loaded, and reconcile_with_follower runs before any event.   *)
(* It asks for the status of each order on file and removes the entries    *)
(* of terminal ones; a query that raises (a fault) leaves its entry.       *)
\* Faulty: no reconciliation at startup
PrunableNever == {}

Prunable == {l \in MapLabel :
                /\ disk[l] # NoRecord
                /\ disk[l].tradovate_id # NoId
                /\ TerminalKnown(disk[l].tradovate_id)}

Restart ==
    /\ \E gone \in SUBSET Prunable :
          /\ IF gone = Prunable THEN UNCHANGED faults ELSE Fault
          /\ ReloadThenPrune(gone)
    /\ task' = [e \in Event |-> IF e \in Running
                                THEN Thread("done", NoId, NoId, <<>>, "lost")
                                ELSE task[e]]
    /\ opened' = {}
    /\ UNCHANGED <<fol, folVer>>

ThreadTypeOK(t) ==
    /\ t.pc \in {"idle", "reserve", "place", "enter", "register", "label",
                 "lookup", "call", "remove", "cascade", "callsib",
                 "removesib", "tidysib", "done"}
    /\ t.label \in MapLabel \cup {NoId}
    /\ t.fid \in Leg \cup {NoId}
    /\ \A i \in DOMAIN t.todo :
          t.todo[i] \in {"set", "bind"} \X MapLabel \X Leg
    /\ t.result \in {"none", "ok", "skipped", "notfound", "fault",
                     "lost"}

ReplicatorTypeOK ==
    /\ MapTypeOK
    /\ fol \in [Leg -> {"none", "open", "cancelled", "filled"}]
    /\ folVer \in [Leg -> 0 .. MaxVer]
    /\ faults \in 0 .. MaxFaults
    /\ DOMAIN task = Event
    /\ \A e \in Event : ThreadTypeOK(task[e])
    /\ opened \subseteq MapLabel

-----------------------------------------------------------------------------
(* What the replicator promises whatever the source does.                  *)

(* The map never confuses two orders: whichever threads and hooks raced and
   whatever a restart loaded, a label leads to the follower order that was
   placed for that leg, and a source id to the label of its own leg. *)
MappingFaithful ==
    \A l \in MapLabel : Known(l) =>
        /\ byCoid[l].tradovate_id \in {NoId, l}
        /\ LET s == byCoid[l].ibkr_order_id
           IN  s # NoId => l \in {s, PollLabel(s)}

(* A cancelled order stays forgotten: once a cancel has been replicated, its
   id leads to no follower order, neither after later polls nor after a
   crash that loses the removal another thread's batch had deferred (the
   restart's reconciliation prunes it). *)
NoResurrection ==
    faults = 0 =>
        \A e \in Event :
            e.kind = "CANCEL" /\ task[e].result = "ok" => FollowerOf(e.leg) = NoId

(* Between events nothing is pending: with no thread running, every batch
   is closed and the file holds what memory holds. *)
SettledIsDurable ==
    Running = {} /\ ~stale => batchDepth = 0 /\ disk = byCoid

(* The order is open at the follower and its placement was reported, but no
   label leads to it: no cancel or modify will ever reach it again. *)
Orphaned(leg) ==
    /\ fol[leg] = "open"
    /\ task[NewOf(leg[1])].result = "ok"
    /\ RecordOf(leg).tradovate_id # leg

=============================================================================
