----------------------------- MODULE PushPipeline -----------------------------
(***************************************************************************)
(* The Tradovate-source direction (wiring.py SourcePipeline): one listener *)
(* thread takes the events of the push channel in order and runs the       *)
(* replicator on each before it reads the next.  The events carry the      *)
(* source ids of all legs, and every leg's label is its own order id.      *)
(* How the frames become events is the parser's business, not modelled     *)
(* here.                                                                   *)
(***************************************************************************)
EXTENDS EventReplicator

CONSTANT MaxCrashes

ASSUME CrashAssumption == MaxCrashes \in Nat

\* The channel reports the end of an order once.
ASSUME CancelAssumption == MaxCancels >= 1

VARIABLES
    src,       \* leg -> its state at the source broker
    srcVer,    \* leg -> its version at the source broker
    inbox,     \* events pushed and not yet taken by the listener
    crashes,
    missed     \* history: a crash lost an event or cut one short

sourceVars == <<src, srcVer, crashes, missed>>
vars == <<replicatorVars, sourceVars, inbox>>

Init ==
    /\ ReplicatorInit
    /\ src = [leg \in Leg |-> "none"]
    /\ srcVer = [leg \in Leg |-> 0]
    /\ inbox = <<>>
    /\ crashes = 0
    /\ missed = FALSE

Push(events) == inbox' = inbox \o events

CancelOf(leg) == [kind |-> "CANCEL", leg |-> leg, n |-> 1]
FillOf(leg)   == [kind |-> "FILL", leg |-> leg, n |-> 0]

\* An exit is suspended, away from the exchange, until its entry fills.
AtExchange(leg) == leg \in ExitLeg => src[EntryOf(leg)] = "filled"

\* What becomes of a leg the trader or its strategy cancels: only a leg at
\* the exchange has its cancellation reported.
Dropped(leg) == IF AtExchange(leg) THEN "cancelled" ELSE "dropped"

\* The order strategy ends exit k with leg.
Drags(leg, how, k) ==
    /\ leg[1] \in Bracket /\ k \in Exits(leg[1]) /\ k # leg
    /\ src[k] = "open"
    /\ leg \in ExitLeg \/ how # "filled"

SourceEnded(leg, how) ==
    [k \in Leg |-> IF k = leg THEN how
                   ELSE IF Drags(leg, how, k) THEN Dropped(k) ELSE src[k]]

CancelReport(leg) == IF AtExchange(leg) THEN <<CancelOf(leg)>> ELSE <<>>

\* The reports on the exits that end with leg.
DragReports(leg, how) ==
    LET report(k) == IF Drags(leg, how, k) THEN CancelReport(k) ELSE <<>>
    IN  report(<<leg[1], "LMT">>) \o report(<<leg[1], "STP">>)

-----------------------------------------------------------------------------
(* The source broker.                                                      *)

SourceNew(o) ==
    /\ src[Entry(o)] = "none"
    /\ src' = [leg \in Leg |-> IF leg \in LegsOf(o) THEN "open" ELSE src[leg]]
    /\ Push(<<NewOf(o)>>)
    /\ UNCHANGED <<replicatorVars, srcVer, crashes, missed>>

SourceCancel(leg) ==
    /\ src[leg] = "open"
    /\ src' = SourceEnded(leg, Dropped(leg))
    /\ Push(CancelReport(leg) \o DragReports(leg, "cancelled"))
    /\ UNCHANGED <<replicatorVars, srcVer, crashes, missed>>

SourceModify(leg) ==
    /\ src[leg] = "open" /\ srcVer[leg] < MaxVer
    /\ srcVer' = [srcVer EXCEPT ![leg] = @ + 1]
    /\ Push(<<[kind |-> "MODIFY", leg |-> leg, n |-> srcVer'[leg]]>>)
    /\ UNCHANGED <<replicatorVars, src, crashes, missed>>

SourceFill(leg) ==
    /\ src[leg] = "open"
    /\ AtExchange(leg)
    /\ src' = SourceEnded(leg, "filled")
    /\ Push(<<FillOf(leg)>> \o DragReports(leg, "filled"))
    /\ UNCHANGED <<replicatorVars, srcVer, crashes, missed>>

-----------------------------------------------------------------------------
(* The pipeline.                                                           *)

\* _on_event runs on the listener thread: the next event waits for it
Listen ==
    /\ Running = {} /\ inbox # <<>>
    /\ task' = Starting({Head(inbox)})
    /\ inbox' = Tail(inbox)
    /\ UNCHANGED <<mapVars, folVars, opened, sourceVars>>

Replicate(e) == Step(e) /\ UNCHANGED <<sourceVars, inbox>>

MarketFill(leg) ==
    /\ FollowerFill(leg)
    /\ UNCHANGED <<mapVars, task, opened, sourceVars, inbox>>

\* What was pushed and not applied is not pushed again.
Crash ==
    /\ crashes < MaxCrashes
    /\ Restart
    /\ crashes' = crashes + 1
    /\ inbox' = <<>>
    /\ missed' = (missed \/ inbox # <<>> \/ Running # {} \/ byCoid # disk)
    /\ UNCHANGED <<src, srcVer>>

Next ==
    \/ \E o \in Order : SourceNew(o)
    \/ \E leg \in Leg :
          \/ SourceCancel(leg) \/ SourceModify(leg) \/ SourceFill(leg)
          \/ MarketFill(leg)
    \/ Listen
    \/ \E e \in Event : Replicate(e)
    \/ Crash

Spec == Init /\ [][Next]_vars

-----------------------------------------------------------------------------
(* Every variable keeps its type; the listener runs one event at a time. *)
TypeOK ==
    /\ ReplicatorTypeOK
    /\ src \in [Leg -> {"none", "open", "cancelled", "dropped", "filled"}]
    /\ srcVer \in [Leg -> 0 .. MaxVer]
    /\ \A i \in DOMAIN inbox : inbox[i] \in Event
    /\ crashes \in 0 .. MaxCrashes
    /\ missed \in BOOLEAN
    /\ Cardinality(Running) <= 1

(* The replicator never loses hold of a live follower order, with crashes
   between events; only a fault or a crash that lost something excuses it. *)
NoOrphan ==
    faults = 0 /\ ~missed => \A leg \in Leg : ~Orphaned(leg)

(* Everything pushed was applied, and nothing was lost on the way. *)
CaughtUp == inbox = <<>> /\ Running = {} /\ faults = 0 /\ ~missed

\* The source's bracket closed by its other exit, which took this one along:
\* event_replicator.py:313 leaves it to the native bracket at the follower.
ClosedByItsSibling(leg) == leg \in ExitLeg /\ src[Sibling(leg)] = "filled"

(* What the source cancelled is not left working at the follower, also
   across restarts: a leg whose cancellation was reported, and an exit that
   went unreported with its entry, unless the follower's entry has filled
   and the exit protects a position there. Excused is the exit that ended
   because the other one executed, whose cancel a follower with a native
   bracket is not to get. *)
CancelsArrive ==
    CaughtUp =>
        \A leg \in Leg :
            \/ src[leg] = "cancelled" /\ ~ClosedByItsSibling(leg)
            \/ /\ src[leg] = "dropped"
               /\ src[EntryOf(leg)] = "cancelled"
               /\ fol[EntryOf(leg)] # "filled"
            => fol[leg] # "open"

(* One listener keeps the order of modifications: the follower's order ends
   at the source's version, also after a restart from the stored map. *)
ModificationsArrive ==
    CaughtUp =>
        \A leg \in Leg : fol[leg] = "open" => folVer[leg] = srcVer[leg]

(* No order is cancelled at the follower while the source keeps it and the
   follower's own executions do not explain it. *)
NoSpuriousCancel ==
    \A leg \in Leg :
        fol[leg] = "cancelled" =>
            \/ src[leg] # "open"
            \/ leg \in ExitLeg /\ fol[Sibling(leg)] = "filled"

(* event_replicator.py:313: the cancel of the sibling that closes the source
   bracket is not replicated to a native-OCO follower, "stranding the
   follower open and unhedged" otherwise: a follower position whose source
   was closed by an exit keeps an exit until one of them executes. *)
ProtectionKept ==
    \A b \in Bracket :
        /\ \E leg \in Exits(b) : src[leg] = "filled"
        /\ fol[Entry(b)] = "filled"
        => \E leg \in Exits(b) : fol[leg] # "cancelled"

=============================================================================
