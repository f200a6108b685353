------------------------------- MODULE HotPath -------------------------------
(***************************************************************************)
(* The live IBKR -> Tradovate direction: a trader on TradingView, IBKR     *)
(* behind it, and the mitmproxy addon between them.  Every order request   *)
(* the addon sees starts a thread of its own that runs the replicator      *)
(* (proxy/addon.py _spawn); the order responses and the /orders polls it   *)
(* sees bind IBKR's ids in the order map on the proxy's own thread.        *)
(***************************************************************************)
EXTENDS EventReplicator

CONSTANTS
    MaxCrashes,
    Cancellable,   \* the legs the trader may cancel
    SourceFills    \* the legs the market may execute at IBKR

ASSUME CrashAssumption == MaxCrashes \in Nat

VARIABLES
    src,        \* leg -> its state at IBKR
    srcVer,     \* leg -> version the trader's last modification gave it
    shown,      \* the legs whose IBKR id TradingView has
    answered,   \* orders whose POST response has passed, or was lost
    cancels,    \* leg -> number of cancel requests sent
    crashes,
    timely,     \* history: legs whose first cancel was sent once mapped
    early,      \* history: legs modified before they were mapped
    overlapped, \* history: legs modified while a modify of them ran
    lossy       \* history: a crash hit a replication or unsaved records

sourceVars == <<src, srcVer, shown, answered, cancels, crashes>>
historyVars == <<timely, early, overlapped, lossy>>
vars == <<replicatorVars, sourceVars, historyVars>>

Init ==
    /\ ReplicatorInit
    /\ src = [leg \in Leg |-> "none"]
    /\ srcVer = [leg \in Leg |-> 0]
    /\ shown = {}
    /\ answered = {}
    /\ cancels = [leg \in Leg |-> 0]
    /\ crashes = 0
    /\ timely = {}
    /\ early = {}
    /\ overlapped = {}
    /\ lossy = FALSE

Alive(leg) == src[leg] \in {"open", "cancelled", "filled"}

\* IBKR ends leg by state how, and with it the legs it groups natively.
SourceEnded(leg, how) ==
    [k \in Leg |->
        IF k = leg THEN how
        ELSE IF /\ src[k] = "open"
                /\ \/ leg \in ExitLeg /\ k = Sibling(leg)
                   \/ how = "cancelled" /\ leg \notin ExitLeg /\ k \in ExitLeg
                      /\ EntryOf(k) = leg
             THEN "cancelled"
        ELSE src[k]]

-----------------------------------------------------------------------------
(* The addon's hooks.                                                      *)

\* POST /orders: the request hook starts the replication at once; IBKR
\* then takes the order or refuses it
Submit(o) ==
    /\ src[Entry(o)] = "none"
    /\ task' = Starting({NewOf(o)})
    /\ \E verdict \in {"open", "rejected"} :
          src' = [leg \in Leg |-> IF leg \in LegsOf(o) THEN verdict ELSE src[leg]]
    /\ UNCHANGED <<mapVars, folVars, opened, srcVer, shown, answered, cancels,
                   crashes, historyVars>>

\* _handle_new_order_response: only the entry's id is in the response, and
\* a refusal carries none
OrderResponse(o) ==
    /\ src[Entry(o)] # "none" /\ o \notin answered
    /\ answered' = answered \cup {o}
    /\ IF src[Entry(o)] = "rejected" THEN UNCHANGED <<mapVars, shown>>
       ELSE /\ BindSourceId(Entry(o), Entry(o))
            /\ shown' = shown \cup {Entry(o)}
    /\ UNCHANGED <<folVars, task, opened, src, srcVer, cancels, crashes,
                   historyVars>>

\* _handle_orders_list_response, one child of GET /orders: deferred while
\* the parent's id is unbound, bound whatever its status otherwise.  The
\* two lock acquisitions are one step: only the child's binding writes.
OrdersPoll(leg) ==
    /\ leg \in ExitLeg /\ Alive(leg)
    /\ IF LabelOf(EntryOf(leg)) = NoId THEN UNCHANGED mapVars
       ELSE BindSourceId(PollLabel(leg), leg)
    /\ shown' = shown \cup {leg}
    /\ UNCHANGED <<folVars, task, opened, src, srcVer, answered, cancels,
                   crashes, historyVars>>

Mapped(leg) == FollowerOf(leg) # NoId

\* The replica is placed, filed, and bound to the leg's id.
Reachable(leg) == Mapped(leg) /\ task[NewOf(leg[1])].result = "ok"

\* DELETE /orders/{id}: replicated whether or not IBKR still has the order
\* open.  A DELETE that an execution overtakes is one sent after it.
UserCancel(leg) ==
    /\ leg \in shown \cap Cancellable /\ cancels[leg] < MaxCancels
    /\ cancels' = [cancels EXCEPT ![leg] = @ + 1]
    /\ task' = Starting({[kind |-> "CANCEL", leg |-> leg, n |-> cancels'[leg]]})
    /\ src' = IF src[leg] = "open" THEN SourceEnded(leg, "cancelled") ELSE src
    /\ timely' = IF Reachable(leg) /\ cancels[leg] = 0
                 THEN timely \cup {leg} ELSE timely
    /\ UNCHANGED <<mapVars, folVars, opened, srcVer, shown, answered, crashes,
                   early, overlapped, lossy>>

\* POST /orders/{id}
UserModify(leg) ==
    /\ leg \in shown /\ src[leg] = "open" /\ srcVer[leg] < MaxVer
    /\ srcVer' = [srcVer EXCEPT ![leg] = @ + 1]
    /\ task' = Starting({[kind |-> "MODIFY", leg |-> leg, n |-> srcVer'[leg]]})
    /\ early' = IF Reachable(leg) THEN early ELSE early \cup {leg}
    /\ overlapped' =
          IF \E e \in Running : e.kind = "MODIFY" /\ e.leg = leg
          THEN overlapped \cup {leg} ELSE overlapped
    /\ UNCHANGED <<mapVars, folVars, opened, src, shown, answered, cancels,
                   crashes, timely, lossy>>

-----------------------------------------------------------------------------
(* The brokers and the process.                                            *)

\* An execution at IBKR, which the addon is not told of.
SourceFill(leg) ==
    /\ leg \in SourceFills /\ src[leg] = "open"
    /\ leg \in ExitLeg => src[EntryOf(leg)] = "filled"
    /\ src' = SourceEnded(leg, "filled")
    /\ UNCHANGED <<replicatorVars, srcVer, shown, answered, cancels, crashes,
                   historyVars>>

MarketFill(leg) ==
    /\ FollowerFill(leg)
    /\ UNCHANGED <<mapVars, task, opened, sourceVars, historyVars>>

Replicate(e) ==
    /\ Step(e)
    /\ UNCHANGED <<sourceVars, historyVars>>

\* The responses in flight are lost with the proxy.
Crash ==
    /\ crashes < MaxCrashes
    /\ Restart
    /\ crashes' = crashes + 1
    /\ answered' = {o \in Order : src[Entry(o)] # "none"}
    /\ lossy' = \/ lossy
                \/ \E o \in Order : NewOf(o) \in Running
                \/ byCoid # disk
    /\ UNCHANGED <<src, srcVer, shown, cancels, timely, early,
                   overlapped>>

Next ==
    \/ \E o \in Order : Submit(o) \/ OrderResponse(o)
    \/ \E leg \in Leg :
          \/ OrdersPoll(leg) \/ UserCancel(leg) \/ UserModify(leg)
          \/ SourceFill(leg) \/ MarketFill(leg)
    \/ \E e \in Event : Replicate(e)
    \/ Crash

Spec == Init /\ [][Next]_vars

\* A thread, once started, runs on: its calls have timeouts.
Fairness == \A e \in Event : WF_vars(Replicate(e))

FairSpec == Spec /\ Fairness

-----------------------------------------------------------------------------
(* Every variable keeps its type, and so every thread its place. *)
TypeOK ==
    /\ ReplicatorTypeOK
    /\ src \in [Leg -> {"none", "open", "rejected", "cancelled", "filled"}]
    /\ srcVer \in [Leg -> 0 .. MaxVer]
    /\ shown \subseteq Leg
    /\ answered \subseteq Order
    /\ cancels \in [Leg -> 0 .. MaxCancels]
    /\ crashes \in 0 .. MaxCrashes
    /\ timely \cup early \cup overlapped \subseteq Leg
    /\ lossy \in BOOLEAN

(* The replicator never loses hold of a live follower order: unless a call
   faulted or a crash cut a replication short, an order that is open at the
   follower and was reported placed is on file under its leg. *)
NoOrphan ==
    faults = 0 /\ ~lossy => \A leg \in Leg : ~Orphaned(leg)

(* Nothing is cancelled at the follower that the trader did not cancel:
   only legs with a cancel request, and the OCO siblings of those. *)
NoSpuriousCancel ==
    \A leg \in Leg :
        fol[leg] = "cancelled" =>
            \/ cancels[leg] > 0
            \/ leg \in ExitLeg /\ cancels[Sibling(leg)] > 0

Untroubled == faults = 0 /\ crashes = 0

\* The cancel of leg has reached the follower, and so has its OCO effect.
CancelledThere(leg) ==
    /\ fol[leg] # "open"
    /\ leg \in ExitLeg /\ fol[leg] = "cancelled" => fol[Sibling(leg)] # "open"

(* The first cancel of a leg, sent once the leg is mapped, takes the follower's
   order down, and the OCO sibling with it, however the threads of the entry's,
   the exits' and other orders' requests interleave.  A leg first cancelled
   too early is left out: that thread may have read no label and then find
   the follower's id, so that it cancels without a cascade, and a second,
   timely cancel finds the record gone and skips the cascade too. *)
TimelyCancelLands ==
    Running = {} /\ Untroubled => \A leg \in timely : CancelledThere(leg)

(* The same as progress: no thread can be kept from finishing a cancel. *)
CancelMirrored ==
    \A leg \in Leg : leg \in timely ~> CancelledThere(leg) \/ ~Untroubled

(* Modifications of a mapped leg that do not overtake each other bring the
   follower's order to the version the trader left. *)
ModificationsArrive ==
    Running = {} /\ Untroubled =>
        \A leg \in Leg \ (early \cup overlapped) :
            fol[leg] = "open" /\ cancels[leg] = 0 => folVer[leg] = srcVer[leg]

=============================================================================
