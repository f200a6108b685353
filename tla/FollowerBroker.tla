--------------------------- MODULE FollowerBroker ---------------------------
(***************************************************************************)
(* The broker orders are replicated to, as the endpoints use it: each      *)
(* operation is one request whose effect and outcome the caller sees as    *)
(* "ok", "notfound" (TradovateOrderNotFound) or "fault" (any other         *)
(* exception: a refusal, or a request lost before or after it took effect).*)
(***************************************************************************)
EXTENDS Legs

CONSTANTS
    NativeOco,   \* native_oco: TRUE for IBKR, FALSE for Tradovate
    MaxFaults    \* bound on the calls that raise something else

ASSUME FaultAssumption == MaxFaults \in Nat

VARIABLES
    fol,      \* leg -> state of the order placed for it
    folVer,   \* leg -> version of its price/quantity
    faults    \* calls that have faulted

folVars == <<fol, folVer, faults>>

FollowerInit ==
    /\ fol = [leg \in Leg |-> "none"]
    /\ folVer = [leg \in Leg |-> 0]
    /\ faults = 0

Fault == faults < MaxFaults /\ faults' = faults + 1

\* An exit leg sits suspended until its entry fills.
Working(leg) ==
    /\ fol[leg] = "open"
    /\ leg \in ExitLeg => fol[EntryOf(leg)] = "filled"

\* The legs the broker takes down with leg when leg ends by state how:
\* IBKR's ocaGroup and parentId; Tradovate's placeoso groups nothing.
Dragged(leg, how) ==
    IF ~NativeOco THEN {}
    ELSE IF leg \in ExitLeg THEN {Sibling(leg)}
    ELSE IF how = "cancelled" /\ leg[1] \in Bracket THEN Exits(leg[1])
    ELSE {}

Ended(leg, how) ==
    [k \in Leg |->
        IF k = leg THEN how
        ELSE IF k \in Dragged(leg, how) /\ fol[k] = "open" THEN "cancelled"
        ELSE fol[k]]

\* place_order / place_bracket for the legs of one source order, which the
\* follower has at version 0
Place(legs, out) ==
    /\ UNCHANGED folVer
    /\ \/ /\ out = "ok"
          /\ fol' = [leg \in Leg |-> IF leg \in legs THEN "open" ELSE fol[leg]]
          /\ UNCHANGED faults
       \/ /\ out = "fault" /\ Fault
          /\ \/ UNCHANGED fol
             \/ fol' = [leg \in Leg |->
                           IF leg \in legs THEN "open" ELSE fol[leg]]

\* cancel_order: Tradovate answers OrderNotFound for an order that is gone,
\* IBKR's cancelOrder is transmitted and never raises for one
CancelAt(leg, out) ==
    /\ UNCHANGED folVer
    /\ \/ out = "ok" /\ fol[leg] = "open"
          /\ fol' = Ended(leg, "cancelled") /\ UNCHANGED faults
       \/ out = "ok" /\ NativeOco /\ fol[leg] # "open"
          /\ UNCHANGED <<fol, faults>>
       \/ out = "notfound" /\ ~NativeOco /\ fol[leg] # "open"
          /\ UNCHANGED <<fol, faults>>
       \/ out = "fault" /\ Fault
          /\ \/ UNCHANGED fol
             \/ fol[leg] = "open" /\ fol' = Ended(leg, "cancelled")

\* modify_order
ModifyAt(leg, ver, out) ==
    /\ UNCHANGED fol
    /\ \/ out = "ok" /\ fol[leg] = "open"
          /\ folVer' = [folVer EXCEPT ![leg] = ver] /\ UNCHANGED faults
       \/ out = "ok" /\ NativeOco /\ fol[leg] # "open"
          /\ UNCHANGED <<folVer, faults>>
       \/ out = "notfound" /\ ~NativeOco /\ fol[leg] # "open"
          /\ UNCHANGED <<folVer, faults>>
       \/ out = "fault" /\ Fault
          /\ \/ UNCHANGED folVer
             \/ fol[leg] = "open"
                /\ folVer' = [folVer EXCEPT ![leg] = ver]

\* The market executes an order at the follower.
FollowerFill(leg) ==
    /\ Working(leg)
    /\ fol' = Ended(leg, "filled")
    /\ UNCHANGED <<folVer, faults>>

\* order_status returns one of _TERMINAL_STATUSES.  IBKR's status cache
\* starts empty with the process, so a restarted client knows none.
TerminalKnown(leg) == ~NativeOco /\ fol[leg] \in {"cancelled", "filled"}

=============================================================================
