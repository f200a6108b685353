-------------------------------- MODULE Legs --------------------------------
(***************************************************************************)
(* The orders a trader places and the names they have.  A leg stands for   *)
(* one order at the source broker and, once replicated, for the one order  *)
(* placed for it at the follower; its id at either broker is the leg.      *)
(***************************************************************************)
EXTENDS Naturals, FiniteSets, Sequences

CONSTANTS
    Single,    \* orders without exits
    Bracket,   \* entry + take-profit + stop-loss
    Misnamed   \* exit legs the source's order list types as STP LMT

Order == Single \cup Bracket

Entry(o) == <<o, "ENTRY">>
Exits(b) == {<<b, "LMT">>, <<b, "STP">>}

LegsOf(o) == {Entry(o)} \cup IF o \in Bracket THEN Exits(o) ELSE {}

Leg     == UNION {LegsOf(o) : o \in Order}
ExitLeg == UNION {Exits(b) : b \in Bracket}

ASSUME LegAssumption ==
    /\ Single \cap Bracket = {}
    /\ Misnamed \subseteq {<<b, "STP">> : b \in Bracket}

EntryOf(leg) == Entry(leg[1])
Sibling(leg) == <<leg[1], IF leg[2] = "LMT" THEN "STP" ELSE "LMT">>

(* Labels are the keys of the order map.  A leg's own label (the cOID or   *)
(* the synthetic "<entry>#LMT") is written as the leg; "<entry>#STPLMT",   *)
(* which the order-list parser forms for a stop-limit exit while the       *)
(* replicator files that exit under "#STP", is a label of its own.         *)
GhostLabel(leg) == <<leg[1], "STPLMT">>

MapLabel == Leg \cup {GhostLabel(leg) : leg \in Misnamed}

\* parse_orders_list_bracket_children's role, joined to the parent's cOID
PollLabel(leg) == IF leg \in Misnamed THEN GhostLabel(leg) ELSE leg

=============================================================================
