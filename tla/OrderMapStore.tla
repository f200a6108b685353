---------------------------- MODULE OrderMapStore ----------------------------
(***************************************************************************)
(* The order map under arbitrary calls from any number of threads, with    *)
(* nested and overlapping batch() blocks, failing writes, and crashes.     *)
(***************************************************************************)
EXTENDS OrderMap

CONSTANT Block    \* the batch() blocks threads may have open

ASSUME BlockAssumption == IsFiniteSet(Block)

VARIABLES
    openBlocks,   \* the batch() blocks now open
    shared        \* history: ids bound to a label while another carried them

vars == <<mapVars, openBlocks, shared>>

Init ==
    /\ MapInit
    /\ openBlocks = {}
    /\ shared = {}

Unaided == UNCHANGED <<openBlocks, shared>>

Add(l)            == AddPending(l) /\ Unaided
SetFollower(l, f) == SetFollowerId(l, f) /\ Unaided
RemoveSource(s)   == RemoveBySourceId(s) /\ Unaided
RemoveLabel(l)    == RemoveByLabel(l) /\ Unaided

Bind(l, s) ==
    /\ BindSourceId(l, s)
    /\ shared' = IF Carriers(byCoid, s) \subseteq {l}
                 THEN shared ELSE shared \cup {s}
    /\ UNCHANGED openBlocks

EnterBlock(b) ==
    /\ b \notin openBlocks
    /\ BatchEnter
    /\ openBlocks' = openBlocks \cup {b}
    /\ UNCHANGED shared

\* __exit__ runs on an exception too: a block that is entered is exited
ExitBlock(b) ==
    /\ b \in openBlocks
    /\ BatchExit
    /\ openBlocks' = openBlocks \ {b}
    /\ UNCHANGED shared

Crash ==
    /\ Reload
    /\ openBlocks' = {}
    /\ UNCHANGED shared

Next ==
    \/ \E l \in Label : Add(l) \/ RemoveLabel(l)
    \/ \E l \in Label, f \in FollowerId : SetFollower(l, f)
    \/ \E l \in Label, s \in SourceId : Bind(l, s)
    \/ \E s \in SourceId : RemoveSource(s)
    \/ \E b \in Block : EnterBlock(b) \/ ExitBlock(b)
    \/ Crash

Spec == Init /\ [][Next]_vars

-----------------------------------------------------------------------------
(* The fields have the types order_map.py gives them. *)
TypeOK ==
    /\ MapTypeOK
    /\ openBlocks \subseteq Block
    /\ shared \subseteq SourceId

(* A source id never resolves to a record that carries another id or that
   was removed: _coid_by_ibkr has no dangling entry, whatever the order of
   set_ibkr_id, the two removals and restarts. *)
IndexSound ==
    \A s \in SourceId :
        coidByIbkr[s] # NoId => coidByIbkr[s] \in Carriers(byCoid, s)

(* A bound order can always be found: while no id has been bound to two
   labels, a record that carries an id is what that id resolves to, also
   after a restart in the middle of a batch. *)
IndexComplete ==
    \A s \in SourceId \ shared :
        \A l \in Carriers(byCoid, s) : coidByIbkr[s] = l

(* Overlapping batches of several threads neither lose count nor keep a
   deferred write past the last one: once no batch() block is open, the
   file holds the map (unless the last write failed). *)
DurableOutsideBatch ==
    openBlocks = {} /\ ~stale => disk = byCoid

(* A restart may lose only what an open batch deferred or a failed write
   left behind: in every other state it changes no record and no lookup of
   an id that was bound to one label only. *)
CrashLosesOnlyDeferred ==
    [][ Crash /\ ~batchDirty /\ ~stale =>
          /\ byCoid' = byCoid
          /\ \A s \in SourceId \ shared : coidByIbkr'[s] = coidByIbkr[s] ]_vars

=============================================================================
