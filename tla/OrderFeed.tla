------------------------------ MODULE OrderFeed ------------------------------
(***************************************************************************)
(* What a source of events promises its replicator, whatever the network   *)
(* lost: a leg is in at most one NEW event, and the details a NEW or a     *)
(* MODIFY carries for a leg are never older than those of an event before. *)
(***************************************************************************)
EXTENDS Naturals

CONSTANTS
    Watched,   \* the legs of the account that is observed
    Version    \* the numbers of a leg's details, 0 for none

VARIABLES
    announced, \* leg -> number of NEW events that carried it
    carried    \* leg -> version the last NEW or MODIFY carried for it

feedVars == <<announced, carried>>

FeedInit ==
    /\ announced = [leg \in Watched |-> 0]
    /\ carried = [leg \in Watched |-> 0]

\* The details of no leg go back, and only legs in S change theirs.
Forward(S) ==
    /\ carried' \in [Watched -> Version]
    /\ \A leg \in Watched :
          /\ carried'[leg] >= carried[leg]
          /\ leg \notin S => carried'[leg] = carried[leg]

Announce(S) ==
    /\ \A leg \in S : announced[leg] = 0
    /\ announced' = [leg \in Watched |-> IF leg \in S THEN 1 ELSE announced[leg]]
    /\ Forward(S)

Amend == Forward(Watched) /\ UNCHANGED announced

FeedNext == (\E S \in SUBSET Watched : Announce(S)) \/ Amend

FeedSpec == FeedInit /\ [][FeedNext]_feedVars

=============================================================================
