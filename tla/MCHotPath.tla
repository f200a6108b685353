------------------------------ MODULE MCHotPath ------------------------------
(***************************************************************************)
(* HotPath for TLC.  Label, SourceId and FollowerId are the legs' names.   *)
(***************************************************************************)
EXTENDS HotPath, TLC

\* placeoso answers with the ids of both exits
FullReplies == { <<"LMT", "STP">> }

SingleLegs == {Entry(o) : o \in Single}

StopLimitExits == {<<b, "STP">> : b \in Bracket}

\* A faulting call or a crash, not both.
OneTrouble == faults + crashes <= 1

=============================================================================
