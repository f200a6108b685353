----------------------- MODULE MCReplicationSettings -----------------------
EXTENDS ReplicationSettings

\* a fresh install, and a list where an alternative is kept disabled
Files ==
    { [pairs |-> <<>>, book |-> {}],
      [pairs |-> << [src |-> "x", flw |-> "y", on |-> TRUE],
                    [src |-> "z", flw |-> "y", on |-> FALSE] >>,
       book |-> { [label |-> "A", id |-> "x", blank |-> FALSE],
                  [label |-> "B", id |-> "y", blank |-> FALSE],
                  [label |-> "C", id |-> "z", blank |-> FALSE] }] }

=============================================================================
