----------------------------- MODULE MCPushFeed -----------------------------
EXTENDS PushFeed, TLC

\* the single orders, and the exit whose reports name the entry
SinglesAndStops == {Entry(o) : o \in Single} \cup {<<b, "STP">> : b \in Bracket}

=============================================================================
