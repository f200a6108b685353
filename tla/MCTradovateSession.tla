------------------------- MODULE MCTradovateSession -------------------------
EXTENDS TradovateSession, TLC

\* the second account's name looks like the first one's id
Names == "a1" :> "n1" @@ "a2" :> "a1" @@ "b1" :> "n3"

OwnAccounts == {"a1", "a2"}

IdOrName == {None, "a1", "n1"}

\* the listener's thread and the one that mirrors orders
Roles == [t \in {"t1", "t2"} |-> IF t = "t1" THEN {"connect", "use"}
                                ELSE {"list", "place"}]

Orders == {<<"a1", "a2", "b1">>, <<"b1", "a2", "a1">>}

=============================================================================
