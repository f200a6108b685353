----------------------------- MODULE MCEngines -----------------------------
EXTENDS Engines, TLC

End(b, e, a) == [broker |-> b, env |-> e, account |-> a]
P(from, to, g) == [source |-> from, follower |-> to, gateway |-> g]

\* an IBKR source beside a Tradovate one behind the same Gateway; pairs of both
\* environments, Tradovate accounts, some written by the number Tradovate shows
\* and one by a name with letters, and one that is to follow an IBKR account; and
\* a Gateway of its own beside an account written in two ways
Saved ==
    { << P(End("ibkr", "demo", "i3"), End("ibkr", "demo", "i4"), Nil),
         P(End("tradovate", "live", "201"), End("ibkr", "demo", "i1"), Nil) >>,
      << P(End("tradovate", "demo", "d1"), End("tradovate", "demo", "102"), Nil),
         P(End("tradovate", "live", "l2"), End("tradovate", "live", "201"), Nil),
         P(End("tradovate", "demo", "dn"), End("tradovate", "demo", "d1"), Nil),
         P(End("ibkr", "demo", "i3"), End("tradovate", "demo", "d3"), Nil) >>,
      << P(End("tradovate", "live", "l2"), End("ibkr", "demo", "i1"), "g2"),
         P(End("tradovate", "demo", "d1"), End("tradovate", "demo", "d2"), Nil),
         P(End("tradovate", "demo", "d3"), End("tradovate", "demo", "102"), Nil) >> }

Logins == "demo" :> <<"d1", "d2", "d3", "d4">> @@ "live" :> <<"l1", "l2">>
Shown == "d1" :> "101" @@ "d2" :> "102" @@ "d3" :> "103" @@ "d4" :> "dn"
         @@ "l1" :> "201" @@ "l2" :> "202"
Settings == "demo" :> "d3" @@ "live" :> "l1"
Gateways == "g1" :> {"i1", "i4"} @@ "g2" :> {"i1"}

=============================================================================
