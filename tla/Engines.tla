------------------------------ MODULE Engines ------------------------------
(***************************************************************************)
(* ui/app.py and ui/proxy_controller.py start, watch and stop one engine   *)
(* process per environment; main.py and wiring.py are what each does until *)
(* it listens: the addon's own path for an IBKR source, then one pipeline  *)
(* per enabled pair with a Tradovate source. The engines share the         *)
(* configuration file, which the panel may save in between, and the        *)
(* Gateways, which take one client per client id.                          *)
(*                                                                         *)
(* The GUI is one thread: while stop() waits nothing else happens in it.   *)
(* A reader thread follows every process it starts.                        *)
(***************************************************************************)
EXTENDS Integers, SequencesExt, FiniteSetsExt

CONSTANTS
    Env,        \* environments: one engine, one port, one API each
    Config,     \* the sequences of enabled pairs the panel may save
    OwnAccounts,\* environment -> the Tradovate accounts of the login, in order
    ShownAs,    \* Tradovate account, by its id -> the name Tradovate shows for it
    Named,      \* accounts registered by a name with letters in it
    Pinned,     \* environment -> the account its own settings name
    Traded,     \* IBKR accounts TradingView trades through the proxy
    Manages,    \* Gateway endpoint (host, port, client id) -> its accounts
    Default,    \* the Gateway of pairs without one of their own
    Nil,        \* no value
    MaxStarts,  \* bound on engines
    MaxSaves,   \* bound on changes of the configuration
    MaxQuits    \* bound on the GUI's exits

\* A pair: source and follower broker, environment and account, and Gateway.
Pairs == UNION { ToSet(c) : c \in Config }

ASSUME EngineAssumption ==
    /\ MaxStarts \in Nat \ {0} /\ MaxSaves \in Nat /\ MaxQuits \in Nat
    /\ Config \subseteq Seq(Pairs) /\ Config # {}
    /\ Default \in DOMAIN Manages /\ Nil \notin DOMAIN Manages
    /\ Nil \notin Nat /\ Nil \notin Nat \X {"addon", "wiring"}
    /\ \A c \in Config : \A i, j \in DOMAIN c :
           /\ c[i].source # c[i].follower
           /\ i # j => c[i].follower # c[j].follower

\* What is written for an account belongs to one broker and environment; no name
\* that Tradovate shows is another account's name or id, or an IBKR account; the
\* account of an engine's own client is one of its login.
ASSUME AccountAssumption ==
    /\ \A p, q \in Pairs : \A x \in {p.source, p.follower}, y \in {q.source, q.follower} :
           /\ x.account = y.account => x = y
           /\ x.broker # "tradovate" => x.account \notin Range(ShownAs)
    /\ \A e \in Env : ToSet(OwnAccounts[e]) \subseteq DOMAIN ShownAs
    /\ \A x, y \in DOMAIN ShownAs : ShownAs[x] \in {y, ShownAs[y]} => x = y
    /\ \A d, e \in Env : d # e => ToSet(OwnAccounts[d]) \intersect ToSet(OwnAccounts[e]) = {}
    /\ \A e \in Env : Pinned[e] \in ToSet(OwnAccounts[e])

VARIABLES
    config,   \* replication.json
    gui,      \* its thread: "idle", "stopping" or "closing", or "gone"
    ending,   \* the engines stop() waits for
    process,  \* controller's _process, by environment: a number, or Nil
    state,    \* controller's _state, by environment
    engine,   \* the engines, in the order of their start
    reader,   \* the thread that follows each of them
    held,     \* Gateway endpoint -> the client that is connected, or Nil
    saves, quits,
    overtaken \* history: environments started while a reader was still at
              \* the end of an earlier engine
engineVars == <<config, gui, ending, process, state, engine, reader, held, saves, quits, overtaken>>

Engine == DOMAIN engine
Alive(k) == engine[k].stage # "dead"
Parented(k) == ~engine[k].orphan

----------------------------------------------------------------------------
(* The GUI.                                                                *)

EnginesInit ==
    /\ config \in Config
    /\ gui = "idle" /\ ending = {}
    /\ process = [e \in Env |-> Nil] /\ state = [e \in Env |-> "stopped"]
    /\ engine = <<>> /\ reader = <<>>
    /\ held = [g \in DOMAIN Manages |-> Nil]
    /\ saves = 0 /\ quits = 0 /\ overtaken = {}

\* The panel saves another configuration that passes its validation.
SaveConfig ==
    /\ gui = "idle" /\ saves < MaxSaves /\ saves' = saves + 1
    /\ config' \in Config \ {config}
    /\ UNCHANGED <<gui, ending, process, state, engine, reader, held, quits, overtaken>>

IsActive(e) == state[e] \in {"starting", "running"}

\* _has_enabled_tradovate_source_pair
SourcedIn(e) == \E p \in ToSet(config) : p.source.broker = "tradovate" /\ p.source.env = e

AtTheEnd(r) == r.at \in {"ours", "told"}

\* _toggle_engine, _on_start and start(): refused while the process lives
StartEngine(e) ==
    /\ gui = "idle" /\ ~IsActive(e) /\ Len(engine) < MaxStarts
    /\ process[e] # Nil => ~Alive(process[e])
    /\ engine' = Append(engine, [env |-> e, ws |-> SourcedIn(e), stage |-> "boot",
                                 orphan |-> FALSE, watched |-> FALSE, listened |-> FALSE,
                                 failed |-> FALSE, todo |-> <<>>, feeds |-> {}, read |-> {}])
    /\ process' = [process EXCEPT ![e] = Len(engine) + 1]
    /\ state' = [state EXCEPT ![e] = "starting"]
    /\ reader' = Append(reader, [at |-> "begin", of |-> Nil])
    /\ overtaken' = IF \E k \in Engine : engine[k].env = e /\ AtTheEnd(reader[k])
                    THEN overtaken \union {e} ELSE overtaken
    /\ UNCHANGED <<config, gui, ending, held, saves, quits>>

\* stop() lets go of the process before it signals it and waits.
StopEngine(e) ==
    /\ gui = "idle" /\ IsActive(e)
    /\ process' = [process EXCEPT ![e] = Nil]
    /\ IF process[e] # Nil /\ Alive(process[e])
       THEN gui' = "stopping" /\ ending' = {process[e]} /\ UNCHANGED state
       ELSE state' = [state EXCEPT ![e] = "stopped"] /\ UNCHANGED <<gui, ending>>
    /\ UNCHANGED <<config, engine, reader, held, saves, quits, overtaken>>

\* _on_close stops the active engines in parallel, or all when none is active.
CloseWindow ==
    /\ gui = "idle" /\ quits < MaxQuits /\ quits' = quits + 1
    /\ LET active == { e \in Env : IsActive(e) }
           closed == IF active = {} THEN Env ELSE active
       IN  /\ ending' = { process[e] : e \in closed } \ {Nil}
           /\ process' = [e \in Env |-> IF e \in closed THEN Nil ELSE process[e]]
    /\ gui' = "closing"
    /\ UNCHANGED <<config, state, engine, reader, held, saves, overtaken>>

\* The GUI's process ends: its readers with it, the engines get another parent.
LeavesEngines ==
    /\ gui' = "gone"
    /\ engine' = [k \in Engine |-> [engine[k] EXCEPT !.orphan = TRUE]]
    /\ reader' = [k \in Engine |-> [at |-> "done", of |-> Nil]]

\* The engines ended, at SIGTERM or after five seconds by SIGKILL.
StopReturns ==
    /\ gui \in {"stopping", "closing"}
    /\ \A k \in ending : ~Alive(k)
    /\ ending' = {}
    /\ state' = [e \in Env |-> IF \E k \in ending : engine[k].env = e
                               THEN "stopped" ELSE state[e]]
    /\ IF gui = "closing"
       THEN LeavesEngines
       ELSE gui' = "idle" /\ UNCHANGED <<engine, reader>>
    /\ UNCHANGED <<config, process, held, saves, quits, overtaken>>

ForceQuit ==
    /\ gui # "gone" /\ quits < MaxQuits /\ quits' = quits + 1
    /\ ending' = {}
    /\ LeavesEngines
    /\ UNCHANGED <<config, process, state, held, saves, overtaken>>

Reopen ==
    /\ gui = "gone" /\ gui' = "idle"
    /\ process' = [e \in Env |-> Nil] /\ state' = [e \in Env |-> "stopped"]
    /\ overtaken' = {}
    /\ UNCHANGED <<config, ending, engine, reader, held, saves, quits>>

----------------------------------------------------------------------------
(* _read_loop, one thread per start.                                       *)

ReaderUnchanged == <<config, gui, ending, engine, held, saves, quits, overtaken>>

Advance(k, at) == reader' = [reader EXCEPT ![k].at = at]

\* It takes whatever process the controller has when it begins.
ReaderBegins(k) ==
    /\ reader[k].at = "begin"
    /\ LET p == process[engine[k].env] IN
           reader' = [reader EXCEPT ![k] = [at |-> IF p = Nil THEN "done" ELSE "reading", of |-> p]]
    /\ UNCHANGED <<process, state>> /\ UNCHANGED ReaderUnchanged

\* "mitmproxy listening on": the state is looked at, then set
ReadsMarker(k) ==
    /\ reader[k].at = "reading" /\ engine[reader[k].of].listened
    /\ Advance(k, IF state[engine[k].env] = "starting" THEN "marker" ELSE "marked")
    /\ UNCHANGED <<process, state>> /\ UNCHANGED ReaderUnchanged

SetsRunning(k) ==
    /\ reader[k].at = "marker"
    /\ state' = [state EXCEPT ![engine[k].env] = "running"]
    /\ Advance(k, "marked")
    /\ UNCHANGED process /\ UNCHANGED ReaderUnchanged

\* Faulty: takes every ended process for the controller's own.
AnyIsOurs(k) == TRUE

StillOurs(k) == process[engine[k].env] = reader[k].of

ReadsEnd(k) ==
    /\ \/ reader[k].at = "marked"
       \/ reader[k].at = "reading" /\ ~engine[reader[k].of].listened
    /\ ~Alive(reader[k].of)
    /\ Advance(k, IF StillOurs(k) THEN "ours" ELSE "done")
    /\ UNCHANGED <<process, state>> /\ UNCHANGED ReaderUnchanged

TellsEnd(k) ==
    /\ reader[k].at = "ours"
    /\ state' = [state EXCEPT ![engine[k].env] =
                     IF engine[reader[k].of].failed THEN "error" ELSE "stopped"]
    /\ Advance(k, "told")
    /\ UNCHANGED process /\ UNCHANGED ReaderUnchanged

\* Whatever the controller has by now is forgotten.
ForgetsProcess(k) ==
    /\ reader[k].at = "told"
    /\ process' = [process EXCEPT ![engine[k].env] = Nil]
    /\ Advance(k, "done")
    /\ UNCHANGED state /\ UNCHANGED ReaderUnchanged

----------------------------------------------------------------------------
(* An engine, until it listens.                                            *)

EngineUnchanged == <<config, gui, ending, process, state, reader, saves, quits, overtaken>>

\* Faulty: falls back on the login's first account.
ResolveOrFirst(e, a) == IF a \in ToSet(OwnAccounts[e]) THEN a ELSE OwnAccounts[e][1]

\* The account a client of engine e resolves: tradovate_factory pins numbers
\* only; a number is an id of the login, or else the name of one of its
\* accounts, or else an error.
Resolve(e, a) ==
    LET own == ToSet(OwnAccounts[e])
        shown == { x \in own : ShownAs[x] = a }
    IN  IF a \in Named THEN OwnAccounts[e][1]
        ELSE IF a \in own THEN a
        ELSE IF shown # {} THEN CHOOSE x \in shown : TRUE
        ELSE Nil

\* The account that is meant by what is written for it.
Means(a) ==
    LET shown == { x \in DOMAIN ShownAs : ShownAs[x] = a }
    IN  IF shown # {} THEN CHOOSE x \in shown : TRUE ELSE a

GatewayOf(p) == IF p.gateway = Nil THEN Default ELSE p.gateway

\* connect_and_wait: a Gateway may be down, and refuses a second client with
\* the same id.
Connects(client, g, there) == held[g] = client \/ (there /\ held[g] = Nil)

\* What an engine mirrors: from which account to which, whether it is what the
\* pair says, and whether the pair names an account of its ends by a name.
Feed(p, from, to) ==
    [from |-> from, to |-> to,
     paired |-> p # Nil /\ from = Means(p.source.account) /\ to = Means(p.follower.account),
     named |-> p # Nil /\ {p.source.account, p.follower.account} \intersect Named # {}]

Pipe(p, e, to) ==
    [Feed(p, Means(p.source.account), Means(p.follower.account))
        EXCEPT !.from = Resolve(e, p.source.account), !.to = to]

\* _neutral_ibkr_source_pair: the first enabled pair with an IBKR source,
\* whatever its environment
AddonPair ==
    LET at == { i \in DOMAIN config : config[i].source.broker = "ibkr" }
    IN  IF at = {} THEN Nil ELSE config[Min(at)]

\* The addon sees the orders of every account traded through the proxy.
AddonFeeds(p, to) == { Feed(p, a, t) : a \in Traded, t \in to }

\* _build_addon: that pair decides where the orders of every account go. An
\* IBKR follower gets a client of its own on the default Gateway; a Tradovate
\* one, and the follower without such a pair, is the engine's own account.
BuildAddon(k) ==
    /\ engine[k].stage = "boot"
    /\ LET p == AddonPair
           own == <<k, "addon">>
           built(to) == engine' = [engine EXCEPT ![k].stage = "built", ![k].read = {config},
                                      ![k].feeds = AddonFeeds(p, to)]
       IN  IF p = Nil \/ p.follower.broker = "tradovate"
           THEN built({Pinned[engine[k].env]}) /\ UNCHANGED held
           ELSE \E there \in BOOLEAN :
                    IF Connects(own, Default, there)
                    THEN /\ held' = [held EXCEPT ![Default] = own]
                         /\ built({p.follower.account} \intersect Manages[Default])
                    ELSE built({}) /\ UNCHANGED held
    /\ UNCHANGED EngineUnchanged

\* _build_source_pipelines_or_empty: those of both environments, by the
\* position of their pair
Pipelines(k) ==
    LET at == { i \in DOMAIN config : engine[k].ws /\ config[i].source.broker = "tradovate" }
    IN  [i \in at |-> config[i]]

\* main() takes its parent for the one it has now, and reads the pairs again.
StartWatcher(k) ==
    /\ engine[k].stage = "built"
    /\ engine' = [engine EXCEPT ![k].stage = "wiring", ![k].watched = Parented(k),
                  ![k].read = IF engine[k].ws THEN @ \union {config} ELSE @,
                  ![k].todo = Pipelines(k)]
    /\ UNCHANGED held /\ UNCHANGED EngineUnchanged

\* SourcePipeline.start: the follower first; then the observer, which keeps
\* trying when its account cannot be resolved.
StartPipeline(k) ==
    /\ engine[k].stage = "wiring"
    /\ \E i \in DOMAIN engine[k].todo :
       /\ \A j \in DOMAIN engine[k].todo : i <= j
       /\ LET e == engine[k].env
              p == engine[k].todo[i]
              rest == Restrict(engine[k].todo, DOMAIN engine[k].todo \ {i})
              own == <<k, "wiring">>
              g == GatewayOf(p)
              started(to) == engine' = [engine EXCEPT ![k].todo = rest,
                                        ![k].feeds = @ \union {Pipe(p, e, to)}]
              skipped == engine' = [engine EXCEPT ![k].todo = rest]
          IN  IF p.follower.broker = "tradovate"
              THEN /\ UNCHANGED held
                   /\ IF Resolve(e, p.follower.account) # Nil
                      THEN started(Resolve(e, p.follower.account)) ELSE skipped
              ELSE \E there \in BOOLEAN :
                       IF Connects(own, g, there)
                       THEN /\ held' = [held EXCEPT ![g] = own]
                            /\ IF p.follower.account \in Manages[g]
                               THEN started(p.follower.account) ELSE skipped
                       ELSE UNCHANGED held /\ skipped
    /\ UNCHANGED EngineUnchanged

Dies(k, failed) ==
    /\ engine' = [engine EXCEPT ![k].stage = "dead", ![k].failed = failed, ![k].feeds = {},
                                ![k].todo = <<>>, ![k].read = {}, ![k].ws = FALSE,
                                ![k].watched = FALSE]
    /\ held' = [g \in DOMAIN held |-> IF held[g] # Nil /\ held[g][1] = k THEN Nil ELSE held[g]]
    /\ UNCHANGED EngineUnchanged

\* "mitmproxy listening on" is logged before the proxy runs.
Announce(k) ==
    /\ engine[k].stage = "wiring" /\ DOMAIN engine[k].todo = {}
    /\ engine' = [engine EXCEPT ![k].stage = "announced", ![k].listened = TRUE]
    /\ UNCHANGED held /\ UNCHANGED EngineUnchanged

\* The port of the environment, which an engine still there keeps.
Listen(k) ==
    /\ engine[k].stage = "announced"
    /\ IF \E j \in Engine : engine[j].stage = "up" /\ engine[j].env = engine[k].env
       THEN Dies(k, TRUE)
       ELSE /\ engine' = [engine EXCEPT ![k].stage = "up"]
            /\ UNCHANGED held /\ UNCHANGED EngineUnchanged

\* SIGTERM or SIGKILL from stop(); a failed login, or a crash.
StopSignal(k) ==
    /\ Alive(k)
    /\ k \in ending
    /\ Dies(k, FALSE)

Fails(k) == Alive(k) /\ Dies(k, TRUE)

\* _watch_parent_process
WatcherExits(k) ==
    /\ Alive(k) /\ engine[k].watched /\ engine[k].orphan
    /\ Dies(k, FALSE)

EngineSteps(k) ==
    \/ BuildAddon(k) \/ StartWatcher(k) \/ StartPipeline(k)
    \/ Announce(k) \/ Listen(k)
    \/ StopSignal(k) \/ Fails(k) \/ WatcherExits(k)
ReaderSteps(k) ==
    \/ ReaderBegins(k) \/ ReadsMarker(k) \/ SetsRunning(k)
    \/ ReadsEnd(k) \/ TellsEnd(k) \/ ForgetsProcess(k)

EnginesNext ==
    \/ SaveConfig \/ CloseWindow \/ StopReturns \/ ForceQuit \/ Reopen
    \/ \E e \in Env : StartEngine(e) \/ StopEngine(e)
    \/ \E k \in Engine : EngineSteps(k) \/ ReaderSteps(k)

EnginesSpec == EnginesInit /\ [][EnginesNext]_engineVars

----------------------------------------------------------------------------
(* A controller that shows its engine as stopped or failed has none left   *)
(* running, and one that shows it active can stop it: no living engine is  *)
(* forgotten. Excused is a start that comes while a reader is between      *)
(* finding its engine ended and forgetting the controller's process.       *)
StoppedIsDead ==
    \A k \in Engine :
        LET e == engine[k].env IN
        Alive(k) /\ Parented(k) /\ e \notin overtaken
        => \/ process[e] = k /\ IsActive(e)
           \/ k \in ending

\* What the engines mirror. An observer without an account sees nothing.
Feeds == { m \in UNION { { [by |-> k, feed |-> f] : f \in engine[k].feeds } : k \in Engine } :
               m.feed.from # Nil }

\* The validation compares what is written: an account written once by its id
\* and once by its number in Tradovate's interface passes for two.
WrittenOneWay ==
    { c \in Config :
        \A p, q \in ToSet(c) : \A x \in {p.source, p.follower}, y \in {q.source, q.follower} :
            Means(x.account) = Means(y.account) => x.account = y.account }

\* Accounts registered by a name with letters lose their pin, and the addon
\* mirrors the orders of accounts no pair names, and to the engine's own
\* Tradovate account whichever the pair names.
AsConfigured(m) ==
    /\ ~m.feed.named /\ m.feed.paired
    /\ engine[m.by].read \subseteq WrittenOneWay

(* No account is mirrored onto itself, and none is fed twice, although     *)
(* every engine with pipelines starts those of both environments. Excused  *)
(* are feeds that are not what their pair says; configurations that write  *)
(* one account in two ways; engines that read different configurations;    *)
(* and two engines of one environment, which only a killed GUI or an       *)
(* overtaken start leaves behind.                                          *)
MirroredOnce ==
    LET configured == { m \in Feeds : AsConfigured(m) } IN
    /\ \A m \in configured : m.feed.from # m.feed.to
    /\ \A m, n \in configured :
           \/ m = n \/ m.feed.to # n.feed.to
           \/ Cardinality(engine[m.by].read \union engine[n.by].read) > 1
           \/ m.by # n.by /\ engine[m.by].env = engine[n.by].env

=============================================================================
