# TradeSynchronizer: a verification project

TradeSynchronizer mirrors the orders of a source brokerage account to one or
more follower accounts. This directory holds TLA+ modules that model its core,
TLC configurations that check them on small instances, and theorems about the
order map, the replicator in both directions, the push channel, the two broker
clients, the position reconciler, the settings panel and the engines that TLAPS
checks for every value of the constants.

Paths below are relative to the repository, which is `src/` here:
`event_replicator.py` is `src/tradesync/event_replicator.py`.

## 1. The system and its parts

```
 TradingView ──► mitmproxy addon ──► IBKR          Tradovate user-sync WebSocket
                 │ hook per request,                    │ one listener thread
                 │ a thread per replication             │ frames → push parser
                 ▼                                      ▼
        IBKREventSourceObserver                 SourcePipeline._on_event
                 └───────────────┬──────────────────────┘
                                 ▼
                     EventReplicator.apply(event)   one per follower
                        │                    │
               OrderMap (file)      FollowerEndpoint
               one per follower     TradovateEndpoint | IbkrFollowerEndpoint
                                             │
       PositionReconciler (timer, reads both sides)   Tradovate | IBKR Gateway
                                              (one client object for all threads)

  GUI: settings panel ──► replication.json, accounts.json ──► read by each engine
       process controller ──► one engine (main.py) per environment
```

| part | state | operations | talks to |
|---|---|---|---|
| **Order map** `order_map.py` | `_by_coid` (label → source id, follower id), the reverse index `_coid_by_ibkr`, a JSON file, `_batch_depth`, `_batch_dirty` | `add_pending`, `set_follower_id`, `bind_source_id`, two removals, lookups, `batch()`, write, load | called by every thread under one lock |
| **Event replicator** `event_replicator.py` | `_opened_bracket_bases` | `apply` of NEW, CANCEL, MODIFY, FILL; the OCO cascade; `reconcile_with_follower` at startup | the map and the follower, in several separate steps per event |
| **Follower endpoints** `brokers/*_endpoint.py`, `tradovate.py`, `ibkr_api_client.py` | sessions, the IBKR status cache, the next IBKR order id | place, cancel, modify, status | HTTP or a socket, with timeouts |
| **IBKR source** `proxy/addon.py`, `ibkr_parser.py`, `ibkr_event_source_observer.py` | none but the map it binds ids in | request, response and order-list hooks | a daemon thread per order request (`_spawn`); the hooks themselves run on the proxy's thread |
| **Tradovate source** `wiring.py`, `brokers/tradovate_ws_observer.py`, `brokers/tradovate_push_parser.py` | the parser's tables of orders, versions and strategies; the socket | frame → events → `apply` | one listener thread, sequential |
| **Position reconciler** `position_reconciler.py`, `get_positions` of `ibkr_api_client.py` | the last report; at the client, one accumulator and one event for all callers | a timed comparison of both accounts; never trades | both brokers |
| **Tradovate client** `brokers/tradovate.py` | token, expiry, account, contract caches | login, renewal, every operation's request | HTTP; used by request threads, listener and timers at once |
| **IBKR client** `brokers/ibkr_api_client.py` | the next order id, pending lookups, what was placed and what was echoed, the rejection handler | connect, placements leg by leg, cancel, modify, the reader's callbacks | one socket per Gateway login, shared by its endpoints |
| **Settings panel** `ui/replication_settings.py`, **configuration** `replication_config.py`, `account_book.py` | the accounts, the list of pairs, what a form is editing; the two files | add, edit, update, remove, toggle; validate, save, load | files |
| **Engine bootstrap** `main.py`, `wiring.py` | the addon's follower, the pipelines | read the configuration, connect, start, listen | the proxy, the clients |
| **GUI process controller** `ui/proxy_controller.py`, `ui/app.py` | per environment a process and a state shown | start, stop, a reader thread per engine, quit | the operating system |
| **Gateway orchestration**, **alerts**, **launchers** | processes and ports | start, poll, log | the operating system |

### What is hard in it

* **Threads per request.** On the IBKR path the NEW, CANCEL and MODIFY of one
  order run on three threads that only share the map's lock; each handler takes
  the lock several times and calls the follower between.
* **Ids that arrive late.** IBKR answers a bracket with its entry's id only; the
  exits' ids come from later polls, on another thread, under a label the parser
  rebuilds from the order's type.
* **A batch counter shared by all threads.** While one thread registers a bracket
  every other thread's write waits in memory.
* **Partial failure.** A placement may time out after it took effect; a
  cancel may be answered *not found*; a sibling's cancel may fail; a write to disk
  may fail silently.
* **Frames in pieces.** One order at Tradovate is five kinds of frames; a NEW needs
  several of them, a Replaced report names the wrong leg, and a lost connection
  swallows any of them.
* **Two reads, one comparison.** The reconciler reads the accounts one after the other
  while they trade, and at the IBKR client two callers share what they read into.
* **Crash and restart.** Threads die with their locals; the map is reloaded from
  the file; only terminal orders are pruned.
* **One session, many threads.** Tokens, their expiry and the account are fields
  without a lock: a thread may log in while another sends. At the IBKR client order ids
  restart with a session while the ids on file do not, requests share a number space
  with the orders whose refusals come back through the same callback, and a
  modification is built on what the last echo said.
* **Lists that change under a form.** The settings panel edits a position in a list and
  checks an account's use by what was typed.
* **Processes that end on their own.** The GUI's thread, the reader of each engine and
  the reader of the one before it write the same state.
* **Two OCO regimes.** IBKR groups exits natively, Tradovate's `placeoso` does
  not, so the replicator cascades for one and must keep still for the other.

### What makes each part correct

* Order map: index and records agree; the file holds the map when no batch is
  open; a crash loses only what was deferred.
* Replicator: a label never leads to another order; a live replica whose
  placement was reported stays reachable; a cancelled order stays forgotten;
  nothing is cancelled without a request; a cancel of a mapped order arrives.
* Pipelines: the follower ends where the source did when nothing was lost.
* Push parser: each source order gives at most one NEW and its details never go
  back, whatever was lost; with nothing lost a bracket is whole and the events lead
  where the account is.
* Observer: once the troubles of a connection end, it is listening again.
* Reconciler: a follower that was in step throughout a pass is not reported, a
  divergence that stays is, and a quiet pass overlooks no position on the wrong side.

* Tradovate client: no request travels with an expired token, an order carries the
  account that was asked for, and an operation gets through once exchanges succeed.
* IBKR client: a filed id leads to no other order, no entry works without an exit that was
  neither refused nor cancelled, modifications add up, a refusal raises the alarm.
* Settings: the file always passes its validation; an account in use stays; a form
  changes the pair it was opened on.
* Engines: a controller that shows an engine as stopped has none running; no account
  is fed twice or mirrored onto itself by a configuration that writes each account one way.

`PROJECT.json` lists each hazard at its line, with the properties aimed at it.

## 2. The modules

| module | models | extends |
|---|---|---|
| `OrderMap` | the fields of `OrderMap`, each mutator with the write it ends in, load and index rebuild | |
| `OrderMapStore` | that map under arbitrary calls: overlapping `batch()` blocks, failed writes, crashes | `OrderMap` |
| `OrderMapProofs` | five theorems about `OrderMapStore` | `OrderMapStore` |
| `Legs` | orders, bracket exits, their labels, and the label the order list gives a stop-limit exit | |
| `FollowerBroker` | the follower as its endpoints use it: outcome and effect of each call, native OCO or none, executions | `Legs` |
| `EventReplicator` | `apply` as a thread: one action per use of the lock or of the follower; restart with reconciliation | `OrderMap`, `FollowerBroker` |
| `HotPath` | IBKR → Tradovate: the trader, the addon's hooks, a thread per request, crashes | `EventReplicator` |
| `PushPipeline` | Tradovate → IBKR: one listener that takes events in order, crashes | `EventReplicator` |
| `ReplicatorProofs` | the replicator's invariant, kept by every step of every thread and by a restart, whatever the source | `EventReplicator` |
| `HotPathProofs` | eight theorems about `HotPath` | `HotPath`, `ReplicatorProofs` |
| `PushPipelineProofs` | six theorems about `PushPipeline` | `PushPipeline`, `ReplicatorProofs` |
| `OrderFeed` | the abstract promise of a source of events: one NEW per leg, details that never go back | |
| `PushParser` | the parser's tables and `handle`: what each kind of frame changes and emits | `Legs` |
| `WsObserver` | the supervisor `_run_with_reconnect` and the stages of one connection | |
| `PushFeed` | a Tradovate account, its frames, the connection and the parser; shown to implement `OrderFeed` | `PushParser`, `WsObserver` |
| `Scaling` | `scale_quantity` with the ratio as a fraction | |
| `IbkrPositions` | `get_positions` as its callers share it: accumulator, event, the reader's callbacks | |
| `PositionReconciler` | a pass per pair, the accounts that trade meanwhile, failed and timed out reads | `IbkrPositions`, `Scaling` |
| `PositionReconcilerProofs` | four theorems about the reconciler and its sizes | `PositionReconciler` |
| `TradovateSession` | the Tradovate client under several threads and a clock: login, renewal, account, requests | |
| `TradovateProofs` | three theorems about `TradovateSession`, four about `PushFeed` | `TradovateSession`, `PushFeed` |
| `IbkrSession` | the order side of an IBKR client shared by endpoints, the Gateway, the reader thread, drops and restarts | |
| `IbkrSessionProofs` | five theorems about `IbkrSession` | `IbkrSession` |
| `ReplicationSettings` | the account book and the list of pairs as the panel's forms change them, with both files | |
| `Engines` | the GUI's controllers and readers, the engines they start, and what each engine mirrors where | |
| `GuiProofs` | three theorems about `ReplicationSettings`, two about `Engines` | `ReplicationSettings`, `Engines` |
| `MCOrderMapStore`, `MCHotPath`, `MCPushPipeline`, `MCPushFeed`, `MCPositionReconciler`, `MCTradovateSession`, `MCIbkrSession`, `MCReplicationSettings`, `MCEngines` | symmetry, definitions the configurations give to constants, one state constraint | |

### State and code

* `byCoid`, `coidByIbkr`, `batchDepth`, `batchDirty` are the map's fields;
  `disk` is the file's content and `stale` marks that the last write failed.
  A record is the pair of ids; order metadata is left out, no property reads it.
  On a load, an id that two records carry goes to whichever comes last in the
  file, which the model leaves open (`Contested`).
* `task[e]` is the thread that applies event `e`: its place in the handler, the
  locals that live across a lock or a call (`label`, `fid`, the registrations
  still to make) and the outcome it returned. A handler's steps follow the code:
  for a cancel `ResolveLabel`, `LookupCancel`, `CancelPrimary`, `RemovePrimary`,
  then the cascade `LookupSibling`, `CancelSibling`, `RemoveSibling`.
* `opened` is `_opened_bracket_bases`.
* `fol`, `folVer` are the follower's orders and the version of their price and
  quantity; `faults` counts the calls that raised anything but *not found*. A
  faulting call may or may not have taken effect.
* `src`, `srcVer` are the source's orders; `shown` the ids TradingView knows;
  `answered` the placements whose response has passed the proxy; `inbox` the
  events pushed and not yet applied.
* `timely`, `early`, `overlapped`, `lossy`, `missed`, `shared` are history
  variables: they record what a property's premise speaks of and guard nothing.

In `PushFeed`:

* `channel` is what is sent and not yet read. `PlaceEntry`, `AddExits`, `Modify`,
  `Replaced`, `Cancel`, `FillEntry` and `FillExit` are the account; each sends the
  frames of `captures/tradovate_frames_2026-06-14.json`, in that order, or loses them
  when no connection is synced (`gap`).
* `Handle` is one call of the parser's `handle`: what a frame puts into the tables of
  orders, versions, links and strategies and, when the bracket is complete or a report
  asks for it, the event that goes to `news` or `told`. Contract lookups may fail
  (`unresolved`).
* `conn` is the place of the listener thread in `_run_with_reconnect` and
  `_connect_and_run`; `mute` a socket that is open and silent; `attempt` the index
  into the backoff schedule.

In `PositionReconciler`:

* `stage[p]` is the place of pair `p`'s thread in `check_once` and `get_positions`;
  `seen[p]` the source position it has read; `accum`, `event` the client's shared
  fields; `stream` the callbacks still to be made by the reader thread.
* `Place`, `SourceExecutes` and `FollowerExecutes` are the trading that goes on
  during a pass. `named` is what the client's contract cache resolves.
* `meant`, `parted`, `quiet`, `excused` are history: the position in step with the
  source, and what happened during the pass.

In `TradovateSession`:

* `token` and `expiration` are `_access_token` and `_expiration` as the ticks they have
  left, so that a clock is a countdown; `pc[t]` is a thread's place, from `fresh`
  (`_ensure_fresh_token`) through `renewing`, `auth`, `listing` to `sent`. Storing a
  token and storing its expiry are two steps (`StoreToken`, `StoreExpiration`).
* `depth[t]` counts the logins a thread is inside: `connect()` lists the accounts
  through a request that checks the token first.
* `blind` remembers a token whose expiry could not be parsed.

In `IbkrSession`:

* `toGateway` and `toClient` are the socket, `book` the Gateway's orders, `filed` the
  ids in the order maps, `tracked`, `placed`, `echo`, `resolving` the client's tables.
* `Connect`, `Resolve`, `AllocOrderIds`, `SendLeg`, `CancelOrder` and `ModifyOrder` are
  an endpoint's thread; `ReaderTakes` is a callback; `GatewayTakes` what the Gateway
  makes of a message: it accepts, refuses, cancels or changes an order.
* A bracket is an entry with up to two exits, in either order (`Forms`, `Children`). Each
  leg goes out by itself and only the last one transmits. The Gateway holds an order until
  a request with `transmit` names it as parent or belongs to its bracket (`Released`,
  `Transmitted`): that is the last leg, whatever became of those before it, and any later
  modification, since `modify_order` sets the flag. Exits are one OCA group, and go with
  their entry when that is cancelled (`Ends`).
* The source acts whether or not the endpoint can follow. A call that raises, because the
  socket is down or because a modification finds neither an echo nor a remembered order,
  is an action too (`CancelRaises`, `ModifyRaises`): the change is in `lost`, not in `meant`.
* `meant`, `lost`, `acts`, `refused`, `rejected`, `excused`, `early`, `reissued` are history.

In `ReplicationSettings`:

* `book` and `pairs` are what the screen shows, `disk` what is in `replication.json`;
  `editing` and `acctForm` are the forms. An account keeps whether its number was typed
  with blanks. `opened`, `shifted`, `typed` and `lost` are history.

In `Engines`:

* `process[e]`, `state[e]` are the controller's fields, `reader` the threads that read
  an engine's output, `engine` the processes with the stage of `main()` they are at,
  `held` the client id each Gateway has given away. `ReadsEnd`, `TellsEnd` and
  `ForgetsProcess` are the reader's tail, one assignment each.
* `AddonPair` is the pair that rules the addon, `Pipelines(k)` the pairs `main()` builds
  pipelines for, by their place in the configuration it has read; `Feed` and `Pipe` are
  what they mirror: from which account, to which, and whether that is what the pair says
  (`paired`) and whether the pair names an account by a name with letters (`named`).
* A Tradovate account has an id and a name, and the name may be a number too (`ShownAs`).
  `Resolve` finds the account a pin means by either, as `resolve_account` does; validation
  compares what is written. `Means` says which account stands behind a writing.
* `Announce` logs the line the controller takes for running, before `Listen` binds the port.
* What is written for an account stands for one of one broker in one environment
  (`AccountAssumption`); a number of another environment is one the login does not know.

One id stands for a leg at both brokers, so an id never has to be invented;
`MappingFaithful` is what says the map keeps them apart. Definitions with *Faulty*
in their comment are plausible mistakes in the code: the project's mutants put one
in place of the definition beside it, and each checked property is broken by one.

## 3. The runs

| run | instance | states | what it shows |
|---|---|---|---|
| `order_map` | 3 labels, 2 source ids, 1 follower id, 2 overlapping blocks, failing writes, crashes | 419 k | index and records agree, batches flush exactly when the last closes, a crash loses only what was deferred |
| `hot_bracket` | one bracket, one cancel per leg, a fault or a crash | 466 k | the cascade takes the sibling down and nothing else; live replicas stay on file; a timely cancel lands |
| `hot_pair` | a single order and a bracket with a stop-limit stop, a crash | 606 k | one order's batch defers another's removal, polls create records of their own, and still no two orders are confused and no cancelled one comes back |
| `hot_single` | one order, two modifications, two cancels, a fault, a crash | 52 k | a cancel of a mapped order is mirrored, under fairness; modifications that do not overlap arrive |
| `push_native` | one bracket to a native-OCO follower, a modification per leg, a fault, a crash | 344 k | with one listener the follower ends as the source did |
| `push_feed` | a single order and a bracket, one modification of the single and of the stop, one trouble of the connection, one failed lookup | 682 k | brackets are announced whole, Replaced reports find their leg, no leg is announced twice, the listener comes back |
| `reconciler` | one pair at ratio 1 or 1/3, two trades, two lost replicas, failed reads or timeouts | 224 k | alarms are real, a quiet pass overlooks nothing, a divergence that stays is reported |
| `tradovate_session` | two threads (one logs in and reads, one lists and places), a token of 5 ticks, one exchange that fails | 394 k | tokens outlive the requests they travel with, orders carry the right account, operations recover |
| `ibkr_session` | two endpoints on one client (a bracket with a stop and a take-profit, a single order), two acts on them, one drop, restart, refusal or failed lookup | 3.14 M | ids lead to their own orders, no entry works without an exit that was neither refused nor cancelled, modifications add up, refusals are told |
| `replication_settings` | three account ids, three labels, lists of up to three pairs, six operations | 235 k | the file stays valid, accounts in use stay, forms change their own pair |
| `engines` | both environments, three configurations (one writes an account by its id and by its numeric name), two starts, one saved configuration, one kill or close of the GUI | 2.31 M | no living engine is forgotten, no account is fed twice |
| `push_stranded` | one bracket to a native-OCO follower | | a comment of the code that the code does not keep (section 6) |

### Why these bounds

* Two labels are enough for every conflict over one source id; the third lets an
  id move on while two others still carry it. Two blocks overlap without
  nesting, which is where a shared counter could lose count.
* Races on the hot path are within one bracket (entry, two exits: all the roles
  there are) or between one order and another's batch; `hot_pair` has the second
  with the smallest such pair. Cancels and source executions are on the single
  order only there, since `hot_bracket` has the bracket's own.
* One fault and one crash are the smallest that leave something to clean up.
  `hot_bracket` takes either and not both (`OneTrouble`), because every property it
  checks is excused once both happened.
* `MaxVer = 2` is needed for one modification to overtake another; `MaxCancels = 2`
  for a cancel sent again while the first still runs.
* `SaveMayFail` is TRUE in `order_map` only. In the pipelines a failed write acts as
  a crash before the write, which they have.
* `MaxUnread = 0`: the account moves on when its frames are read. Frames are read in
  the order they were sent and the parser never looks at the account, so a backlog
  changes nothing but which suffix a break loses, and a break may come after any frame.
* In `push_feed` the single order and the stop may be modified and the bracket's entry
  executed: these are the cases of `_emit_modify` (the report names the leg, or the
  entry) and of a bracket armed while its entry fills. `Delays = 1` keeps one step of
  the backoff schedule; the length of a delay is no part of the model.
* `reconciler` has one pair: pairs meet only in the shared client, where two callers
  take each other's positions (section 6), so that with two an alarm need not be real. Two trades are needed for roundings to add up and for
  a position to flip; two faults for a lost replica and a failed read after it. The
  ratio 1/3 rounds to nothing but for the floor of one contract.
* `tradovate_session`: a leeway of three exchanges is the least at which
  `NoExpiredToken` holds, as a login's account list is sent after the check and the
  operation's own request after that; the code's own figures (300 s, 10 to 15 s) are well
  above. `Lifetime = 5` is the least above a leeway and an exchange, so that tokens
  expire, are renewed and replaced within a run. The second account's name looks like
  the first one's id.
* `ibkr_session`: four ids are one bracket with both exits and one order, so that an id
  that restarts meets one that is filed. Two acts are a modification that overtakes
  another, or a cancel after it. One trouble is a drop, a restart, a refused leg or a failed
  lookup; a refused stop with a modification of the entry that follows it is within these
  bounds. `MaxUnread = 2`: the Gateway answers only while fewer than two callbacks wait. Two
  are enough for one endpoint's answer to arrive ahead of the other's and for an echo to
  wait behind a refusal; the theorems have no such limit. The two changes are
  interchangeable, hence the symmetry.
* `replication_settings`: three pairs are the smallest list in which a removal above the
  edited pair leaves another one to hit; six operations reach it with a form open.
* `engines`: two starts let a start overtake the reader of the engine before; one save
  lets two engines read different configurations. The accounts are written by id, by the
  number Tradovate shows and by a name with letters; two of the configurations write each
  account one way, the third writes one both ways.
* `CHECK_DEADLOCK FALSE` everywhere but in `order_map` and `tradovate_session`: a trader
  or a user may stop, and a system at rest is no deadlock.

### Fairness

`hot_single` uses `HotPath`'s `FairSpec`: weak fairness of each started
thread's steps, `WF_vars(Replicate(e))`. Every thread is a daemon thread of its own
that the interpreter schedules; the lock is never held across a call; and the
broker clients give every request a timeout. Nothing is assumed of the trader,
the market, IBKR's answers or polls, or crashes. `CancelMirrored` is a
leads-to under exactly that assumption.

`push_feed` uses `PushFairSpec`: weak fairness of `Proceed` and `Deliver`. The listener is a daemon
thread; connecting has a timeout of 10 s, a read one of 1 s, a silent socket is
noticed after 15 s and the backoff sleeps at most its last delay. One assumption is
about the server: it answers `authorize` and `user/syncrequest` on a connection that
does not break. The code has no timeout for those: heartbeats alone keep the watchdog
quiet.

`tradovate_session` assumes weak fairness of each thread's steps: threads are scheduled
and every HTTP exchange has a timeout. Nothing is assumed of the start of operations or
of the clock, and `SessionRecovers` speaks of the time after the last failed exchange.

`reconciler` assumes weak fairness of each pair's pass (a timer thread whose loop
survives every exception of a read, and whose wait has a timeout of 5 s) and of the
reader thread's callbacks. Neither trades, faults nor executions are fair.

### What the properties excuse

* `NoOrphan` speaks of runs without a faulting call and without a crash that cut a
  replication short or lost records: after one of those the code has no means to
  find the order again, and a property that asked for it would be about another
  program.
* `NoResurrection` needs no fault, but holds with crashes: a removal that a batch had
  deferred is lost, and the startup reconciliation removes the entry again since
  the order is terminal.
* `TimelyCancelLands` and `CancelMirrored` speak of cancels sent once the replica is
  mapped and its placement reported. An earlier one finds no follower id, is skipped,
  and nothing replays it (`event_replicator.py:307`): the slot reserved before the
  placement lets it find the label, and no more. `TimelyCancelLands` speaks of a leg's
  *first* cancel: one sent too early may find no label, then the follower's id, and cancel
  without a cascade; a second, timely cancel finds the record gone and skips the cascade
  too, so that the sibling stays open.
* `ModificationsArrive` leaves out modifications whose threads overlap on the IBKR path:
  nothing orders them, and the older may stay.
* `BracketWhole` and `FollowsAccount` speak of runs in which no frame was lost,
  `FollowsAccount` also of those in which every contract was resolved: nothing retries
  a single order's NEW. What holds in spite of losses is `FeedImplemented`.
* `AlarmIsReal` excuses a read that timed out, a symbol no lookup found and, at a ratio
  other than one, roundings of several orders: the tolerance is per symbol and the
  rounding per order, as `position_reconciler.py:226-231` itself describes.
  A late answer is in before the next pass begins: the interval, 30 s, is six times
  the timeout of the read.
* `CancelsArrive` asks that what the source cancelled is down at the follower, unless it is
  the exit that went because the other one executed: `event_replicator.py:313-325` means
  that cancel not to be sent to a follower whose native bracket has it already.
* `SessionRecovers` excuses tokens that came without an expiry: each later operation
  refuses to start until something calls `connect()` again.
* `FiledIdIsItsOrder` excuses an id taken before `nextValidId` came (`early`) and an id
  that the Gateway gives again at a later connection (`reissued`): the comments at
  `wiring.py:108-109` and `ibkr_api_client.py:518-520` speak of both, and the code has no
  answer to the second. `NoNakedEntry` asks that each exit of a working entry *lives*. It
  excuses an exit the Gateway refused (`rejected`): a stop that was refused is passed over
  by the take-profit, which transmits the entry, and when the last exit was refused a later
  modification transmits it. It excuses brackets one of whose exits was cancelled, by its
  own source or through an older order whose filed id the Gateway gave again (`Stray`).
  `ModificationsCompose` leaves out the changes whose call raised (`lost`): nothing repeats
  them, and each is reported as a failed replication. It excuses a modification made before
  the echo of the last was in (`ibkr_follower_endpoint.py:293`), and orders whose messages
  a break of the connection swallowed. `RefusalsReported` speaks of the refusals `_is_order_rejection` lists.
* `PairsBacked` excuses an account whose number was typed with blanks, which matches no
  pair, and pairs of a list that a restart brings back. `EditHitsItsPair` excuses the
  removal of a pair above the edited one.
* `StoppedIsDead` excuses a start that overtakes a reader between its last test and its
  last assignment. `MirroredOnce` excuses feeds that are not what their pair says: those
  of accounts registered by a name, and the addon's when it feeds the engine's own account
  and its pair names another. It excuses engines that read different configurations, two
  engines of one environment, and configurations that write an account in two ways, by its
  id and by its number in Tradovate's interface (`WrittenOneWay`): those are accepted, and
  the account is then fed twice or mirrored onto itself. All but the two about engines are
  in section 6.

## 4. What is proved

### The order map

`OrderMapProofs`, for all sets `Label`, `SourceId`, `FollowerId` and every finite
`Block`. The assumptions are those the modules name: `NoRecordAssumption` and
`NoIdAssumption` (the null values are no records, labels or ids), `SaveAssumption`
(`SaveMayFail` is a Boolean), `BlockAssumption`.

| theorem | statement | argument |
|---|---|---|
| `TypeCorrect` | `Spec => []TypeOK /\ []BatchBalanced` | `batchDepth` stays a natural number only because it equals the number of open blocks, so `BatchBalanced` is part of the induction |
| `IndexIsSound` | `Spec => []IndexSound` | one case per mutator; a load indexes only what it read |
| `IndexIsComplete` | `Spec => []IndexComplete` | `IndexComplete` alone is not inductive: a restart replaces the records by the file's. `CompleteInv` adds the file: for an id that was never in two records at once, the index leads to the one record that carries it, and at most one record on file does |
| `Durability` | `Spec => []DurableOutsideBatch` | `DurableInv`: with nothing marked dirty and no failed write the file is the map, and something is marked only while a block is open |
| `CrashIsBenign` | `Spec => CrashLosesOnlyDeferred` | an action property from the invariants above |

### The replicator and its two directions

For all sets of orders, brackets, misnamed exits, cancels, modifications, crashes and
faults, with failing writes or without. The assumptions are those of `Legs`, `OrderMap`
and `EventReplicator` (`LegAssumption`, `NamesAssumption`, the null values) and that the
bounds are natural numbers (`BoundAssumption`, `FaultAssumption`, `CrashAssumption`).

What a direction is, and what its follower answers, are premises of the theorems and not
assumptions on the constants:

* `RepliesInOrder`: `placeoso` answers with the ids of the exits in the order they were
  sent, though it may leave out the last ones, on which `zip(bracket.children,
  placed.child_order_ids)` relies. `FullReplies` leaves none out: an exit whose id was
  never told is out of the map's reach, and `NoOrphan` would be false of it.
* `LiveDirection` is IBKR → Tradovate: `RepliesInOrder`, no ids in the requests
  (`~IdsInEvents`) and a follower without native OCO. `SyntheticLabels` says that exits
  carry `base#TYPE` labels there, from which the cascade knows a sibling.
* `PushDirection` is Tradovate → IBKR: both premises on replies (IBKR takes ids from the
  client), ids in every event, native OCO, labels that are the orders' own ids.

The configurations `hot_*` and `push_native` are instances of these.

| theorem | statement | argument |
|---|---|---|
| `HotPathTypeCorrect` | `RepliesInOrder /\ Spec => []TypeOK` | `batchDepth` stays a natural number only because it counts the threads between `EnterBatch` and `ExitBatch` (`BatchCounted`) |
| `HotPathMapsFaithfully`, `PushMapsFaithfully` | `RepliesInOrder /\ Spec => []MappingFaithful` | below |
| `HotPathSettles`, `PushSettles` | `RepliesInOrder /\ Spec => []SettledIsDurable` | `Accounted`: what the file lacks is marked dirty or a write failed, and nothing is marked while the depth is zero; with `BatchCounted`, no running thread means depth zero |
| `CancelsAreTheTraders` | `RepliesInOrder /\ ~NativeOco /\ Spec => []NoSpuriousCancel` | a thread calls the follower with its own leg's id or, in a cascade, its sibling's (`ThreadOK`), and only a request starts a cancel (`CancelsAsked`) |
| `CancelledStayForgotten` | `LiveDirection /\ Spec => []NoResurrection` | below |
| `OpenOrdersStayReachable` | `LiveDirection /\ FullReplies /\ Spec => []NoOrphan` | `HeldInv`, below |
| `ModificationsGetThrough` | `LiveDirection /\ FullReplies /\ Spec => []ModificationsArrive` | `VersionInv`, below |
| `TimelyCancelsLand` | `LiveDirection /\ FullReplies /\ SyntheticLabels /\ Spec => []TimelyCancelLands` | `LandInv`, below |
| `PushTypeCorrect` | `RepliesInOrder /\ Spec => []TypeOK` | `PushTyped`: the inbox holds events of the source, and one event at a time is being applied |
| `PushKeepsHold` | `PushDirection /\ Spec => []NoOrphan` | `PipelineInv`, below |
| `PushCancelsArrive` | `PushDirection /\ Spec => []CancelsArrive` | `PipelineInv` |
| `PushModificationsArrive` | `PushDirection /\ Spec => []ModificationsArrive` | `PipelineInv` |

`MappingFaithful` speaks of the map in memory only, and is not inductive: a restart
replaces the map by the file, a lookup follows the index, and a thread files an id it
got several steps before. `ReplicatorInv` says the same of each of these: `Faithful` of
the map and the file, `FaithfulIndex`, and `ThreadOK` of every thread's locals (label,
follower id, registrations left to file). `ReplicatorProofs` shows that every step of
`EventReplicator` keeps it and knows nothing of a source; the two directions add their
own steps.

`NoResurrection` needs more: that the id of a cancelled order is not filed *again*.
`FilingInv` follows one leg. Its id is filed at most once, by its own placement, and
after the call of the broker (`TodosOK`); it is on file, in memory or on disk, only once
that placement is done with it (`FilesSettled`); so after a removal nothing is left that
could file it. A cancel that finds the order knows that the index leads to the leg's own
record (`Held`), so that its removal removes it, although a poll may bind other labels
in between. The file may still have it, when the removal was deferred by the batch of
another thread; a crash then brings it back, and the startup reconciliation removes it,
because the follower reports it cancelled and Tradovate reopens nothing (`Over`). One
faulted query leaves it, which is why the property excuses faults.

The three properties of an order's whole course rest on `LiveInv`, which is all of the
above with `HeldInv`: a placement that has answered has filed all its ids
(`DonePlacements`), a cascade removes the sibling's record only when the sibling is not
open (`SiblingsOver`), and every open order whose placement is done is on record
(`OpenFiled`). `NoOrphan` alone says nothing of threads on their way to a removal; what
makes a removal safe is that only a cancel of the leg, or the cascade from its sibling,
reaches one, and both after the follower's order is down.

`VersionInv` says of each open order that its version is the trader's or the modification
that will make it so is running and can no longer miss the record: it has the follower's
id, or the record is there for it to find. Modifications that overlap are left out from
the moment they do, so one of them at most is running.

`LandInv` says of each leg with a timely cancel that the order is down or a cancel that
will reach it is running (`TimelyOK`), and that between the cancel of an exit and the end
of its sibling some thread is on the cascade with the label in hand. A second cancel is no
harm because the first already knew the label. `CascadedOK`: an exit that no request
cancelled was cancelled by a cascade, whose origin is down.

In the other direction everything follows from order. `OrderInv` says that the inbox
holds each event once, a placement before what follows it and modifications by version,
that what it told is all there is, and that one event is applied at a time. `ApplyInv`
says what an event has left once it was applied: the records of a placement are filed and
lead to the order (`OpenMapped`), a finished cancel has its order down (`CancelsApplied`), the last
modification its version in force (`VersionsApplied`); an exit opens and goes with its
entry (`EntryLeads`), and no cascade ever runs (`NoCascade`), because no label has a `#`,
which is the finding of section 6 seen from the other side. Both are claimed of runs
without a fault or an interrupted event (`Lossless`).

### The Tradovate client

`TradovateProofs`, for all threads, operations, accounts, orders of the account
list and any clock. The assumptions are `TimeAssumption` (the leeway is at least three
exchanges, a token outlives the leeway and an exchange), `AccountAssumption`,
`NoneAssumption` and `ListAssumption`.

| theorem | statement | argument |
|---|---|---|
| `SessionTypeCorrect` | `Spec => []TypeOK` | part of `SessionInv` |
| `TokensOutliveRequests` | `Spec => []NoExpiredToken` | the property says nothing of the token a thread has not yet sent. `SessionInv` adds what every place may rely on: the stored token is at most an exchange older than the stored expiry (`ClientOK`), a grant on its way has lost at most what its exchange took, and a token about to be used outlives an exchange (`ThreadOK`). A login's list is safe because no login begins within a login, which itself follows from the clock |
| `OrdersReachTheAccount` | `ListsComplete /\ Spec => []OrdersOnAccount` | the account, once set, is an intended one and is never unset; requests copy it. `ListsComplete` says that a list names every account and one is the user's: the code takes the first account of a list without one |

`MoveKeeps` is the common step: a thread that moves to a place suits the client it
leaves, and the client it leaves serves all other threads (`Serves`). `TickKeeps` is
the clock's.

### The Tradovate push channel

`TradovateProofs`, for all single orders and brackets, legs that may be modified or
executed, numbers of modifications, failed lookups, troubles of the connection, delays of
the backoff, and frames left unread. The assumptions are `LegAssumption`,
`ParserAssumption` and `ObserverAssumption` (the bounds are natural numbers, the backoff
schedule is not empty); no theorem has another premise.

| theorem | statement | argument |
|---|---|---|
| `FeedTypeCorrect` | `PushSpec => []FeedTypeOK` | part of `FeedInv` |
| `FeedIsAnOrderFeed` | `PushSpec => FeedImplemented` | `FeedInv`, below: each frame read maps to an `Announce`, an `Amend` or a stutter of `OrderFeed` |
| `BracketsComeWhole` | `PushSpec => []BracketWhole` | `GapInv`, below |
| `EventsFollowTheAccount` | `PushSpec => []FollowsAccount` | `ResolvedInv`, below |

The invariants come in three layers, by what the connection has done so far. `FeedInv`
holds whatever was lost. A queued `orderVersion` is not older than the version the parser has read nor newer
than the order (`FrameOK`), the versions of a leg are queued in order and its link before
its report (`InOrder`): that is why a leg's details never go back. A leg is in at most one
NEW event, and in one only if it is marked as emitted (`NewsOK`): that is why none is
announced twice. A leg that was emitted as a single order is never linked afterwards,
because its link would have come before the report, and a report whose link was lost can
be followed by no other link.

`GapInv` adds, while no frame was lost, `WholeInv`: the parser knows a bracket's size or
the `orderStrategy` frame is still queued (`ParamsTold`), ahead of the bracket's links
(`ParamsFirst`), and every leg is linked or its link is queued (`LinksTold`). A bracket is
therefore complete only with three legs, of which `_pick_entry` takes the entry
(`PickForms`, by counting the sides).

`ResolvedInv` adds, while no lookup raised either, `FollowInv`: a leg's frames are read, or
queued ahead of those that announce it (`DetailsFirst`), and the last version is never lost
(`DetailsTold`); an entry is announced or its report is queued (`AllAnnounced`). `Followed`
is about Replaced reports, which name the entry whichever leg changed: the last event about
a leg has its latest version, or its modification is unreported, or a report of *some* leg
of the same bracket is queued behind that version. The last case is the one that makes the
attribution right with two changes under way: reading that report tells the leg's version
too, and if the report tells it early, the later one finds nothing to tell.

One lemma per action of the account (`PlacesEntry`, `AddsExits`, `Modifies`,
`ReportsReplaced`, `EndsOrder`, `FillsEntry`) says which frames it sends; `Accounts` is
what they have in common and all that the invariants use. `Parses` is the same for the
parser: what a frame stores and what is emitted for it.

The proof of the type invariant holds for any number of troubles, where `push_feed` has
one. With two it needs what `AuthExpired` says: a response with status 401 is a frame, so
a socket that has gone mute does not bring it.

### The IBKR client

`IbkrSessionProofs`, for any number of endpoints, groups, placements, acts and troubles, any
set of changes, and ids up to 1 000 000 (`ibkr_api_client.py` numbers its lookups above
that). The assumptions are `EndpointAssumption`, `BoundAssumption`, `ChangeAssumption` and
`NoneAssumption`. No theorem has another premise: what is left out is in the properties.

| theorem | statement | argument |
|---|---|---|
| `SessionTypeCorrect` | `Spec => []TypeOK` | `BaseInv`: types, what a thread has in hand at each place, and that a queued request speaks of an order its endpoint has begun |
| `FiledIdsAreTheirOrders` | `Spec => []FiledIdIsItsOrder` | `ClaimInv`: an id taken in order belongs to one order among the threads that hold it, the labels it is filed under, the queues and the Gateway, and no id from `nextId` on is anywhere |
| `NoEntryIsNaked` | `Spec => []NoNakedEntry` | `CoverInv`, below |
| `ModificationsAddUp` | `Spec => []ModificationsCompose` | `ChangeInv`, below |
| `NoRefusalIsMistaken` | `Spec => []RefusalsReported` | `ReportInv`: a refusal that can be recognised has raised the alarm or is still on its way, as one that is listed or of an order the client tracks; lookups are numbered apart from orders |

`NoNakedEntry` speaks of working entries only, and what sets one working is a message that
speaks of another order. `CoverInv` says of a queued request that transmits that all other
legs of its bracket were sent before it (`BracketOK`): the last leg is behind them, and a
modification is made only of a bracket that is filed, which is after its last leg. It
says of an entry that each exit that was neither refused nor cancelled lives and works with
it, or waits in the queue while the entry is held (`Covered`). A break takes the queue and
the held orders, so that none is left for a later modification to release. The refused
exits are a premise the theorem cannot do without: a refused stop is the case of section 6.

`ModificationsCompose` speaks of moments when nothing is under way. `ChangeInv` says what
holds while something is: the last echo of an order, on its way or stored, has what the
order has (`EchoOK`); an order without any echo is unknown to this engine, which remembers
nothing of it (`Unknown`); a queued modification has everything asked so far (`ChangeOK`),
and what was asked is in the order or in such a message (`HasChanges`). The step it rests
on is the base of `modify_order`: the echo, or what the endpoint remembers of the
placement. The proof shows why the second is not stale: an order that this engine placed
and whose changes are not excused has been echoed before it is modified again, and for one
from before a restart nothing is remembered, so that a call before its first echo raises.
Which changes were made is what `meant` says, and it has those whose call went through.

### The settings panel

`GuiProofs`, for all ids, labels, stored files and lengths of the list.

| theorem | statement | argument |
|---|---|---|
| `SettingsTypeCorrect` | `Spec => []TypeOK` | every operation that writes validates first, and a refused one leaves the file |
| `AccountsInUseStay` | `Spec => []PairsBacked` | not inductive: a restart replaces the list by the file's. `BackedInv` says of both lists that each end of a pair is the id of an account typed without blanks, or was typed with some, unless a list was lost |
| `EditKeepsItsPair` | `Spec => []EditHitsItsPair` | the form's position moves only by a removal above it, which sets `shifted` |

### The engines

`GuiProofs`, for all environments, Gateways, accounts and settings, any set of
configurations of any length, and any number of starts, saves and exits of the GUI. The
assumptions are `EngineAssumption` (a configuration is a sequence of pairs whose ends
differ and whose followers are distinct, which `ReplicationConfig.validate` enforces; the
null value is no number and no Gateway) and `AccountAssumption` (what is written for an
account denotes one account of one broker and environment; no name that Tradovate shows is
the name or id of another account, or an IBKR account; the logins of two environments share
none; and the account of an engine's own settings is one of its login, without which
`connect()` raises, `tradovate.py:351`). That an account is written one way is no
assumption: a configuration may write one by id and by name, and `MirroredOnce` says which
feeds it is about.

| theorem | statement | argument |
|---|---|---|
| `StoppedEnginesAreDead` | `EnginesSpec => []StoppedIsDead` | `StopOK` and `EndIsLast`, below |
| `AccountsAreFedOnce` | `EnginesSpec => []MirroredOnce` | `FeedsOK`, below |

`EnginesInv` is the types, `OfItsEnv` (a controller's process, and the one a reader
follows, are of its environment) and these.

`StoppedIsDead` is not inductive, for two reasons. `stop()` lets go of the process before
it has ended: the engine is in `ending` while the GUI waits for it, and `StopOK` says that
nothing is in `ending` otherwise and that no controller holds an engine that is. A reader
tests that the process is its own, then sets the state and then the process, in separate
steps: `EndIsLast` says that when the test succeeded the environment has no living engine,
so that there is none those steps could forget, unless a start came in between, which is
what `overtaken` records.

`FeedsOK` says of every feed that the property speaks of that it is of a pair of a
configuration the engine has read (`FeedIsOfPair`), and what keeps any other engine from
having it too (`FedBy`). Within one configuration a follower's writing belongs to one
pair, and where accounts are written one way so does the account, so two feeds of one
account are of the same pair and equal. For two engines of one pair: a Tradovate source
is in the login of one environment, though every engine starts a pipeline for it; the
addon of an IBKR pair feeds a Tradovate account that is its own environment's; and the
IBKR follower of the addon is behind the one client id of the default Gateway.
That a feed is its pair's is a premise that came out of the proof: a first version of the
property claimed it of every pair, which `FedBy` could not be shown of the addon's,
because that feeds the engine's own account whichever the pair names (section 6).

### The position reconciler

`PositionReconcilerProofs`, for any pairs, ratios, trades and faults, any tolerance of at
least one contract. `OnePair` is the premise that there is one pair: pairs that share a
client clear each other's accumulator (`ibkr_api_client.py:640`, section 6), and then an
alarm may be about nothing.

| theorem | statement | argument |
|---|---|---|
| `ReconcilerTypeCorrect` | `Spec => []TypeOK` | the stream holds rows and ends of requests, and the Gateway is subscribed only while a pair reads |
| `AlarmsAreReal` | `OnePair /\ Spec => AlarmIsReal` | `ReconcilerInv`, below |
| `QuietPassesOverlookNothing` | `OnePair /\ Spec => NothingOverlooked` | the same |
| `OneOrderIsAligned` | `IsAligned(s, Scaled(s, r), r)` for every size and ratio | half-up rounding is within half a contract of the product (`Rounded`), the floor of one contract within one (`ScaleNear`), and at ratio one it is exact (`ScaleExact`); the two sides by symmetry |

Both are action properties: they speak of the step that ends a pass. What they need of the
steps before is `PassInv`: as long as nothing executed in the pass, or nothing that moved
the accounts apart, the source position read is the source's position, and what the
stream and the accumulator hold between them is the follower's (`ReadsTruly`). A row may be
overtaken by a later row, never by the end of the request. `MeantFollows` is that the
position in step with the source is the sum of the scaled orders, so that
`OneOrderIsAligned` applies to an account with one order; several may round apart, which is
what `AlarmIsReal` excuses.

### What is only model-checked

Liveness, on the instances of section 3: `CancelMirrored`, `Recovers`,
`DivergenceReported`, `SessionRecovers`. Fairness and ENABLED are beyond the prover. Every
safety invariant and action property of a passing run is a theorem.

`order_map` leaves the type invariant of the map to `TypeCorrect`.

## 5. What is not modelled

* **The brokers' insides.** `FollowerBroker`, `TradovateSession` and `IbkrSession` say
  what a call may do and answer, from how the code uses it. The hot path composes with
  `FollowerBroker`, not with the two sessions: ids that restart, tokens and echoes are
  checked on their own.
* **At the Tradovate client.** Fields of answers beyond outcome and ids; the cache of
  contract names, which maps a name to the same id whoever asks.
* **At the IBKR client.** `orderStatus` (an order's first `openOrder` has the same
  content for these tables) and status queries; a disconnect by the program; the check of
  the managed accounts, which is in `Engines`. The ids of one bracket are taken in one
  step: the lock is held for each id, so that two endpoints may get interleaved ids, but
  never the same one twice within a connection.
* **Parsing.** Bodies are reduced to the ids, roles and kinds the parsers yield. The
  one conversion with a consequence, the role of a stop-limit exit, is in `PollLabel`.
* **Sizes in events.** The pipelines' events carry no quantity; a version number stands
  for price and quantity in a modification. Sizes are in `Scaling`, with ratios as
  fractions: products of floats that land on the other side of a half are left out.
* **Several followers.** Each has a replicator and a map of its own and shares
  nothing but the source's events and its client; what endpoints of one client do to
  each other is in `IbkrSession`.
* **At the push channel.** Frames of other accounts and malformed ones, which change
  nothing; modifications Tradovate refuses; framing, heartbeats and the lengths of
  delays; starting an observer again after a stop.
* **At the reconciler.** More than one contract per pair: positions are compared symbol
  by symbol. The health line is logging. Tradovate's positions are one answer, read
  at once.
* **At the settings panel.** Names, ratios and a pair's Gateway, which no guard but the
  form's reads; a write that fails (`OSError`); the Gateway's own tab.
* **At the engines.** Ports and `.env` files; whether a Gateway is there, which is left
  open instead; the order in which the operating system ends processes is arbitrary.
* **Gateway orchestration, contract resolver, alerts, notifications, preflight, launchers
  and the GUI's layout** are sequential I/O, string conversion, logging and forms: no state
  that other parts of the model depend on.

## 6. Where documentation and code disagree

One run checks a statement of the code that the code does not keep:

| run | says | does |
|---|---|---|
| `push_stranded` | `event_replicator.py:313`: an OCO-driven cancel is not replicated to a native-OCO follower, which would be stranded unhedged | the guard looks for `#`, which no label of a Tradovate source has |

Seen while modelling; the models contain what the code does, and the properties excuse
it where they must:

| says | does |
|---|---|
| `README.md:170-177`: filling one exit cancels its sibling in every direction | no FILL event exists on the live IBKR → Tradovate path |
| `README.md:683`: `OrderNotFound` is a skip and the entry is tidied up | the cancel returns a failure before the removal |
| `tradovate_ws_observer.py:17`: what the parser cannot map yields no event | when a strategy's and its entry's frames were lost, its exits go out as a bracket with the take-profit as entry |
| `README.md:218`: positions are read for the followed account only, since blending "would invent phantom mismatches" | two pairs of one Gateway login share the client's accumulator and event |
| `brokers/tradovate.py:22-24`: HTTP calls are guarded by a lock | the lock covers the contract caches only |
| `README.md:465`, `config.py:352-358`: the source account filters what an IBKR pair mirrors | the addon never applies it: every order through the proxy is mirrored |
| `README.md:298`: a Tradovate follower may be given by its name | `main.py:525` drops a pin that is no number, so that the login's first account is fed |
| `replication_config.py:233`, `README.md:476`: validation keeps two enabled pairs from feeding one account | the addon feeds the engine's own Tradovate account (`main.py:340`), whichever its pair names; a second pair may name that account and its pipeline feed it too |
| `replication_config.py:233-248`: no account is fed by two enabled pairs | the test compares what is written; `tradovate.py:298-342` finds an account by its id or by its numeric name, so that one written both ways passes for two |
| `ibkr_api_client.py:505-510`: the whole group is sent atomically | each leg is a request of its own: a refused stop is passed over by the take-profit's transmit, and when the last exit was refused a modification transmits the held entry (`:573`) |
| `ui/app.py:810-814`: pipelines belong to an environment | an engine with pipelines starts those of both, and may take the Gateway client id that the other engine's need |
| `ui/replication_settings.py:258-260`: an account in use cannot be removed | one whose number was typed with blanks can |
| `ui/replication_settings.py:771-775`: "config file always reflects the list" | after a refused save the list on the screen differs from it |
| `ibkr_api_client.py:289-290`: refusals reach the handler | one whose code is not listed, of an order without a status, is only logged; our own cancels, answered with 202, raise an alarm |

Two more effects of the same code: updating a pair after one above it was removed
replaces the wrong pair, and updating any pair enables it again and drops its
`ibkr_gateway`; and a start that overtakes the reader's tail leaves an engine the
controller has forgotten, as does a parent that dies before the engine's watcher runs.

## 7. What could follow

Built, in this order: the order map and its theorems, the replicator with the IBKR path,
the Tradovate pipeline, the push parser with its observer and the feed they implement,
the position reconciler with the theorem about sizes, the two broker clients, the settings
panel and the engines; then the theorems, from the maps and the replicator to the whole
course of an order in both directions, the reconciler, the two clients, the push channel
and the engines.

Left:

1. `HotPath` and `PushPipeline` over the two session modules instead of `FollowerBroker`.
2. `Mirror`, an abstract promise (an order is unplaced, mirrored, or released) that
   `HotPath` and `PushPipeline` refine.
3. `placeoso` answers with one child id (`ChildReplies`), and startup queries that are
   answered *not found*.

## 8. Running

```
tlc -workers 2 -config hot_bracket.cfg MCHotPath
tlc -workers 2 -config tradovate_session.cfg MCTradovateSession
tlapm OrderMapProofs.tla
tlapm ReplicatorProofs.tla
tlapm HotPathProofs.tla
tlapm PushPipelineProofs.tla
tlapm PositionReconcilerProofs.tla
tlapm TradovateProofs.tla
tlapm IbkrSessionProofs.tla
tlapm GuiProofs.tla
```
