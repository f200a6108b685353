---------------------------- MODULE IbkrSession ----------------------------
(***************************************************************************)
(* brokers/ibkr_api_client.py and brokers/ibkr_follower_endpoint.py: the   *)
(* order side of one API client, shared by the follower endpoints whose    *)
(* accounts one Gateway login sees. Each endpoint works in its pipeline's  *)
(* thread; the Gateway answers later, through the reader thread. The       *)
(* socket may drop and the engine be restarted; the ids filed in the order *)
(* maps outlive both.                                                      *)
(***************************************************************************)
EXTENDS Integers, Sequences, FiniteSetsExt

CONSTANTS
    Endpoints,     \* number of follower endpoints of the client
    Groups,        \* endpoint -> the groups of legs its source places
    Change,        \* what a modification may change: the price, the size
    None,          \* no value
    MaxPlacements, \* bound on the placements of an endpoint
    MaxId,         \* bound on order ids, below the lookups' numbers
    MaxActs,       \* bound on modifications and cancellations
    MaxTroubles,   \* bound on drops, restarts, time-outs and refusals
    MaxUnread      \* bound on callbacks that wait for the reader thread

\* An order as its source knows it is a leg of a bracket, or an entry alone.
\* A bracket's children come after its entry, in the order of spec.children.
Leg == {"entry", "limit", "stop"}
Children == {<<>>, <<"limit">>, <<"stop">>, <<"limit", "stop">>, <<"stop", "limit">>}
Forms == {<<"entry">> \o c : c \in Children}

ASSUME EndpointAssumption ==
    /\ Endpoints \in Nat \ {0}
    /\ \A e \in 1 .. Endpoints : Groups[e] \subseteq Forms
ASSUME BoundAssumption ==
    /\ MaxPlacements \in Nat \ {0} /\ MaxUnread \in Nat \ {0}
    /\ MaxActs \in Nat /\ MaxTroubles \in Nat
    /\ MaxId \in Nat /\ MaxId <= 1000000
ASSUME ChangeAssumption == {"place", "cancel"} \cap Change = {}

\* The endpoints in the order the engine starts them.
Endpoint == 1 .. Endpoints
Label == [e : Endpoint, n : 1 .. MaxPlacements, leg : Leg]
Bracket(l) == {[l EXCEPT !.leg = g] : g \in Leg}
Id == 1 .. MaxId
Changes == SUBSET Change
State == {"held", "working", "gone"}
Orders == [label : Label, state : State, has : Changes]

ASSUME NoneAssumption ==
    /\ None \notin 1 .. MaxId + 1
    /\ \A x \in Changes : x # None
    /\ \A x \in Orders : x # None

VARIABLES
    pc,        \* endpoint -> what its thread does
    todo,      \* endpoint -> the legs it still has to send
    ids,       \* endpoint -> leg -> the id taken for it, or None
    socket,    \* isConnected()
    nextId,    \* _next_order_id, or None
    reqSeq,    \* _req_id_seq
    resolving, \* _pending_resolves: [req, e]
    cached,    \* endpoints whose symbol is in _contract_cache
    tracked,   \* the ids in _order_status
    echo,      \* _open_order_echo: id -> the changes the order has, or None
    placed,    \* endpoint -> _placed: id -> the changes it has, or None
    filed,     \* the order maps on disk: label -> id, or None
    toGateway, \* requests the Gateway has not taken
    toClient,  \* callbacks the reader has not made
    book,      \* the Gateway's orders: id -> order, or None
    alerted,   \* labels on_order_rejected was called for
    troubles,
    meant,     \* history: label -> what its source did and was passed on
    lost,      \* history: <<label, act>> whose call raised
    acts,      \* how many acts there were
    excused,   \* history: labels modified before their last echo was in, and
               \* those a message about which went down with the connection
    early,     \* history: ids taken or used before nextValidId came
    reissued,  \* history: labels whose id a later connection may give again
    refused,   \* history: labels refused in a way the client can recognise
    rejected   \* history: labels whose placement the Gateway refused

threadVars  == <<pc, todo, ids>>
idVars      == <<socket, nextId>>
lookupVars  == <<reqSeq, resolving, cached>>
orderVars   == <<tracked, echo, placed>>
gateVars    == <<toGateway, toClient, book>>
historyVars == <<meant, lost, acts, excused, early, reissued, refused,
                 rejected>>
vars == <<threadVars, idVars, lookupVars, orderVars, filed, gateVars, alerted,
          troubles, historyVars>>

Empty == [i \in Id |-> None]
NoIds == [leg \in Leg |-> None]

Init ==
    /\ pc = [e \in Endpoint |-> "off"]
    /\ todo = [e \in Endpoint |-> <<>>] /\ ids = [e \in Endpoint |-> NoIds]
    /\ socket = FALSE /\ nextId = None
    /\ reqSeq = 0 /\ resolving = {} /\ cached = {}
    /\ tracked = {} /\ echo = Empty /\ placed = [e \in Endpoint |-> Empty]
    /\ filed = [l \in Label |-> None]
    /\ toGateway = <<>> /\ toClient = <<>> /\ book = Empty
    /\ alerted = {} /\ troubles = 0
    /\ meant = [l \in Label |-> {}] /\ lost = {} /\ acts = 0
    /\ excused = {} /\ early = {} /\ reissued = {} /\ refused = {}
    /\ rejected = {}

Trouble == troubles < MaxTroubles /\ troubles' = troubles + 1

Goto(e, place) == pc' = [pc EXCEPT ![e] = place]

-----------------------------------------------------------------------------
(* The Gateway.                                                            *)

Live(i) == book[i] # None /\ book[i].state \in {"held", "working"}

\* Orders keep their ids while they live; the next one either continues
\* after all ids ever used or starts again after the living orders.
Highest(S) == IF S = {} THEN 0 ELSE Max(S)
NextValidIds == {Highest({i \in Id : book[i] # None}) + 1,
                 Highest({i \in Id : Live(i)}) + 1}

Order(m) == [label |-> m.label, has |-> m.has,
             state |-> IF m.transmit THEN "working" ELSE "held"]

Error(i, l, listed) == [kind |-> "error", id |-> i, label |-> l,
                        listed |-> listed]
Echo(m) == [kind |-> "echo", id |-> m.id, label |-> m.label, has |-> m.has]

\* an order that is refused; the client recognises some codes, and every
\* code for an order it has heard of
Refuses(m, listed) ==
    /\ toClient' = Append(toClient, Error(m.id, m.label, listed))
    /\ refused' = IF listed \/ m.id \in tracked THEN refused \cup {m.label}
                  ELSE refused
    /\ rejected' = IF m.new THEN rejected \cup {m.label} ELSE rejected
    /\ UNCHANGED book

Siblings(l) == {i \in Id : Live(i) /\ book[i].label \in Bracket(l)}

\* An order is held until one of its bracket transmits it.
Released(m) == IF m.transmit THEN Siblings(m.label) \cup {m.parent} ELSE {}

Transmitted(m) ==
    [i \in Id |-> IF Live(i) /\ i \in Released(m)
                  THEN [book[i] EXCEPT !.state = "working"] ELSE book[i]]

\* A placement under a living order's id is a modification; a bracket's leg
\* takes it only in the form the Gateway echoed (10326), and an id that
\* belongs to another order is a duplicate (103).
GatewayModifies(m) ==
    /\ Live(m.id)
    /\ \/ /\ m.label # book[m.id].label
          /\ Refuses(m, TRUE)
       \/ /\ m.label = book[m.id].label
          /\ m.label.leg # "entry" /\ ~m.echoed
          /\ Refuses(m, FALSE)
       \/ /\ m.label = book[m.id].label
          /\ m.label.leg = "entry" \/ m.echoed
          /\ book' = [Transmitted(m) EXCEPT ![m.id].has = m.has]
          /\ toClient' = Append(toClient, Echo(m))
          /\ UNCHANGED <<refused, rejected>>
    /\ UNCHANGED troubles

Orphan(m) == m.parent # m.id /\ ~Live(m.parent)

GatewayAccepts(m) ==
    /\ ~Live(m.id) /\ m.new /\ ~Orphan(m)
    /\ book' = [Transmitted(m) EXCEPT ![m.id] = Order(m)]
    /\ toClient' = Append(toClient, Echo(m))
    /\ UNCHANGED <<troubles, refused, rejected>>

\* size, margin, permissions, a missing parent, an order already gone
GatewayRefuses(m) ==
    /\ ~Live(m.id)
    /\ IF ~m.new \/ Orphan(m) THEN UNCHANGED troubles ELSE Trouble
    /\ \E listed \in BOOLEAN : Refuses(m, listed)

\* The exits are one OCA group: the end of one ends the other, and a
\* cancelled entry takes both with it.
Ends(l) == IF l.leg = "entry" THEN Siblings(l)
           ELSE {i \in Siblings(l) : book[i].label.leg # "entry"}

Gone(S) == [i \in Id |-> IF i \in S THEN [book[i] EXCEPT !.state = "gone"]
                         ELSE book[i]]

\* A cancelled order is reported as error 202, an unknown one as 10147.
GatewayCancels(m) ==
    /\ book' = IF Live(m.id) THEN Gone(Ends(book[m.id].label)) ELSE book
    /\ toClient' = Append(toClient, Error(m.id, m.label, Live(m.id)))
    /\ UNCHANGED <<troubles, refused, rejected>>

GatewayResolves(m) ==
    /\ toClient' = Append(toClient, [kind |-> "contract", id |-> m.id])
    /\ UNCHANGED <<book, troubles, refused, rejected>>

GatewayTakes ==
    /\ toGateway # <<>> /\ Len(toClient) < MaxUnread
    /\ toGateway' = Tail(toGateway)
    /\ LET m == Head(toGateway)
       IN  \/ m.kind = "place" /\ (GatewayModifies(m) \/ GatewayAccepts(m)
                                     \/ GatewayRefuses(m))
           \/ m.kind = "cancel" /\ GatewayCancels(m)
           \/ m.kind = "resolve" /\ GatewayResolves(m)
    /\ UNCHANGED <<threadVars, idVars, lookupVars, orderVars, filed, alerted,
                   meant, lost, acts, excused, early, reissued>>

\* An exit waits for its entry. The orderStatus this sends is left out: the
\* order's openOrder came before.
Executes(i) ==
    /\ book[i] # None /\ book[i].state = "working"
    /\ LET l == book[i].label
       IN  \/ l.leg = "entry" /\ book' = Gone({i})
          \/ /\ l.leg # "entry"
             /\ \A j \in Siblings(l) : book[j].label.leg # "entry"
             /\ book' = Gone(Ends(l))
    /\ UNCHANGED <<threadVars, idVars, lookupVars, orderVars, filed, toGateway,
                   toClient, alerted, troubles, historyVars>>

-----------------------------------------------------------------------------
(* Connection: SourcePipeline.start, one pipeline after the other.         *)

OthersWait(e) == \E f \in Endpoint : f < e /\ pc[f] \in {"off", "waiting"}

\* connect_and_wait; a wrong account makes the start fail
Connect(e) ==
    /\ pc[e] = "off" /\ ~OthersWait(e)
    /\ IF socket /\ nextId # None
       THEN /\ Goto(e, "ready")
            /\ UNCHANGED <<socket, toClient>>
       ELSE /\ Goto(e, "waiting")
            /\ socket' = TRUE
            /\ \E i \in NextValidIds :
                   /\ i <= MaxId
                   /\ toClient' = Append(toClient, [kind |-> "nextId", id |-> i])
    /\ UNCHANGED <<todo, ids, nextId, lookupVars, orderVars, filed, toGateway,
                   book, alerted, troubles, historyVars>>

Told(l) == \E k \in DOMAIN toClient :
               toClient[k].kind = "error" /\ toClient[k].label = l

UnderWay(l) ==
    \/ \E k \in DOMAIN toGateway :
           toGateway[k].kind # "resolve" /\ toGateway[k].label = l
    \/ \E k \in DOMAIN toClient :
           toClient[k].kind \in {"echo", "error"} /\ toClient[k].label = l

\* what the Gateway has not taken is lost, and what it held
Cut ==
    /\ socket' = FALSE
    /\ toGateway' = <<>> /\ toClient' = <<>>
    /\ book' = [i \in Id |-> IF book[i] # None /\ book[i].state = "held"
                             THEN [book[i] EXCEPT !.state = "gone"] ELSE book[i]]
    /\ refused' = {l \in refused : ~Told(l)}
    /\ excused' = excused \cup {l \in Label : UnderWay(l)}

\* the wait for nextValidId times out
ConnectFails(e) ==
    /\ pc[e] = "waiting"
    /\ IF socket THEN Trouble ELSE UNCHANGED troubles
    /\ Goto(e, "failed")
    /\ Cut
    /\ UNCHANGED <<todo, ids, nextId, lookupVars, orderVars, filed, alerted,
                   meant, lost, acts, early, reissued, rejected>>

\* Nobody connects again: is_connected is tested by the calls only.
Drop ==
    /\ socket
    /\ Trouble
    /\ Cut
    /\ UNCHANGED <<threadVars, nextId, lookupVars, orderVars, filed, alerted,
                   meant, lost, acts, early, reissued, rejected>>

\* The engine ends and starts anew; the maps are read from disk.
Restart ==
    /\ Trouble
    /\ Cut
    /\ pc' = [e \in Endpoint |-> "off"]
    /\ todo' = [e \in Endpoint |-> <<>>] /\ ids' = [e \in Endpoint |-> NoIds]
    /\ nextId' = None
    /\ reqSeq' = 0 /\ resolving' = {} /\ cached' = {}
    /\ tracked' = {} /\ echo' = Empty /\ placed' = [e \in Endpoint |-> Empty]
    /\ UNCHANGED <<filed, alerted, meant, lost, acts, early, reissued, rejected>>

-----------------------------------------------------------------------------
(* The reader thread.                                                      *)

\* Faulty: lookups numbered like orders
ReqIdOfOrder(n) == n

ReqId(n) == 1000000 + n

\* the ids that are taken and not all sent
InHand == {i \in Id : \E e \in Endpoint, leg \in Leg : ids[e][leg] = i}

OnNextValidId(m) ==
    /\ nextId' = m.id
    /\ pc' = [e \in Endpoint |-> IF pc[e] = "waiting" THEN "ready" ELSE pc[e]]
    /\ reissued' = reissued \cup {l \in Label : filed[l] # None /\ filed[l] >= m.id}
    /\ early' = early \cup InHand
    /\ UNCHANGED <<lookupVars, orderVars, alerted>>

OnOpenOrder(m) ==
    /\ echo' = [echo EXCEPT ![m.id] = m.has]
    /\ tracked' = tracked \cup {m.id}
    /\ UNCHANGED <<pc, nextId, lookupVars, placed, alerted, reissued, early>>

\* the details, or an error, end the wait of the thread that asked
Waits(i) == {e \in Endpoint : [req |-> i, e |-> e] \in resolving}
Ended(i) == {p \in resolving : p.req # i}

OnContractDetails(m) ==
    /\ resolving' = Ended(m.id)
    /\ cached' = cached \cup Waits(m.id)
    /\ pc' = [e \in Endpoint |-> IF e \in Waits(m.id) THEN "resolved" ELSE pc[e]]
    /\ UNCHANGED <<nextId, reqSeq, orderVars, alerted, reissued, early>>

IsOrderRejection(m) ==
    Waits(m.id) = {} /\ (m.listed \/ m.id \in tracked)

OnError(m) ==
    /\ alerted' = IF IsOrderRejection(m) THEN alerted \cup {m.label} ELSE alerted
    /\ resolving' = Ended(m.id)
    /\ pc' = [e \in Endpoint |-> IF e \in Waits(m.id) THEN "ready" ELSE pc[e]]
    /\ UNCHANGED <<nextId, reqSeq, cached, orderVars, reissued, early>>

ReaderTakes ==
    /\ toClient # <<>>
    /\ toClient' = Tail(toClient)
    /\ LET m == Head(toClient)
       IN  \/ m.kind = "nextId" /\ OnNextValidId(m)
           \/ m.kind = "echo" /\ OnOpenOrder(m)
           \/ m.kind = "contract" /\ OnContractDetails(m)
           \/ m.kind = "error" /\ OnError(m)
    /\ UNCHANGED <<todo, ids, socket, filed, toGateway, book, troubles, meant,
                   lost, acts, excused, refused, rejected>>

-----------------------------------------------------------------------------
(* Placement, in the endpoint's thread.                                    *)

Unused(e) ==
    {n \in 1 .. MaxPlacements : meant[[e |-> e, n |-> n, leg |-> "entry"]] = {}}

\* resolve_contract; a call that finds the socket down raises
Resolve(e) ==
    /\ pc[e] = "ready" /\ Unused(e) # {}
    /\ e \in cached \/ socket
    /\ IF e \in cached
       THEN /\ Goto(e, "resolved")
            /\ UNCHANGED <<reqSeq, resolving, toGateway>>
       ELSE /\ Goto(e, "resolving")
            /\ reqSeq' = reqSeq + 1
            /\ resolving' = resolving \cup {[req |-> ReqId(reqSeq + 1), e |-> e]}
            /\ toGateway' = Append(toGateway, [kind |-> "resolve",
                                               id |-> ReqId(reqSeq + 1)])
    /\ UNCHANGED <<todo, ids, idVars, cached, orderVars, filed, toClient, book,
                   alerted, troubles, historyVars>>

\* Faulty: the request stays pending
ResolveFailsUnpopped(e) ==
    /\ pc[e] = "resolving"
    /\ IF socket THEN Trouble ELSE UNCHANGED troubles
    /\ Goto(e, "ready")
    /\ UNCHANGED <<todo, ids, idVars, lookupVars, orderVars, filed, gateVars,
                   alerted, historyVars>>

ResolveFails(e) ==
    /\ pc[e] = "resolving"
    /\ IF socket THEN Trouble ELSE UNCHANGED troubles
    /\ Goto(e, "ready")
    /\ resolving' = {p \in resolving : p.e # e}
    /\ UNCHANGED <<todo, ids, idVars, reqSeq, cached, orderVars, filed, gateVars,
                   alerted, historyVars>>

Unnumbered == \E k \in DOMAIN toClient : toClient[k].kind = "nextId"

\* Faulty: the exit's id follows the entry's, and only that one is taken
EntryIdOnly(legs) == nextId + 1

\* one id a leg
IdsTaken(legs) == nextId + Len(legs)

\* place_order and place_bracket. After a reconnection _next_order_id is the
\* earlier connection's until nextValidId comes.
AllocOrderIds(e, legs) ==
    LET n == Min(Unused(e))
        at == [leg \in Leg |-> IF \E k \in DOMAIN legs : legs[k] = leg
                               THEN nextId - 1 + (CHOOSE k \in DOMAIN legs : legs[k] = leg)
                               ELSE None]
    IN  /\ pc[e] = "resolved" /\ socket
        /\ nextId + Len(legs) - 1 <= MaxId
        /\ Goto(e, "sending")
        /\ todo' = [todo EXCEPT ![e] = legs]
        /\ ids' = [ids EXCEPT ![e] = at]
        /\ nextId' = IdsTaken(legs)
        /\ early' = IF Unnumbered
                    THEN early \cup {at[legs[k]] : k \in DOMAIN legs} ELSE early
        /\ meant' = [l \in Label |-> IF l.e = e /\ l.n = n /\ at[l.leg] # None
                                     THEN {"place"} ELSE meant[l]]
        /\ UNCHANGED <<socket, lookupVars, orderVars, filed, gateVars, alerted,
                       troubles, lost, acts, excused, reissued, refused, rejected>>

\* the socket went down since the contract was asked for
PlacementRaises(e) ==
    /\ pc[e] = "resolved" /\ ~socket
    /\ Goto(e, "ready")
    /\ UNCHANGED <<todo, ids, idVars, lookupVars, orderVars, filed, gateVars,
                   alerted, troubles, historyVars>>

\* the label whose legs the endpoint is sending: its last placement's
Current(e, leg) ==
    [e |-> e, leg |-> leg,
     n |-> Max({n \in 1 .. MaxPlacements :
                  meant[[e |-> e, n |-> n, leg |-> "entry"]] # {}})]

\* Faulty: every leg is transmitted when it is sent
TransmitsAtOnce(rest) == TRUE

Transmits(rest) == rest = <<>>

\* placeOrder; on a dead socket the library reports error 504 and returns.
\* After the last leg the ids are remembered and the replicator files them.
SendLeg(e) ==
    LET leg == Head(todo[e])
        rest == Tail(todo[e])
        l == Current(e, leg)
    IN  /\ pc[e] = "sending"
        /\ IF socket
           THEN /\ toGateway' = Append(toGateway,
                       [kind |-> "place", id |-> ids[e][leg], label |-> l,
                        parent |-> ids[e]["entry"], transmit |-> Transmits(rest),
                        has |-> {}, echoed |-> FALSE, new |-> TRUE])
                /\ UNCHANGED alerted
           ELSE /\ alerted' = IF ids[e][leg] \in tracked THEN alerted \cup {l}
                              ELSE alerted
                /\ UNCHANGED toGateway
        /\ early' = IF Unnumbered THEN early \cup {i \in Id : \E g \in Leg : ids[e][g] = i}
                    ELSE early
        /\ todo' = [todo EXCEPT ![e] = rest]
        /\ IF rest # <<>> THEN UNCHANGED <<pc, ids, filed, placed>>
           ELSE /\ Goto(e, "ready")
                /\ ids' = [ids EXCEPT ![e] = NoIds]
                /\ filed' = [m \in Label |-> IF m.e = e /\ m.n = l.n
                                             THEN ids[e][m.leg] ELSE filed[m]]
                /\ placed' = [placed EXCEPT ![e] = [i \in Id |->
                      IF \E g \in Leg : ids[e][g] = i THEN {} ELSE placed[e][i]]]
        /\ UNCHANGED <<idVars, lookupVars, tracked, echo, toClient, book, troubles,
                       meant, lost, acts, excused, reissued, refused, rejected>>

-----------------------------------------------------------------------------
(* Cancellation and modification.                                          *)

\* what the source does to an order it has placed, once each
Acts(e, l, what) ==
    /\ acts < MaxActs /\ acts' = acts + 1
    /\ pc[e] = "ready" /\ l.e = e /\ filed[l] # None
    /\ {what, "cancel"} \cap meant[l] = {}
    /\ {<<l, what>>, <<l, "cancel">>} \cap lost = {}

\* the endpoint's call goes through
Follows(e, l, what) ==
    /\ socket /\ Acts(e, l, what)
    /\ meant' = [meant EXCEPT ![l] = @ \cup {what}]

\* it raises, and leaves the client as it was
Raises(e, l, what) ==
    /\ Acts(e, l, what)
    /\ lost' = lost \cup {<<l, what>>}
    /\ UNCHANGED <<threadVars, idVars, lookupVars, orderVars, filed, gateVars,
                   alerted, troubles, meant, excused, early, reissued, refused,
                   rejected>>

CancelOrder(e, l) ==
    /\ Follows(e, l, "cancel")
    /\ toGateway' = Append(toGateway,
                           [kind |-> "cancel", id |-> filed[l], label |-> l])
    /\ UNCHANGED <<threadVars, idVars, lookupVars, orderVars, filed, toClient,
                   book, alerted, troubles, lost, excused, early, reissued,
                   refused, rejected>>

CancelRaises(e, l) == ~socket /\ Raises(e, l, "cancel")

\* Faulty: the order that was remembered goes before the Gateway's echo
RememberedFirst(e, i) ==
    IF placed[e][i] # None THEN [has |-> placed[e][i], echoed |-> FALSE]
    ELSE [has |-> echo[i], echoed |-> TRUE]

Base(e, i) ==
    IF echo[i] # None THEN [has |-> echo[i], echoed |-> TRUE]
    ELSE [has |-> placed[e][i], echoed |-> FALSE]

ModifyOrder(e, l, c) ==
    LET i == filed[l]
        base == Base(e, i)
    IN  /\ Follows(e, l, c)
        /\ base.has # None
        /\ toGateway' = Append(toGateway,
               [kind |-> "place", id |-> i, label |-> l, parent |-> i,
                transmit |-> TRUE, has |-> base.has \cup {c},
                echoed |-> base.echoed, new |-> FALSE])
        /\ placed' = [placed EXCEPT ![e][i] = base.has \cup {c}]
        /\ excused' = IF UnderWay(l) THEN excused \cup {l} ELSE excused
        /\ UNCHANGED <<threadVars, idVars, lookupVars, tracked, echo, filed,
                       toClient, book, alerted, troubles, lost, early, reissued,
                       refused, rejected>>

\* the socket is down, or the order was neither echoed to this client nor
\* placed by it
ModifyRaises(e, l, c) ==
    /\ Raises(e, l, c)
    /\ ~socket \/ Base(e, filed[l]).has = None

-----------------------------------------------------------------------------

Next ==
    \/ GatewayTakes \/ \E i \in Id : Executes(i)
    \/ ReaderTakes \/ Drop \/ Restart
    \/ \E e \in Endpoint :
        \/ Connect(e) \/ ConnectFails(e)
        \/ Resolve(e) \/ ResolveFails(e)
        \/ \E legs \in Groups[e] : AllocOrderIds(e, legs)
        \/ PlacementRaises(e) \/ SendLeg(e)
        \/ \E l \in Label :
            \/ CancelOrder(e, l) \/ CancelRaises(e, l)
            \/ \E c \in Change : ModifyOrder(e, l, c) \/ ModifyRaises(e, l, c)

Spec == Init /\ [][Next]_vars

-----------------------------------------------------------------------------
(* Types.                                                                  *)
Optional(S) == S \cup {None}

TypeOK ==
    /\ pc \in [Endpoint -> {"off", "waiting", "ready", "failed", "resolving",
                            "resolved", "sending"}]
    /\ \A e \in Endpoint : todo[e] \in Forms \cup Children
    /\ ids \in [Endpoint -> [Leg -> Optional(Id)]]
    /\ socket \in BOOLEAN /\ nextId \in Optional(1 .. MaxId + 1)
    /\ cached \subseteq Endpoint /\ tracked \subseteq Id
    /\ \A p \in resolving : p.req > MaxId /\ pc[p.e] = "resolving"
    /\ echo \in [Id -> Optional(Changes)]
    /\ placed \in [Endpoint -> [Id -> Optional(Changes)]]
    /\ filed \in [Label -> Optional(Id)] /\ book \in [Id -> Optional(Orders)]
    /\ alerted \subseteq Label
    /\ troubles \in 0 .. MaxTroubles /\ acts \in 0 .. MaxActs

(* A filed id leads to no living order but its own: a cancellation never   *)
(* hits another one, though endpoints take ids and file them side by     *)
(* side. Excused: an id taken before nextValidId came, and a label kept    *)
(* from an earlier connection whose id the Gateway gives again.            *)
FiledIdIsItsOrder ==
    \A l \in Label :
        LET i == filed[l]
        IN  (i # None /\ i \notin early /\ l \notin reissued /\ Live(i))
              => book[i].label = l

(* An entry works only while each of its exits lives, wherever the          *)
(* connection breaks and whichever order transmits the bracket. Excused: an *)
(* exit whose placement the Gateway refused (the program then leaves the    *)
(* entry without it, and a later modification sets a held entry working;    *)
(* RefusalsReported says what it reports of that), and exits one of which   *)
(* was cancelled by its own source, or by the source of another order whose *)
(* filed id came to be the exit's.                                          *)
Stray(l) == \E m \in Label \ {l} : filed[m] = filed[l] /\ "cancel" \in meant[m]

ExitsOf(l) == {x \in Bracket(l) : x.leg # "entry" /\ meant[x] # {}}

TakenDown(l) == \E x \in ExitsOf(l) : "cancel" \in meant[x] \/ Stray(x)

NoNakedEntry ==
    \A i \in Id :
        LET l == book[i].label
        IN  (/\ book[i] # None /\ book[i].state = "working" /\ l.leg = "entry"
             /\ i \notin early /\ ~TakenDown(l))
               => \A x \in ExitsOf(l) \ rejected :
                     \E j \in Id : Live(j) /\ book[j].label = x

(* Successive modifications add up: once nothing is under way, a live order *)
(* has every change made to its source, but for those in lost, whose call    *)
(* raised: the socket was down, or the order was placed before the engine   *)
(* was started and not echoed since. Excused besides: one made before the   *)
(* echo of the last was in, which is built on what that echo will replace.  *)
ModificationsCompose ==
    \A l \in Label :
        LET i == filed[l]
        IN  (i # None /\ Live(i) /\ book[i].label = l /\ l \notin excused
              /\ ~UnderWay(l))
                => meant[l] \cap Change \subseteq book[i].has

(* A refusal the client can recognise raises the alarm: no lookup that     *)
(* another endpoint has pending takes the answer for its own.              *)
RefusalsReported == \A l \in refused : l \in alerted \/ Told(l)

=============================================================================
