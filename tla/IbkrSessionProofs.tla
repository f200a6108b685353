------------------------- MODULE IbkrSessionProofs -------------------------
(***************************************************************************)
(* Theorems about the order side of an IBKR client, for any number of      *)
(* endpoints, placements, drops, restarts and refusals. BaseInv has the    *)
(* types and says what a sending thread, a filed label and a request have  *)
(* to do with each other; ClaimInv, that an id taken in order belongs to   *)
(* one order; CoverInv, that what transmits a bracket comes after all of   *)
(* it; ChangeInv, what the last echo tells; ReportInv, that a refusal will *)
(* be recognised.                                                          *)
(***************************************************************************)
EXTENDS IbkrSession, SequenceTheorems, WellFoundedInduction, TLAPS

Entry(l) == [l EXCEPT !.leg = "entry"]

\* a leg's placement, and a modification of an order
IsNew(m)    == m.kind = "place" /\ m.new
IsChange(m) == m.kind = "place" /\ ~m.new
IsEcho(m, i) == m.kind = "echo" /\ m.id = i

\* an order id that the Gateway holds for a label, or is asked to
Taken(i, l) ==
    \/ Live(i) /\ book[i].label = l
    \/ \E k \in DOMAIN toGateway :
           IsNew(toGateway[k]) /\ toGateway[k].id = i /\ toGateway[k].label = l

Echoing(i) == \E k \in DOMAIN toClient : IsEcho(toClient[k], i)

Lookups == {n \in Nat : n > MaxId}
Placements == [kind : {"place"}, id : Id, label : Label, parent : Id,
               transmit : BOOLEAN, has : Changes, echoed : BOOLEAN, new : BOOLEAN]
Cancels == [kind : {"cancel"}, id : Id, label : Label]
Requests == Placements \cup Cancels \cup [kind : {"resolve"}, id : Lookups]
Echoes == [kind : {"echo"}, id : Id, label : Label, has : Changes]
Errors == [kind : {"error"}, id : Id, label : Label, listed : BOOLEAN]
Callbacks == Echoes \cup Errors \cup [kind : {"nextId"}, id : Id]
                    \cup [kind : {"contract"}, id : Lookups]

SessionTyped ==
    /\ TypeOK
    /\ todo \in [Endpoint -> Seq(Leg)]
    /\ reqSeq \in Nat /\ resolving \subseteq [req : Lookups, e : Endpoint]
    /\ \A p, q \in resolving : p.e = q.e => p = q
    /\ toGateway \in Seq(Requests) /\ toClient \in Seq(Callbacks)
    /\ meant \in [Label -> SUBSET (Change \cup {"place", "cancel"})]
    /\ excused \subseteq Label /\ early \subseteq Id /\ reissued \subseteq Label
    /\ refused \subseteq Label

(* A thread that sends holds the ids of the legs it took, for a label that *)
(* is not filed yet; nothing travels without a socket and a first id.       *)
Begun(e) == \E n \in 1 .. MaxPlacements :
                meant[[e |-> e, n |-> n, leg |-> "entry"]] # {}

ThreadOK(e) ==
    /\ pc[e] \in {"ready", "resolving", "resolved", "sending"} => nextId # None
    /\ pc[e] \in {"resolving", "resolved"} => Unused(e) # {}
    /\ pc[e] # "sending" => ids[e] = NoIds
    /\ pc[e] = "sending" =>
        /\ ids[e]["entry"] # None /\ Begun(e) /\ todo[e] # <<>>
        /\ \A k \in DOMAIN todo[e] : ids[e][todo[e][k]] # None
        /\ Head(todo[e]) = "entry" =>
             \A g \in Leg : ids[e][g] # None => \E k \in DOMAIN todo[e] : todo[e][k] = g
        /\ \A g \in Leg : /\ filed[Current(e, g)] = None
                          /\ ids[e][g] = None <=> meant[Current(e, g)] = {}

ThreadsOK == \A e \in Endpoint : ThreadOK(e)

LinesOK ==
    /\ ~socket => toGateway = <<>> /\ toClient = <<>>
    /\ nextId = None => toGateway = <<>>

(* What was done to a label, and what is known of it. *)
LabelOK(l) ==
    /\ meant[l] # {} => "place" \in meant[l] /\ meant[Entry(l)] # {}
    /\ filed[l] # None => meant[l] # {}
    /\ filed[l] = None => meant[l] \subseteq {"place"}

MeantOK ==
    /\ \A l \in Label : LabelOK(l)
    /\ \A e \in Endpoint, n, m \in 1 .. MaxPlacements :
        m <= n /\ meant[[e |-> e, n |-> n, leg |-> "entry"]] # {}
            => meant[[e |-> e, n |-> m, leg |-> "entry"]] # {}
    /\ \A i \in Id : book[i] # None => meant[book[i].label] # {}

RequestOK(m) ==
    /\ m.kind # "resolve" => meant[m.label] # {}
    /\ m.kind = "cancel" => filed[m.label] = m.id /\ "cancel" \in meant[m.label]
    /\ IsChange(m) => filed[m.label] = m.id /\ m.parent = m.id
    /\ IsNew(m) =>
        /\ m.has = {} /\ ~m.echoed
        /\ m.label.leg = "entry" => m.parent = m.id

RequestsOK == \A k \in DOMAIN toGateway : RequestOK(toGateway[k])

BaseInv == SessionTyped /\ ThreadsOK /\ LinesOK /\ MeantOK /\ RequestsOK

(* One order per id that was taken in order. *)
ClaimOK(i) ==
    /\ \A e, f \in Endpoint, g, h \in Leg :
           ids[e][g] = i /\ ids[f][h] = i => e = f /\ g = h
    /\ \A e \in Endpoint, g \in Leg : ids[e][g] = i =>
           /\ \A l \in Label \ reissued : filed[l] # i
           /\ \A l \in Label : Taken(i, l) => l = Current(e, g)
    /\ \A l \in Label \ reissued : filed[l] = i =>
           \A m \in Label : Taken(i, m) => m = l
    /\ nextId # None /\ i >= nextId =>
           /\ \A e \in Endpoint, g \in Leg : ids[e][g] # i
           /\ \A l \in Label \ reissued : filed[l] # i
           /\ \A l \in Label : ~Taken(i, l)
    /\ Unnumbered => \A k \in DOMAIN toGateway :
           IsNew(toGateway[k]) => toGateway[k].id # i
    /\ \A k \in DOMAIN toClient :
           toClient[k].kind = "nextId" /\ i >= toClient[k].id => ~Live(i)

ClaimInv == \A i \in Id \ early : ClaimOK(i)

ParentOK(k) ==
    LET m == toGateway[k]
    IN  IsNew(m) /\ m.label.leg # "entry" /\ m.parent \notin early =>
            /\ Live(m.parent) => book[m.parent].label = Entry(m.label)
            /\ \A j \in 1 .. k - 1 :
                 IsNew(toGateway[j]) /\ toGateway[j].id = m.parent
                    => toGateway[j].label = Entry(m.label)

\* the id of an order that is filed, or is being sent
IsSent(l) == ids[l.e][l.leg] # None /\ Current(l.e, l.leg) = l
HasId(l, i) == filed[l] = i \/ (IsSent(l) /\ ids[l.e][l.leg] = i)

\* all of a bracket is filed, or is at least numbered
AllFiled(l) == \A x \in Bracket(l) : meant[x] # {} => filed[x] # None
AllKnown(l) == \A x \in Bracket(l) : meant[x] # {} => filed[x] # None \/ IsSent(x)

\* an exit that the Gateway has yet to take, after the first k requests
Behind(x, k) ==
    \/ \E j \in DOMAIN toGateway :
           j > k /\ IsNew(toGateway[j]) /\ toGateway[j].label = x
    \/ IsSent(x) /\ \E j \in DOMAIN todo[x.e] : todo[x.e][j] = x.leg

\* What transmits a bracket comes after all of it.
BracketOK(k) ==
    LET m == toGateway[k]
    IN  m.kind = "place" =>
          /\ AllKnown(m.label)
          /\ m.transmit =>
               AllFiled(m.label) /\ \A x \in Bracket(m.label) : ~Behind(x, k)
          /\ IsNew(m) => \A j \in Id : HasId(m.label, j) => j = m.id
          /\ IsNew(m) /\ m.label.leg = "entry" =>
               \A x \in ExitsOf(m.label) : Behind(x, k)

\* an exit cancelled by its source, or through an id that is its own
Struck(x) ==
    \/ "cancel" \in meant[x]
    \/ \E j \in Id, l \in Label \ {x} :
           HasId(x, j) /\ filed[l] = j /\ "cancel" \in meant[l]

\* an entry's exit lives, or is on its way to a held entry
Covered(i, x) ==
    \/ \E j \in Id : /\ Live(j) /\ book[j].label = x
                     /\ book[i].state = "working" => book[j].state = "working"
    \/ book[i].state = "held" /\ Behind(x, 0)

EntryOK(i) ==
    LET l == book[i].label
    IN  /\ AllKnown(l) /\ (book[i].state = "working" => AllFiled(l))
        /\ (\A x \in ExitsOf(l) : ~Struck(x))
              => \A x \in ExitsOf(l) \ rejected : Covered(i, x)

CoverInv ==
    /\ \A k \in DOMAIN toGateway : ParentOK(k) /\ BracketOK(k)
    /\ \A l \in Label : filed[l] # None => AllFiled(l)
    /\ \A i, j \in Id : Live(i) /\ HasId(book[i].label, j) => j = i
    /\ \A i \in Id : Live(i) => socket \/ book[i].state = "working"
    /\ \A i \in Id \ early :
          Live(i) /\ book[i].label.leg = "entry" => EntryOK(i)

(* The last echo of an id tells what its order has. *)
EchoOK(i) ==
    /\ Echoing(i) => \E k \in DOMAIN toClient :
          /\ IsEcho(toClient[k], i)
          /\ toClient[k].has = book[i].has /\ toClient[k].label = book[i].label
          /\ \A j \in DOMAIN toClient : j > k => ~IsEcho(toClient[j], i)
    /\ ~Echoing(i) => echo[i] \in {None, book[i].has}

\* an order placed before the engine was started is unknown to it
Unknown(i) ==
    /\ nextId # None => i < nextId
    /\ \A e \in Endpoint : placed[e][i] = None /\ \A g \in Leg : ids[e][g] # i
    /\ \A k \in DOMAIN toClient : toClient[k].kind = "nextId" => i < toClient[k].id

Asked(l) == meant[l] \cap Change

ChangeOK(m) ==
    /\ IsNew(m) => Asked(m.label) = {}
    /\ IsChange(m) =>
        /\ \A k \in DOMAIN toGateway :
             IsNew(toGateway[k]) => toGateway[k].label # m.label
        /\ Live(m.id) /\ book[m.id].label = m.label =>
             Asked(m.label) \subseteq m.has /\ m.echoed

HasChanges(i) ==
    LET l == book[i].label
    IN  filed[l] = i => \/ Asked(l) \subseteq book[i].has
                        \/ \E k \in DOMAIN toGateway :
                              IsChange(toGateway[k]) /\ toGateway[k].label = l

ChangeInv ==
    /\ \A i \in Id : book[i] # None /\ book[i].label \notin excused => EchoOK(i)
    /\ \A i \in Id :
         Live(i) /\ book[i].label \notin excused /\ echo[i] = None /\ ~Echoing(i)
            => Unknown(i)
    /\ \A k \in DOMAIN toGateway :
         toGateway[k].kind = "place" /\ toGateway[k].label \notin excused
            => ChangeOK(toGateway[k])
    /\ \A i \in Id : Live(i) /\ book[i].label \notin excused => HasChanges(i)

ReportInv ==
    \A l \in refused :
        \/ l \in alerted
        \/ \E k \in DOMAIN toClient :
             /\ toClient[k].kind = "error" /\ toClient[k].label = l
             /\ toClient[k].listed \/ toClient[k].id \in tracked

-----------------------------------------------------------------------------
(* Numbers and sequences.                                                  *)

LEMMA LeastExists ==
    ASSUME NEW S, S \subseteq Nat, S # {}
    PROVE  Min(S) \in S /\ \A y \in S : Min(S) <= y
<1>1. PICK x \in S : \A y \in S : ~ (<<y, x>> \in OpToRel(<, Nat))
  BY WFMin, NatLessThanWellFounded
<1>2. \A y \in S : x <= y
  <2> TAKE y \in S
  <2>1. x \in Nat /\ y \in Nat
    OBVIOUS
  <2>2. ~ (y < x)
    BY <1>1, <2>1 DEF OpToRel
  <2>3. QED
    BY <2>1, <2>2
<1>3. QED
  BY <1>2 DEF Min

LEMMA GreatestExists ==
    ASSUME NEW n \in Nat, NEW S, S \subseteq 0 .. n, S # {}
    PROVE  Max(S) \in S /\ \A y \in S : Max(S) >= y
<1> DEFINE T == {n - x : x \in S}
<1>1. T \subseteq Nat /\ T # {}
  OBVIOUS
<1>2. Min(T) \in T /\ \A y \in T : Min(T) <= y
  BY <1>1, LeastExists
<1>3. PICK x \in S : Min(T) = n - x
  BY <1>2
<1>4. \A y \in S : x >= y
  <2> TAKE y \in S
  <2>1. n - y \in T
    OBVIOUS
  <2>2. n - x <= n - y
    BY <1>2, <1>3, <2>1
  <2>3. x \in Int /\ y \in Int
    OBVIOUS
  <2> HIDE DEF T
  <2>4. QED
    BY <2>2, <2>3
<1>5. QED
  BY <1>4 DEF Max

LEMMA PushForms ==
    ASSUME NEW S, NEW q \in Seq(S), NEW x \in S
    PROVE  /\ Append(q, x) \in Seq(S)
           /\ DOMAIN q \subseteq DOMAIN Append(q, x)
           /\ \A k \in DOMAIN q : Append(q, x)[k] = q[k]
           /\ Len(q) + 1 \in DOMAIN Append(q, x) /\ Append(q, x)[Len(q) + 1] = x
           /\ DOMAIN Append(q, x) = DOMAIN q \cup {Len(q) + 1}
           /\ DOMAIN q = 1 .. Len(q) /\ Len(q) \in Nat
  OBVIOUS

LEMMA PopForms ==
    ASSUME NEW S, NEW q \in Seq(S), q # <<>>
    PROVE  /\ Head(q) \in S /\ Tail(q) \in Seq(S)
           /\ 1 \in DOMAIN q /\ Head(q) = q[1]
           /\ \A k \in DOMAIN Tail(q) : k + 1 \in DOMAIN q /\ Tail(q)[k] = q[k + 1]
           /\ \A k \in DOMAIN q : k # 1 => k - 1 \in DOMAIN Tail(q) /\ Tail(q)[k - 1] = q[k]
           /\ DOMAIN q = 1 .. Len(q) /\ DOMAIN Tail(q) = 1 .. Len(q) - 1 /\ Len(q) \in Nat
  OBVIOUS

-----------------------------------------------------------------------------
(* Labels, orders and messages.                                            *)

LEMMA LabelForms ==
    ASSUME NEW l \in Label
    PROVE  /\ l.e \in Endpoint /\ l.n \in 1 .. MaxPlacements /\ l.leg \in Leg
           /\ l = [e |-> l.e, n |-> l.n, leg |-> l.leg]
           /\ Entry(l) = [e |-> l.e, n |-> l.n, leg |-> "entry"]
           /\ Entry(l) \in Label /\ Entry(l).leg = "entry"
           /\ l.leg = "entry" => Entry(l) = l
  BY DEF Label, Entry, Leg

LEMMA LabelOf ==
    ASSUME NEW e \in Endpoint, NEW n \in 1 .. MaxPlacements, NEW g \in Leg
    PROVE  /\ [e |-> e, n |-> n, leg |-> g] \in Label
           /\ [e |-> e, n |-> n, leg |-> g].e = e
           /\ [e |-> e, n |-> n, leg |-> g].n = n
           /\ [e |-> e, n |-> n, leg |-> g].leg = g
  BY DEF Label

LEMMA OrderForms ==
    ASSUME NEW o \in Orders
    PROVE  /\ o # None
           /\ o.label \in Label /\ o.state \in State /\ o.has \in Changes
           /\ \A s \in State : LET p == [o EXCEPT !.state = s]
                               IN  /\ p \in Orders /\ p # None /\ p.state = s
                                   /\ p.label = o.label /\ p.has = o.has
           /\ \A h \in Changes : LET p == [o EXCEPT !.has = h]
                                 IN  /\ p \in Orders /\ p # None /\ p.has = h
                                     /\ p.label = o.label /\ p.state = o.state
  BY NoneAssumption DEF Orders

LEMMA PlacementForms ==
    ASSUME NEW m \in Requests
    PROVE  /\ m.kind \in {"place", "cancel", "resolve"}
           /\ m.kind = "place" =>
                /\ m.id \in Id /\ m.label \in Label /\ m.parent \in Id
                /\ m.transmit \in BOOLEAN /\ m.has \in Changes
                /\ m.echoed \in BOOLEAN /\ m.new \in BOOLEAN
           /\ m.kind = "cancel" => m.id \in Id /\ m.label \in Label
           /\ m.kind = "resolve" => m.id \in Lookups
  BY DEF Requests, Placements, Cancels

LEMMA CallbackForms ==
    ASSUME NEW m \in Callbacks
    PROVE  /\ m.kind \in {"echo", "error", "nextId", "contract"}
           /\ m.kind = "echo" => m.id \in Id /\ m.label \in Label /\ m.has \in Changes
           /\ m.kind = "error" => m.id \in Id /\ m.label \in Label /\ m.listed \in BOOLEAN
           /\ m.kind = "nextId" => m.id \in Id
           /\ m.kind = "contract" => m.id \in Lookups
  BY DEF Callbacks, Echoes, Errors

LEMMA AcceptedForms ==
    ASSUME NEW m \in Requests, m.kind = "place"
    PROVE  /\ Order(m) \in Orders /\ Order(m) # None
           /\ Order(m).label = m.label /\ Order(m).has = m.has
           /\ Order(m).state = IF m.transmit THEN "working" ELSE "held"
<1>1. m.label \in Label /\ m.has \in Changes
  BY PlacementForms
<1>2. Order(m) \in Orders
  BY <1>1 DEF Order, Orders, State
<1>3. QED
  BY <1>2, OrderForms DEF Order

LEMMA AnswerForms ==
    ASSUME NEW m \in Requests
    PROVE  /\ m.kind = "place" => /\ Echo(m) \in Callbacks /\ Echo(m).kind = "echo"
                                  /\ Echo(m).id = m.id /\ Echo(m).label = m.label
                                  /\ Echo(m).has = m.has
           /\ m.kind # "resolve" => \A b \in BOOLEAN :
                 LET x == Error(m.id, m.label, b)
                 IN  /\ x \in Callbacks /\ x.kind = "error" /\ x.id = m.id
                     /\ x.label = m.label /\ x.listed = b
           /\ m.kind = "resolve" =>
                 [kind |-> "contract", id |-> m.id] \in Callbacks
<1>1. m.kind = "place" => m.id \in Id /\ m.label \in Label /\ m.has \in Changes
  BY PlacementForms
<1>2. m.kind # "resolve" => m.id \in Id /\ m.label \in Label
  BY PlacementForms
<1>3. m.kind = "resolve" => m.id \in Lookups
  BY PlacementForms
<1>4. QED
  BY <1>1, <1>2, <1>3 DEF Echo, Error, Callbacks, Echoes, Errors

LEMMA Bounds ==
    /\ MaxId \in Nat /\ MaxPlacements \in Nat /\ MaxTroubles \in Nat
    /\ MaxActs \in Nat
    /\ \A i \in Id : i \in Nat /\ i >= 1 /\ i <= MaxId
    /\ \A n \in Nat : ReqId(n + 1) > MaxId /\ ReqId(n + 1) \in Nat
<1>1. MaxId \in Int /\ 0 <= MaxId /\ MaxId <= 1000000
  BY BoundAssumption, SMT
<1>2. MaxPlacements \in Nat /\ MaxTroubles \in Nat /\ MaxActs \in Nat
  BY BoundAssumption, SMT
<1>3. \A i \in Id : i \in Nat /\ i >= 1 /\ i <= MaxId
  BY <1>1, SMT DEF Id
<1>4. \A n \in Nat : ReqId(n + 1) > MaxId /\ ReqId(n + 1) \in Nat
  BY <1>1, SMT DEF ReqId
<1>5. QED
  BY <1>1, <1>2, <1>3, <1>4, SMT

\* the ids after the greatest ones are above them
Ever == {i \in Id : book[i] # None}
Now  == {i \in Id : Live(i)}

LEMMA NextIdForms ==
    ASSUME NEW a \in NextValidIds
    PROVE  /\ a \in Nat /\ a >= 1
           /\ \A i \in Id : Live(i) => i < a
<1>1. Now \subseteq Ever /\ Ever \subseteq Id
  BY DEF Live, Ever, Now
<1>2. MaxId \in Nat
  BY Bounds
<1>3. \A S \in SUBSET Id : Highest(S) \in Nat /\ \A i \in S : i <= Highest(S)
  <2> TAKE S \in SUBSET Id
  <2>1. CASE S = {}
    BY <2>1 DEF Highest
  <2>2. CASE S # {}
    <3>1. S \subseteq 0 .. MaxId
      BY <1>2 DEF Id
    <3>2. Max(S) \in S /\ \A y \in S : Max(S) >= y
      BY <1>2, <2>2, <3>1, GreatestExists
    <3>3. \A y \in S : y \in Nat
      BY <3>1
    <3>4. QED
      BY <2>2, <3>2, <3>3 DEF Highest
  <2>3. QED
    BY <2>1, <2>2
<1>4. Highest(Ever) \in Nat /\ Highest(Now) \in Nat
  BY <1>1, <1>3
<1>5. \A i \in Now : i <= Highest(Now) /\ i <= Highest(Ever)
  BY <1>1, <1>3
<1>6. a = Highest(Ever) + 1 \/ a = Highest(Now) + 1
  BY DEF NextValidIds, Ever, Now
<1>7. \A i \in Id : Live(i) => i \in Now
  BY DEF Now
<1>8. \A i \in Id : i \in Nat
  BY DEF Id
<1>9. QED
  BY <1>4, <1>5, <1>6, <1>7, <1>8

LEMMA BookForms ==
    ASSUME SessionTyped, NEW i \in Id
    PROVE  /\ book[i] # None => book[i] \in Orders
           /\ Live(i) => book[i] \in Orders
  BY DEF SessionTyped, TypeOK, Optional, Live

\* A transmission sets orders working, and changes nothing else.
LEMMA ReleaseForms ==
    ASSUME SessionTyped, NEW m \in Requests, m.kind = "place"
    PROVE  /\ Transmitted(m) \in [Id -> Optional(Orders)]
           /\ \A i \in Id : LET o == Transmitted(m)[i]
                           IN  /\ book[i] = None <=> o = None
                               /\ book[i] # None => /\ o.label = book[i].label
                                                    /\ o.has = book[i].has
                               /\ Live(i) <=> o # None /\ o.state \in {"held", "working"}
                               /\ Live(i) /\ i \in Released(m) => o.state = "working"
                               /\ i \notin Released(m) \/ ~Live(i) => o = book[i]
<1>1. \A i \in Id : Transmitted(m)[i] = IF Live(i) /\ i \in Released(m)
                                       THEN [book[i] EXCEPT !.state = "working"]
                                       ELSE book[i]
  BY DEF Transmitted
<1>2. book \in [Id -> Optional(Orders)]
  BY DEF SessionTyped, TypeOK
<1>3. SUFFICES ASSUME NEW i \in Id
               PROVE  /\ Transmitted(m)[i] \in Optional(Orders)
                      /\ LET o == Transmitted(m)[i]
                         IN  /\ book[i] = None <=> o = None
                             /\ book[i] # None => /\ o.label = book[i].label
                                                  /\ o.has = book[i].has
                             /\ Live(i) <=> o # None /\ o.state \in {"held", "working"}
                             /\ Live(i) /\ i \in Released(m) => o.state = "working"
                             /\ i \notin Released(m) \/ ~Live(i) => o = book[i]
  BY DEF Transmitted
<1>4. CASE Live(i) /\ i \in Released(m)
  <2>1. book[i] # None /\ book[i] \in Orders
    BY <1>4, BookForms DEF Live
  <2>2. LET p == [book[i] EXCEPT !.state = "working"]
        IN  /\ p \in Orders /\ p # None /\ p.state = "working"
            /\ p.label = book[i].label /\ p.has = book[i].has
    BY <2>1, OrderForms DEF State
  <2>3. QED
    BY <1>1, <1>4, <2>1, <2>2 DEF Optional
<1>5. CASE ~(Live(i) /\ i \in Released(m))
  BY <1>1, <1>2, <1>5 DEF Live
<1>6. QED
  BY <1>4, <1>5

-----------------------------------------------------------------------------
(* Types.                                                                  *)

LEMMA TroubleCounts ==
    ASSUME SessionTyped, Trouble \/ UNCHANGED troubles
    PROVE  troubles' \in 0 .. MaxTroubles
<1>1. troubles \in Int /\ 0 <= troubles /\ troubles <= MaxTroubles
  BY Bounds DEF SessionTyped, TypeOK
<1>2. QED
  BY <1>1, Bounds DEF Trouble

LEMMA GoneForms ==
    ASSUME SessionTyped, NEW S, \A i \in S : Live(i)
    PROVE  /\ Gone(S) \in [Id -> Optional(Orders)]
           /\ \A i \in Id : LET o == Gone(S)[i]
                           IN  /\ i \in S => /\ o # None /\ o.state = "gone"
                                             /\ o.label = book[i].label
                                             /\ o.has = book[i].has
                               /\ i \notin S => o = book[i]
<1>1. SUFFICES ASSUME NEW i \in Id
               PROVE  /\ Gone(S)[i] \in Optional(Orders)
                      /\ LET o == Gone(S)[i]
                         IN  /\ i \in S => /\ o # None /\ o.state = "gone"
                                           /\ o.label = book[i].label
                                           /\ o.has = book[i].has
                             /\ i \notin S => o = book[i]
  BY DEF Gone
<1>2. Gone(S)[i] = IF i \in S THEN [book[i] EXCEPT !.state = "gone"] ELSE book[i]
  BY DEF Gone
<1>3. CASE i \in S
  <2>1. book[i] \in Orders
    BY <1>3, BookForms
  <2>2. LET p == [book[i] EXCEPT !.state = "gone"]
        IN  /\ p \in Orders /\ p # None /\ p.state = "gone"
            /\ p.label = book[i].label /\ p.has = book[i].has
    BY <2>1, OrderForms DEF State
  <2>3. QED
    BY <1>2, <1>3, <2>2 DEF Optional
<1>4. CASE i \notin S
  BY <1>2, <1>4 DEF SessionTyped, TypeOK
<1>5. QED
  BY <1>3, <1>4

LEMMA EndsForms ==
    ASSUME NEW l
    PROVE  /\ Siblings(l) \subseteq Id /\ \A i \in Siblings(l) : Live(i)
           /\ Ends(l) \subseteq Siblings(l) /\ \A i \in Ends(l) : Live(i)
  BY DEF Siblings, Ends

LEMMA CutTyped ==
    ASSUME SessionTyped, Cut
    PROVE  /\ socket' = FALSE /\ toGateway' = <<>> /\ toClient' = <<>>
           /\ toGateway' \in Seq(Requests) /\ toClient' \in Seq(Callbacks)
           /\ book' \in [Id -> Optional(Orders)]
           /\ refused' \subseteq Label /\ excused' \subseteq Label
<1>1. \A i \in Id : book'[i] \in Optional(Orders)
  <2> TAKE i \in Id
  <2>1. book[i] # None => [book[i] EXCEPT !.state = "gone"] \in Orders
    BY BookForms, OrderForms DEF State
  <2>2. book[i] \in Optional(Orders)
    BY DEF SessionTyped, TypeOK
  <2>3. QED
    BY <2>1, <2>2 DEF Cut, Optional
<1>2. book' \in [Id -> Optional(Orders)]
  BY <1>1 DEF Cut
<1>3. refused' \subseteq Label /\ excused' \subseteq Label
  BY DEF Cut, SessionTyped
<1>4. QED
  BY <1>2, <1>3 DEF Cut

LEMMA ModifiesTyped ==
    ASSUME SessionTyped, NEW m \in Requests, m.kind = "place", GatewayModifies(m)
    PROVE  /\ toClient' \in Seq(Callbacks) /\ book' \in [Id -> Optional(Orders)]
           /\ refused' \subseteq Label /\ troubles' = troubles
<1>1. /\ m.id \in Id /\ m.label \in Label /\ m.has \in Changes
      /\ Echo(m) \in Callbacks
      /\ \A b \in BOOLEAN : Error(m.id, m.label, b) \in Callbacks
  BY PlacementForms, AnswerForms
<1>2. /\ toClient \in Seq(Callbacks) /\ refused \subseteq Label
      /\ book \in [Id -> Optional(Orders)]
  BY DEF SessionTyped, TypeOK
<1> DEFINE o == Transmitted(m)[m.id]
<1>3. /\ Transmitted(m) \in [Id -> Optional(Orders)] /\ o \in Orders
      /\ [o EXCEPT !.has = m.has] \in Orders
  <2>1. Transmitted(m) \in [Id -> Optional(Orders)] /\ o # None
    BY <1>1, ReleaseForms DEF GatewayModifies, Live
  <2>2. o \in Orders
    BY <1>1, <2>1 DEF Optional
  <2>3. QED
    BY <1>1, <2>1, <2>2, OrderForms
<1>4. \/ book' = book
      \/ book' = [Transmitted(m) EXCEPT ![m.id] = [o EXCEPT !.has = m.has]]
  BY DEF GatewayModifies, Refuses
<1> HIDE DEF o
<1>5. book' \in [Id -> Optional(Orders)]
  BY <1>1, <1>2, <1>3, <1>4 DEF Optional
<1>6. \/ toClient' = Append(toClient, Echo(m))
      \/ \E b \in BOOLEAN : toClient' = Append(toClient, Error(m.id, m.label, b))
  BY DEF GatewayModifies, Refuses
<1>7. toClient' \in Seq(Callbacks)
  BY <1>1, <1>2, <1>6
<1>8. refused' \subseteq Label /\ troubles' = troubles
  BY <1>1, <1>2 DEF GatewayModifies, Refuses
<1>9. QED
  BY <1>5, <1>7, <1>8

LEMMA AcceptsTyped ==
    ASSUME SessionTyped, NEW m \in Requests, m.kind = "place", GatewayAccepts(m)
    PROVE  /\ toClient' \in Seq(Callbacks) /\ book' \in [Id -> Optional(Orders)]
           /\ refused' = refused /\ troubles' = troubles
<1>1. m.id \in Id /\ Echo(m) \in Callbacks
  BY PlacementForms, AnswerForms
<1>2. toClient \in Seq(Callbacks) /\ Transmitted(m) \in [Id -> Optional(Orders)]
  BY ReleaseForms DEF SessionTyped
<1>3. Order(m) \in Orders
  BY AcceptedForms
<1>4. book' = [Transmitted(m) EXCEPT ![m.id] = Order(m)]
  BY DEF GatewayAccepts
<1>5. book' \in [Id -> Optional(Orders)]
  BY <1>1, <1>2, <1>3, <1>4 DEF Optional
<1>6. QED
  BY <1>1, <1>2, <1>5 DEF GatewayAccepts

LEMMA GatewayTyped ==
    ASSUME SessionTyped, GatewayTakes
    PROVE  SessionTyped'
<1> DEFINE m == Head(toGateway)
<1>1. m \in Requests /\ Tail(toGateway) \in Seq(Requests)
  BY PopForms DEF GatewayTakes, SessionTyped
<1>2. toClient \in Seq(Callbacks) /\ refused \subseteq Label
      /\ book \in [Id -> Optional(Orders)]
  BY DEF SessionTyped, TypeOK
<1>3. /\ toClient' \in Seq(Callbacks) /\ book' \in [Id -> Optional(Orders)]
      /\ refused' \subseteq Label /\ troubles' \in 0 .. MaxTroubles
  <2>1. CASE m.kind = "place" /\ GatewayModifies(m)
    <3>1. /\ toClient' \in Seq(Callbacks) /\ book' \in [Id -> Optional(Orders)]
          /\ refused' \subseteq Label /\ troubles' = troubles
      BY <1>1, <2>1, ModifiesTyped
    <3>2. QED
      BY <3>1, TroubleCounts
  <2>2. CASE m.kind = "place" /\ GatewayAccepts(m)
    <3>1. /\ toClient' \in Seq(Callbacks) /\ book' \in [Id -> Optional(Orders)]
          /\ refused' = refused /\ troubles' = troubles
      BY <1>1, <2>2, AcceptsTyped
    <3>2. QED
      BY <1>2, <3>1, TroubleCounts
  <2>3. CASE m.kind = "place" /\ GatewayRefuses(m)
    <3>1. PICK b \in BOOLEAN : Refuses(m, b)
      BY <2>3 DEF GatewayRefuses
    <3>2. Error(m.id, m.label, b) \in Callbacks /\ m.label \in Label
      BY <1>1, <2>3, AnswerForms, PlacementForms
    <3>3. troubles' \in 0 .. MaxTroubles
      BY <2>3, TroubleCounts DEF GatewayRefuses
    <3>4. QED
      BY <1>2, <2>3, <3>1, <3>2, <3>3 DEF GatewayRefuses, Refuses
  <2>4. CASE m.kind = "cancel" /\ GatewayCancels(m)
    <3>1. Error(m.id, m.label, Live(m.id)) \in Callbacks
      BY <1>1, <2>4, AnswerForms DEF Live
    <3>3. book' \in [Id -> Optional(Orders)]
      BY <1>2, <2>4, EndsForms, GoneForms DEF GatewayCancels
    <3>4. QED
      BY <1>2, <2>4, <3>1, <3>3, TroubleCounts DEF GatewayCancels
  <2>5. CASE m.kind = "resolve" /\ GatewayResolves(m)
    <3>1. [kind |-> "contract", id |-> m.id] \in Callbacks
      BY <1>1, <2>5, AnswerForms
    <3>2. QED
      BY <1>2, <2>5, <3>1, TroubleCounts DEF GatewayResolves
  <2>6. QED
    BY <2>1, <2>2, <2>3, <2>4, <2>5 DEF GatewayTakes
<1> HIDE DEF m
<1>4. QED
  BY <1>1, <1>3
     DEF GatewayTakes, SessionTyped, TypeOK, threadVars, idVars, lookupVars, orderVars

LEMMA LookupForms ==
    ASSUME SessionTyped, NEW i
    PROVE  /\ i \in Id => Waits(i) = {}
           /\ Ended(i) \subseteq resolving /\ Waits(i) \subseteq Endpoint
           /\ \A p \in Ended(i) : pc[p.e] = "resolving" /\ p.e \notin Waits(i)
<1>1. \A p \in resolving : p.req \in Lookups /\ p.e \in Endpoint
                           /\ p = [req |-> p.req, e |-> p.e]
  BY DEF SessionTyped
<1>2. i \in Id => Waits(i) = {}
  <2> SUFFICES ASSUME i \in Id, NEW e \in Waits(i) PROVE FALSE
    OBVIOUS
  <2>1. [req |-> i, e |-> e] \in resolving
    BY DEF Waits
  <2>2. i \in Lookups
    BY <1>1, <2>1
  <2>3. QED
    BY <2>2, Bounds DEF Lookups
<1>3. \A p \in Ended(i) : pc[p.e] = "resolving" /\ p.e \notin Waits(i)
  <2> TAKE p \in Ended(i)
  <2>1. p \in resolving /\ p.req # i
    BY DEF Ended
  <2>2. p.e \notin Waits(i)
    <3> SUFFICES ASSUME p.e \in Waits(i) PROVE FALSE
      OBVIOUS
    <3> DEFINE q == [req |-> i, e |-> p.e]
    <3>1. q \in resolving /\ q.e = p.e /\ q.req = i
      BY DEF Waits
    <3> HIDE DEF q
    <3>2. p = q
      BY <2>1, <3>1 DEF SessionTyped
    <3>3. QED
      BY <2>1, <3>1, <3>2
  <2>3. QED
    BY <2>1, <2>2 DEF SessionTyped, TypeOK
<1>4. QED
  BY <1>2, <1>3 DEF Ended, Waits

LEMMA ReaderTyped ==
    ASSUME SessionTyped, ReaderTakes
    PROVE  SessionTyped'
<1> DEFINE m == Head(toClient)
<1>1. m \in Callbacks /\ toClient' \in Seq(Callbacks)
  BY PopForms DEF ReaderTakes, SessionTyped
<1>2. CASE m.kind = "nextId" /\ OnNextValidId(m)
  <2>1. m.id \in 1 .. MaxId + 1 /\ m.id \in Id
    BY <1>1, <1>2, CallbackForms, Bounds DEF Id
  <2>2. reissued' \subseteq Label
    BY <1>2 DEF OnNextValidId, SessionTyped
  <2>3. early' \subseteq Id
    BY <1>2 DEF OnNextValidId, InHand, SessionTyped
  <2>4. /\ pc' \in [Endpoint -> {"off", "waiting", "ready", "failed", "resolving",
                                 "resolved", "sending"}]
        /\ \A e \in Endpoint : pc[e] = "resolving" => pc'[e] = "resolving"
    BY <1>2 DEF OnNextValidId, SessionTyped, TypeOK
  <2>5. /\ resolving' = resolving
        /\ \A p \in resolving : p.req > MaxId /\ pc[p.e] = "resolving" /\ p.e \in Endpoint
    BY <1>2 DEF OnNextValidId, SessionTyped, TypeOK, lookupVars
  <2>6. nextId' \in Optional(1 .. MaxId + 1)
    BY <1>2, <2>1 DEF OnNextValidId, Optional
  <2> HIDE DEF m
  <2>7. QED
    BY <1>1, <1>2, <2>2, <2>3, <2>4, <2>5, <2>6
       DEF ReaderTakes, OnNextValidId, SessionTyped, TypeOK, lookupVars, orderVars
<1>3. CASE m.kind = "echo" /\ OnOpenOrder(m)
  <2>1. m.id \in Id /\ m.has \in Changes
    BY <1>1, <1>3, CallbackForms
  <2>2. echo' \in [Id -> Optional(Changes)] /\ tracked' \subseteq Id
    BY <1>3, <2>1 DEF OnOpenOrder, SessionTyped, TypeOK, Optional
  <2> HIDE DEF m
  <2>3. QED
    BY <1>1, <1>3, <2>2 DEF ReaderTakes, OnOpenOrder, SessionTyped, TypeOK, lookupVars
<1>4. CASE m.kind = "contract" /\ OnContractDetails(m)
  <2>1. /\ resolving' = Ended(m.id) /\ cached' = cached \cup Waits(m.id)
        /\ pc' = [e \in Endpoint |-> IF e \in Waits(m.id) THEN "resolved" ELSE pc[e]]
    BY <1>4 DEF OnContractDetails
  <2>2. /\ Ended(m.id) \subseteq resolving /\ Waits(m.id) \subseteq Endpoint
        /\ \A p \in Ended(m.id) : pc[p.e] = "resolving" /\ p.e \notin Waits(m.id)
    BY LookupForms
  <2> HIDE DEF m
  <2>3. /\ pc' \in [Endpoint -> {"off", "waiting", "ready", "failed", "resolving",
                                 "resolved", "sending"}]
        /\ \A p \in resolving' : p.req > MaxId /\ pc'[p.e] = "resolving"
    BY <2>1, <2>2 DEF SessionTyped, TypeOK
  <2>4. QED
    BY <1>1, <1>4, <2>1, <2>2, <2>3
       DEF ReaderTakes, OnContractDetails, SessionTyped, TypeOK, orderVars
<1>5. CASE m.kind = "error" /\ OnError(m)
  <2>1. m.id \in Id /\ m.label \in Label
    BY <1>1, <1>5, CallbackForms
  <2>2. Waits(m.id) = {} /\ Ended(m.id) \subseteq resolving
    BY <2>1, LookupForms
  <2> HIDE DEF m
  <2>3. pc' = pc
    BY <1>5, <2>2 DEF OnError, SessionTyped, TypeOK
  <2>4. resolving' \subseteq resolving /\ alerted' \subseteq Label
    BY <1>5, <2>1, <2>2 DEF OnError, SessionTyped, TypeOK
  <2>5. QED
    BY <1>1, <1>5, <2>3, <2>4
       DEF ReaderTakes, OnError, SessionTyped, TypeOK, orderVars
<1>6. QED
  BY <1>2, <1>3, <1>4, <1>5 DEF ReaderTakes

LEMMA ConnectionTyped ==
    ASSUME SessionTyped,
           \/ Drop \/ Restart
           \/ \E i \in Id : Executes(i)
           \/ \E e \in Endpoint : Connect(e) \/ ConnectFails(e)
    PROVE  SessionTyped'
<1> USE DEF threadVars, idVars, lookupVars, orderVars, gateVars, historyVars, Goto
<1>1. CASE Drop
  <2>1. /\ socket' = FALSE
        /\ toGateway' \in Seq(Requests) /\ toClient' \in Seq(Callbacks)
        /\ book' \in [Id -> Optional(Orders)]
        /\ refused' \subseteq Label /\ excused' \subseteq Label
    BY <1>1, CutTyped DEF Drop
  <2>2. troubles' \in 0 .. MaxTroubles
    BY <1>1, TroubleCounts DEF Drop
  <2>3. QED
    BY <1>1, <2>1, <2>2 DEF Drop, SessionTyped, TypeOK
<1>2. CASE Restart
  <2>1. /\ socket' = FALSE
        /\ toGateway' \in Seq(Requests) /\ toClient' \in Seq(Callbacks)
        /\ book' \in [Id -> Optional(Orders)]
        /\ refused' \subseteq Label /\ excused' \subseteq Label
    BY <1>2, CutTyped DEF Restart
  <2>2. troubles' \in 0 .. MaxTroubles
    BY <1>2, TroubleCounts DEF Restart
  <2>3. /\ Empty \in [Id -> Optional(Changes)] /\ NoIds \in [Leg -> Optional(Id)]
        /\ None \in Optional(1 .. MaxId + 1)
        /\ <<>> \in Seq(Leg) /\ <<>> \in Forms \cup Children
    BY DEF Empty, NoIds, Optional, Children
  <2>4. QED
    BY <1>2, <2>1, <2>2, <2>3 DEF Restart, SessionTyped, TypeOK
<1>3. ASSUME NEW i \in Id, Executes(i) PROVE SessionTyped'
  <2>1. \/ book' = Gone({i}) /\ Live(i)
        \/ book' = Gone(Ends(book[i].label))
    BY <1>3 DEF Executes, Live
  <2>2. book' \in [Id -> Optional(Orders)]
    BY <2>1, EndsForms, GoneForms
  <2>3. QED
    BY <1>3, <2>2 DEF Executes, SessionTyped, TypeOK
<1>4. ASSUME NEW e \in Endpoint, Connect(e) PROVE SessionTyped'
  <2>1. socket' \in BOOLEAN
    BY <1>4 DEF Connect, SessionTyped, TypeOK
  <2>2. toClient' \in Seq(Callbacks)
    <3>1. CASE UNCHANGED toClient
      BY <3>1 DEF SessionTyped
    <3>2. ASSUME NEW i \in NextValidIds, i <= MaxId,
                 toClient' = Append(toClient, [kind |-> "nextId", id |-> i])
          PROVE  toClient' \in Seq(Callbacks)
      <4>1. i \in Id
        BY <3>2, NextIdForms, Bounds DEF Id
      <4>2. [kind |-> "nextId", id |-> i] \in Callbacks
        BY <4>1 DEF Callbacks
      <4>3. QED
        BY <3>2, <4>2 DEF SessionTyped
    <3>3. QED
      BY <1>4, <3>1, <3>2 DEF Connect
  <2>3. QED
    BY <1>4, <2>1, <2>2 DEF Connect, SessionTyped, TypeOK
<1>5. ASSUME NEW e \in Endpoint, ConnectFails(e) PROVE SessionTyped'
  <2>1. /\ socket' = FALSE
        /\ toGateway' \in Seq(Requests) /\ toClient' \in Seq(Callbacks)
        /\ book' \in [Id -> Optional(Orders)]
        /\ refused' \subseteq Label /\ excused' \subseteq Label
    BY <1>5, CutTyped DEF ConnectFails
  <2>2. troubles' \in 0 .. MaxTroubles
    BY <1>5, TroubleCounts DEF ConnectFails
  <2>3. QED
    BY <1>5, <2>1, <2>2 DEF ConnectFails, SessionTyped, TypeOK
<1>6. QED
  BY <1>1, <1>2, <1>3, <1>4, <1>5
\* the labels a sending thread works for
LEMMA CurrentForms ==
    ASSUME SessionTyped, NEW e \in Endpoint, Begun(e)
    PROVE  /\ \A g \in Leg : /\ Current(e, g) \in Label
                             /\ Current(e, g).e = e /\ Current(e, g).leg = g
                             /\ Current(e, g).n = Current(e, "entry").n
                             /\ Current(e, "entry") = Entry(Current(e, g))
           /\ \A l \in Label : l.e = e /\ l.n = Current(e, "entry").n
                               => l = Current(e, l.leg)
           /\ meant[Current(e, "entry")] # {}
           /\ \A n \in 1 .. MaxPlacements :
                meant[[e |-> e, n |-> n, leg |-> "entry"]] # {}
                    => n <= Current(e, "entry").n
<1> DEFINE S == {n \in 1 .. MaxPlacements : meant[[e |-> e, n |-> n, leg |-> "entry"]] # {}}
<1>1. S # {} /\ S \subseteq 0 .. MaxPlacements
  BY Bounds DEF Begun
<1>2. Max(S) \in S /\ \A n \in S : Max(S) >= n
  BY <1>1, Bounds, GreatestExists
<1>3. \A g \in Leg : Current(e, g) = [e |-> e, leg |-> g, n |-> Max(S)]
  BY DEF Current
<1>4. Max(S) \in 1 .. MaxPlacements /\ meant[[e |-> e, n |-> Max(S), leg |-> "entry"]] # {}
  BY <1>2
<1>5. "entry" \in Leg
  BY DEF Leg
<1>6. \A n \in 1 .. MaxPlacements :
         meant[[e |-> e, n |-> n, leg |-> "entry"]] # {} => n <= Max(S)
  BY <1>2
<1> HIDE DEF S
<1>7. \A g \in Leg : /\ Current(e, g) \in Label
                     /\ Current(e, g).e = e /\ Current(e, g).leg = g
                     /\ Current(e, g).n = Max(S)
  BY <1>3, <1>4 DEF Label
<1>8. Current(e, "entry") = [e |-> e, n |-> Max(S), leg |-> "entry"]
  BY <1>3, <1>5
<1>9. \A g \in Leg : Current(e, "entry") = Entry(Current(e, g))
  BY <1>3, <1>8 DEF Entry
<1>10. \A l \in Label : l.e = e /\ l.n = Max(S) => l = Current(e, l.leg)
  BY <1>3, LabelForms
<1>11. QED
  BY <1>4, <1>5, <1>6, <1>7, <1>8, <1>9, <1>10

LEMMA CurrentSame ==
    ASSUME NEW e \in Endpoint, NEW g \in Leg,
           \A n \in 1 .. MaxPlacements :
               meant'[[e |-> e, n |-> n, leg |-> "entry"]]
                 = meant[[e |-> e, n |-> n, leg |-> "entry"]]
    PROVE  Current(e, g)' = Current(e, g) /\ Begun(e)' = Begun(e)
<1>1. {n \in 1 .. MaxPlacements : meant'[[e |-> e, n |-> n, leg |-> "entry"]] # {}}
        = {n \in 1 .. MaxPlacements : meant[[e |-> e, n |-> n, leg |-> "entry"]] # {}}
  OBVIOUS
<1>2. QED
  BY <1>1 DEF Current, Begun

LEMMA LookupTyped ==
    ASSUME SessionTyped, NEW e \in Endpoint,
           \/ Resolve(e) \/ ResolveFails(e) \/ PlacementRaises(e)
    PROVE  SessionTyped'
<1> USE DEF threadVars, idVars, lookupVars, orderVars, gateVars, historyVars, Goto
<1>1. CASE Resolve(e) /\ e \in cached
  <2>1. pc[e] = "ready" /\ pc' = [pc EXCEPT ![e] = "resolved"]
    BY <1>1 DEF Resolve
  <2>2. \A p \in resolving : p.req > MaxId /\ pc'[p.e] = "resolving"
    BY <2>1 DEF SessionTyped, TypeOK
  <2>3. QED
    BY <1>1, <2>1, <2>2 DEF Resolve, SessionTyped, TypeOK
<1>2. CASE Resolve(e) /\ e \notin cached
  <2> DEFINE r == ReqId(reqSeq + 1)
  <2>1. r \in Nat /\ r > MaxId /\ reqSeq + 1 \in Nat
    BY Bounds DEF SessionTyped
  <2>2. reqSeq' = reqSeq + 1 /\ resolving' = resolving \cup {[req |-> r, e |-> e]}
        /\ toGateway' = Append(toGateway, [kind |-> "resolve", id |-> r])
        /\ pc[e] = "ready" /\ pc' = [pc EXCEPT ![e] = "resolving"]
    BY <1>2 DEF Resolve
  <2> HIDE DEF r
  <2>3. r \in Lookups /\ [kind |-> "resolve", id |-> r] \in Requests
    BY <2>1 DEF Lookups, Requests
  <2>4. toGateway' \in Seq(Requests)
    BY <2>2, <2>3 DEF SessionTyped
  <2>5. /\ resolving' \subseteq [req : Lookups, e : Endpoint]
        /\ \A p \in resolving' : p.req > MaxId /\ pc'[p.e] = "resolving"
        /\ \A p, q \in resolving' : p.e = q.e => p = q
    <3>1. \A p \in resolving : p.e # e /\ p.e \in Endpoint
      BY <2>2 DEF SessionTyped, TypeOK
    <3>2. QED
      BY <2>1, <2>2, <2>3, <3>1 DEF SessionTyped, TypeOK
  <2>6. QED
    BY <1>2, <2>1, <2>2, <2>4, <2>5 DEF Resolve, SessionTyped, TypeOK
<1>3. CASE ResolveFails(e)
  <2>1. troubles' \in 0 .. MaxTroubles
    BY <1>3, TroubleCounts DEF ResolveFails
  <2>2. /\ resolving' = {p \in resolving : p.e # e}
        /\ pc' = [pc EXCEPT ![e] = "ready"]
    BY <1>3 DEF ResolveFails
  <2>3. \A p \in resolving' : p.req > MaxId /\ pc'[p.e] = "resolving"
    BY <2>2 DEF SessionTyped, TypeOK
  <2>4. QED
    BY <1>3, <2>1, <2>2, <2>3 DEF ResolveFails, SessionTyped, TypeOK
<1>4. CASE PlacementRaises(e)
  BY <1>4 DEF PlacementRaises, SessionTyped, TypeOK
<1>5. QED
  BY <1>1, <1>2, <1>3, <1>4 DEF Resolve

\* the sequences of legs, each leg in its place
LEMMA ChildrenForms ==
    ASSUME NEW c \in Children
    PROVE  /\ c \in Seq(Leg) /\ Len(c) \in 0 .. 2
           /\ \A k \in DOMAIN c : c[k] # "entry"
           /\ \A j, k \in DOMAIN c : c[j] = c[k] => j = k
           /\ c # <<>> => Tail(c) \in Children /\ Head(c) \in Leg
<1> USE DEF Children, Leg
<1>1. CASE c = <<>>
  BY <1>1
<1>2. CASE c = <<"limit">>
  BY <1>2
<1>3. CASE c = <<"stop">>
  BY <1>3
<1>4. CASE c = <<"limit", "stop">>
  BY <1>4
<1>5. CASE c = <<"stop", "limit">>
  BY <1>5
<1>6. QED
  BY <1>1, <1>2, <1>3, <1>4, <1>5

LEMMA GroupForms ==
    ASSUME NEW legs \in Forms
    PROVE  /\ legs \in Seq(Leg) /\ Len(legs) \in 1 .. 3 /\ legs # <<>>
           /\ DOMAIN legs = 1 .. Len(legs)
           /\ legs[1] = "entry" /\ Head(legs) = "entry" /\ Tail(legs) \in Children
           /\ \A j, k \in DOMAIN legs : legs[j] = legs[k] => j = k
<1>1. PICK c \in Children : legs = <<"entry">> \o c
  BY DEF Forms
<1>2. /\ c \in Seq(Leg) /\ Len(c) \in 0 .. 2
      /\ \A k \in DOMAIN c : c[k] # "entry"
      /\ \A j, k \in DOMAIN c : c[j] = c[k] => j = k
  BY ChildrenForms
<1>3. <<"entry">> \in Seq(Leg)
  BY DEF Leg
<1>4. /\ legs \in Seq(Leg) /\ Len(legs) = Len(c) + 1 /\ DOMAIN legs = 1 .. Len(legs)
      /\ legs[1] = "entry" /\ \A k \in 2 .. Len(legs) : legs[k] = c[k - 1]
  BY <1>1, <1>2, <1>3
<1>5. Head(legs) = "entry" /\ Tail(legs) = c /\ legs # <<>>
  BY <1>2, <1>4
<1>6. \A j, k \in DOMAIN legs : legs[j] = legs[k] => j = k
  <2> TAKE j \in DOMAIN legs, k \in DOMAIN legs
  <2>1. \A h \in DOMAIN legs : h # 1 => h - 1 \in DOMAIN c /\ legs[h] = c[h - 1] /\ h \in Int
    BY <1>2, <1>4
  <2>2. QED
    BY <1>2, <1>4, <2>1
<1>7. Len(legs) \in 1 .. 3
  BY <1>2, <1>4
<1>8. QED
  BY <1>4, <1>5, <1>6, <1>7

\* what a placement takes: the next ids and the first number that is free
LEMMA AllocForms ==
    ASSUME SessionTyped, ThreadsOK, NEW e \in Endpoint, NEW legs \in Groups[e],
           AllocOrderIds(e, legs)
    PROVE  /\ legs \in Forms /\ nextId \in Id /\ socket /\ pc[e] = "resolved"
           /\ ids' = [ids EXCEPT ![e] = ids'[e]]
           /\ ids'[e] \in [Leg -> Optional(Id)] /\ ids'[e]["entry"] = nextId
           /\ nextId < nextId' /\ nextId' \in 1 .. MaxId + 1
           /\ \A g \in Leg : ids'[e][g] # None =>
                /\ \E k \in DOMAIN legs : legs[k] = g
                /\ nextId <= ids'[e][g] /\ ids'[e][g] < nextId'
                /\ \A h \in Leg : ids'[e][h] = ids'[e][g] => h = g
                /\ Unnumbered => ids'[e][g] \in early'
           /\ \A k \in DOMAIN legs : ids'[e][legs[k]] # None
           /\ \E n \in Unused(e) :
                /\ \A k \in Unused(e) : n <= k
                /\ meant' = [l \in Label |->
                               IF l.e = e /\ l.n = n /\ ids'[e][l.leg] # None
                               THEN {"place"} ELSE meant[l]]
           /\ early \subseteq early' /\ early' \subseteq Id
<1> DEFINE n == Min(Unused(e))
           at == [leg \in Leg |-> IF \E k \in DOMAIN legs : legs[k] = leg
                                  THEN nextId - 1 + (CHOOSE k \in DOMAIN legs : legs[k] = leg)
                                  ELSE None]
<1>1. /\ pc[e] = "resolved" /\ socket /\ nextId + Len(legs) - 1 <= MaxId
      /\ ids' = [ids EXCEPT ![e] = at] /\ nextId' = nextId + Len(legs)
      /\ early' = IF Unnumbered
                  THEN early \cup {at[legs[k]] : k \in DOMAIN legs} ELSE early
      /\ meant' = [l \in Label |-> IF l.e = e /\ l.n = n /\ at[l.leg] # None
                                   THEN {"place"} ELSE meant[l]]
  BY DEF AllocOrderIds, IdsTaken
<1>2. nextId \in 1 .. MaxId + 1
  BY <1>1 DEF ThreadsOK, ThreadOK, SessionTyped, TypeOK, Optional
<1>3. n \in Unused(e) /\ \A k \in Unused(e) : n <= k
  <2>1. Unused(e) # {} /\ Unused(e) \subseteq Nat
    <3>1. ThreadOK(e)
      BY DEF ThreadsOK
    <3>2. Unused(e) # {}
      BY <1>1, <3>1 DEF ThreadOK
    <3>3. Unused(e) \subseteq 1 .. MaxPlacements
      BY DEF Unused
    <3>4. QED
      BY <3>2, <3>3, Bounds
  <2>2. QED
    BY <2>1, LeastExists
<1>4. ids'[e] = at
  BY <1>1 DEF SessionTyped, TypeOK
<1>5. legs \in Forms
  BY EndpointAssumption DEF Endpoint
<1>6. /\ legs \in Seq(Leg) /\ Len(legs) \in 1 .. 3 /\ DOMAIN legs = 1 .. Len(legs)
      /\ legs[1] = "entry" /\ \A j, k \in DOMAIN legs : legs[j] = legs[k] => j = k
  BY <1>5, GroupForms
<1>7. \A k \in DOMAIN legs : legs[k] \in Leg /\ at[legs[k]] = nextId - 1 + k
  <2> TAKE k \in DOMAIN legs
  <2>1. legs[k] \in Leg
    BY <1>6
  <2>2. (CHOOSE j \in DOMAIN legs : legs[j] = legs[k]) = k
    BY <1>6
  <2>3. QED
    BY <2>1, <2>2
<1>8. \A g \in Leg : (~\E k \in DOMAIN legs : legs[k] = g) => at[g] = None
  OBVIOUS
<1>9. at = [g \in Leg |-> at[g]]
  OBVIOUS
<1> HIDE DEF at, n
<1>10. \A k \in DOMAIN legs : /\ at[legs[k]] \in Id /\ at[legs[k]] # None
                               /\ nextId <= at[legs[k]] /\ at[legs[k]] < nextId'
  <2> TAKE k \in DOMAIN legs
  <2>1. at[legs[k]] = nextId - 1 + k /\ k \in 1 .. Len(legs)
    BY <1>6, <1>7
  <2>2. /\ at[legs[k]] \in 1 .. MaxId /\ nextId <= at[legs[k]]
        /\ at[legs[k]] < nextId'
    BY <1>1, <1>2, <1>6, <2>1, Bounds
  <2>3. QED
    BY <2>2, NoneAssumption, Bounds DEF Id
<1>11. \A g \in Leg : at[g] # None => \E k \in DOMAIN legs : legs[k] = g
  BY <1>8
<1>12. at \in [Leg -> Optional(Id)]
  BY <1>8, <1>9, <1>10 DEF Optional
<1>13. \A g, h \in Leg : at[g] # None /\ at[h] = at[g] => h = g
  <2> SUFFICES ASSUME NEW g \in Leg, NEW h \in Leg, at[g] # None, at[h] = at[g]
               PROVE  h = g
    OBVIOUS
  <2>1. PICK j \in DOMAIN legs : legs[j] = g
    BY <1>11
  <2>2. PICK k \in DOMAIN legs : legs[k] = h
    BY <1>11
  <2>3. nextId - 1 + j = nextId - 1 + k
    BY <1>7, <2>1, <2>2
  <2>4. j = k
    BY <1>2, <1>6, <2>3, Bounds
  <2>5. QED
    BY <2>1, <2>2, <2>4
<1>14. /\ at["entry"] = nextId /\ nextId \in Id
       /\ nextId < nextId' /\ nextId' \in 1 .. MaxId + 1
  <2>1. 1 \in DOMAIN legs /\ at["entry"] = nextId - 1 + 1
    BY <1>6, <1>7
  <2>2. QED
    BY <1>1, <1>2, <1>6, <1>10, <2>1, Bounds
<1>15. \A g \in Leg : at[g] # None /\ Unnumbered => at[g] \in early'
  BY <1>1, <1>11
<1>16. early \subseteq early' /\ early' \subseteq Id
  BY <1>1, <1>10 DEF SessionTyped
<1>17. /\ legs \in Forms /\ nextId \in Id /\ socket /\ pc[e] = "resolved"
       /\ ids' = [ids EXCEPT ![e] = ids'[e]]
       /\ ids'[e] \in [Leg -> Optional(Id)] /\ ids'[e]["entry"] = nextId
       /\ nextId < nextId' /\ nextId' \in 1 .. MaxId + 1
  BY <1>1, <1>4, <1>5, <1>12, <1>14
<1>18. \A g \in Leg : ids'[e][g] # None =>
          /\ \E k \in DOMAIN legs : legs[k] = g
          /\ nextId <= ids'[e][g] /\ ids'[e][g] < nextId'
          /\ \A h \in Leg : ids'[e][h] = ids'[e][g] => h = g
          /\ Unnumbered => ids'[e][g] \in early'
  BY <1>4, <1>10, <1>11, <1>13, <1>15
<1>19. \A k \in DOMAIN legs : ids'[e][legs[k]] # None
  BY <1>4, <1>10
<1>20. \E k \in Unused(e) :
          /\ \A j \in Unused(e) : k <= j
          /\ meant' = [l \in Label |-> IF l.e = e /\ l.n = k /\ ids'[e][l.leg] # None
                                       THEN {"place"} ELSE meant[l]]
  BY <1>1, <1>3, <1>4
<1>21. QED
  BY <1>16, <1>17, <1>18, <1>19, <1>20

LEMMA PlacementTyped ==
    ASSUME SessionTyped, ThreadsOK, NEW e \in Endpoint, NEW legs \in Groups[e],
           AllocOrderIds(e, legs)
    PROVE  SessionTyped'
<1>1. /\ legs \in Forms /\ pc[e] = "resolved"
      /\ ids' = [ids EXCEPT ![e] = ids'[e]] /\ ids'[e] \in [Leg -> Optional(Id)]
      /\ nextId' \in 1 .. MaxId + 1 /\ early' \subseteq Id
  BY AllocForms
<1>2. nextId' \in Optional(1 .. MaxId + 1)
  BY <1>1 DEF Optional
<1>3. ids' \in [Endpoint -> [Leg -> Optional(Id)]]
  BY <1>1 DEF SessionTyped, TypeOK
<1>4. /\ todo' = [todo EXCEPT ![e] = legs] /\ pc' = [pc EXCEPT ![e] = "sending"]
  BY DEF AllocOrderIds, Goto
<1>10. legs \in Seq(Leg)
  BY <1>1, GroupForms
<1>5. /\ todo' \in [Endpoint -> Seq(Leg)]
      /\ \A f \in Endpoint : todo'[f] \in Forms \cup Children
  BY <1>1, <1>4, <1>10 DEF SessionTyped, TypeOK
<1>6. \A p \in resolving : p.req > MaxId /\ pc'[p.e] = "resolving"
  BY <1>1, <1>4 DEF SessionTyped, TypeOK
<1>7. meant' \in [Label -> SUBSET (Change \cup {"place", "cancel"})]
  <2>1. \E n \in Unused(e) :
           meant' = [l \in Label |-> IF l.e = e /\ l.n = n /\ ids'[e][l.leg] # None
                                     THEN {"place"} ELSE meant[l]]
    BY AllocForms
  <2>2. meant \in [Label -> SUBSET (Change \cup {"place", "cancel"})]
    BY DEF SessionTyped
  <2>3. QED
    BY <2>1, <2>2
<1>8. /\ UNCHANGED <<socket, lookupVars, orderVars, filed, gateVars, alerted,
                     troubles, acts, excused, reissued, refused>>
  BY DEF AllocOrderIds
<1>9. QED
  BY <1>1, <1>2, <1>3, <1>4, <1>5, <1>6, <1>7, <1>8
     DEF SessionTyped, TypeOK, lookupVars, orderVars, gateVars

\* what a thread sends next
LEMMA SendForms ==
    ASSUME SessionTyped, ThreadsOK, NEW e \in Endpoint, SendLeg(e)
    PROVE  LET leg == Head(todo[e])
               rest == Tail(todo[e])
           IN  /\ pc[e] = "sending" /\ leg \in Leg /\ Begun(e)
               /\ ids[e][leg] \in Id /\ ids[e]["entry"] \in Id
               /\ rest \in Children /\ rest \in Seq(Leg)
               /\ 1 \in DOMAIN todo[e] /\ todo[e][1] = leg
               /\ \A k \in DOMAIN rest : k + 1 \in DOMAIN todo[e] /\ rest[k] = todo[e][k + 1]
               /\ \A k \in DOMAIN todo[e] :
                    k # 1 => k - 1 \in DOMAIN rest /\ rest[k - 1] = todo[e][k]
<1>1. /\ pc[e] = "sending" /\ ids[e]["entry"] # None /\ Begun(e) /\ todo[e] # <<>>
      /\ \A k \in DOMAIN todo[e] : ids[e][todo[e][k]] # None
  BY DEF SendLeg, ThreadsOK, ThreadOK
<1>2. /\ \A g \in Leg : ids[e][g] \in Optional(Id)
      /\ todo[e] \in Seq(Leg) /\ todo[e] \in Forms \cup Children
  BY DEF SessionTyped, TypeOK
<1>3. /\ Head(todo[e]) \in Leg /\ Tail(todo[e]) \in Seq(Leg)
      /\ 1 \in DOMAIN todo[e] /\ Head(todo[e]) = todo[e][1]
      /\ \A k \in DOMAIN Tail(todo[e]) :
           k + 1 \in DOMAIN todo[e] /\ Tail(todo[e])[k] = todo[e][k + 1]
      /\ \A k \in DOMAIN todo[e] :
           k # 1 => k - 1 \in DOMAIN Tail(todo[e]) /\ Tail(todo[e])[k - 1] = todo[e][k]
  BY <1>1, <1>2, PopForms
<1>4. Tail(todo[e]) \in Children
  BY <1>1, <1>2, GroupForms, ChildrenForms
<1>5. ids[e][Head(todo[e])] \in Id /\ ids[e]["entry"] \in Id
  BY <1>1, <1>2, <1>3 DEF Optional, Leg
<1>6. QED
  BY <1>1, <1>3, <1>4, <1>5

\* a leg's message
Sent(e, leg) ==
    [kind |-> "place", id |-> ids[e][leg], label |-> Current(e, leg),
     parent |-> ids[e]["entry"], transmit |-> (Tail(todo[e]) = <<>>),
     has |-> {}, echoed |-> FALSE, new |-> TRUE]

LEMMA SentForms ==
    ASSUME SessionTyped, ThreadsOK, NEW e \in Endpoint, SendLeg(e)
    PROVE  LET leg == Head(todo[e])
               m == Sent(e, leg)
           IN  /\ m \in Requests /\ m.kind = "place" /\ m.id = ids[e][leg]
               /\ m.label = Current(e, leg) /\ m.parent = ids[e]["entry"]
               /\ m.transmit = (Tail(todo[e]) = <<>>) /\ ~m.echoed
               /\ m.has = {} /\ m.new /\ IsNew(m) /\ ~IsChange(m)
               /\ IF socket THEN toGateway' = Append(toGateway, m)
                  ELSE toGateway' = toGateway
<1> DEFINE leg == Head(todo[e])
           m == Sent(e, leg)
<1>1. leg \in Leg /\ ids[e][leg] \in Id /\ ids[e]["entry"] \in Id /\ Begun(e)
  BY SendForms
<1>2. IF socket THEN toGateway' = Append(toGateway, m) ELSE toGateway' = toGateway
  BY DEF SendLeg, Sent, Transmits
<1>3. Current(e, leg) \in Label
  BY <1>1, CurrentForms
<1> HIDE DEF leg
<1>4. m \in Placements
  BY <1>1, <1>3 DEF Sent, Placements, Changes
<1>5. QED
  BY <1>2, <1>4 DEF Sent, Requests, IsNew, IsChange, leg

LEMMA SendTyped ==
    ASSUME SessionTyped, ThreadsOK, NEW e \in Endpoint, SendLeg(e)
    PROVE  SessionTyped'
<1> DEFINE leg == Head(todo[e])
           rest == Tail(todo[e])
           l == Current(e, leg)
<1>1. /\ pc[e] = "sending" /\ leg \in Leg /\ ids[e][leg] \in Id
      /\ rest \in Children /\ rest \in Seq(Leg) /\ l \in Label
  BY SendForms, CurrentForms
<1>2. toGateway' \in Seq(Requests)
  <2>1. Sent(e, leg) \in Requests /\ toGateway \in Seq(Requests)
    BY SentForms DEF SessionTyped
  <2>2. \/ toGateway' = Append(toGateway, Sent(e, leg)) \/ toGateway' = toGateway
    BY SentForms
  <2>3. QED
    BY <2>1, <2>2
<1>3. alerted' \subseteq Label
  BY <1>1 DEF SendLeg, SessionTyped, TypeOK
<1>4. early' \subseteq Id
  BY <1>1 DEF SendLeg, SessionTyped
<1>5. todo' = [todo EXCEPT ![e] = rest]
  BY DEF SendLeg
<1>6. \/ UNCHANGED <<pc, ids, filed, placed>>
      \/ /\ pc' = [pc EXCEPT ![e] = "ready"] /\ ids' = [ids EXCEPT ![e] = NoIds]
         /\ filed' = [m \in Label |-> IF m.e = e /\ m.n = l.n
                                      THEN ids[e][m.leg] ELSE filed[m]]
         /\ placed' = [placed EXCEPT ![e] = [i \in Id |->
                IF \E g \in Leg : ids[e][g] = i THEN {} ELSE placed[e][i]]]
  BY DEF SendLeg, Goto
<1>7. UNCHANGED <<idVars, lookupVars, tracked, echo, toClient, book, troubles,
                  meant, acts, excused, reissued, refused>>
  BY DEF SendLeg
<1> HIDE DEF leg, rest, l
<1>8. /\ todo' \in [Endpoint -> Seq(Leg)]
      /\ \A f \in Endpoint : todo'[f] \in Forms \cup Children
  BY <1>1, <1>5 DEF SessionTyped, TypeOK
<1>9. /\ NoIds \in [Leg -> Optional(Id)] /\ {} \in Optional(Changes)
  BY DEF NoIds, Optional, Changes
<1>10. /\ pc' \in [Endpoint -> {"off", "waiting", "ready", "failed", "resolving",
                                "resolved", "sending"}]
       /\ \A p \in resolving : p.req > MaxId /\ pc'[p.e] = "resolving"
  BY <1>1, <1>6 DEF SessionTyped, TypeOK
<1>11. /\ ids' \in [Endpoint -> [Leg -> Optional(Id)]]
       /\ filed' \in [Label -> Optional(Id)]
  <2>1. \A m \in Label : m.leg \in Leg
    BY DEF Label
  <2>2. ids[e] \in [Leg -> Optional(Id)]
    BY DEF SessionTyped, TypeOK
  <2>3. CASE UNCHANGED <<pc, ids, filed, placed>>
    BY <2>3 DEF SessionTyped, TypeOK
  <2>4. CASE ~ UNCHANGED <<pc, ids, filed, placed>>
    <3>1. /\ ids' = [ids EXCEPT ![e] = NoIds]
          /\ filed' = [m \in Label |-> IF m.e = e /\ m.n = l.n
                                        THEN ids[e][m.leg] ELSE filed[m]]
      BY <1>6, <2>4
    <3>2. ids' \in [Endpoint -> [Leg -> Optional(Id)]]
      BY <1>9, <3>1 DEF SessionTyped, TypeOK
    <3>3. \A m \in Label : ids[e][m.leg] \in Optional(Id) /\ filed[m] \in Optional(Id)
      BY <2>1, <2>2 DEF SessionTyped, TypeOK
    <3>4. filed' \in [Label -> Optional(Id)]
      BY <3>1, <3>3
    <3>5. QED
      BY <3>2, <3>4
  <2>5. QED
    BY <2>3, <2>4
<1>12. placed' \in [Endpoint -> [Id -> Optional(Changes)]]
  <2>1. placed[e] \in [Id -> Optional(Changes)]
    BY DEF SessionTyped, TypeOK
  <2>2. [i \in Id |-> IF \E g \in Leg : ids[e][g] = i THEN {} ELSE placed[e][i]]
          \in [Id -> Optional(Changes)]
    BY <1>9, <2>1
  <2>3. QED
    BY <1>6, <2>2 DEF SessionTyped, TypeOK
<1>13. QED
  BY <1>2, <1>3, <1>4, <1>7, <1>8, <1>10, <1>11, <1>12
     DEF SessionTyped, TypeOK, idVars, lookupVars

LEMMA ActsCount ==
    ASSUME SessionTyped, NEW e, NEW l, NEW what, Acts(e, l, what)
    PROVE  acts' \in 0 .. MaxActs
<1>1. acts \in 0 .. MaxActs /\ acts < MaxActs /\ acts' = acts + 1
  BY DEF SessionTyped, TypeOK, Acts
<1>2. QED
  BY <1>1, Bounds

LEMMA RaisesTyped ==
    ASSUME SessionTyped, NEW e, NEW l, NEW what, Raises(e, l, what)
    PROVE  SessionTyped'
<1>1. acts' \in 0 .. MaxActs
  BY ActsCount DEF Raises
<1>2. QED
  BY <1>1 DEF Raises, SessionTyped, TypeOK, threadVars, idVars, lookupVars, orderVars,
     gateVars

LEMMA FollowForms ==
    ASSUME SessionTyped, NEW e \in Endpoint, NEW l \in Label,
           NEW what \in Change \cup {"cancel"}, Follows(e, l, what)
    PROVE  /\ pc[e] = "ready" /\ l.e = e /\ filed[l] \in Id /\ socket
           /\ "cancel" \notin meant[l] /\ acts' \in 0 .. MaxActs
           /\ meant' = [meant EXCEPT ![l] = meant[l] \cup {what}]
           /\ meant' \in [Label -> SUBSET (Change \cup {"place", "cancel"})]
<1>1. filed[l] \in Id
  BY DEF Follows, Acts, SessionTyped, TypeOK, Optional
<1>2. meant \in [Label -> SUBSET (Change \cup {"place", "cancel"})]
  BY DEF SessionTyped
<1>3. acts' \in 0 .. MaxActs
  BY ActsCount DEF Follows
<1>4. QED
  BY <1>1, <1>2, <1>3 DEF Follows, Acts

\* a cancellation's message, and a modification's
Cancelled(l) == [kind |-> "cancel", id |-> filed[l], label |-> l]
Changed(e, l, c) ==
    [kind |-> "place", id |-> filed[l], label |-> l, parent |-> filed[l],
     transmit |-> TRUE, has |-> Base(e, filed[l]).has \cup {c},
     echoed |-> Base(e, filed[l]).echoed, new |-> FALSE]

LEMMA FollowTyped ==
    ASSUME SessionTyped, NEW e \in Endpoint, NEW l \in Label
    PROVE  /\ CancelOrder(e, l) =>
                /\ SessionTyped' /\ Cancelled(l) \in Requests
                /\ toGateway' = Append(toGateway, Cancelled(l))
           /\ \A c \in Change : ModifyOrder(e, l, c) =>
                LET b == Base(e, filed[l])
                IN  /\ SessionTyped' /\ Changed(e, l, c) \in Requests
                    /\ b.has \in Changes /\ b.echoed \in BOOLEAN
                    /\ \/ echo[filed[l]] # None /\ b.has = echo[filed[l]] /\ b.echoed
                       \/ echo[filed[l]] = None /\ b.has = placed[e][filed[l]]
                    /\ toGateway' = Append(toGateway, Changed(e, l, c))
<1> USE DEF threadVars, idVars, lookupVars, orderVars, gateVars, historyVars
<1>1. ASSUME CancelOrder(e, l)
      PROVE  /\ SessionTyped' /\ Cancelled(l) \in Requests
             /\ toGateway' = Append(toGateway, Cancelled(l))
  <2>1. /\ filed[l] \in Id
        /\ meant' \in [Label -> SUBSET (Change \cup {"place", "cancel"})]
        /\ acts' \in 0 .. MaxActs
    BY <1>1, FollowForms DEF CancelOrder
  <2>2. Cancelled(l) \in Requests
    BY <2>1 DEF Cancelled, Cancels, Requests
  <2>3. toGateway' = Append(toGateway, Cancelled(l))
    BY <1>1 DEF CancelOrder, Cancelled
  <2>4. toGateway' \in Seq(Requests)
    BY <2>2, <2>3 DEF SessionTyped
  <2>5. QED
    BY <1>1, <2>1, <2>2, <2>3, <2>4 DEF CancelOrder, SessionTyped, TypeOK
<1>2. ASSUME NEW c \in Change, ModifyOrder(e, l, c)
      PROVE  LET b == Base(e, filed[l])
             IN  /\ SessionTyped' /\ Changed(e, l, c) \in Requests
                 /\ b.has \in Changes /\ b.echoed \in BOOLEAN
                 /\ \/ echo[filed[l]] # None /\ b.has = echo[filed[l]] /\ b.echoed
                    \/ echo[filed[l]] = None /\ b.has = placed[e][filed[l]]
                 /\ toGateway' = Append(toGateway, Changed(e, l, c))
  <2> DEFINE b == Base(e, filed[l])
  <2>1. /\ filed[l] \in Id
        /\ meant' \in [Label -> SUBSET (Change \cup {"place", "cancel"})]
        /\ acts' \in 0 .. MaxActs
    BY <1>2, FollowForms DEF ModifyOrder
  <2>2. /\ \/ echo[filed[l]] # None /\ b.has = echo[filed[l]] /\ b.echoed = TRUE
           \/ echo[filed[l]] = None /\ b.has = placed[e][filed[l]] /\ b.echoed = FALSE
    BY DEF Base
  <2>3. /\ toGateway' = Append(toGateway, Changed(e, l, c))
        /\ placed' = [placed EXCEPT ![e][filed[l]] = b.has \cup {c}]
        /\ excused' = IF UnderWay(l) THEN excused \cup {l} ELSE excused
        /\ b.has # None
        /\ UNCHANGED <<threadVars, idVars, lookupVars, tracked, echo, filed,
                       toClient, book, alerted, troubles, early, reissued, refused>>
    BY <1>2 DEF ModifyOrder, Changed
  <2> HIDE DEF b
  <2>4. b.has \in Changes /\ b.has \cup {c} \in Changes
    <3>1. b.has \in Changes
      BY <2>1, <2>2, <2>3 DEF SessionTyped, TypeOK, Optional
    <3>2. QED
      BY <3>1 DEF Changes
  <2>5. Changed(e, l, c) \in Requests
    BY <2>1, <2>2, <2>4 DEF Changed, Placements, Requests, b
  <2>6. toGateway' \in Seq(Requests)
    BY <2>3, <2>5 DEF SessionTyped
  <2>7. placed' \in [Endpoint -> [Id -> Optional(Changes)]]
    BY <2>1, <2>3, <2>4 DEF SessionTyped, TypeOK, Optional
  <2>8. excused' \subseteq Label
    BY <2>3 DEF SessionTyped
  <2>9. SessionTyped'
    BY <2>1, <2>3, <2>6, <2>7, <2>8 DEF SessionTyped, TypeOK
  <2>10. QED
    BY <2>2, <2>3, <2>4, <2>5, <2>9 DEF b
<1>3. QED
  BY <1>1, <1>2

-----------------------------------------------------------------------------
(* Threads, lines, labels and requests.                                    *)

\* an order that stays what it was, though it may be over
Kept(i) ==
    /\ book[i] # None /\ book'[i] # None
    /\ book'[i].label = book[i].label /\ (Live(i)' => Live(i))

LEMMA CutBook ==
    ASSUME SessionTyped, Cut, NEW i \in Id
    PROVE  /\ book'[i] = book[i] \/ Kept(i)
           /\ book[i] # None => /\ book'[i] # None /\ book'[i].label = book[i].label
                                /\ book'[i].has = book[i].has
                                /\ book'[i].state = "working" <=> book[i].state = "working"
                                /\ Live(i)' => book'[i] = book[i] /\ Live(i)
           /\ book[i] = None => book'[i] = None
<1>1. book'[i] = IF book[i] # None /\ book[i].state = "held"
                 THEN [book[i] EXCEPT !.state = "gone"] ELSE book[i]
  BY DEF Cut
<1>2. CASE book[i] # None /\ book[i].state = "held"
  <2> DEFINE o == [book[i] EXCEPT !.state = "gone"]
  <2>1. /\ o # None /\ o.label = book[i].label
        /\ o.has = book[i].has /\ o.state = "gone"
    BY <1>2, BookForms, OrderForms DEF State
  <2> HIDE DEF o
  <2>2. book'[i] = o
    BY <1>1, <1>2 DEF o
  <2>3. ~ Live(i)'
    BY <2>1, <2>2 DEF Live
  <2>4. QED
    BY <1>2, <2>1, <2>2, <2>3 DEF Kept
<1>3. CASE ~ (book[i] # None /\ book[i].state = "held")
  <2>1. book'[i] = book[i]
    BY <1>1, <1>3
  <2>2. Live(i)' => Live(i)
    BY <2>1 DEF Live
  <2>3. QED
    BY <2>1, <2>2
<1>4. QED
  BY <1>2, <1>3

\* an order that comes to its end
Over(i) ==
    /\ Live(i) /\ Kept(i) /\ ~ Live(i)'
    /\ book'[i].has = book[i].has /\ book'[i].state = "gone"

LEMMA GoneBook ==
    ASSUME SessionTyped, NEW S, \A i \in S : Live(i), book' = Gone(S), NEW j \in Id
    PROVE  IF j \in S THEN Over(j) ELSE book'[j] = book[j]
<1>1. CASE j \in S
  <2>1. /\ book'[j] # None /\ book'[j].state = "gone"
        /\ book'[j].label = book[j].label /\ book'[j].has = book[j].has
    BY <1>1, GoneForms
  <2>2. ~ Live(j)'
    BY <2>1 DEF Live
  <2>3. QED
    BY <1>1, <2>1, <2>2 DEF Over, Kept, Live
<1>2. CASE j \notin S
  BY <1>2, GoneForms
<1>3. QED
  BY <1>1, <1>2

\* An exit ends no entry, and an entry no other order.
LEMMA ExecutesBook ==
    ASSUME SessionTyped, NEW i \in Id, Executes(i), NEW j \in Id
    PROVE  /\ Over(j) \/ book'[j] = book[j]
           /\ Over(j) => \/ j = i
                         \/ book[i].label.leg # "entry" /\ book[j].label.leg # "entry"
           /\ book[i].label.leg # "entry" =>
                /\ \A k \in Siblings(book[i].label) : book[k].label.leg # "entry"
                /\ Over(j) => j \in Siblings(book[i].label)
<1> DEFINE l == book[i].label
<1>1. Live(i)
  BY DEF Executes, Live
<1>2. CASE l.leg = "entry"
  <2>1. book' = Gone({i})
    BY <1>2 DEF Executes
  <2>2. IF j \in {i} THEN Over(j) ELSE book'[j] = book[j]
    BY <1>1, <2>1, GoneBook
  <2>3. book'[j] = book[j] => ~ Over(j)
    BY DEF Over, Live
  <2>4. Over(j) => j = i
    BY <2>2, <2>3
  <2>5. Over(j) \/ book'[j] = book[j]
    BY <2>2
  <2>6. book[i].label.leg = "entry"
    BY <1>2
  <2> HIDE DEF l
  <2>7. QED
    BY <2>4, <2>5, <2>6
<1>3. CASE l.leg # "entry"
  <2>1. /\ book' = Gone(Ends(l))
        /\ \A k \in Siblings(l) : book[k].label.leg # "entry"
    BY <1>3 DEF Executes
  <2>2. IF j \in Ends(l) THEN Over(j) ELSE book'[j] = book[j]
    BY <2>1, EndsForms, GoneBook
  <2>3. Over(j) => book'[j] # book[j]
    BY DEF Over, Live
  <2>4. QED
    BY <1>3, <2>1, <2>2, <2>3, EndsForms
<1>4. QED
  BY <1>2, <1>3

\* What the Gateway does with a request: it changes an order that it holds,
\* takes a new one under an id that is free, cancels, or refuses; it releases
\* orders on the way, and answers once.
Spread(m, i) ==
    IF Live(i) /\ i \in Released(m)
    THEN /\ Kept(i) /\ Live(i)' /\ book'[i].state = "working"
         /\ book'[i].has = book[i].has
    ELSE book'[i] = book[i]

Modified(m) ==
    /\ m.kind = "place" /\ Live(m.id) /\ book[m.id].label = m.label
    /\ m.label.leg = "entry" \/ m.echoed
    /\ \A i \in Id : i # m.id => Spread(m, i)
    /\ Kept(m.id) /\ book'[m.id].has = m.has /\ Live(m.id)'
    /\ book'[m.id].state = IF m.id \in Released(m) THEN "working" ELSE book[m.id].state
    /\ toClient' = Append(toClient, Echo(m)) /\ refused' = refused /\ rejected' = rejected

Accepted(m) ==
    /\ IsNew(m) /\ ~ Live(m.id) /\ ~ Orphan(m)
    /\ book'[m.id] = Order(m)
    /\ book'[m.id] # None /\ book'[m.id].label = m.label /\ book'[m.id].has = m.has
    /\ book'[m.id].state = IF m.transmit THEN "working" ELSE "held"
    /\ Live(m.id)' /\ \A i \in Id : i # m.id => Spread(m, i)
    /\ toClient' = Append(toClient, Echo(m)) /\ refused' = refused /\ rejected' = rejected

Refused(m) ==
    /\ m.kind = "place" /\ book' = book
    /\ ~ (Live(m.id) /\ book[m.id].label = m.label /\ m.echoed)
    /\ \E b \in BOOLEAN : Refuses(m, b)

Dropped(m) ==
    /\ m.kind = "cancel"
    /\ \A i \in Id : IF Live(m.id) /\ i \in Ends(book[m.id].label)
                     THEN Over(i) ELSE book'[i] = book[i]
    /\ toClient' = Append(toClient, Error(m.id, m.label, Live(m.id)))
    /\ refused' = refused /\ rejected' = rejected

Answered(m) ==
    /\ m.kind = "resolve" /\ book' = book /\ refused' = refused /\ rejected' = rejected
    /\ toClient' = Append(toClient, [kind |-> "contract", id |-> m.id])

LEMMA SpreadForms ==
    ASSUME SessionTyped, NEW m \in Requests, m.kind = "place", NEW i \in Id,
           book'[i] = Transmitted(m)[i]
    PROVE  Spread(m, i)
<1>1. /\ book[i] # None => /\ book'[i] # None /\ book'[i].label = book[i].label
                           /\ book'[i].has = book[i].has
      /\ Live(i) /\ i \in Released(m) => book'[i].state = "working"
      /\ i \notin Released(m) \/ ~Live(i) => book'[i] = book[i]
  BY ReleaseForms
<1>2. Live(i) => book[i] # None
  BY DEF Live
<1>3. Live(i) /\ i \in Released(m) => Live(i)'
  BY <1>1, <1>2 DEF Live
<1>4. QED
  BY <1>1, <1>2, <1>3 DEF Spread, Kept

LEMMA GatewayCases ==
    ASSUME SessionTyped, NEW m \in Requests, m = Head(toGateway), GatewayTakes
    PROVE  Modified(m) \/ Accepted(m) \/ Refused(m) \/ Dropped(m) \/ Answered(m)
<1>3. \/ m.kind = "place" /\ (GatewayModifies(m) \/ GatewayAccepts(m) \/ GatewayRefuses(m))
      \/ m.kind = "cancel" /\ GatewayCancels(m)
      \/ m.kind = "resolve" /\ GatewayResolves(m)
  BY DEF GatewayTakes
<1>4. CASE m.kind = "place" /\ GatewayModifies(m)
  <2>1. m.id \in Id /\ m.has \in Changes /\ Live(m.id)
    BY <1>4, PlacementForms DEF GatewayModifies
  <2>2. CASE /\ m.label # book[m.id].label \/ ~m.echoed
             /\ \E b \in BOOLEAN : Refuses(m, b)
    BY <1>4, <2>2 DEF Refused, Refuses
  <2>3. CASE /\ m.label = book[m.id].label /\ (m.label.leg = "entry" \/ m.echoed)
             /\ book' = [Transmitted(m) EXCEPT ![m.id].has = m.has]
             /\ toClient' = Append(toClient, Echo(m))
             /\ refused' = refused /\ rejected' = rejected
    <3> DEFINE t == Transmitted(m)[m.id]
               o == [t EXCEPT !.has = m.has]
    <3>1. /\ Transmitted(m) \in [Id -> Optional(Orders)] /\ t # None
          /\ t.label = book[m.id].label /\ t.state \in {"held", "working"}
          /\ t.state = IF m.id \in Released(m) THEN "working" ELSE book[m.id].state
      <4>1. book[m.id] # None
        BY <2>1 DEF Live
      <4>2. QED
        BY <1>4, <2>1, <4>1, ReleaseForms
    <3>2. book' = [Transmitted(m) EXCEPT ![m.id] = o]
      BY <2>3
    <3>3. t \in Orders
      BY <2>1, <3>1 DEF Optional
    <3> HIDE DEF t
    <3>4. /\ o # None /\ o.label = book[m.id].label /\ o.has = m.has
          /\ o.state = t.state
      BY <2>1, <3>1, <3>3, OrderForms
    <3> HIDE DEF o
    <3>5. book'[m.id] = o /\ \A k \in Id : k # m.id => book'[k] = Transmitted(m)[k]
      BY <2>1, <3>1, <3>2
    <3>6. Live(m.id)'
      BY <3>1, <3>4, <3>5 DEF Live
    <3>7. Kept(m.id)
      BY <2>1, <3>4, <3>5 DEF Kept, Live
    <3>8. \A i \in Id : i # m.id => Spread(m, i)
      BY <1>4, <3>5, SpreadForms
    <3>9. QED
      BY <1>4, <2>1, <2>3, <3>1, <3>4, <3>5, <3>6, <3>7, <3>8 DEF Modified
  <2>4. QED
    BY <1>4, <2>2, <2>3 DEF GatewayModifies
<1>5. CASE m.kind = "place" /\ GatewayAccepts(m)
  <2>1. /\ m.id \in Id /\ IsNew(m) /\ ~Live(m.id) /\ ~Orphan(m)
        /\ toClient' = Append(toClient, Echo(m))
        /\ refused' = refused /\ rejected' = rejected
        /\ book' = [Transmitted(m) EXCEPT ![m.id] = Order(m)]
    BY <1>5, PlacementForms DEF GatewayAccepts, IsNew
  <2>2. Transmitted(m) \in [Id -> Optional(Orders)]
    BY <1>5, ReleaseForms
  <2>3. book'[m.id] = Order(m) /\ \A k \in Id : k # m.id => book'[k] = Transmitted(m)[k]
    BY <2>1, <2>2
  <2>4. /\ book'[m.id] # None /\ book'[m.id].label = m.label /\ book'[m.id].has = m.has
        /\ book'[m.id].state = IF m.transmit THEN "working" ELSE "held"
    BY <1>5, <2>3, AcceptedForms
  <2>5. Live(m.id)'
    BY <2>4 DEF Live
  <2>6. \A i \in Id : i # m.id => Spread(m, i)
    BY <1>5, <2>3, SpreadForms
  <2>7. QED
    BY <2>1, <2>3, <2>4, <2>5, <2>6 DEF Accepted
<1>6. CASE m.kind = "place" /\ GatewayRefuses(m)
  BY <1>6 DEF GatewayRefuses, Refused, Refuses
<1>7. CASE m.kind = "cancel" /\ GatewayCancels(m)
  <2>1. \A i \in Id : IF Live(m.id) /\ i \in Ends(book[m.id].label)
                     THEN Over(i) ELSE book'[i] = book[i]
    <3> TAKE i \in Id
    <3>1. CASE Live(m.id)
      BY <1>7, <3>1, EndsForms, GoneBook DEF GatewayCancels
    <3>2. CASE ~Live(m.id)
      BY <1>7, <3>2 DEF GatewayCancels
    <3>3. QED
      BY <3>1, <3>2
  <2>2. QED
    BY <1>7, <2>1 DEF Dropped, GatewayCancels
<1>8. CASE m.kind = "resolve" /\ GatewayResolves(m)
  BY <1>8 DEF GatewayResolves, Answered
<1>9. QED
  BY <1>3, <1>4, <1>5, <1>6, <1>7, <1>8

LEMMA GatewayHead ==
    ASSUME SessionTyped, GatewayTakes
    PROVE  /\ toGateway # <<>> /\ toGateway' = Tail(toGateway)
           /\ \E m \in Requests : m = Head(toGateway)
  BY PopForms DEF GatewayTakes, SessionTyped

LEMMA ThreadStable ==
    ASSUME NEW e \in Endpoint, ThreadOK(e),
           pc'[e] = pc[e], ids'[e] = ids[e], todo'[e] = todo[e],
           nextId # None => nextId' # None,
           \A l \in Label : l.e = e => meant'[l] = meant[l] /\ filed'[l] = filed[l],
           pc[e] = "sending" => SessionTyped
    PROVE  ThreadOK(e)'
<1>1. \A n \in 1 .. MaxPlacements, g \in Leg :
         LET l == [e |-> e, n |-> n, leg |-> g]
         IN  l \in Label /\ meant'[l] = meant[l] /\ filed'[l] = filed[l]
  BY LabelOf
<1>2. "entry" \in Leg
  BY DEF Leg
<1>3. \A g \in Leg : Current(e, g)' = Current(e, g) /\ Begun(e)' = Begun(e)
  BY <1>1, <1>2, CurrentSame
<1>4. Unused(e)' = Unused(e)
  BY <1>1, <1>2 DEF Unused
<1>5. pc[e] = "sending" => \A g \in Leg : /\ meant'[Current(e, g)] = meant[Current(e, g)]
                                          /\ filed'[Current(e, g)] = filed[Current(e, g)]
  <2> SUFFICES ASSUME pc[e] = "sending", NEW g \in Leg
               PROVE  /\ meant'[Current(e, g)] = meant[Current(e, g)]
                      /\ filed'[Current(e, g)] = filed[Current(e, g)]
    OBVIOUS
  <2>1. SessionTyped /\ Begun(e)
    BY DEF ThreadOK
  <2>2. Current(e, g) \in Label /\ Current(e, g).e = e
    BY <2>1, CurrentForms
  <2>3. QED
    BY <2>2
<1>6. Begun(e)' = Begun(e)
  BY <1>2, <1>3
<1>7. CASE pc[e] # "sending"
  BY <1>4, <1>7 DEF ThreadOK
<1>8. CASE pc[e] = "sending"
  <2>1. \A g \in Leg : Current(e, g)' = Current(e, g)
    BY <1>3
  <2>2. /\ ids'[e]["entry"] # None /\ Begun(e)' /\ nextId' # None /\ todo'[e] # <<>>
        /\ \A k \in DOMAIN todo'[e] : ids'[e][todo'[e][k]] # None
        /\ Head(todo'[e]) = "entry" =>
             \A g \in Leg : ids'[e][g] # None
                             => \E k \in DOMAIN todo'[e] : todo'[e][k] = g
    BY <1>6, <1>8 DEF ThreadOK
  <2>3. \A g \in Leg : /\ filed'[Current(e, g)] = None
                       /\ ids'[e][g] = None <=> meant'[Current(e, g)] = {}
    BY <1>5, <1>8 DEF ThreadOK
  <2>4. \A g \in Leg : /\ filed'[Current(e, g)'] = None
                       /\ ids'[e][g] = None <=> meant'[Current(e, g)'] = {}
    BY <2>1, <2>3
  <2>5. QED
    BY <1>8, <2>2, <2>4 DEF ThreadOK
<1>9. QED
  BY <1>7, <1>8

LEMMA ThreadIdle ==
    ASSUME NEW e \in Endpoint, pc'[e] # "sending", ids'[e] = NoIds,
           pc'[e] \in {"ready", "resolving", "resolved"} => nextId' # None,
           pc'[e] \in {"resolving", "resolved"} => Unused(e)' # {}
    PROVE  ThreadOK(e)'
  BY DEF ThreadOK

LEMMA GreatestIs ==
    ASSUME NEW n \in Nat, NEW S, S \subseteq 0 .. n, n \in S
    PROVE  Max(S) = n
<1>1. Max(S) \in S /\ \A y \in S : Max(S) >= y
  BY GreatestExists
<1>2. Max(S) \in 0 .. n /\ Max(S) >= n
  BY <1>1
<1>3. QED
  BY <1>2

\* the numbers that are used come first
LEMMA FirstUnused ==
    ASSUME SessionTyped, MeantOK, NEW e \in Endpoint, NEW n \in Unused(e),
           \A k \in Unused(e) : n <= k
    PROVE  /\ n \in 1 .. MaxPlacements
           /\ \A g \in Leg : /\ [e |-> e, n |-> n, leg |-> g] \in Label
                             /\ meant[[e |-> e, n |-> n, leg |-> g]] = {}
                             /\ filed[[e |-> e, n |-> n, leg |-> g]] = None
           /\ \A k \in 1 .. MaxPlacements :
                meant[[e |-> e, n |-> k, leg |-> "entry"]] # {} <=> k < n
<1>1. n \in 1 .. MaxPlacements /\ meant[[e |-> e, n |-> n, leg |-> "entry"]] = {}
  BY DEF Unused
<1>2. \A g \in Leg : /\ [e |-> e, n |-> n, leg |-> g] \in Label
                     /\ meant[[e |-> e, n |-> n, leg |-> g]] = {}
                     /\ filed[[e |-> e, n |-> n, leg |-> g]] = None
  <2> TAKE g \in Leg
  <2> DEFINE l == [e |-> e, n |-> n, leg |-> g]
  <2>1. l \in Label /\ Entry(l) = [e |-> e, n |-> n, leg |-> "entry"]
    BY <1>1, LabelOf DEF Entry
  <2> HIDE DEF l
  <2>2. LabelOK(l)
    BY <2>1 DEF MeantOK
  <2>3. meant[l] = {} /\ filed[l] = None
    BY <1>1, <2>1, <2>2 DEF LabelOK
  <2>4. QED
    BY <2>1, <2>3 DEF l
<1>3. ASSUME NEW k \in 1 .. MaxPlacements
      PROVE  meant[[e |-> e, n |-> k, leg |-> "entry"]] # {} <=> k < n
  <2>1. n \in Nat /\ k \in Nat
    BY <1>1
  <2>2. CASE k < n
    <3>1. k \notin Unused(e)
      BY <2>1, <2>2
    <3>2. QED
      BY <2>2, <3>1 DEF Unused
  <2>3. CASE ~(k < n)
    <3>1. n <= k
      BY <2>1, <2>3
    <3>2. meant[[e |-> e, n |-> k, leg |-> "entry"]] # {}
            => meant[[e |-> e, n |-> n, leg |-> "entry"]] # {}
      BY <1>1, <3>1 DEF MeantOK
    <3>3. QED
      BY <1>1, <2>3, <3>2
  <2>4. QED
    BY <2>2, <2>3
<1>4. QED
  BY <1>1, <1>2, <1>3

\* the labels a placement is for
LEMMA AllocCurrent ==
    ASSUME SessionTyped, ThreadsOK, MeantOK, NEW e \in Endpoint, NEW legs \in Groups[e],
           AllocOrderIds(e, legs)
    PROVE  \E n \in 1 .. MaxPlacements :
              /\ \A g \in Leg : LET l == [e |-> e, n |-> n, leg |-> g]
                                IN  /\ l \in Label /\ Current(e, g)' = l
                                    /\ meant[l] = {} /\ filed[l] = None
                                    /\ meant'[l] = IF ids'[e][g] # None THEN {"place"} ELSE {}
              /\ \A l \in Label : l.e # e \/ l.n # n => meant'[l] = meant[l]
              /\ \A k \in 1 .. MaxPlacements :
                   meant'[[e |-> e, n |-> k, leg |-> "entry"]] # {} <=> k <= n
              /\ \A l \in Label : meant[l] # {} =>
                   \A x \in Label : x.e = l.e /\ x.n = l.n => meant'[x] = meant[x]
<1>1. PICK n \in Unused(e) :
          /\ \A k \in Unused(e) : n <= k
          /\ meant' = [l \in Label |-> IF l.e = e /\ l.n = n /\ ids'[e][l.leg] # None
                                       THEN {"place"} ELSE meant[l]]
  BY AllocForms
<1>2. /\ n \in 1 .. MaxPlacements
      /\ \A g \in Leg : /\ [e |-> e, n |-> n, leg |-> g] \in Label
                        /\ meant[[e |-> e, n |-> n, leg |-> g]] = {}
                        /\ filed[[e |-> e, n |-> n, leg |-> g]] = None
      /\ \A k \in 1 .. MaxPlacements :
           meant[[e |-> e, n |-> k, leg |-> "entry"]] # {} <=> k < n
  BY <1>1, FirstUnused
<1>3. ids'[e]["entry"] # None /\ "entry" \in Leg
  BY AllocForms, NoneAssumption, Bounds DEF Id, Leg
<1>4. \A g \in Leg : meant'[[e |-> e, n |-> n, leg |-> g]]
                       = IF ids'[e][g] # None THEN {"place"} ELSE {}
  BY <1>1, <1>2
<1>5. \A l \in Label : l.e # e \/ l.n # n => meant'[l] = meant[l]
  BY <1>1
<1>6. ASSUME NEW k \in 1 .. MaxPlacements
      PROVE  meant'[[e |-> e, n |-> k, leg |-> "entry"]] # {} <=> k <= n
  <2>1. CASE k = n
    BY <1>2, <1>3, <1>4, <2>1
  <2>2. CASE k # n
    <3>1. meant'[[e |-> e, n |-> k, leg |-> "entry"]] = meant[[e |-> e, n |-> k, leg |-> "entry"]]
      BY <1>3, <1>5, <2>2, LabelOf
    <3>2. k < n <=> k <= n
      BY <1>2, <2>2
    <3>3. QED
      BY <1>2, <3>1, <3>2
  <2>3. QED
    BY <2>1, <2>2
<1>7. \A g \in Leg : Current(e, g)' = [e |-> e, n |-> n, leg |-> g]
  <2> DEFINE S == {k \in 1 .. MaxPlacements : meant'[[e |-> e, n |-> k, leg |-> "entry"]] # {}}
  <2>1. n \in S /\ S \subseteq 0 .. n /\ n \in Nat
    BY <1>2, <1>6, Bounds
  <2>2. Max(S) = n
    BY <2>1, GreatestIs
  <2>3. \A g \in Leg : Current(e, g)' = [e |-> e, leg |-> g, n |-> Max(S)]
    BY DEF Current
  <2> HIDE DEF S
  <2>4. QED
    BY <2>2, <2>3
<1>8. ASSUME NEW l \in Label, meant[l] # {}
      PROVE  \A x \in Label : x.e = l.e /\ x.n = l.n => meant'[x] = meant[x]
  <2>1. l.leg \in Leg /\ l = [e |-> l.e, n |-> l.n, leg |-> l.leg]
    BY LabelForms
  <2>2. l.e # e \/ l.n # n
    BY <1>2, <1>8, <2>1
  <2>3. QED
    BY <1>5, <2>2
<1>9. QED
  BY <1>2, <1>4, <1>5, <1>6, <1>7, <1>8

\* A call that raises leaves everything but the history as it was.
LEMMA RaisesAlone ==
    ASSUME NEW e \in Endpoint, NEW l \in Label,
           CancelRaises(e, l) \/ \E c \in Change : ModifyRaises(e, l, c)
    PROVE  UNCHANGED <<pc, todo, ids, socket, nextId, reqSeq, resolving, cached, tracked,
                       echo, placed, filed, toGateway, toClient, book, alerted, troubles,
                       meant, excused, early, reissued, refused, rejected>>
  BY DEF CancelRaises, ModifyRaises, Raises, threadVars, idVars, lookupVars, orderVars,
     gateVars

LEMMA ThreadsStep ==
    ASSUME BaseInv, Next
    PROVE  ThreadsOK'
<1> USE DEF threadVars, idVars, lookupVars, orderVars, gateVars, historyVars, Goto
<1>0. SessionTyped /\ ThreadsOK /\ MeantOK /\ \A e \in Endpoint : ThreadOK(e)
  BY DEF BaseInv, ThreadsOK
<1>1. ASSUME NEW f \in Endpoint, UNCHANGED <<pc, todo, ids, meant, filed>>, nextId' = nextId
      PROVE  ThreadOK(f)'
  BY <1>0, <1>1, ThreadStable
<1>2. CASE GatewayTakes \/ Drop \/ \E i \in Id : Executes(i)
  BY <1>1, <1>2 DEF GatewayTakes, Drop, Cut, Executes, ThreadsOK
<1>3. CASE Restart
  <2>1. \A f \in Endpoint : pc'[f] = "off" /\ ids'[f] = NoIds
    BY <1>3 DEF Restart
  <2>2. QED
    BY <2>1, ThreadIdle DEF ThreadsOK
<1>4. CASE ReaderTakes
  <2>1. PICK m \in Callbacks : m = Head(toClient)
    BY <1>0, <1>4, PopForms DEF ReaderTakes, SessionTyped
  <2>2. \/ m.kind = "nextId" /\ OnNextValidId(m)
        \/ m.kind = "echo" /\ OnOpenOrder(m)
        \/ m.kind = "contract" /\ OnContractDetails(m)
        \/ m.kind = "error" /\ OnError(m)
    BY <1>4, <2>1 DEF ReaderTakes
  <2>3. UNCHANGED <<todo, ids, meant, filed>>
    BY <1>4, <2>2 DEF ReaderTakes, OnNextValidId, OnOpenOrder, OnContractDetails, OnError
  <2>4. CASE m.kind = "nextId" /\ OnNextValidId(m)
    <3>1. nextId' # None
      BY <2>4, CallbackForms, NoneAssumption, Bounds DEF OnNextValidId, Id
    <3>2. ASSUME NEW f \in Endpoint PROVE ThreadOK(f)'
      <4>1. CASE pc[f] = "waiting"
        <5>1. pc'[f] = "ready" /\ ids'[f] = NoIds
          BY <1>0, <2>3, <2>4, <4>1 DEF OnNextValidId, ThreadOK
        <5>2. QED
          BY <3>1, <5>1, ThreadIdle
      <4>2. CASE pc[f] # "waiting"
        <5>1. pc'[f] = pc[f]
          BY <2>4, <4>2 DEF OnNextValidId
        <5>2. QED
          BY <1>0, <2>3, <3>1, <5>1, ThreadStable
      <4>3. QED
        BY <4>1, <4>2
    <3>3. QED
      BY <3>2 DEF ThreadsOK
  <2>5. CASE m.kind = "echo" /\ OnOpenOrder(m)
    BY <1>1, <2>3, <2>5 DEF OnOpenOrder, ThreadsOK
  <2>6. CASE m.kind = "contract" /\ OnContractDetails(m)
    <3>1. ASSUME NEW f \in Endpoint PROVE ThreadOK(f)'
      <4>1. CASE f \in Waits(m.id)
        <5>1. pc[f] = "resolving"
          BY <1>0, <4>1 DEF Waits, SessionTyped, TypeOK
        <5>2. pc'[f] = "resolved" /\ ids'[f] = NoIds /\ nextId' # None
          BY <1>0, <2>3, <2>6, <4>1, <5>1 DEF OnContractDetails, ThreadOK
        <5>3. Unused(f)' # {}
          BY <1>0, <2>3, <5>1 DEF ThreadOK, Unused
        <5>4. QED
          BY <5>2, <5>3, ThreadIdle
      <4>2. CASE f \notin Waits(m.id)
        <5>1. pc'[f] = pc[f] /\ nextId' = nextId
          BY <2>6, <4>2 DEF OnContractDetails
        <5>2. QED
          BY <1>0, <2>3, <5>1, ThreadStable
      <4>3. QED
        BY <4>1, <4>2
    <3>2. QED
      BY <3>1 DEF ThreadsOK
  <2>7. CASE m.kind = "error" /\ OnError(m)
    <3>1. Waits(m.id) = {}
      BY <1>0, <2>7, CallbackForms, LookupForms
    <3>2. pc' = pc /\ nextId' = nextId
      BY <1>0, <2>7, <3>1 DEF OnError, SessionTyped, TypeOK
    <3>3. QED
      BY <1>1, <2>3, <3>2 DEF ThreadsOK
  <2>8. QED
    BY <2>2, <2>4, <2>5, <2>6, <2>7
<1>5. ASSUME NEW e \in Endpoint, Connect(e) \/ ConnectFails(e) PROVE ThreadsOK'
  <2>1. /\ pc[e] \in {"off", "waiting"} /\ pc'[e] \in {"ready", "waiting", "failed"}
        /\ pc'[e] = "ready" => nextId # None
        /\ \A f \in Endpoint : f # e => pc'[f] = pc[f]
        /\ UNCHANGED <<todo, ids, meant, filed, nextId>>
    BY <1>0, <1>5 DEF Connect, ConnectFails, Cut, SessionTyped, TypeOK
  <2>2. ids'[e] = NoIds
    BY <1>0, <2>1 DEF ThreadOK
  <2>3. ThreadOK(e)'
    BY <2>1, <2>2, ThreadIdle
  <2>4. ASSUME NEW f \in Endpoint, f # e PROVE ThreadOK(f)'
    BY <1>0, <2>1, <2>4, ThreadStable
  <2>5. QED
    BY <2>3, <2>4 DEF ThreadsOK
<1>6. ASSUME NEW e \in Endpoint, Resolve(e) \/ ResolveFails(e) \/ PlacementRaises(e)
      PROVE  ThreadsOK'
  <2>1. /\ pc[e] \in {"ready", "resolving", "resolved"}
        /\ pc'[e] \in {"ready", "resolving", "resolved"}
        /\ pc'[e] \in {"resolving", "resolved"} => Unused(e) # {}
        /\ \A f \in Endpoint : f # e => pc'[f] = pc[f]
        /\ UNCHANGED <<todo, ids, meant, filed, nextId>>
    BY <1>0, <1>6 DEF Resolve, ResolveFails, PlacementRaises, SessionTyped, TypeOK
  <2>2. ids'[e] = NoIds /\ nextId' # None /\ Unused(e)' = Unused(e)
    BY <1>0, <2>1 DEF ThreadOK, Unused
  <2>3. ThreadOK(e)'
    BY <2>1, <2>2, ThreadIdle
  <2>4. ASSUME NEW f \in Endpoint, f # e PROVE ThreadOK(f)'
    BY <1>0, <2>1, <2>4, ThreadStable
  <2>5. QED
    BY <2>3, <2>4 DEF ThreadsOK
<1>7. ASSUME NEW e \in Endpoint, NEW legs \in Groups[e], AllocOrderIds(e, legs)
      PROVE  ThreadsOK'
  <2>1. PICK n \in 1 .. MaxPlacements :
              /\ \A g \in Leg : LET l == [e |-> e, n |-> n, leg |-> g]
                                IN  /\ l \in Label /\ Current(e, g)' = l
                                    /\ meant[l] = {} /\ filed[l] = None
                                    /\ meant'[l] = IF ids'[e][g] # None THEN {"place"} ELSE {}
              /\ \A l \in Label : l.e # e \/ l.n # n => meant'[l] = meant[l]
              /\ \A k \in 1 .. MaxPlacements :
                   meant'[[e |-> e, n |-> k, leg |-> "entry"]] # {} <=> k <= n
    BY <1>0, <1>7, AllocCurrent
  <2>2. /\ legs \in Forms /\ nextId \in Id /\ nextId' \in 1 .. MaxId + 1
        /\ ids' = [ids EXCEPT ![e] = ids'[e]] /\ ids'[e]["entry"] = nextId
        /\ \A g \in Leg : ids'[e][g] # None => \E k \in DOMAIN legs : legs[k] = g
        /\ \A k \in DOMAIN legs : ids'[e][legs[k]] # None
    BY <1>0, <1>7, AllocForms
  <2>3. \A i \in Id : i # None
    BY NoneAssumption, Bounds DEF Id
  <2>4. nextId' # None
    BY <2>2, NoneAssumption
  <2>5. /\ pc' = [pc EXCEPT ![e] = "sending"] /\ todo' = [todo EXCEPT ![e] = legs]
        /\ filed' = filed
    BY <1>7 DEF AllocOrderIds
  <2>6. ASSUME NEW f \in Endpoint, f # e PROVE ThreadOK(f)'
    <3>1. /\ pc'[f] = pc[f] /\ ids'[f] = ids[f] /\ todo'[f] = todo[f]
          /\ \A l \in Label : l.e = f => meant'[l] = meant[l] /\ filed'[l] = filed[l]
      BY <1>0, <2>1, <2>2, <2>5, <2>6 DEF SessionTyped, TypeOK
    <3>2. QED
      BY <1>0, <2>4, <3>1, ThreadStable
  <2>7. ThreadOK(e)'
    <3>1. /\ pc'[e] = "sending" /\ todo'[e] = legs
          /\ ids'[e]["entry"] # None
      BY <1>0, <2>2, <2>3, <2>5 DEF SessionTyped, TypeOK
    <3>2. /\ todo'[e] # <<>> /\ \A k \in DOMAIN todo'[e] : ids'[e][todo'[e][k]] # None
          /\ \A g \in Leg : ids'[e][g] # None
                            => \E k \in DOMAIN todo'[e] : todo'[e][k] = g
      BY <2>2, <3>1, GroupForms
    <3>3. Begun(e)'
      <4>1. n <= n
        OBVIOUS
      <4>2. QED
        BY <2>1, <4>1 DEF Begun
    <3>4. \A g \in Leg : /\ filed'[Current(e, g)'] = None
                         /\ ids'[e][g] = None <=> meant'[Current(e, g)'] = {}
      <4> TAKE g \in Leg
      <4> DEFINE l == [e |-> e, n |-> n, leg |-> g]
      <4>1. /\ Current(e, g)' = l /\ filed[l] = None
            /\ meant'[l] = IF ids'[e][g] # None THEN {"place"} ELSE {}
        BY <2>1
      <4> HIDE DEF l
      <4>2. filed'[l] = None /\ (ids'[e][g] = None <=> meant'[l] = {})
        BY <2>5, <4>1
      <4>3. QED
        BY <4>1, <4>2
    <3>5. QED
      BY <2>4, <3>1, <3>2, <3>3, <3>4 DEF ThreadOK
  <2>8. QED
    BY <2>6, <2>7 DEF ThreadsOK
<1>8. ASSUME NEW e \in Endpoint, SendLeg(e) PROVE ThreadsOK'
  <2> DEFINE leg == Head(todo[e])
             rest == Tail(todo[e])
  <2>1. /\ pc[e] = "sending"
        /\ rest \in Children /\ rest \in Seq(Leg)
        /\ \A k \in DOMAIN rest : k + 1 \in DOMAIN todo[e] /\ rest[k] = todo[e][k + 1]
    BY <1>0, <1>8, SendForms
  <2>2. /\ todo' = [todo EXCEPT ![e] = rest] /\ meant' = meant /\ nextId' = nextId
        /\ IF rest # <<>> THEN UNCHANGED <<pc, ids, filed>>
           ELSE /\ pc' = [pc EXCEPT ![e] = "ready"] /\ ids' = [ids EXCEPT ![e] = NoIds]
                /\ \A l \in Label : l.e # e => filed'[l] = filed[l]
    BY <1>8 DEF SendLeg
  <2> HIDE DEF leg, rest
  <2>3. ASSUME NEW f \in Endpoint, f # e PROVE ThreadOK(f)'
    <3>1. /\ pc'[f] = pc[f] /\ ids'[f] = ids[f] /\ todo'[f] = todo[f]
          /\ \A l \in Label : l.e = f => meant'[l] = meant[l] /\ filed'[l] = filed[l]
      BY <1>0, <2>2, <2>3 DEF SessionTyped, TypeOK
    <3>2. QED
      BY <1>0, <2>2, <3>1, ThreadStable
  <2>4. ThreadOK(e)'
    <3>1. CASE rest = <<>>
      <4>1. pc'[e] = "ready" /\ ids'[e] = NoIds
        BY <1>0, <2>2, <3>1 DEF SessionTyped, TypeOK
      <4>2. nextId' # None
        BY <1>0, <2>1, <2>2 DEF ThreadOK
      <4>3. QED
        BY <4>1, <4>2, ThreadIdle
    <3>2. CASE rest # <<>>
      <4>1. UNCHANGED <<pc, ids, filed, meant, nextId>> /\ todo'[e] = rest
        BY <1>0, <2>2, <3>2 DEF SessionTyped, TypeOK
      <4>2. \A k \in DOMAIN todo'[e] : ids'[e][todo'[e][k]] # None
        BY <1>0, <2>1, <4>1 DEF ThreadOK
      <4>3. Head(todo'[e]) # "entry"
        <5>1. 1 \in DOMAIN rest /\ Head(rest) = rest[1]
          BY <2>1, <3>2, PopForms
        <5>2. rest[1] # "entry"
          BY <2>1, <5>1, ChildrenForms
        <5>3. QED
          BY <4>1, <5>1, <5>2
      <4>4. \A g \in Leg : Current(e, g)' = Current(e, g)
        BY <4>1, CurrentSame
      <4>5. Begun(e)'
        BY <1>0, <2>1, <4>1 DEF ThreadOK, Begun
      <4>6. \A g \in Leg : /\ filed'[Current(e, g)'] = None
                           /\ ids'[e][g] = None <=> meant'[Current(e, g)'] = {}
        BY <1>0, <2>1, <4>1, <4>4 DEF ThreadOK
      <4>7. /\ pc'[e] = "sending" /\ nextId' # None /\ ids'[e]["entry"] # None
            /\ todo'[e] # <<>>
        BY <1>0, <2>1, <3>2, <4>1 DEF ThreadOK
      <4>8. QED
        BY <4>2, <4>3, <4>5, <4>6, <4>7 DEF ThreadOK
    <3>3. QED
      BY <3>1, <3>2
  <2>5. QED
    BY <2>3, <2>4 DEF ThreadsOK
<1>9. ASSUME NEW e \in Endpoint, NEW l \in Label, NEW what \in Change \cup {"cancel"},
             Follows(e, l, what), UNCHANGED <<pc, todo, ids, filed, nextId>>
      PROVE  ThreadsOK'
  <2>1. pc[e] = "ready" /\ l.e = e /\ \A k \in Label : k # l => meant'[k] = meant[k]
    BY <1>0, <1>9, FollowForms DEF SessionTyped
  <2>2. ASSUME NEW f \in Endpoint, f # e PROVE ThreadOK(f)'
    BY <1>0, <1>9, <2>1, <2>2, ThreadStable
  <2>3. ThreadOK(e)'
    <3>1. pc'[e] = "ready" /\ ids'[e] = NoIds /\ nextId' # None
      BY <1>0, <1>9, <2>1 DEF ThreadOK
    <3>2. QED
      BY <3>1, ThreadIdle
  <2>4. QED
    BY <2>2, <2>3 DEF ThreadsOK
<1>10. ASSUME NEW e \in Endpoint, NEW l \in Label,
              CancelOrder(e, l) \/ \E c \in Change : ModifyOrder(e, l, c)
       PROVE  ThreadsOK'
  BY <1>9, <1>10 DEF CancelOrder, ModifyOrder
<1>11. ASSUME NEW e \in Endpoint, NEW l \in Label,
              CancelRaises(e, l) \/ \E c \in Change : ModifyRaises(e, l, c)
       PROVE  ThreadsOK'
  BY <1>1, <1>11, RaisesAlone DEF ThreadsOK
<1>12. QED
  BY <1>2, <1>3, <1>4, <1>5, <1>6, <1>7, <1>8, <1>10, <1>11 DEF Next

LEMMA LinesStep ==
    ASSUME BaseInv, Next
    PROVE  LinesOK'
<1> USE DEF threadVars, idVars, lookupVars, orderVars, gateVars, historyVars
<1>0. SessionTyped /\ ThreadsOK /\ LinesOK /\ \A e \in Endpoint : ThreadOK(e)
  BY DEF BaseInv, ThreadsOK
<1>1. CASE GatewayTakes
  BY <1>0, <1>1, GatewayHead DEF GatewayTakes, LinesOK
<1>2. CASE Drop \/ Restart \/ \E e \in Endpoint : ConnectFails(e)
  BY <1>2 DEF Drop, Restart, ConnectFails, Cut, LinesOK
<1>3. CASE \E i \in Id : Executes(i)
  BY <1>0, <1>3 DEF Executes, LinesOK
<1>4. CASE ReaderTakes
  <2>1. PICK m \in Callbacks : m = Head(toClient)
    BY <1>0, <1>4, PopForms DEF ReaderTakes, SessionTyped
  <2>2. \/ m.kind = "nextId" /\ nextId' = m.id
        \/ nextId' = nextId
    BY <1>4, <2>1 DEF ReaderTakes, OnNextValidId, OnOpenOrder, OnContractDetails, OnError
  <2>3. nextId' = None => nextId = None
    BY <2>2, CallbackForms, NoneAssumption, Bounds DEF Id
  <2>4. socket /\ socket' = socket /\ toGateway' = toGateway
    BY <1>0, <1>4 DEF ReaderTakes, LinesOK
  <2>5. QED
    BY <1>0, <2>3, <2>4 DEF LinesOK
<1>5. ASSUME NEW e \in Endpoint, Connect(e) PROVE LinesOK'
  BY <1>0, <1>5 DEF Connect, LinesOK
<1>6. ASSUME NEW e \in Endpoint, Resolve(e) \/ ResolveFails(e) \/ PlacementRaises(e)
      PROVE  LinesOK'
  <2>1. /\ nextId' = nextId /\ socket' = socket /\ toClient' = toClient
        /\ toGateway' = toGateway \/ (socket /\ nextId # None)
    BY <1>0, <1>6 DEF Resolve, ResolveFails, PlacementRaises, ThreadOK
  <2>2. QED
    BY <1>0, <2>1 DEF LinesOK
<1>7. ASSUME NEW e \in Endpoint, NEW legs \in Groups[e], AllocOrderIds(e, legs)
      PROVE  LinesOK'
  <2>3. nextId' # None
    BY <1>0, <1>7, AllocForms, NoneAssumption
  <2>4. UNCHANGED <<socket, toGateway, toClient>>
    BY <1>7 DEF AllocOrderIds
  <2>5. QED
    BY <1>0, <2>3, <2>4 DEF LinesOK
<1>8. ASSUME NEW e \in Endpoint, SendLeg(e) PROVE LinesOK'
  <2>1. nextId # None
    BY <1>0, <1>8 DEF SendLeg, ThreadOK
  <2>2. ~socket => toGateway' = toGateway
    BY <1>8 DEF SendLeg
  <2>3. UNCHANGED <<socket, nextId, toClient>>
    BY <1>8 DEF SendLeg
  <2>4. QED
    BY <1>0, <2>1, <2>2, <2>3 DEF LinesOK
<1>9. ASSUME NEW e \in Endpoint, NEW l \in Label,
             CancelOrder(e, l) \/ \E c \in Change : ModifyOrder(e, l, c)
      PROVE  LinesOK'
  <2>1. /\ socket /\ pc[e] = "ready" /\ UNCHANGED <<socket, nextId, toClient>>
    BY <1>9 DEF CancelOrder, ModifyOrder, Follows, Acts
  <2>2. nextId # None
    BY <1>0, <2>1 DEF ThreadOK
  <2>3. QED
    BY <2>1, <2>2 DEF LinesOK
<1>10. ASSUME NEW e \in Endpoint, NEW l \in Label,
              CancelRaises(e, l) \/ \E c \in Change : ModifyRaises(e, l, c)
       PROVE  LinesOK'
  BY <1>0, <1>10, RaisesAlone DEF LinesOK
<1>11. QED
  BY <1>1, <1>2, <1>3, <1>4, <1>5, <1>6, <1>7, <1>8, <1>9, <1>10 DEF Next

\* an order's label is that of an earlier order under its id, or of a request
LEMMA MeantBook ==
    ASSUME SessionTyped, MeantOK, RequestsOK,
           \/ GatewayTakes \/ Cut \/ \E i \in Id : Executes(i),
           meant' = meant, NEW i \in Id, book'[i] # None
    PROVE  meant'[book'[i].label] # {}
<1>1. book[i] # None => meant[book[i].label] # {}
  BY DEF MeantOK
<1>2. CASE book'[i] = book[i] \/ Kept(i)
  BY <1>1, <1>2 DEF Kept
<1>3. CASE Cut
  BY <1>2, <1>3, CutBook
<1>4. CASE \E j \in Id : Executes(j)
  <2>1. Over(i) \/ book'[i] = book[i]
    BY <1>4, ExecutesBook
  <2>2. QED
    BY <1>2, <2>1 DEF Over
<1>5. CASE GatewayTakes
  <2>1. PICK m \in Requests : m = Head(toGateway)
    BY <1>5, GatewayHead
  <2>2. Modified(m) \/ Accepted(m) \/ Refused(m) \/ Dropped(m) \/ Answered(m)
    BY <1>5, <2>1, GatewayCases
  <2>3. CASE Accepted(m) /\ i = m.id
    <3>1. RequestOK(m)
      BY <1>5, <2>1, GatewayHead, PopForms DEF RequestsOK, SessionTyped
    <3>2. m.kind = "place" /\ book'[i].label = m.label
      BY <2>3 DEF Accepted, IsNew
    <3>3. QED
      BY <3>1, <3>2 DEF RequestOK
  <2>4. CASE Accepted(m) /\ i # m.id
    <3>1. book'[i] = book[i] \/ Kept(i)
      BY <2>4 DEF Accepted, Spread
    <3>2. QED
      BY <1>2, <3>1
  <2>5. CASE Modified(m) \/ Refused(m) \/ Dropped(m) \/ Answered(m)
    <3>1. book'[i] = book[i] \/ Kept(i)
      BY <2>5 DEF Modified, Refused, Dropped, Answered, Spread, Over
    <3>2. QED
      BY <1>2, <3>1
  <2>6. QED
    BY <2>2, <2>3, <2>4, <2>5
<1>6. QED
  BY <1>3, <1>4, <1>5

LEMMA MeantStep ==
    ASSUME BaseInv, Next
    PROVE  MeantOK'
<1> USE DEF threadVars, idVars, lookupVars, orderVars, gateVars, historyVars
<1>0. SessionTyped /\ ThreadsOK /\ MeantOK /\ RequestsOK
  BY DEF BaseInv
<1>1. ASSUME UNCHANGED <<meant, filed>>,
             book' = book \/ GatewayTakes \/ Cut \/ \E i \in Id : Executes(i)
      PROVE  MeantOK'
  <2>1. \A i \in Id : book'[i] # None => meant'[book'[i].label] # {}
    <3>1. CASE book' = book
      BY <1>0, <1>1, <3>1 DEF MeantOK
    <3>2. CASE GatewayTakes \/ Cut \/ \E i \in Id : Executes(i)
      BY <1>0, <1>1, <3>2, MeantBook
    <3>3. QED
      BY <1>1, <3>1, <3>2
  <2>2. QED
    BY <1>0, <1>1, <2>1 DEF MeantOK, LabelOK
<1>2. CASE \/ GatewayTakes \/ Drop \/ Restart \/ ReaderTakes \/ \E i \in Id : Executes(i)
           \/ \E e \in Endpoint : \/ Connect(e) \/ ConnectFails(e) \/ Resolve(e)
                                  \/ ResolveFails(e) \/ PlacementRaises(e)
  BY <1>1, <1>2 DEF GatewayTakes, Drop, Restart, ReaderTakes, Executes, Connect, ConnectFails,
     Resolve, ResolveFails, PlacementRaises, OnNextValidId, OnOpenOrder, OnContractDetails,
     OnError
<1>3. ASSUME NEW e \in Endpoint, NEW legs \in Groups[e], AllocOrderIds(e, legs)
      PROVE  MeantOK'
  <2>1. PICK n \in 1 .. MaxPlacements :
              /\ \A g \in Leg : LET l == [e |-> e, n |-> n, leg |-> g]
                                IN  /\ l \in Label /\ Current(e, g)' = l
                                    /\ meant[l] = {} /\ filed[l] = None
                                    /\ meant'[l] = IF ids'[e][g] # None THEN {"place"} ELSE {}
              /\ \A l \in Label : l.e # e \/ l.n # n => meant'[l] = meant[l]
              /\ \A k \in 1 .. MaxPlacements :
                   meant'[[e |-> e, n |-> k, leg |-> "entry"]] # {} <=> k <= n
              /\ \A l \in Label : meant[l] # {} =>
                   \A x \in Label : x.e = l.e /\ x.n = l.n => meant'[x] = meant[x]
    BY <1>0, <1>3, AllocCurrent
  <2>2. filed' = filed /\ book' = book
    BY <1>3 DEF AllocOrderIds
  <2>3. ids'[e]["entry"] # None /\ "entry" \in Leg
    BY <1>0, <1>3, AllocForms, NoneAssumption, Bounds DEF Id, Leg
  <2>4. ASSUME NEW l \in Label PROVE LabelOK(l)'
    <3>0. LabelOK(l)
      BY <1>0 DEF MeantOK
    <3>1. CASE l.e = e /\ l.n = n
      <4>1. /\ l.leg \in Leg /\ l = [e |-> e, n |-> n, leg |-> l.leg]
            /\ Entry(l) = [e |-> e, n |-> n, leg |-> "entry"]
        BY <3>1, LabelForms
      <4>2. meant'[Entry(l)] = {"place"} /\ filed'[l] = None /\ meant'[l] \subseteq {"place"}
        BY <2>1, <2>2, <2>3, <4>1
      <4>3. QED
        BY <4>2 DEF LabelOK
    <3>2. CASE l.e # e \/ l.n # n
      <4>1. Entry(l) \in Label /\ Entry(l).e = l.e /\ Entry(l).n = l.n
        BY LabelForms
      <4>2. meant'[l] = meant[l] /\ meant'[Entry(l)] = meant[Entry(l)]
        BY <2>1, <3>2, <4>1
      <4>3. QED
        BY <2>2, <3>0, <4>2 DEF LabelOK
    <3>3. QED
      BY <3>1, <3>2
  <2>5. \A f \in Endpoint, k, m \in 1 .. MaxPlacements :
          m <= k /\ meant'[[e |-> f, n |-> k, leg |-> "entry"]] # {}
             => meant'[[e |-> f, n |-> m, leg |-> "entry"]] # {}
    <3> TAKE f \in Endpoint, k, m \in 1 .. MaxPlacements
    <3>1. CASE f = e
      BY <2>1, <3>1, Bounds
    <3>2. CASE f # e
      <4>1. /\ meant'[[e |-> f, n |-> k, leg |-> "entry"]] = meant[[e |-> f, n |-> k, leg |-> "entry"]]
            /\ meant'[[e |-> f, n |-> m, leg |-> "entry"]] = meant[[e |-> f, n |-> m, leg |-> "entry"]]
        BY <2>1, <2>3, <3>2, LabelOf
      <4>2. QED
        BY <1>0, <4>1 DEF MeantOK
    <3>3. QED
      BY <3>1, <3>2
  <2>6. \A i \in Id : book'[i] # None => meant'[book'[i].label] # {}
    <3> SUFFICES ASSUME NEW i \in Id, book[i] # None PROVE meant'[book[i].label] # {}
      BY <2>2
    <3>1. book[i].label \in Label /\ meant[book[i].label] # {}
      BY <1>0, BookForms, OrderForms DEF MeantOK
    <3>2. QED
      BY <2>1, <3>1
  <2>7. QED
    BY <2>4, <2>5, <2>6 DEF MeantOK
<1>4. ASSUME NEW e \in Endpoint, SendLeg(e) PROVE MeantOK'
  <2> DEFINE leg == Head(todo[e])
  <2>1. meant' = meant /\ book' = book
    BY <1>4 DEF SendLeg
  <2>2. pc[e] = "sending" /\ Begun(e) /\ leg \in Leg
    BY <1>0, <1>4, SendForms
  <2>3. \/ filed' = filed
        \/ filed' = [m \in Label |-> IF m.e = e /\ m.n = Current(e, leg).n
                                     THEN ids[e][m.leg] ELSE filed[m]]
    BY <1>4 DEF SendLeg
  <2> HIDE DEF leg
  <2>4. ASSUME NEW l \in Label PROVE LabelOK(l)'
    <3>0. LabelOK(l)
      BY <1>0 DEF MeantOK
    <3>1. CASE filed'[l] = filed[l]
      BY <2>1, <3>0, <3>1 DEF LabelOK
    <3>2. CASE filed'[l] # filed[l]
      <4>1. l.e = e /\ l.n = Current(e, leg).n /\ filed'[l] = ids[e][l.leg]
        BY <2>3, <3>2
      <4>2. l = Current(e, l.leg) /\ l.leg \in Leg
        BY <1>0, <2>2, <4>1, CurrentForms, LabelForms
      <4>3. ThreadOK(e)
        BY <1>0 DEF ThreadsOK
      <4>4. filed[l] = None /\ (ids[e][l.leg] = None <=> meant[l] = {})
        BY <2>2, <4>2, <4>3 DEF ThreadOK
      <4>5. QED
        BY <2>1, <3>0, <4>1, <4>4 DEF LabelOK
    <3>3. QED
      BY <3>1, <3>2
  <2>5. QED
    BY <1>0, <2>1, <2>4 DEF MeantOK
<1>5. ASSUME NEW e \in Endpoint, NEW l \in Label, NEW what \in Change \cup {"cancel"},
             Follows(e, l, what), UNCHANGED <<filed, book>>
      PROVE  MeantOK'
  <2>1. /\ meant' = [meant EXCEPT ![l] = meant[l] \cup {what}] /\ filed[l] \in Id
        /\ meant \in [Label -> SUBSET (Change \cup {"place", "cancel"})]
    BY <1>0, <1>5, FollowForms DEF SessionTyped
  <2>2. /\ \A k \in Label : k # l => meant'[k] = meant[k]
        /\ meant'[l] = meant[l] \cup {what}
        /\ filed[l] # None
    BY <2>1, NoneAssumption, Bounds DEF Id
  <2>3. LabelOK(l)
    BY <1>0 DEF MeantOK
  <2>4. meant[l] # {} /\ \A k \in Label : meant'[k] = {} <=> meant[k] = {}
    BY <2>2, <2>3 DEF LabelOK
  <2>5. ASSUME NEW k \in Label PROVE LabelOK(k)'
    <3>1. LabelOK(k) /\ Entry(k) \in Label
      BY <1>0, LabelForms DEF MeantOK
    <3>2. QED
      BY <1>5, <2>2, <2>4, <3>1 DEF LabelOK
  <2>6. \A i \in Id : book'[i] # None => meant'[book'[i].label] # {}
    <3> SUFFICES ASSUME NEW i \in Id, book[i] # None PROVE meant'[book[i].label] # {}
      BY <1>5
    <3>1. book[i].label \in Label /\ meant[book[i].label] # {}
      BY <1>0, BookForms, OrderForms DEF MeantOK
    <3>2. QED
      BY <2>4, <3>1
  <2>7. \A f \in Endpoint, k, m \in 1 .. MaxPlacements :
          m <= k /\ meant'[[e |-> f, n |-> k, leg |-> "entry"]] # {}
             => meant'[[e |-> f, n |-> m, leg |-> "entry"]] # {}
    <3>1. \A f \in Endpoint, k \in 1 .. MaxPlacements :
            [e |-> f, n |-> k, leg |-> "entry"] \in Label
      BY LabelOf DEF Leg
    <3>2. QED
      BY <1>0, <2>4, <3>1 DEF MeantOK
  <2>8. QED
    BY <2>5, <2>6, <2>7 DEF MeantOK
<1>6. ASSUME NEW e \in Endpoint, NEW l \in Label,
             CancelOrder(e, l) \/ \E c \in Change : ModifyOrder(e, l, c)
      PROVE  MeantOK'
  BY <1>5, <1>6 DEF CancelOrder, ModifyOrder
<1>7. ASSUME NEW e \in Endpoint, NEW l \in Label,
             CancelRaises(e, l) \/ \E c \in Change : ModifyRaises(e, l, c)
      PROVE  MeantOK'
  BY <1>1, <1>7, RaisesAlone
<1>8. QED
  BY <1>2, <1>3, <1>4, <1>6, <1>7 DEF Next

\* where the requests of the next state come from
LEMMA RequestsKept ==
    ASSUME SessionTyped,
           \/ toGateway' = toGateway \/ toGateway' = <<>>
           \/ toGateway # <<>> /\ toGateway' = Tail(toGateway),
           NEW k \in DOMAIN toGateway'
    PROVE  \E j \in DOMAIN toGateway : toGateway'[k] = toGateway[j]
<1>1. toGateway \in Seq(Requests) /\ DOMAIN <<>> = {}
  BY DEF SessionTyped
<1>2. CASE toGateway' = toGateway
  BY <1>1, <1>2
<1>3. CASE toGateway' = <<>>
  BY <1>1, <1>3
<1>4. CASE toGateway # <<>> /\ toGateway' = Tail(toGateway)
  <2>1. k \in DOMAIN Tail(toGateway)
    BY <1>4
  <2>2. k + 1 \in DOMAIN toGateway /\ Tail(toGateway)[k] = toGateway[k + 1]
    BY <1>1, <1>4, <2>1, PopForms
  <2>3. QED
    BY <1>4, <2>2
<1>5. QED
  BY <1>2, <1>3, <1>4

LEMMA RequestsFrom ==
    ASSUME SessionTyped,
           \/ toGateway' = toGateway \/ toGateway' = <<>>
           \/ toGateway # <<>> /\ toGateway' = Tail(toGateway)
           \/ \E x \in Requests : toGateway' = Append(toGateway, x),
           NEW k \in DOMAIN toGateway'
    PROVE  /\ toGateway'[k] \in Requests
           /\ \/ \E j \in DOMAIN toGateway : toGateway'[k] = toGateway[j]
              \/ toGateway' = Append(toGateway, toGateway'[k])
<1>1. toGateway \in Seq(Requests) /\ DOMAIN <<>> = {}
  BY DEF SessionTyped
<1>2. CASE toGateway' = toGateway
  BY <1>1, <1>2
<1>3. CASE toGateway' = <<>>
  BY <1>1, <1>3
<1>4. CASE toGateway # <<>> /\ toGateway' = Tail(toGateway)
  <2>1. Tail(toGateway) \in Seq(Requests)
    BY <1>1, <1>4, PopForms
  <2>2. k \in DOMAIN Tail(toGateway)
    BY <1>4
  <2>3. k + 1 \in DOMAIN toGateway /\ Tail(toGateway)[k] = toGateway[k + 1]
    BY <1>1, <1>4, <2>2, PopForms
  <2>4. QED
    BY <1>1, <1>4, <2>3
<1>5. ASSUME NEW x \in Requests, toGateway' = Append(toGateway, x)
      PROVE  /\ toGateway'[k] \in Requests
             /\ \/ \E j \in DOMAIN toGateway : toGateway'[k] = toGateway[j]
                \/ toGateway' = Append(toGateway, toGateway'[k])
  <2>1. /\ DOMAIN Append(toGateway, x) = DOMAIN toGateway \cup {Len(toGateway) + 1}
        /\ \A j \in DOMAIN toGateway : Append(toGateway, x)[j] = toGateway[j]
        /\ Append(toGateway, x)[Len(toGateway) + 1] = x
    BY <1>1, PushForms
  <2>2. CASE k \in DOMAIN toGateway
    BY <1>1, <1>5, <2>1, <2>2
  <2>3. CASE k = Len(toGateway) + 1
    BY <1>5, <2>1, <2>3
  <2>4. QED
    BY <1>5, <2>1, <2>2, <2>3
<1>6. QED
  BY <1>2, <1>3, <1>4, <1>5

LEMMA PushedIs ==
    ASSUME NEW S, NEW q \in Seq(S), NEW x \in S, NEW y \in S, Append(q, x) = Append(q, y)
    PROVE  x = y
<1>1. Append(q, x)[Len(q) + 1] = x /\ Append(q, y)[Len(q) + 1] = y
  BY PushForms
<1>2. QED
  BY <1>1

LEMMA RequestsStep ==
    ASSUME BaseInv, Next
    PROVE  RequestsOK'
<1> USE DEF threadVars, idVars, lookupVars, orderVars, gateVars, historyVars
<1>0. /\ SessionTyped /\ ThreadsOK /\ MeantOK /\ RequestsOK
      /\ \A e \in Endpoint : ThreadOK(e)
      /\ toGateway \in Seq(Requests)
  BY DEF BaseInv, SessionTyped, ThreadsOK
<1>1. SUFFICES ASSUME NEW k \in DOMAIN toGateway', NEW m, m = toGateway'[k]
               PROVE  RequestOK(m)'
  BY DEF RequestsOK, RequestOK
<1>2. ASSUME NEW j \in DOMAIN toGateway, m = toGateway[j]
      PROVE  RequestOK(m) /\ m \in Requests
  BY <1>0, <1>2 DEF RequestsOK
<1>3. ASSUME UNCHANGED <<meant, filed>>, \E j \in DOMAIN toGateway : m = toGateway[j]
      PROVE  RequestOK(m)'
  BY <1>2, <1>3 DEF RequestOK
<1>4. CASE \/ GatewayTakes \/ Drop \/ Restart \/ ReaderTakes \/ \E i \in Id : Executes(i)
           \/ \E e \in Endpoint : \/ Connect(e) \/ ConnectFails(e)
                                  \/ ResolveFails(e) \/ PlacementRaises(e)
  <2>1. /\ UNCHANGED <<meant, filed>>
        /\ \/ toGateway' = toGateway \/ toGateway' = <<>>
           \/ toGateway # <<>> /\ toGateway' = Tail(toGateway)
    BY <1>4 DEF GatewayTakes, Drop, Restart, ReaderTakes, Executes, Connect, ConnectFails,
       ResolveFails, PlacementRaises, OnNextValidId, OnOpenOrder, OnContractDetails,
       OnError, Cut
  <2>2. \E j \in DOMAIN toGateway : m = toGateway[j]
    BY <1>0, <1>1, <2>1, RequestsKept
  <2>3. QED
    BY <1>3, <2>1, <2>2
<1>5. ASSUME NEW e \in Endpoint, Resolve(e) PROVE RequestOK(m)'
  <2>1. /\ UNCHANGED <<meant, filed>>
        /\ \/ toGateway' = toGateway
           \/ toGateway' = Append(toGateway, [kind |-> "resolve", id |-> ReqId(reqSeq + 1)])
    BY <1>5 DEF Resolve
  <2>2. [kind |-> "resolve", id |-> ReqId(reqSeq + 1)] \in Requests
    BY <1>0, Bounds DEF SessionTyped, Requests, Lookups
  <2>3. CASE \E j \in DOMAIN toGateway : m = toGateway[j]
    BY <1>3, <2>1, <2>3
  <2>4. CASE ~ \E j \in DOMAIN toGateway : m = toGateway[j]
    <3>1. m \in Requests /\ toGateway' = Append(toGateway, m)
      BY <1>0, <1>1, <2>1, <2>2, <2>4, RequestsFrom
    <3>2. toGateway' # toGateway
      BY <1>1, <2>4
    <3>3. m = [kind |-> "resolve", id |-> ReqId(reqSeq + 1)]
      BY <1>0, <2>1, <2>2, <3>1, <3>2, PushedIs
    <3>4. m.kind = "resolve"
      BY <3>3
    <3>5. QED
      BY <3>4 DEF RequestOK, IsNew, IsChange
  <2>5. QED
    BY <2>3, <2>4
<1>6. ASSUME NEW e \in Endpoint, NEW legs \in Groups[e], AllocOrderIds(e, legs)
      PROVE  RequestOK(m)'
  <2>1. toGateway' = toGateway /\ filed' = filed
    BY <1>6 DEF AllocOrderIds
  <2>2. RequestOK(m) /\ m \in Requests
    BY <1>1, <1>2, <2>1
  <2>3. \A l \in Label : meant[l] # {} => meant'[l] = meant[l]
    BY <1>0, <1>6, AllocCurrent
  <2>4. m.kind # "resolve" => m.label \in Label /\ meant'[m.label] = meant[m.label]
    BY <2>2, <2>3, PlacementForms DEF RequestOK
  <2>5. QED
    BY <2>1, <2>2, <2>4, PlacementForms DEF RequestOK, IsNew, IsChange
<1>7. ASSUME NEW e \in Endpoint, SendLeg(e) PROVE RequestOK(m)'
  <2> DEFINE leg == Head(todo[e])
             x == Sent(e, leg)
  <2>1. pc[e] = "sending" /\ Begun(e) /\ leg \in Leg /\ ids[e][leg] \in Id
    BY <1>0, <1>7, SendForms
  <2>2. /\ x \in Requests /\ x.kind = "place" /\ x.id = ids[e][leg]
        /\ x.label = Current(e, leg) /\ x.parent = ids[e]["entry"]
        /\ x.has = {} /\ ~x.echoed /\ x.new /\ IsNew(x) /\ ~IsChange(x)
        /\ toGateway' = Append(toGateway, x) \/ toGateway' = toGateway
    BY <1>0, <1>7, SentForms
  <2>3. /\ meant' = meant
        /\ IF Tail(todo[e]) # <<>> THEN filed' = filed
           ELSE filed' = [l \in Label |-> IF l.e = e /\ l.n = Current(e, leg).n
                                          THEN ids[e][l.leg] ELSE filed[l]]
    BY <1>7 DEF SendLeg
  <2> HIDE DEF x, leg
  <2>4. /\ \A g \in Leg : /\ Current(e, g) \in Label /\ Current(e, g).e = e
                          /\ Current(e, g).leg = g /\ Current(e, g).n = Current(e, leg).n
                          /\ filed[Current(e, g)] = None
                          /\ ids[e][g] = None <=> meant[Current(e, g)] = {}
        /\ \A l \in Label : l.e = e /\ l.n = Current(e, leg).n => l = Current(e, l.leg)
    <3>1. ThreadOK(e)
      BY <1>0
    <3>2. /\ \A g \in Leg : /\ Current(e, g) \in Label /\ Current(e, g).e = e
                            /\ Current(e, g).leg = g /\ Current(e, g).n = Current(e, "entry").n
          /\ \A l \in Label : l.e = e /\ l.n = Current(e, "entry").n => l = Current(e, l.leg)
      BY <1>0, <2>1, CurrentForms
    <3>3. \A g \in Leg : /\ filed[Current(e, g)] = None
                         /\ ids[e][g] = None <=> meant[Current(e, g)] = {}
      BY <2>1, <3>1 DEF ThreadOK
    <3>4. Current(e, leg).n = Current(e, "entry").n
      BY <2>1, <3>2
    <3>5. QED
      BY <3>2, <3>3, <3>4
  <2>5. \A l \in Label : filed[l] # None => filed'[l] = filed[l]
    <3> SUFFICES ASSUME NEW l \in Label, filed[l] # None, l.e = e, l.n = Current(e, leg).n
                 PROVE  FALSE
      BY <2>3
    <3>1. l = Current(e, l.leg) /\ l.leg \in Leg
      BY <2>4, LabelForms
    <3>2. QED
      BY <2>4, <3>1
  <2>6. CASE \E j \in DOMAIN toGateway : m = toGateway[j]
    <3>1. RequestOK(m) /\ m \in Requests
      BY <1>2, <2>6
    <3>2. m.kind # "resolve" => m.label \in Label /\ m.id \in Id
      BY <3>1, PlacementForms
    <3>3. m.kind # "resolve" /\ filed[m.label] = m.id => filed'[m.label] = m.id
      BY <2>5, <3>2, NoneAssumption, Bounds DEF Id
    <3>4. QED
      BY <2>3, <3>1, <3>3 DEF RequestOK, IsNew, IsChange
  <2>7. CASE ~ \E j \in DOMAIN toGateway : m = toGateway[j]
    <3>1. m \in Requests /\ toGateway' = Append(toGateway, m)
      BY <1>0, <1>1, <2>2, <2>7, RequestsFrom
    <3>2. toGateway' # toGateway
      BY <1>1, <2>7
    <3>3. m = x
      BY <1>0, <2>2, <3>1, <3>2, PushedIs
    <3>4. ids[e][leg] # None
      BY <2>1, NoneAssumption, Bounds DEF Id
    <3>5. meant'[x.label] # {}
      BY <2>1, <2>2, <2>3, <2>4, <3>4
    <3>6. x.label.leg = "entry" => x.parent = x.id
      BY <2>1, <2>2, <2>4
    <3>7. x.kind # "cancel" /\ x.kind # "resolve"
      BY <2>2
    <3>8. QED
      BY <2>2, <3>3, <3>5, <3>6, <3>7 DEF RequestOK
  <2>8. QED
    BY <2>6, <2>7
<1>8. ASSUME NEW e \in Endpoint, NEW l \in Label, NEW what \in Change \cup {"cancel"},
             Follows(e, l, what), filed' = filed,
             NEW x \in Requests, toGateway' = Append(toGateway, x), RequestOK(x)'
      PROVE  RequestOK(m)'
  <2>1. /\ meant' = [meant EXCEPT ![l] = meant[l] \cup {what}] /\ filed[l] \in Id
        /\ meant \in [Label -> SUBSET (Change \cup {"place", "cancel"})]
    BY <1>0, <1>8, FollowForms DEF SessionTyped
  <2>2. filed[l] # None /\ LabelOK(l)
    BY <1>0, <2>1, NoneAssumption, Bounds DEF MeantOK, Id
  <2>3. /\ \A i \in Label : meant[i] \subseteq meant'[i]
        /\ \A i \in Label : meant[i] = {} => meant'[i] = {}
    BY <2>1, <2>2 DEF LabelOK
  <2>4. CASE \E j \in DOMAIN toGateway : m = toGateway[j]
    <3>1. RequestOK(m) /\ m \in Requests
      BY <1>2, <2>4
    <3>2. m.kind # "resolve" => m.label \in Label
      BY <3>1, PlacementForms
    <3>3. m.kind # "resolve" => meant[m.label] \subseteq meant'[m.label]
      BY <2>3, <3>2
    <3>4. QED
      BY <1>8, <3>1, <3>3, PlacementForms DEF RequestOK, IsNew, IsChange
  <2>5. CASE ~ \E j \in DOMAIN toGateway : m = toGateway[j]
    <3>1. m \in Requests /\ toGateway' = Append(toGateway, m)
      BY <1>0, <1>1, <1>8, <2>5, RequestsFrom
    <3>2. m = x
      BY <1>0, <1>8, <3>1, PushedIs
    <3>3. QED
      BY <1>8, <3>2
  <2>6. QED
    BY <2>4, <2>5
<1>9. ASSUME NEW e \in Endpoint, NEW l \in Label, CancelOrder(e, l) PROVE RequestOK(m)'
  <2> DEFINE x == Cancelled(l)
  <2>1. x \in Requests /\ toGateway' = Append(toGateway, x)
    BY <1>0, <1>9, FollowTyped
  <2>2. /\ Follows(e, l, "cancel") /\ filed' = filed
        /\ meant' = [meant EXCEPT ![l] = meant[l] \cup {"cancel"}]
    BY <1>0, <1>9, FollowForms DEF CancelOrder
  <2>3. "cancel" \in meant'[l]
    BY <1>0, <2>2 DEF SessionTyped
  <2>4. x.kind = "cancel" /\ x.label = l /\ x.id = filed[l]
    BY DEF Cancelled
  <2>5. PICK y \in Requests : y = x
    BY <2>1
  <2> HIDE DEF x
  <2>6. RequestOK(y)'
    <3>1. y.kind = "cancel" /\ y.label = l /\ y.id = filed'[l]
      BY <2>2, <2>4, <2>5
    <3>2. QED
      BY <2>3, <3>1 DEF RequestOK, IsNew, IsChange
  <2>7. toGateway' = Append(toGateway, y)
    BY <2>1, <2>5
  <2>8. "cancel" \in Change \cup {"cancel"}
    OBVIOUS
  <2>9. QED
    BY <1>8, <2>2, <2>6, <2>7, <2>8
<1>10. ASSUME NEW e \in Endpoint, NEW l \in Label, NEW c \in Change, ModifyOrder(e, l, c)
       PROVE  RequestOK(m)'
  <2> DEFINE x == Changed(e, l, c)
  <2>1. x \in Requests /\ toGateway' = Append(toGateway, x)
    BY <1>0, <1>10, FollowTyped
  <2>2. /\ Follows(e, l, c) /\ filed' = filed
        /\ meant' = [meant EXCEPT ![l] = meant[l] \cup {c}]
    BY <1>0, <1>10, FollowForms DEF ModifyOrder
  <2>3. c \in meant'[l]
    BY <1>0, <2>2 DEF SessionTyped
  <2>4. /\ x.kind = "place" /\ x.label = l /\ x.id = filed[l] /\ x.new = FALSE
        /\ x.parent = filed[l]
    BY DEF Changed
  <2>5. PICK y \in Requests : y = x
    BY <2>1
  <2> HIDE DEF x
  <2>6. RequestOK(y)'
    <3>1. /\ y.kind = "place" /\ y.label = l /\ y.id = filed'[l] /\ y.new = FALSE
          /\ y.parent = y.id
      BY <2>2, <2>4, <2>5
    <3>2. QED
      BY <2>3, <3>1 DEF RequestOK, IsNew, IsChange
  <2>7. toGateway' = Append(toGateway, y)
    BY <2>1, <2>5
  <2>8. QED
    BY <1>8, <2>2, <2>6, <2>7
<1>11. ASSUME NEW e \in Endpoint, NEW l \in Label,
              CancelRaises(e, l) \/ \E c \in Change : ModifyRaises(e, l, c)
       PROVE  RequestOK(m)'
  BY <1>1, <1>3, <1>11, RaisesAlone
<1>12. QED
  BY <1>4, <1>5, <1>6, <1>7, <1>9, <1>10, <1>11 DEF Next

LEMMA BaseInit == Init => BaseInv
<1> SUFFICES ASSUME Init PROVE BaseInv
  OBVIOUS
<1>1. /\ Empty \in [Id -> Optional(Changes)] /\ Empty \in [Id -> Optional(Orders)]
      /\ NoIds \in [Leg -> Optional(Id)] /\ <<>> \in Seq(Leg) /\ <<>> \in Children
      /\ <<>> \in Seq(Requests) /\ <<>> \in Seq(Callbacks) /\ DOMAIN <<>> = {}
      /\ \A i \in Id : Empty[i] = None
  BY DEF Empty, NoIds, Optional, Children
<1>2. SessionTyped
  <2>1. /\ nextId \in Optional(1 .. MaxId + 1) /\ reqSeq \in Nat
        /\ troubles \in 0 .. MaxTroubles /\ acts \in 0 .. MaxActs
    BY BoundAssumption, Bounds DEF Init, Optional
  <2>2. filed \in [Label -> Optional(Id)] /\ socket \in BOOLEAN
    BY DEF Init, Optional
  <2>3. /\ \A e \in Endpoint : todo[e] \in Forms \cup Children
        /\ todo \in [Endpoint -> Seq(Leg)] /\ ids \in [Endpoint -> [Leg -> Optional(Id)]]
        /\ pc \in [Endpoint -> {"off", "waiting", "ready", "failed", "resolving",
                                "resolved", "sending"}]
        /\ placed \in [Endpoint -> [Id -> Optional(Changes)]]
    BY <1>1 DEF Init
  <2>4. /\ meant \in [Label -> SUBSET (Change \cup {"place", "cancel"})]
        /\ resolving = {} /\ cached \subseteq Endpoint /\ tracked \subseteq Id
        /\ alerted \subseteq Label /\ excused \subseteq Label /\ early \subseteq Id
        /\ reissued \subseteq Label /\ refused \subseteq Label
        /\ echo \in [Id -> Optional(Changes)] /\ book \in [Id -> Optional(Orders)]
        /\ toGateway \in Seq(Requests) /\ toClient \in Seq(Callbacks)
    BY <1>1 DEF Init
  <2>5. QED
    BY <2>1, <2>2, <2>3, <2>4 DEF SessionTyped, TypeOK
<1>3. ThreadsOK /\ LinesOK /\ RequestsOK
  BY <1>1 DEF Init, ThreadsOK, ThreadOK, LinesOK, RequestsOK
<1>4. MeantOK
  <2>1. \A l \in Label : meant[l] = {} /\ filed[l] = None
    BY DEF Init
  <2>2. \A i \in Id : book[i] = None
    BY <1>1 DEF Init
  <2>3. \A e \in Endpoint, n \in 1 .. MaxPlacements : [e |-> e, n |-> n, leg |-> "entry"] \in Label
    BY LabelOf DEF Leg
  <2>4. QED
    BY <2>1, <2>2, <2>3 DEF MeantOK, LabelOK
<1>5. QED
  BY <1>2, <1>3, <1>4 DEF BaseInv

LEMMA TypedNext ==
    ASSUME BaseInv, Next
    PROVE  SessionTyped'
<1>1. SessionTyped /\ ThreadsOK
  BY DEF BaseInv
<1>2. ASSUME NEW e \in Endpoint, NEW l \in Label,
             CancelRaises(e, l) \/ \E c \in Change : ModifyRaises(e, l, c)
      PROVE  SessionTyped'
  BY <1>1, <1>2, RaisesTyped DEF CancelRaises, ModifyRaises
<1>3. QED
  BY <1>1, <1>2, GatewayTyped, ReaderTyped, ConnectionTyped, LookupTyped, PlacementTyped,
     SendTyped, FollowTyped DEF Next

LEMMA BaseStep ==
    ASSUME BaseInv, [Next]_vars
    PROVE  BaseInv'
<1>1. CASE Next
  BY <1>1, TypedNext, ThreadsStep, LinesStep, MeantStep, RequestsStep DEF BaseInv
<1>2. CASE UNCHANGED vars
  <2> USE DEF vars, threadVars, idVars, lookupVars, orderVars, gateVars, historyVars
  <2>1. SessionTyped'
    BY <1>2 DEF BaseInv, SessionTyped, TypeOK
  <2>2. LinesOK' /\ MeantOK' /\ RequestsOK'
    BY <1>2 DEF BaseInv, LinesOK, MeantOK, LabelOK, RequestsOK, RequestOK
  <2>3. ThreadsOK'
    <3>1. ASSUME NEW e \in Endpoint PROVE ThreadOK(e)'
      BY <1>2, ThreadStable DEF BaseInv, ThreadsOK
    <3>2. QED
      BY <3>1 DEF ThreadsOK
  <2>4. QED
    BY <2>1, <2>2, <2>3 DEF BaseInv
<1>3. QED
  BY <1>1, <1>2

(* Types: a lookup is pending only while its endpoint's thread waits for
   it, and is numbered above all orders. *)
THEOREM SessionTypeCorrect == Spec => []TypeOK
<1>1. Init => BaseInv
  BY BaseInit
<1>2. BaseInv /\ [Next]_vars => BaseInv'
  BY BaseStep
<1>3. BaseInv => TypeOK
  BY DEF BaseInv, SessionTyped
<1>4. QED
  BY <1>1, <1>2, <1>3, PTL DEF Spec

-----------------------------------------------------------------------------
(* Refusals: an error that will be recognised stays on its way until the    *)
(* reader has raised the alarm for it.                                      *)

LEMMA StillOnItsWay ==
    ASSUME SessionTyped,
           \/ toClient' = toClient
           \/ \E y \in Callbacks : toClient' = Append(toClient, y),
           NEW k \in DOMAIN toClient
    PROVE  k \in DOMAIN toClient' /\ toClient'[k] = toClient[k]
<1>1. toClient \in Seq(Callbacks)
  BY DEF SessionTyped
<1>2. ASSUME NEW y \in Callbacks, toClient' = Append(toClient, y)
      PROVE  k \in DOMAIN toClient' /\ toClient'[k] = toClient[k]
  BY <1>1, <1>2, PushForms
<1>3. QED
  BY <1>2

LEMMA ReportKept ==
    ASSUME SessionTyped, ReportInv,
           \/ toClient' = toClient
           \/ \E y \in Callbacks : toClient' = Append(toClient, y),
           alerted \subseteq alerted', tracked \subseteq tracked',
           NEW l \in refused
    PROVE  \/ l \in alerted'
           \/ \E k \in DOMAIN toClient' :
                /\ toClient'[k].kind = "error" /\ toClient'[k].label = l
                /\ toClient'[k].listed \/ toClient'[k].id \in tracked'
<1>1. SUFFICES ASSUME NEW k \in DOMAIN toClient,
                      toClient[k].kind = "error", toClient[k].label = l,
                      toClient[k].listed \/ toClient[k].id \in tracked
               PROVE  \E j \in DOMAIN toClient' :
                        /\ toClient'[j].kind = "error" /\ toClient'[j].label = l
                        /\ toClient'[j].listed \/ toClient'[j].id \in tracked'
  BY DEF ReportInv
<1>2. k \in DOMAIN toClient' /\ toClient'[k] = toClient[k]
  BY StillOnItsWay
<1>3. QED
  BY <1>1, <1>2

LEMMA ReportGateway ==
    ASSUME SessionTyped, ReportInv, GatewayTakes
    PROVE  ReportInv'
<1>1. PICK m \in Requests : m = Head(toGateway)
  BY GatewayHead
<1>2. alerted' = alerted /\ tracked' = tracked /\ toClient \in Seq(Callbacks)
  BY DEF GatewayTakes, orderVars, SessionTyped
<1>3. CASE /\ refused' = refused
           /\ \E y \in Callbacks : toClient' = Append(toClient, y)
  BY <1>2, <1>3, ReportKept DEF ReportInv
<1>4. CASE Modified(m) \/ Accepted(m)
  <2>1. Echo(m) \in Callbacks /\ toClient' = Append(toClient, Echo(m)) /\ refused' = refused
    BY <1>4, AnswerForms DEF Modified, Accepted, IsNew
  <2>2. QED
    BY <1>3, <2>1
<1>5. CASE Dropped(m)
  <2>1. /\ Error(m.id, m.label, Live(m.id)) \in Callbacks /\ refused' = refused
        /\ toClient' = Append(toClient, Error(m.id, m.label, Live(m.id)))
    BY <1>5, AnswerForms DEF Dropped, Live
  <2>2. QED
    BY <1>3, <2>1
<1>6. CASE Answered(m)
  <2>1. /\ [kind |-> "contract", id |-> m.id] \in Callbacks /\ refused' = refused
        /\ toClient' = Append(toClient, [kind |-> "contract", id |-> m.id])
    BY <1>6, AnswerForms DEF Answered
  <2>2. QED
    BY <1>3, <2>1
<1>7. CASE Refused(m)
  <2>1. PICK b \in BOOLEAN : Refuses(m, b)
    BY <1>7 DEF Refused
  <2> DEFINE x == Error(m.id, m.label, b)
             n == Len(toClient) + 1
  <2>2. /\ x \in Callbacks /\ x.kind = "error" /\ x.id = m.id /\ x.label = m.label
        /\ x.listed = b
    BY <1>7, AnswerForms DEF Refused
  <2>3. /\ toClient' = Append(toClient, x)
        /\ refused' = IF b \/ m.id \in tracked THEN refused \cup {m.label} ELSE refused
    BY <2>1 DEF Refuses
  <2> HIDE DEF x
  <2>4. n \in DOMAIN toClient' /\ toClient'[n] = x
    BY <1>2, <2>2, <2>3, PushForms
  <2>5. \E y \in Callbacks : toClient' = Append(toClient, y)
    BY <2>2, <2>3
  <2> HIDE DEF n
  <2>6. ASSUME NEW l \in refused'
        PROVE  \/ l \in alerted'
               \/ \E k \in DOMAIN toClient' :
                    /\ toClient'[k].kind = "error" /\ toClient'[k].label = l
                    /\ toClient'[k].listed \/ toClient'[k].id \in tracked'
    <3>1. CASE l \in refused
      BY <1>2, <2>5, <3>1, ReportKept
    <3>2. CASE l \notin refused
      <4>1. l = m.label /\ (b \/ m.id \in tracked)
        BY <2>3, <2>6, <3>2
      <4>2. QED
        BY <1>2, <2>2, <2>4, <4>1
    <3>3. QED
      BY <3>1, <3>2
  <2>7. QED
    BY <2>6 DEF ReportInv
<1>8. QED
  BY <1>1, <1>4, <1>5, <1>6, <1>7, GatewayCases

LEMMA ReportReader ==
    ASSUME SessionTyped, ReportInv, ReaderTakes
    PROVE  ReportInv'
<1>1. PICK m \in Callbacks : m = Head(toClient)
  BY PopForms DEF ReaderTakes, SessionTyped
<1>2. /\ toClient # <<>> /\ toClient' = Tail(toClient) /\ refused' = refused
      /\ toClient \in Seq(Callbacks)
  BY DEF ReaderTakes, SessionTyped
<1>3. alerted \subseteq alerted' /\ tracked \subseteq tracked'
  BY DEF ReaderTakes, OnNextValidId, OnOpenOrder, OnContractDetails, OnError, orderVars
<1>4. ASSUME NEW l \in refused
      PROVE  \/ l \in alerted'
             \/ \E k \in DOMAIN toClient' :
                  /\ toClient'[k].kind = "error" /\ toClient'[k].label = l
                  /\ toClient'[k].listed \/ toClient'[k].id \in tracked'
  <2>1. CASE l \in alerted
    BY <1>3, <2>1
  <2>2. CASE l \notin alerted
    <3>1. PICK k \in DOMAIN toClient :
            /\ toClient[k].kind = "error" /\ toClient[k].label = l
            /\ toClient[k].listed \/ toClient[k].id \in tracked
      BY <2>2 DEF ReportInv
    <3>2. CASE k = 1
      <4>1. m = toClient[k] /\ m.kind = "error" /\ m.id \in Id
        BY <1>1, <1>2, <3>1, <3>2, PopForms, CallbackForms
      <4>2. OnError(m)
        BY <1>1, <4>1 DEF ReaderTakes
      <4>3. IsOrderRejection(m)
        BY <3>1, <4>1, LookupForms DEF IsOrderRejection
      <4>4. QED
        BY <3>1, <4>1, <4>2, <4>3 DEF OnError
    <3>3. CASE k # 1
      <4>1. k - 1 \in DOMAIN toClient' /\ toClient'[k - 1] = toClient[k]
        BY <1>2, <3>3, PopForms
      <4>2. QED
        BY <1>3, <3>1, <4>1
    <3>4. QED
      BY <3>2, <3>3
  <2>3. QED
    BY <2>1, <2>2
<1>5. QED
  BY <1>2, <1>4 DEF ReportInv

LEMMA ReportStep ==
    ASSUME BaseInv, ReportInv, [Next]_vars
    PROVE  ReportInv'
<1> USE DEF threadVars, idVars, lookupVars, orderVars, gateVars, historyVars
<1>1. SessionTyped /\ ThreadsOK
  BY DEF BaseInv
<1>2. CASE Cut /\ alerted' = alerted
  <2>1. \A l \in refused' : l \in refused /\ ~Told(l)
    BY <1>2 DEF Cut
  <2>2. QED
    BY <1>2, <2>1 DEF ReportInv, Told
<1>3. CASE /\ refused' = refused /\ alerted \subseteq alerted' /\ tracked' = tracked
           /\ toClient' = toClient \/ \E y \in Callbacks : toClient' = Append(toClient, y)
  BY <1>1, <1>3, ReportKept DEF ReportInv
<1>4. CASE \E e \in Endpoint : Connect(e)
  <2>1. PICK e \in Endpoint : Connect(e)
    BY <1>4
  <2>2. /\ refused' = refused /\ alerted' = alerted /\ tracked' = tracked
        /\ \/ toClient' = toClient
           \/ \E i \in NextValidIds :
                i <= MaxId /\ toClient' = Append(toClient, [kind |-> "nextId", id |-> i])
    BY <2>1 DEF Connect
  <2>3. \A i \in NextValidIds : i <= MaxId => [kind |-> "nextId", id |-> i] \in Callbacks
    BY NextIdForms, Bounds DEF Id, Callbacks
  <2>4. QED
    BY <1>3, <2>2, <2>3
<1>5. CASE \/ \E i \in Id : Executes(i)
           \/ \E e \in Endpoint :
                \/ Resolve(e) \/ ResolveFails(e) \/ PlacementRaises(e) \/ SendLeg(e)
                \/ \E legs \in Groups[e] : AllocOrderIds(e, legs)
                \/ \E l \in Label : \/ CancelOrder(e, l) \/ CancelRaises(e, l)
                                   \/ \E c \in Change : ModifyOrder(e, l, c) \/ ModifyRaises(e, l, c)
  <2>1. /\ refused' = refused /\ alerted \subseteq alerted' /\ tracked' = tracked
        /\ toClient' = toClient
    <3>1. CASE \E e \in Endpoint : SendLeg(e)
      BY <3>1 DEF SendLeg
    <3>2. CASE \E e \in Endpoint : \E legs \in Groups[e] : AllocOrderIds(e, legs)
      BY <3>2 DEF AllocOrderIds
    <3>3. ASSUME NEW e \in Endpoint, NEW l \in Label,
                 CancelRaises(e, l) \/ \E c \in Change : ModifyRaises(e, l, c)
          PROVE  UNCHANGED <<refused, alerted, tracked, toClient>>
      BY <3>3, RaisesAlone
    <3>4. CASE \/ \E i \in Id : Executes(i)
               \/ \E e \in Endpoint :
                    \/ Resolve(e) \/ ResolveFails(e) \/ PlacementRaises(e)
                    \/ \E l \in Label : CancelOrder(e, l) \/ \E c \in Change : ModifyOrder(e, l, c)
      BY <3>4 DEF Executes, Resolve, ResolveFails, PlacementRaises, CancelOrder, ModifyOrder
    <3>5. QED
      BY <1>5, <3>1, <3>2, <3>3, <3>4
  <2>2. QED
    BY <1>3, <2>1
<1>6. CASE Drop \/ Restart \/ \E e \in Endpoint : ConnectFails(e)
  BY <1>2, <1>6 DEF Drop, Restart, ConnectFails
<1>7. CASE UNCHANGED vars
  BY <1>3, <1>7 DEF vars
<1>8. QED
  BY <1>1, <1>4, <1>5, <1>6, <1>7, ReportGateway, ReportReader DEF Next

(* Alarms: no refusal that the client could recognise is lost to a lookup
   that another endpoint has pending, however lookups and orders overlap. *)
THEOREM NoRefusalIsMistaken == Spec => []RefusalsReported
<1>1. Init => BaseInv /\ ReportInv
  BY BaseInit DEF Init, ReportInv
<1>2. BaseInv /\ ReportInv /\ [Next]_vars => (BaseInv /\ ReportInv)'
  BY BaseStep, ReportStep
<1>3. ReportInv => RefusalsReported
  BY DEF ReportInv, RefusalsReported, Told
<1>4. QED
  BY <1>1, <1>2, <1>3, PTL DEF Spec

-----------------------------------------------------------------------------
(* Claims: an id that is taken, filed or under way names one order.         *)

LEMMA BookFrom ==
    ASSUME SessionTyped, GatewayTakes, NEW i \in Id, Live(i)'
    PROVE  \/ Live(i) /\ Kept(i)
           \/ \E m \in Requests : /\ toGateway # <<>> /\ m = toGateway[1] /\ IsNew(m)
                                  /\ m.id = i /\ book'[i].label = m.label
<1>1. PICK m \in Requests : m = Head(toGateway)
  BY GatewayHead
<1>2. toGateway # <<>> /\ m = toGateway[1]
  BY <1>1, GatewayHead, PopForms DEF SessionTyped
<1>3. book'[i] # None
  BY DEF Live
<1>4. CASE book'[i] = book[i]
  <2>1. Live(i)
    BY <1>4 DEF Live
  <2>2. QED
    BY <1>3, <1>4, <2>1 DEF Kept
<1>5. CASE Modified(m)
  <2>1. CASE i = m.id
    BY <1>5, <2>1 DEF Modified
  <2>2. CASE i # m.id
    BY <1>4, <1>5, <2>2 DEF Modified, Spread
  <2>3. QED
    BY <2>1, <2>2
<1>6. CASE Accepted(m)
  <2>1. CASE i = m.id
    BY <1>2, <1>6, <2>1 DEF Accepted
  <2>2. CASE i # m.id
    BY <1>4, <1>6, <2>2 DEF Accepted, Spread
  <2>3. QED
    BY <2>1, <2>2
<1>7. CASE Refused(m)
  BY <1>4, <1>7 DEF Refused
<1>8. CASE Dropped(m)
  BY <1>4, <1>8 DEF Dropped, Over
<1>9. CASE Answered(m)
  BY <1>4, <1>9 DEF Answered
<1>10. QED
  BY <1>1, <1>5, <1>6, <1>7, <1>8, <1>9, GatewayCases

LEMMA LiveKept ==
    ASSUME SessionTyped, Cut \/ (\E j \in Id : Executes(j)) \/ book' = book,
           NEW i \in Id, Live(i)'
    PROVE  Live(i) /\ Kept(i)
<1>1. book'[i] # None
  BY DEF Live
<1>2. CASE Cut
  <2>1. book'[i] = book[i] /\ Live(i)
    BY <1>1, <1>2, CutBook
  <2>2. QED
    BY <1>1, <2>1 DEF Kept
<1>3. CASE book' = book
  BY <1>1, <1>3 DEF Kept, Live
<1>4. CASE \E j \in Id : Executes(j)
  <2>1. PICK j \in Id : Executes(j)
    BY <1>4
  <2>2. book'[i] = book[i]
    BY <2>1, ExecutesBook DEF Over
  <2>3. QED
    BY <1>1, <2>2 DEF Kept, Live
<1>5. QED
  BY <1>2, <1>3, <1>4

LEMMA TakenFrom ==
    ASSUME SessionTyped, NEW i \in Id, NEW l \in Label, Taken(i, l)',
           \/ GatewayTakes
           \/ /\ Cut \/ (\E j \in Id : Executes(j)) \/ book' = book
              /\ toGateway' = toGateway \/ toGateway' = <<>>
    PROVE  Taken(i, l)
<1>1. /\ toGateway \in Seq(Requests)
      /\ \/ toGateway' = toGateway \/ toGateway' = <<>>
         \/ toGateway # <<>> /\ toGateway' = Tail(toGateway)
  BY GatewayHead DEF SessionTyped
<1>2. ASSUME NEW k \in DOMAIN toGateway', IsNew(toGateway'[k]),
             toGateway'[k].id = i, toGateway'[k].label = l
      PROVE  Taken(i, l)
  <2>1. PICK j \in DOMAIN toGateway : toGateway'[k] = toGateway[j]
    BY <1>1, RequestsKept
  <2>2. QED
    BY <1>2, <2>1 DEF Taken, IsNew
<1>3. ASSUME Live(i)', book'[i].label = l
      PROVE  Taken(i, l)
  <2>1. \/ Live(i) /\ Kept(i)
        \/ \E m \in Requests : /\ toGateway # <<>> /\ m = toGateway[1] /\ IsNew(m)
                               /\ m.id = i /\ book'[i].label = m.label
    BY <1>3, BookFrom, LiveKept
  <2>2. CASE Live(i) /\ Kept(i)
    BY <1>3, <2>2 DEF Kept, Taken
  <2>3. ASSUME NEW m \in Requests, toGateway # <<>>, m = toGateway[1], IsNew(m),
               m.id = i, book'[i].label = m.label
        PROVE  Taken(i, l)
    <3>1. 1 \in DOMAIN toGateway
      BY <1>1, <2>3, PopForms
    <3>2. QED
      BY <1>3, <2>3, <3>1 DEF Taken
  <2>4. QED
    BY <2>1, <2>2, <2>3
<1>4. QED
  BY <1>2, <1>3 DEF Taken, IsNew

LEMMA ClaimStable ==
    ASSUME NEW i \in Id, ClaimOK(i),
           \A e \in Endpoint, g \in Leg : ids'[e][g] = i =>
               ids[e][g] = i /\ Current(e, g)' = Current(e, g),
           \A l \in Label : filed'[l] = i /\ l \notin reissued' =>
               filed[l] = i /\ l \notin reissued,
           \A l \in Label : Taken(i, l)' => Taken(i, l),
           nextId' # None /\ i >= nextId' => nextId # None /\ i >= nextId,
           Unnumbered' => \A k \in DOMAIN toGateway' :
               IsNew(toGateway'[k]) => toGateway'[k].id # i,
           \A k \in DOMAIN toClient' :
               toClient'[k].kind = "nextId" /\ i >= toClient'[k].id => ~Live(i)'
    PROVE  ClaimOK(i)'
<1>1. \A e, f \in Endpoint, g, h \in Leg :
          ids'[e][g] = i /\ ids'[f][h] = i => e = f /\ g = h
  BY DEF ClaimOK
<1>2. \A e \in Endpoint, g \in Leg : ids'[e][g] = i =>
          /\ \A l \in Label \ reissued' : filed'[l] # i
          /\ \A l \in Label : Taken(i, l)' => l = Current(e, g)'
  BY DEF ClaimOK
<1>3. \A l \in Label \ reissued' : filed'[l] = i =>
          \A m \in Label : Taken(i, m)' => m = l
  BY DEF ClaimOK
<1>4. nextId' # None /\ i >= nextId' =>
          /\ \A e \in Endpoint, g \in Leg : ids'[e][g] # i
          /\ \A l \in Label \ reissued' : filed'[l] # i
          /\ \A l \in Label : ~Taken(i, l)'
  BY DEF ClaimOK
<1>5. \A k \in DOMAIN toGateway' : IsNew(toGateway'[k]) <=> IsNew(toGateway[k])'
  BY DEF IsNew
<1>6. QED
  BY <1>1, <1>2, <1>3, <1>4, <1>5 DEF ClaimOK, IsNew

LEMMA ClaimSame ==
    ASSUME NEW i \in Id, ClaimOK(i),
           UNCHANGED <<ids, filed, nextId, toGateway, toClient, book, meant, reissued>>
    PROVE  ClaimOK(i)'
<1>1. \A f \in Endpoint, g \in Leg : Current(f, g)' = Current(f, g)
  BY CurrentSame
<1>2. /\ \A l \in Label : Taken(i, l)' = Taken(i, l)
      /\ Unnumbered' = Unnumbered /\ Live(i)' = Live(i)
  BY DEF Taken, IsNew, Live, Unnumbered
<1>3. /\ Unnumbered' => \A k \in DOMAIN toGateway' :
            IsNew(toGateway'[k]) => toGateway'[k].id # i
      /\ \A k \in DOMAIN toClient' :
            toClient'[k].kind = "nextId" /\ i >= toClient'[k].id => ~Live(i)'
  BY <1>2 DEF ClaimOK
<1>4. QED
  BY <1>1, <1>2, <1>3, ClaimStable

\* Nothing comes to be numbered later, and no number is announced late.
LEMMA NumbersKept ==
    ASSUME SessionTyped, NEW i \in Id, ClaimOK(i),
           \A k \in DOMAIN toClient' : toClient'[k].kind = "nextId" =>
               \E j \in DOMAIN toClient : toClient'[k] = toClient[j],
           \/ toGateway' = toGateway \/ toGateway' = <<>>
           \/ toGateway # <<>> /\ toGateway' = Tail(toGateway)
           \/ \E x \in Requests : ~IsNew(x) /\ toGateway' = Append(toGateway, x),
           \/ GatewayTakes \/ Cut \/ (\E j \in Id : Executes(j)) \/ book' = book
    PROVE  /\ Unnumbered' => Unnumbered
           /\ Unnumbered' => \A k \in DOMAIN toGateway' :
                 IsNew(toGateway'[k]) => toGateway'[k].id # i
           /\ \A k \in DOMAIN toClient' :
                 toClient'[k].kind = "nextId" /\ i >= toClient'[k].id => ~Live(i)'
<1>1. Unnumbered' => Unnumbered
  BY DEF Unnumbered
<1>2. ASSUME Unnumbered', NEW k \in DOMAIN toGateway', IsNew(toGateway'[k])
      PROVE  toGateway'[k].id # i
  <2>1. \E j \in DOMAIN toGateway : toGateway'[k] = toGateway[j]
    <3>1. CASE \E x \in Requests : ~IsNew(x) /\ toGateway' = Append(toGateway, x)
      <4>1. PICK x \in Requests : ~IsNew(x) /\ toGateway' = Append(toGateway, x)
        BY <3>1
      <4>2. toGateway'[k] # x
        BY <1>2, <4>1
      <4>3. QED
        BY <4>1, <4>2, PushForms DEF SessionTyped
    <3>2. QED
      BY <3>1, RequestsKept
  <2>2. PICK j \in DOMAIN toGateway : toGateway'[k] = toGateway[j]
    BY <2>1
  <2>3. IsNew(toGateway[j])
    BY <1>2, <2>2 DEF IsNew
  <2>4. QED
    BY <1>1, <1>2, <2>2, <2>3 DEF ClaimOK
<1>3. ASSUME NEW k \in DOMAIN toClient', toClient'[k].kind = "nextId",
             i >= toClient'[k].id, Live(i)'
      PROVE  FALSE
  <2>1. PICK j \in DOMAIN toClient : toClient'[k] = toClient[j]
    BY <1>3
  <2>2. Unnumbered /\ ~Live(i)
    BY <1>3, <2>1 DEF ClaimOK, Unnumbered
  <2>3. CASE GatewayTakes
    <3>1. PICK m \in Requests : toGateway # <<>> /\ m = toGateway[1] /\ IsNew(m) /\ m.id = i
      BY <1>3, <2>2, <2>3, BookFrom
    <3>2. 1 \in DOMAIN toGateway
      BY <3>1, PopForms DEF SessionTyped
    <3>3. QED
      BY <2>2, <3>1, <3>2 DEF ClaimOK
  <2>4. QED
    BY <1>3, <2>2, <2>3, LiveKept
<1>4. QED
  BY <1>1, <1>2, <1>3

LEMMA NumbersFrom ==
    ASSUME SessionTyped,
           \/ toClient' = toClient \/ toClient' = <<>>
           \/ toClient # <<>> /\ toClient' = Tail(toClient)
           \/ \E x \in Callbacks : x.kind # "nextId" /\ toClient' = Append(toClient, x)
    PROVE  \A k \in DOMAIN toClient' : toClient'[k].kind = "nextId" =>
               \E j \in DOMAIN toClient : toClient'[k] = toClient[j]
<1>1. toClient \in Seq(Callbacks) /\ DOMAIN <<>> = {}
  BY DEF SessionTyped
<1>2. CASE toClient # <<>> /\ toClient' = Tail(toClient)
  <2> TAKE k \in DOMAIN toClient'
  <2>1. k + 1 \in DOMAIN toClient /\ Tail(toClient)[k] = toClient[k + 1]
    BY <1>1, <1>2, PopForms
  <2>2. QED
    BY <1>2, <2>1
<1>3. ASSUME NEW x \in Callbacks, x.kind # "nextId", toClient' = Append(toClient, x)
      PROVE  \A k \in DOMAIN toClient' : toClient'[k].kind = "nextId" =>
                 \E j \in DOMAIN toClient : toClient'[k] = toClient[j]
  <2> TAKE k \in DOMAIN toClient'
  <2>1. k \in DOMAIN toClient \/ toClient'[k] = x
    BY <1>1, <1>3, PushForms
  <2>2. QED
    BY <1>1, <1>3, <2>1, PushForms
<1>4. QED
  BY <1>1, <1>2, <1>3

LEMMA GatewayAnswers ==
    ASSUME SessionTyped, GatewayTakes
    PROVE  \E x \in Callbacks : x.kind # "nextId" /\ toClient' = Append(toClient, x)
<1>1. PICK m \in Requests : m = Head(toGateway)
  BY GatewayHead
<1>2. CASE Modified(m) \/ Accepted(m)
  <2>1. /\ Echo(m) \in Callbacks /\ toClient' = Append(toClient, Echo(m))
        /\ Echo(m).kind # "nextId"
    BY <1>2, AnswerForms DEF Modified, Accepted, IsNew
  <2>2. QED
    BY <2>1
<1>3. CASE Refused(m) \/ Dropped(m)
  <2>1. m.kind # "resolve" /\ \E b \in BOOLEAN : toClient' = Append(toClient, Error(m.id, m.label, b))
    BY <1>3 DEF Refused, Dropped, Refuses, Live
  <2>2. PICK b \in BOOLEAN : toClient' = Append(toClient, Error(m.id, m.label, b))
    BY <2>1
  <2>3. Error(m.id, m.label, b) \in Callbacks /\ Error(m.id, m.label, b).kind # "nextId"
    BY <2>1, AnswerForms
  <2>4. QED
    BY <2>2, <2>3
<1>4. CASE Answered(m)
  <2>1. /\ [kind |-> "contract", id |-> m.id] \in Callbacks
        /\ toClient' = Append(toClient, [kind |-> "contract", id |-> m.id])
    BY <1>4, AnswerForms DEF Answered
  <2>2. QED
    BY <2>1
<1>5. QED
  BY <1>1, <1>2, <1>3, <1>4, GatewayCases

\* The steps that take and file no id, and hear of none.
LEMMA ClaimQuiet ==
    ASSUME BaseInv, Next, NEW i \in Id, ClaimOK(i),
           \/ GatewayTakes \/ Drop \/ Restart \/ \E j \in Id : Executes(j)
           \/ \E e \in Endpoint :
                \/ ConnectFails(e) \/ Resolve(e) \/ ResolveFails(e) \/ PlacementRaises(e)
                \/ \E l \in Label : CancelOrder(e, l) \/ \E c \in Change : ModifyOrder(e, l, c)
    PROVE  ClaimOK(i)'
<1> USE DEF threadVars, idVars, lookupVars, orderVars, gateVars, historyVars
<1>1. /\ SessionTyped /\ ThreadsOK /\ MeantOK
      /\ \A e \in Endpoint : ThreadOK(e)
  BY DEF BaseInv, ThreadsOK
<1>2. /\ filed' = filed /\ reissued' = reissued
      /\ nextId' = nextId \/ nextId' = None
      /\ ids' = ids \/ ids' = [e \in Endpoint |-> NoIds]
  <2>1. CASE GatewayTakes \/ \E j \in Id : Executes(j)
    BY <2>1 DEF GatewayTakes, Executes
  <2>2. CASE Drop \/ Restart \/ \E e \in Endpoint : ConnectFails(e)
    BY <2>2 DEF Drop, Restart, ConnectFails
  <2>3. CASE \E e \in Endpoint : Resolve(e) \/ ResolveFails(e) \/ PlacementRaises(e)
    BY <2>3 DEF Resolve, ResolveFails, PlacementRaises
  <2>4. CASE \E e \in Endpoint, l \in Label : CancelOrder(e, l)
    BY <2>4 DEF CancelOrder
  <2>5. CASE \E e \in Endpoint, l \in Label, c \in Change : ModifyOrder(e, l, c)
    BY <2>5 DEF ModifyOrder
  <2>6. QED
    BY <2>1, <2>2, <2>3, <2>4, <2>5
<1>3. nextId' # None /\ i >= nextId' => nextId # None /\ i >= nextId
  BY <1>2
<1>4. \A k \in DOMAIN toClient' : toClient'[k].kind = "nextId" =>
          \E j \in DOMAIN toClient : toClient'[k] = toClient[j]
  <2>1. CASE GatewayTakes
    BY <1>1, <2>1, GatewayAnswers, NumbersFrom
  <2>2. CASE ~GatewayTakes
    <3>1. toClient' = toClient \/ toClient' = <<>>
      BY <2>2 DEF Drop, Restart, Executes, ConnectFails, Resolve, ResolveFails,
         PlacementRaises, CancelOrder, ModifyOrder, Cut
    <3>2. QED
      BY <1>1, <3>1, NumbersFrom
  <2>3. QED
    BY <2>1, <2>2
<1>5. \/ GatewayTakes \/ Cut \/ (\E j \in Id : Executes(j)) \/ book' = book
  BY DEF Drop, Restart, ConnectFails, Resolve, ResolveFails, PlacementRaises,
     CancelOrder, ModifyOrder
<1>6. /\ \/ toGateway' = toGateway \/ toGateway' = <<>>
         \/ toGateway # <<>> /\ toGateway' = Tail(toGateway)
         \/ \E x \in Requests : ~IsNew(x) /\ toGateway' = Append(toGateway, x)
      /\ \/ GatewayTakes \/ toGateway' = toGateway \/ toGateway' = <<>>
         \/ book' = book /\ \E x \in Requests : ~IsNew(x) /\ toGateway' = Append(toGateway, x)
  <2>1. CASE GatewayTakes
    BY <1>1, <2>1, GatewayHead
  <2>2. CASE \/ Drop \/ Restart \/ \E j \in Id : Executes(j)
             \/ \E e \in Endpoint : ConnectFails(e) \/ ResolveFails(e) \/ PlacementRaises(e)
    BY <2>2 DEF Drop, Restart, Executes, ConnectFails, ResolveFails, PlacementRaises, Cut
  <2>3. CASE \E e \in Endpoint : Resolve(e)
    <3> DEFINE x == [kind |-> "resolve", id |-> ReqId(reqSeq + 1)]
    <3>1. x \in Requests /\ ~IsNew(x)
      BY <1>1, Bounds DEF SessionTyped, Requests, Lookups, IsNew
    <3>2. book' = book /\ (toGateway' = toGateway \/ toGateway' = Append(toGateway, x))
      BY <2>3 DEF Resolve
    <3> HIDE DEF x
    <3>3. QED
      BY <3>1, <3>2
  <2>4. ASSUME NEW e \in Endpoint, NEW l \in Label, CancelOrder(e, l)
        PROVE  book' = book /\ \E x \in Requests : ~IsNew(x) /\ toGateway' = Append(toGateway, x)
    <3>1. Cancelled(l) \in Requests /\ toGateway' = Append(toGateway, Cancelled(l))
      BY <1>1, <2>4, FollowTyped
    <3>2. ~IsNew(Cancelled(l))
      BY DEF IsNew, Cancelled
    <3>3. QED
      BY <2>4, <3>1, <3>2 DEF CancelOrder
  <2>5. ASSUME NEW e \in Endpoint, NEW l \in Label, NEW c \in Change, ModifyOrder(e, l, c)
        PROVE  book' = book /\ \E x \in Requests : ~IsNew(x) /\ toGateway' = Append(toGateway, x)
    <3>1. Changed(e, l, c) \in Requests /\ toGateway' = Append(toGateway, Changed(e, l, c))
      BY <1>1, <2>5, FollowTyped
    <3>2. ~IsNew(Changed(e, l, c))
      BY DEF IsNew, Changed
    <3>3. QED
      BY <2>5, <3>1, <3>2 DEF ModifyOrder
  <2>6. QED
    BY <2>1, <2>2, <2>3, <2>4, <2>5
<1>7. /\ Unnumbered' => \A k \in DOMAIN toGateway' :
            IsNew(toGateway'[k]) => toGateway'[k].id # i
      /\ \A k \in DOMAIN toClient' :
            toClient'[k].kind = "nextId" /\ i >= toClient'[k].id => ~Live(i)'
  BY <1>1, <1>4, <1>5, <1>6, NumbersKept
<1>8. ASSUME NEW l \in Label, Taken(i, l)' PROVE Taken(i, l)
  <2>1. CASE book' = book /\ \E x \in Requests : ~IsNew(x) /\ toGateway' = Append(toGateway, x)
    <3>1. PICK x \in Requests : ~IsNew(x) /\ toGateway' = Append(toGateway, x)
      BY <2>1
    <3>2. ASSUME NEW k \in DOMAIN toGateway', IsNew(toGateway'[k])
          PROVE  k \in DOMAIN toGateway /\ toGateway'[k] = toGateway[k]
      <4>1. toGateway'[k] # x
        BY <3>1, <3>2
      <4>2. QED
        BY <1>1, <3>1, <4>1, PushForms DEF SessionTyped
    <3>3. QED
      BY <1>8, <2>1, <3>2 DEF Taken, IsNew, Live
  <2>2. QED
    BY <1>1, <1>5, <1>6, <1>8, <2>1, TakenFrom
<1>9. ASSUME NEW e \in Endpoint, NEW g \in Leg, ids'[e][g] = i
      PROVE  ids[e][g] = i /\ Current(e, g)' = Current(e, g)
  <2>1. ids'[e][g] # None
    BY <1>9, NoneAssumption, Bounds DEF Id
  <2>2. ids' = ids /\ ~Restart
    BY <1>2, <2>1 DEF NoIds, Restart
  <2>3. pc[e] = "sending" /\ Begun(e)
    BY <1>1, <1>9, <2>1, <2>2 DEF ThreadOK, NoIds
  <2>4. \A n \in 1 .. MaxPlacements :
            meant'[[e |-> e, n |-> n, leg |-> "entry"]] = meant[[e |-> e, n |-> n, leg |-> "entry"]]
    <3>1. CASE meant' = meant
      BY <3>1
    <3>2. ASSUME NEW f \in Endpoint, NEW l \in Label,
                 CancelOrder(f, l) \/ \E c \in Change : ModifyOrder(f, l, c)
          PROVE  \A n \in 1 .. MaxPlacements :
                    meant'[[e |-> e, n |-> n, leg |-> "entry"]]
                      = meant[[e |-> e, n |-> n, leg |-> "entry"]]
      <4>1. PICK w \in Change \cup {"cancel"} : Follows(f, l, w)
        BY <3>2 DEF CancelOrder, ModifyOrder
      <4>2. pc[f] = "ready" /\ l.e = f /\ meant' = [meant EXCEPT ![l] = meant[l] \cup {w}]
        BY <1>1, <4>1, FollowForms
      <4>3. \A n \in 1 .. MaxPlacements : [e |-> e, n |-> n, leg |-> "entry"] # l
        BY <2>3, <4>2
      <4>4. QED
        BY <1>1, <4>2, <4>3, LabelOf DEF SessionTyped, Leg
    <3>3. QED
      BY <2>2, <3>1, <3>2 DEF GatewayTakes, Drop, Executes, ConnectFails, Resolve, ResolveFails,
         PlacementRaises
  <2>5. QED
    BY <1>9, <2>2, <2>4, CurrentSame
<1>10. QED
  BY <1>2, <1>3, <1>7, <1>8, <1>9, ClaimStable

LEMMA ClaimConnect ==
    ASSUME BaseInv, NEW i \in Id, ClaimOK(i), NEW e \in Endpoint, Connect(e)
    PROVE  ClaimOK(i)'
<1> USE DEF lookupVars, orderVars, historyVars
<1>1. SessionTyped /\ LinesOK /\ toClient \in Seq(Callbacks)
  BY DEF BaseInv, SessionTyped
<1>2. /\ ids' = ids /\ filed' = filed /\ reissued' = reissued /\ nextId' = nextId
      /\ toGateway' = toGateway /\ book' = book /\ meant' = meant
      /\ \/ toClient' = toClient
         \/ /\ toGateway = <<>>
            /\ \E a \in NextValidIds : a <= MaxId
                   /\ toClient' = Append(toClient, [kind |-> "nextId", id |-> a])
  BY <1>1 DEF Connect, LinesOK
<1>3. \A l \in Label : Taken(i, l)' => Taken(i, l)
  BY <1>2 DEF Taken, IsNew, Live
<1>4. \A f \in Endpoint, g \in Leg : Current(f, g)' = Current(f, g)
  BY <1>2, CurrentSame
<1>5. Live(i)' = Live(i) /\ (toClient' = toClient => Unnumbered' = Unnumbered)
  BY <1>2 DEF Live, Unnumbered
<1>6. Unnumbered' => \A k \in DOMAIN toGateway' :
          IsNew(toGateway'[k]) => toGateway'[k].id # i
  <2>1. CASE toClient' = toClient
    BY <1>2, <1>5, <2>1 DEF ClaimOK
  <2>2. CASE toGateway = <<>>
    BY <1>2, <2>2
  <2>3. QED
    BY <1>2, <2>1, <2>2
<1>7. ASSUME NEW k \in DOMAIN toClient', toClient'[k].kind = "nextId", i >= toClient'[k].id
      PROVE  ~Live(i)'
  <2>1. CASE toClient' = toClient
    BY <1>5, <1>7, <2>1 DEF ClaimOK
  <2>2. ASSUME NEW a \in NextValidIds, a <= MaxId,
               toClient' = Append(toClient, [kind |-> "nextId", id |-> a])
        PROVE  ~Live(i)'
    <3>1. /\ [kind |-> "nextId", id |-> a] \in Callbacks
          /\ Live(i) => i < a
          /\ a \in Nat /\ i \in Nat
      BY <2>2, NextIdForms, Bounds DEF Id, Callbacks
    <3>2. (k \in DOMAIN toClient /\ toClient'[k] = toClient[k]) \/ toClient'[k].id = a
      BY <1>1, <2>2, <3>1, PushForms
    <3>3. CASE toClient'[k].id = a
      BY <1>5, <1>7, <3>1, <3>3
    <3>4. CASE k \in DOMAIN toClient /\ toClient'[k] = toClient[k]
      BY <1>5, <1>7, <3>4 DEF ClaimOK
    <3>5. QED
      BY <3>2, <3>3, <3>4
  <2>3. QED
    BY <1>2, <2>1, <2>2
<1>8. QED
  BY <1>2, <1>3, <1>4, <1>6, <1>7, ClaimStable

LEMMA ClaimReader ==
    ASSUME BaseInv, NEW i \in Id, i \notin early', ClaimOK(i), ReaderTakes
    PROVE  ClaimOK(i)'
<1>1. SessionTyped /\ toClient \in Seq(Callbacks)
  BY DEF BaseInv, SessionTyped
<1>2. /\ ids' = ids /\ filed' = filed /\ toGateway' = toGateway /\ book' = book
      /\ meant' = meant /\ toClient # <<>> /\ toClient' = Tail(toClient)
  BY DEF ReaderTakes
<1>3. PICK m \in Callbacks : m = Head(toClient)
  BY <1>1, <1>2, PopForms
<1>4. m = toClient[1] /\ 1 \in DOMAIN toClient
  BY <1>1, <1>2, <1>3, PopForms
<1>5. \A l \in Label : Taken(i, l)' => Taken(i, l)
  BY <1>2 DEF Taken, IsNew, Live
<1>6. \A f \in Endpoint, g \in Leg : Current(f, g)' = Current(f, g)
  BY <1>2, CurrentSame
<1>7. \A k \in DOMAIN toClient' : toClient'[k].kind = "nextId" =>
          \E j \in DOMAIN toClient : toClient'[k] = toClient[j]
  BY <1>1, <1>2, NumbersFrom
<1>8. /\ Unnumbered' => \A k \in DOMAIN toGateway' :
            IsNew(toGateway'[k]) => toGateway'[k].id # i
      /\ \A k \in DOMAIN toClient' :
            toClient'[k].kind = "nextId" /\ i >= toClient'[k].id => ~Live(i)'
  BY <1>1, <1>2, <1>7, NumbersKept
<1>9. CASE m.kind # "nextId"
  <2>1. nextId' = nextId /\ reissued' = reissued
    BY <1>3, <1>9 DEF ReaderTakes, OnOpenOrder, OnContractDetails, OnError
  <2>2. QED
    BY <1>2, <1>5, <1>6, <1>8, <2>1, ClaimStable
<1>10. CASE m.kind = "nextId"
  <2>1. /\ nextId' = m.id /\ early' = early \cup InHand
        /\ reissued' = reissued \cup {l \in Label : filed[l] # None /\ filed[l] >= m.id}
    BY <1>3, <1>10 DEF ReaderTakes, OnNextValidId
  <2>2. \A e \in Endpoint, g \in Leg : ids'[e][g] # i
    BY <1>2, <2>1 DEF InHand
  <2>3. i # None /\ m.id \in Id
    BY <1>10, CallbackForms, NoneAssumption, Bounds DEF Id
  <2>4. ASSUME i >= nextId', NEW l \in Label
        PROVE  ~Taken(i, l)' /\ (l \notin reissued' => filed'[l] # i)
    <3>1. ~Live(i)
      BY <1>4, <1>10, <2>1, <2>4 DEF ClaimOK
    <3>2. Unnumbered
      BY <1>4, <1>10 DEF Unnumbered
    <3>3. ~Taken(i, l)
      BY <3>1, <3>2 DEF ClaimOK, Taken
    <3>4. QED
      BY <1>2, <1>5, <2>1, <2>3, <2>4, <3>3
  <2>5. \A l \in Label \ reissued' : filed'[l] = i =>
            \A k \in Label : Taken(i, k)' => k = l
    BY <1>2, <1>5, <2>1 DEF ClaimOK
  <2>6. \A k \in DOMAIN toGateway' : IsNew(toGateway'[k]) <=> IsNew(toGateway[k])'
    BY DEF IsNew
  <2>7. QED
    BY <1>8, <2>2, <2>4, <2>5, <2>6 DEF ClaimOK, IsNew
<1>11. QED
  BY <1>9, <1>10

LEMMA ClaimAlloc ==
    ASSUME BaseInv, NEW i \in Id, i \notin early', ClaimOK(i),
           NEW e \in Endpoint, NEW legs \in Groups[e], AllocOrderIds(e, legs)
    PROVE  ClaimOK(i)'
<1>1. SessionTyped /\ ThreadsOK /\ MeantOK /\ \A f \in Endpoint : ThreadOK(f)
  BY DEF BaseInv, ThreadsOK
<1>2. /\ nextId \in Id /\ ids' = [ids EXCEPT ![e] = ids'[e]] /\ pc[e] = "resolved"
      /\ nextId' \in 1 .. MaxId + 1 /\ nextId < nextId'
      /\ \A g \in Leg : ids'[e][g] # None =>
           /\ nextId <= ids'[e][g] /\ ids'[e][g] < nextId'
           /\ \A h \in Leg : ids'[e][h] = ids'[e][g] => h = g
           /\ Unnumbered => ids'[e][g] \in early'
  BY <1>1, AllocForms
<1>3. /\ filed' = filed /\ reissued' = reissued /\ toGateway' = toGateway
      /\ toClient' = toClient /\ book' = book
  BY DEF AllocOrderIds, gateVars
<1>4. /\ \A l \in Label : Taken(i, l)' = Taken(i, l)
      /\ Unnumbered' = Unnumbered /\ Live(i)' = Live(i)
  BY <1>3 DEF Taken, IsNew, Live, Unnumbered
<1>5. i # None /\ i \in Nat /\ nextId \in Nat /\ nextId # None /\ nextId' \in Nat
  BY <1>2, NoneAssumption, Bounds DEF Id
<1>6. \A f \in Endpoint : f # e => ids'[f] = ids[f]
  BY <1>1, <1>2 DEF SessionTyped, TypeOK
<1>7. ASSUME NEW f \in Endpoint, NEW g \in Leg, ids'[f][g] = i, f # e
      PROVE  ids[f][g] = i /\ Current(f, g)' = Current(f, g)
  <2>1. ids[f][g] = i
    BY <1>6, <1>7
  <2>2. PICK n \in 1 .. MaxPlacements :
            \A l \in Label : l.e # e \/ l.n # n => meant'[l] = meant[l]
    BY <1>1, AllocCurrent
  <2>3. \A k \in 1 .. MaxPlacements :
            meant'[[e |-> f, n |-> k, leg |-> "entry"]] = meant[[e |-> f, n |-> k, leg |-> "entry"]]
    <3> TAKE k \in 1 .. MaxPlacements
    <3> DEFINE x == [e |-> f, n |-> k, leg |-> "entry"]
    <3>1. x \in Label /\ x.e = f
      BY <1>7 DEF Label, Leg
    <3>2. QED
      BY <1>7, <2>2, <3>1
  <2>4. f \in Endpoint /\ g \in Leg
    BY <1>7
  <2>5. Current(f, g)' = Current(f, g)
    BY <2>3, <2>4, CurrentSame
  <2>6. QED
    BY <2>1, <2>5
<1>8. CASE \E g \in Leg : ids'[e][g] = i
  <2>1. PICK g \in Leg : ids'[e][g] = i
    BY <1>8
  <2>2. i >= nextId /\ ~Unnumbered
    BY <1>2, <1>5, <2>1
  <2>3. /\ \A f \in Endpoint, h \in Leg : ids[f][h] # i
        /\ \A l \in Label \ reissued : filed[l] # i
        /\ \A l \in Label : ~Taken(i, l)
    BY <1>5, <2>2 DEF ClaimOK
  <2>4. \A f \in Endpoint, h \in Leg : ids'[f][h] = i => f = e /\ h = g
    BY <1>2, <1>5, <1>6, <2>1, <2>3
  <2>5. nextId' # None /\ i >= nextId' => FALSE
    BY <1>2, <1>5, <2>1
  <2>6. /\ Unnumbered' => \A k \in DOMAIN toGateway' :
              IsNew(toGateway'[k]) => toGateway'[k].id # i
        /\ \A k \in DOMAIN toClient' :
              toClient'[k].kind = "nextId" /\ i >= toClient'[k].id => ~Live(i)'
    BY <1>3, <1>4 DEF ClaimOK
  <2>7. \A k \in DOMAIN toGateway' : IsNew(toGateway'[k]) <=> IsNew(toGateway[k])'
    BY DEF IsNew
  <2>8. QED
    BY <1>3, <1>4, <2>3, <2>4, <2>5, <2>6, <2>7 DEF ClaimOK, IsNew
<1>9. CASE ~ \E g \in Leg : ids'[e][g] = i
  <2>1. nextId' # None /\ i >= nextId' => nextId # None /\ i >= nextId
    BY <1>2, <1>5
  <2>2. /\ Unnumbered' => \A k \in DOMAIN toGateway' :
              IsNew(toGateway'[k]) => toGateway'[k].id # i
        /\ \A k \in DOMAIN toClient' :
              toClient'[k].kind = "nextId" /\ i >= toClient'[k].id => ~Live(i)'
    BY <1>3, <1>4 DEF ClaimOK
  <2>3. \A f \in Endpoint, g \in Leg : ids'[f][g] = i =>
            ids[f][g] = i /\ Current(f, g)' = Current(f, g)
    BY <1>7, <1>9
  <2>4. QED
    BY <1>3, <1>4, <2>1, <2>2, <2>3, ClaimStable
<1>10. QED
  BY <1>8, <1>9

\* What sending a leg does to the labels and to the ids in hand.
LEMMA SendFiles ==
    ASSUME SessionTyped, ThreadsOK, NEW e \in Endpoint, SendLeg(e)
    PROVE  /\ meant' = meant /\ book' = book /\ toClient' = toClient /\ nextId' = nextId
           /\ reissued' = reissued /\ socket' = socket
           /\ Unnumbered => ids[e][Head(todo[e])] \in early'
           /\ \A f \in Endpoint : f # e => ids'[f] = ids[f]
           /\ \/ /\ Tail(todo[e]) # <<>> /\ ids'[e] = ids[e] /\ filed' = filed
                 /\ placed' = placed
              \/ /\ Tail(todo[e]) = <<>> /\ ids'[e] = NoIds
                 /\ \A l \in Label :
                      filed'[l] = IF l.leg \in Leg /\ l = Current(e, l.leg)
                                  THEN ids[e][l.leg] ELSE filed[l]
<1>1. /\ pc[e] = "sending" /\ Begun(e) /\ Head(todo[e]) \in Leg
      /\ ids[e][Head(todo[e])] \in Id
  BY SendForms
<1>2. /\ meant' = meant /\ book' = book /\ toClient' = toClient /\ nextId' = nextId
      /\ reissued' = reissued /\ socket' = socket
      /\ Unnumbered => ids[e][Head(todo[e])] \in early'
  BY <1>1 DEF SendLeg, idVars
<1>3. CASE Tail(todo[e]) # <<>>
  BY <1>2, <1>3 DEF SendLeg
<1>4. CASE Tail(todo[e]) = <<>>
  <2>1. /\ ids' = [ids EXCEPT ![e] = NoIds]
        /\ \A l \in Label : filed'[l] = IF l.e = e /\ l.n = Current(e, Head(todo[e])).n
                                        THEN ids[e][l.leg] ELSE filed[l]
    BY <1>4 DEF SendLeg
  <2>2. ids'[e] = NoIds /\ \A f \in Endpoint : f # e => ids'[f] = ids[f]
    BY <2>1 DEF SessionTyped, TypeOK
  <2>3. ASSUME NEW l \in Label
        PROVE  /\ l.leg \in Leg
               /\ l.e = e /\ l.n = Current(e, Head(todo[e])).n <=> l = Current(e, l.leg)
    <3>1. l.leg \in Leg /\ l = [e |-> l.e, n |-> l.n, leg |-> l.leg]
      BY LabelForms
    <3>2. /\ Current(e, l.leg).e = e /\ Current(e, l.leg).leg = l.leg
          /\ Current(e, l.leg).n = Current(e, Head(todo[e])).n
      BY <1>1, <3>1, CurrentForms
    <3>3. Current(e, l.leg) = [e |-> e, n |-> Current(e, l.leg).n, leg |-> l.leg]
      BY DEF Current
    <3>4. QED
      BY <3>1, <3>2, <3>3
  <2>4. QED
    BY <1>2, <1>4, <2>1, <2>2, <2>3
<1>5. QED
  BY <1>3, <1>4

LEMMA TakenSent ==
    ASSUME SessionTyped, ThreadsOK, NEW e \in Endpoint, SendLeg(e),
           NEW i \in Id, NEW l \in Label, Taken(i, l)'
    PROVE  \/ Taken(i, l)
           \/ i = ids[e][Head(todo[e])] /\ l = Current(e, Head(todo[e]))
<1> DEFINE leg == Head(todo[e])
           x == Sent(e, leg)
<1>1. toGateway \in Seq(Requests) /\ book' = book
  BY SendFiles DEF SessionTyped
<1>2. /\ x \in Requests /\ x.id = ids[e][leg] /\ x.label = Current(e, leg)
      /\ toGateway' = toGateway \/ toGateway' = Append(toGateway, x)
  BY SentForms
<1> HIDE DEF x, leg
<1>3. Live(i)' = Live(i)
  BY <1>1 DEF Live
<1>4. ASSUME NEW k \in DOMAIN toGateway', IsNew(toGateway'[k]),
             toGateway'[k].id = i, toGateway'[k].label = l
      PROVE  Taken(i, l) \/ (i = ids[e][leg] /\ l = Current(e, leg))
  <2>1. \/ k \in DOMAIN toGateway /\ toGateway'[k] = toGateway[k]
        \/ toGateway'[k] = x
    BY <1>1, <1>2, PushForms
  <2>2. CASE k \in DOMAIN toGateway /\ toGateway'[k] = toGateway[k]
    BY <1>4, <2>2 DEF Taken, IsNew
  <2>3. CASE toGateway'[k] = x
    BY <1>2, <1>4, <2>3
  <2>4. QED
    BY <2>1, <2>2, <2>3
<1>5. QED
  BY <1>1, <1>3, <1>4 DEF Taken, IsNew, leg

LEMMA ClaimSend ==
    ASSUME BaseInv, NEW i \in Id, i \notin early', ClaimOK(i),
           NEW e \in Endpoint, SendLeg(e)
    PROVE  ClaimOK(i)'
<1> DEFINE leg == Head(todo[e])
           x == Sent(e, leg)
<1>1. SessionTyped /\ ThreadsOK /\ toGateway \in Seq(Requests) /\ i # None
  BY NoneAssumption, Bounds DEF BaseInv, SessionTyped, Id
<1>2. /\ meant' = meant /\ book' = book /\ toClient' = toClient /\ nextId' = nextId
      /\ reissued' = reissued
      /\ Unnumbered => ids[e][leg] \in early'
      /\ \A f \in Endpoint : f # e => ids'[f] = ids[f]
      /\ \/ ids'[e] = ids[e] /\ filed' = filed
         \/ /\ ids'[e] = NoIds
            /\ \A l \in Label : filed'[l] = IF l.leg \in Leg /\ l = Current(e, l.leg)
                                            THEN ids[e][l.leg] ELSE filed[l]
  BY <1>1, SendFiles
<1>3. /\ leg \in Leg /\ ids[e][leg] \in Id /\ pc[e] = "sending" /\ Begun(e)
      /\ x \in Requests /\ x.id = ids[e][leg]
      /\ toGateway' = toGateway \/ toGateway' = Append(toGateway, x)
  BY <1>1, SendForms, SentForms
<1>4. \A l \in Label : Taken(i, l)' =>
          Taken(i, l) \/ (i = ids[e][leg] /\ l = Current(e, leg))
  BY <1>1, TakenSent
<1> HIDE DEF x, leg
<1>5. \A f \in Endpoint, g \in Leg : Current(f, g)' = Current(f, g)
  BY <1>2, CurrentSame
<1>6. \A f \in Endpoint, g \in Leg : ids'[f][g] = i => ids[f][g] = i
  BY <1>1, <1>2 DEF NoIds
<1>7. ASSUME NEW l \in Label, filed'[l] = i, l \notin reissued'
      PROVE  \/ filed[l] = i /\ l \notin reissued
             \/ /\ ids'[e] = NoIds /\ l.leg \in Leg /\ ids[e][l.leg] = i
                /\ l = Current(e, l.leg)
  BY <1>2, <1>7
<1>8. ASSUME NEW f \in Endpoint, NEW g \in Leg, ids'[f][g] = i
      PROVE  /\ \A l \in Label \ reissued' : filed'[l] # i
             /\ \A l \in Label : Taken(i, l)' => l = Current(f, g)'
  <2>1. ids[f][g] = i
    BY <1>6, <1>8
  <2>2. ASSUME NEW l \in Label \ reissued', filed'[l] = i PROVE FALSE
    <3>1. /\ ids'[e] = NoIds /\ l.leg \in Leg /\ ids[e][l.leg] = i
      BY <1>7, <2>1, <2>2 DEF ClaimOK
    <3>2. f = e
      BY <2>1, <3>1 DEF ClaimOK
    <3>3. QED
      BY <1>1, <1>8, <3>1, <3>2 DEF NoIds
  <2>3. ASSUME NEW l \in Label, Taken(i, l)' PROVE l = Current(f, g)
    <3>1. CASE Taken(i, l)
      BY <2>1, <3>1 DEF ClaimOK
    <3>2. CASE i = ids[e][leg] /\ l = Current(e, leg)
      <4>1. f = e /\ g = leg
        BY <1>3, <2>1, <3>2 DEF ClaimOK
      <4>2. QED
        BY <3>2, <4>1
    <3>3. QED
      BY <1>4, <2>3, <3>1, <3>2
  <2>4. QED
    BY <1>5, <2>2, <2>3
<1>9. ASSUME NEW l \in Label \ reissued', filed'[l] = i, NEW k \in Label, Taken(i, k)'
      PROVE  k = l
  <2>1. CASE filed[l] = i /\ l \notin reissued
    <3>1. \A f \in Endpoint, g \in Leg : ids[f][g] # i
      BY <2>1 DEF ClaimOK
    <3>2. Taken(i, k)
      BY <1>3, <1>4, <1>9, <3>1
    <3>3. QED
      BY <2>1, <3>2 DEF ClaimOK
  <2>2. CASE l.leg \in Leg /\ ids[e][l.leg] = i /\ l = Current(e, l.leg)
    <3>1. CASE Taken(i, k)
      BY <2>2, <3>1 DEF ClaimOK
    <3>2. CASE i = ids[e][leg] /\ k = Current(e, leg)
      <4>1. leg = l.leg
        BY <1>3, <2>2, <3>2 DEF ClaimOK
      <4>2. QED
        BY <2>2, <3>2, <4>1
    <3>3. QED
      BY <1>4, <1>9, <3>1, <3>2
  <2>3. QED
    BY <1>7, <1>9, <2>1, <2>2
<1>10. ASSUME nextId' # None, i >= nextId'
       PROVE  /\ \A f \in Endpoint, g \in Leg : ids'[f][g] # i
              /\ \A l \in Label \ reissued' : filed'[l] # i
              /\ \A l \in Label : ~Taken(i, l)'
  <2>1. /\ \A f \in Endpoint, g \in Leg : ids[f][g] # i
        /\ \A l \in Label \ reissued : filed[l] # i
        /\ \A l \in Label : ~Taken(i, l)
    BY <1>2, <1>10 DEF ClaimOK
  <2>2. QED
    BY <1>3, <1>4, <1>6, <1>7, <2>1
<1>11. ASSUME Unnumbered', NEW k \in DOMAIN toGateway', IsNew(toGateway'[k])
       PROVE  toGateway'[k].id # i
  <2>1. Unnumbered
    BY <1>2, <1>11 DEF Unnumbered
  <2>2. \/ k \in DOMAIN toGateway /\ toGateway'[k] = toGateway[k]
        \/ toGateway'[k] = x
    BY <1>1, <1>3, PushForms
  <2>3. CASE toGateway'[k] = x
    BY <1>2, <1>3, <2>1, <2>3
  <2>4. CASE k \in DOMAIN toGateway /\ toGateway'[k] = toGateway[k]
    BY <1>11, <2>1, <2>4 DEF ClaimOK, IsNew
  <2>5. QED
    BY <2>2, <2>3, <2>4
<1>12. \A k \in DOMAIN toClient' :
           toClient'[k].kind = "nextId" /\ i >= toClient'[k].id => ~Live(i)'
  BY <1>2 DEF ClaimOK, Live
<1>13. \A f, h \in Endpoint, g, w \in Leg :
           ids'[f][g] = i /\ ids'[h][w] = i => f = h /\ g = w
  BY <1>6 DEF ClaimOK
<1>14. \A k \in DOMAIN toGateway' : IsNew(toGateway'[k]) <=> IsNew(toGateway[k])'
  BY DEF IsNew
<1>15. QED
  BY <1>8, <1>9, <1>10, <1>11, <1>12, <1>13, <1>14 DEF ClaimOK, IsNew

LEMMA EarlyGrows ==
    ASSUME BaseInv, Next
    PROVE  early \subseteq early'
<1>1. SessionTyped /\ ThreadsOK
  BY DEF BaseInv
<1>2. CASE \E e \in Endpoint : \E legs \in Groups[e] : AllocOrderIds(e, legs)
  BY <1>1, <1>2, AllocForms
<1>3. CASE ReaderTakes
  BY <1>3 DEF ReaderTakes, OnNextValidId, OnOpenOrder, OnContractDetails, OnError
<1>4. CASE \E e \in Endpoint : SendLeg(e)
  BY <1>4 DEF SendLeg
<1>5. CASE \E e \in Endpoint : \E l \in Label :
              CancelOrder(e, l) \/ \E c \in Change : ModifyOrder(e, l, c)
  BY <1>5 DEF CancelOrder, ModifyOrder
<1>6. CASE GatewayTakes \/ Drop \/ Restart \/ \E i \in Id : Executes(i)
  BY <1>6 DEF GatewayTakes, Drop, Restart, Executes, historyVars
<1>7. CASE \E e \in Endpoint : \/ Connect(e) \/ ConnectFails(e) \/ Resolve(e)
                               \/ ResolveFails(e) \/ PlacementRaises(e)
  BY <1>7 DEF Connect, ConnectFails, Resolve, ResolveFails, PlacementRaises, historyVars
<1>8. ASSUME NEW e \in Endpoint, NEW l \in Label,
             CancelRaises(e, l) \/ \E c \in Change : ModifyRaises(e, l, c)
      PROVE  early' = early
  BY <1>8, RaisesAlone
<1>9. QED
  BY <1>2, <1>3, <1>4, <1>5, <1>6, <1>7, <1>8 DEF Next

LEMMA ClaimStep ==
    ASSUME BaseInv, ClaimInv, [Next]_vars
    PROVE  ClaimInv'
<1>1. SessionTyped /\ ThreadsOK /\ early \subseteq Id
  BY DEF BaseInv, SessionTyped
<1>2. CASE Next
  <2>1. early \subseteq early'
    BY <1>2, EarlyGrows
  <2>2. ASSUME NEW i \in Id, i \notin early' PROVE ClaimOK(i)'
    <3>1. ClaimOK(i)
      BY <2>1, <2>2 DEF ClaimInv
    <3>2. ASSUME NEW e \in Endpoint, NEW l \in Label,
                 CancelRaises(e, l) \/ \E c \in Change : ModifyRaises(e, l, c)
          PROVE  ClaimOK(i)'
      BY <3>1, <3>2, RaisesAlone, ClaimSame
    <3>3. QED
      BY <1>2, <2>2, <3>1, <3>2, ClaimQuiet, ClaimConnect, ClaimReader, ClaimAlloc, ClaimSend
         DEF Next
  <2>3. QED
    BY <2>2 DEF ClaimInv
<1>3. CASE UNCHANGED vars
  <2> USE DEF vars, threadVars, idVars, lookupVars, orderVars, gateVars, historyVars
  <2>1. ASSUME NEW i \in Id, i \notin early' PROVE ClaimOK(i)'
    BY <1>3, <2>1, ClaimSame DEF ClaimInv
  <2>2. QED
    BY <2>1 DEF ClaimInv
<1>4. QED
  BY <1>2, <1>3

LEMMA ClaimInit == Init => ClaimInv
<1> SUFFICES ASSUME Init, NEW i \in Id PROVE ClaimOK(i)
  BY DEF ClaimInv
<1>1. i # None /\ DOMAIN <<>> = {}
  BY NoneAssumption, Bounds DEF Id
<1>2. /\ \A e \in Endpoint, g \in Leg : ids[e][g] # i
      /\ \A l \in Label : filed[l] # i
      /\ toGateway = <<>> /\ toClient = <<>> /\ nextId = None /\ book[i] = None
  BY <1>1 DEF Init, NoIds, Empty
<1>3. QED
  BY <1>1, <1>2 DEF ClaimOK

(* Ids: a filed id leads to no living order but its own, for any number of
   endpoints that take, send and file side by side. *)
THEOREM FiledIdsAreTheirOrders == Spec => []FiledIdIsItsOrder
<1>1. Init => BaseInv /\ ClaimInv
  BY BaseInit, ClaimInit
<1>2. BaseInv /\ ClaimInv /\ [Next]_vars => (BaseInv /\ ClaimInv)'
  BY BaseStep, ClaimStep
<1>3. BaseInv /\ ClaimInv => FiledIdIsItsOrder
  <2> SUFFICES ASSUME BaseInv, ClaimInv, NEW l \in Label, filed[l] # None,
                      filed[l] \notin early, l \notin reissued, Live(filed[l])
               PROVE  book[filed[l]].label = l
    BY DEF FiledIdIsItsOrder
  <2>1. filed[l] \in Id /\ SessionTyped
    BY DEF BaseInv, SessionTyped, TypeOK, Optional
  <2>2. book[filed[l]].label \in Label
    BY <2>1, BookForms, OrderForms
  <2>3. Taken(filed[l], book[filed[l]].label) /\ ClaimOK(filed[l])
    BY <2>1 DEF Taken, ClaimInv
  <2>4. QED
    BY <2>1, <2>2, <2>3 DEF ClaimOK
<1>4. QED
  BY <1>1, <1>2, <1>3, PTL DEF Spec

-----------------------------------------------------------------------------
(* Exits: an exit waits behind its entry, or works when the entry does.     *)

LEMMA BracketForms ==
    ASSUME NEW l \in Label
    PROVE  /\ \A x : x \in Bracket(l) <=> x \in Label /\ x.e = l.e /\ x.n = l.n
           /\ Entry(l) \in Bracket(l) /\ l \in Bracket(l)
<1>1. \A g \in Leg : [l EXCEPT !.leg = g] = [e |-> l.e, n |-> l.n, leg |-> g]
  BY DEF Label
<1>2. ASSUME NEW x \in Label, x.e = l.e, x.n = l.n PROVE x \in Bracket(l)
  <2>1. x = [l EXCEPT !.leg = x.leg] /\ x.leg \in Leg
    BY <1>1, <1>2, LabelForms
  <2>2. QED
    BY <2>1 DEF Bracket
<1>3. ASSUME NEW x, x \in Bracket(l) PROVE x \in Label /\ x.e = l.e /\ x.n = l.n
  <2>1. PICK g \in Leg : x = [e |-> l.e, n |-> l.n, leg |-> g]
    BY <1>1, <1>3 DEF Bracket
  <2>2. QED
    BY <2>1 DEF Label
<1>4. Entry(l) \in Label /\ Entry(l).e = l.e /\ Entry(l).n = l.n
  BY DEF Label, Entry, Leg
<1>5. QED
  BY <1>2, <1>3, <1>4

\* the steps that neither number nor file anything
Still == /\ ids' = ids /\ todo' = todo /\ filed' = filed
         /\ \A l \in Label : meant'[l] = {} <=> meant[l] = {}

LEMMA HistoryGrows ==
    ASSUME BaseInv, Next
    PROVE  /\ \A l \in Label :
               /\ filed[l] # None => filed'[l] = filed[l]
               /\ meant[l] \subseteq meant'[l]
               /\ meant[l] # {} => \A x \in Bracket(l) : meant[x] = {} => meant'[x] = {}
           /\ rejected \subseteq rejected'
           /\ \/ Still \/ Restart
              \/ \E e \in Endpoint : \/ SendLeg(e)
                                     \/ \E legs \in Groups[e] : AllocOrderIds(e, legs)
<1> USE DEF threadVars, historyVars
<1>1. /\ SessionTyped /\ ThreadsOK /\ MeantOK
      /\ \A e \in Endpoint : ThreadOK(e)
      /\ meant \in [Label -> SUBSET (Change \cup {"place", "cancel"})]
      /\ \A l \in Label : \A x \in Bracket(l) : x \in Label /\ x.e = l.e /\ x.n = l.n
  BY BracketForms DEF BaseInv, ThreadsOK, SessionTyped
<1>2. ASSUME filed' = filed, meant' = meant, rejected' = rejected
      PROVE  /\ \A l \in Label :
                 /\ filed[l] # None => filed'[l] = filed[l]
                 /\ meant[l] \subseteq meant'[l]
                 /\ meant[l] # {} => \A x \in Bracket(l) : meant[x] = {} => meant'[x] = {}
             /\ rejected \subseteq rejected'
  BY <1>2
<1>3. ASSUME NEW e \in Endpoint, NEW legs \in Groups[e], AllocOrderIds(e, legs)
      PROVE  /\ \A l \in Label :
                 /\ filed[l] # None => filed'[l] = filed[l]
                 /\ meant[l] \subseteq meant'[l]
                 /\ meant[l] # {} => \A x \in Bracket(l) : meant[x] = {} => meant'[x] = {}
             /\ rejected \subseteq rejected'
  <2>1. \A l \in Label : meant[l] # {} =>
            \A x \in Label : x.e = l.e /\ x.n = l.n => meant'[x] = meant[x]
    BY <1>1, <1>3, AllocCurrent
  <2>2. filed' = filed /\ rejected' = rejected
    BY <1>3 DEF AllocOrderIds
  <2>3. QED
    BY <1>1, <2>1, <2>2
<1>4. ASSUME NEW e \in Endpoint, SendLeg(e)
      PROVE  /\ \A l \in Label :
                 /\ filed[l] # None => filed'[l] = filed[l]
                 /\ meant[l] \subseteq meant'[l]
                 /\ meant[l] # {} => \A x \in Bracket(l) : meant[x] = {} => meant'[x] = {}
             /\ rejected \subseteq rejected'
  <2>1. \A g \in Leg : filed[Current(e, g)] = None
    BY <1>1, <1>4 DEF SendLeg, ThreadOK
  <2>2. meant' = meant /\ \A l \in Label : filed[l] # None => filed'[l] = filed[l]
    BY <1>1, <1>4, <2>1, SendFiles
  <2>3. rejected' = rejected
    BY <1>4 DEF SendLeg
  <2>4. QED
    BY <2>2, <2>3
<1>5. ASSUME NEW e \in Endpoint, NEW l \in Label,
             CancelOrder(e, l) \/ \E c \in Change : ModifyOrder(e, l, c)
      PROVE  /\ Still /\ rejected' = rejected /\ \A k \in Label : meant[k] \subseteq meant'[k]
  <2>1. /\ ids' = ids /\ todo' = todo /\ filed' = filed /\ rejected' = rejected
        /\ \E what \in Change \cup {"cancel"} : Follows(e, l, what)
    BY <1>5 DEF CancelOrder, ModifyOrder
  <2>2. PICK what \in Change \cup {"cancel"} : Follows(e, l, what)
    BY <2>1
  <2>3. filed[l] \in Id /\ meant' = [meant EXCEPT ![l] = meant[l] \cup {what}]
    BY <1>1, <2>2, FollowForms
  <2>4. meant[l] # {}
    BY <1>1, <2>3, NoneAssumption, Bounds DEF MeantOK, LabelOK, Id
  <2>5. \A k \in Label : meant[k] \subseteq meant'[k] /\ (meant'[k] = {} <=> meant[k] = {})
    BY <1>1, <2>3, <2>4
  <2>6. QED
    BY <2>1, <2>5 DEF Still
<1>6. CASE \E e \in Endpoint : \E l \in Label :
              CancelOrder(e, l) \/ \E c \in Change : ModifyOrder(e, l, c)
  BY <1>1, <1>5, <1>6 DEF Still
<1>7. ASSUME ids' = ids, todo' = todo, filed' = filed, meant' = meant, rejected' = rejected
      PROVE  /\ \A l \in Label :
                 /\ filed[l] # None => filed'[l] = filed[l]
                 /\ meant[l] \subseteq meant'[l]
                 /\ meant[l] # {} => \A x \in Bracket(l) : meant[x] = {} => meant'[x] = {}
             /\ rejected \subseteq rejected' /\ Still
  BY <1>7 DEF Still
<1>8. CASE ReaderTakes \/ Drop \/ \E i \in Id : Executes(i)
  BY <1>7, <1>8 DEF ReaderTakes, Drop, Executes
<1>9. CASE \E e \in Endpoint : \/ Connect(e) \/ ConnectFails(e) \/ Resolve(e)
                               \/ ResolveFails(e) \/ PlacementRaises(e)
  BY <1>7, <1>9 DEF Connect, ConnectFails, Resolve, ResolveFails, PlacementRaises
<1>10. CASE \E e \in Endpoint : \E l \in Label :
               CancelRaises(e, l) \/ \E c \in Change : ModifyRaises(e, l, c)
  BY <1>7, <1>10, RaisesAlone
<1>11. CASE GatewayTakes
  <2>1. ids' = ids /\ todo' = todo /\ filed' = filed /\ meant' = meant
    BY <1>11 DEF GatewayTakes
  <2>2. rejected \subseteq rejected'
    <3>1. PICK m \in Requests : m = Head(toGateway)
      BY <1>1, <1>11, GatewayHead
    <3>2. QED
      BY <1>1, <1>11, <3>1, GatewayCases
         DEF Modified, Accepted, Refused, Refuses, Dropped, Answered
  <2>3. QED
    BY <2>1, <2>2 DEF Still
<1>12. CASE Restart
  BY <1>2, <1>12 DEF Restart
<1>13. QED
  BY <1>3, <1>4, <1>6, <1>8, <1>9, <1>10, <1>11, <1>12 DEF Next

LEMMA StillForms ==
    ASSUME Still, NEW x \in Label
    PROVE  /\ IsSent(x)' <=> IsSent(x)
           /\ \A j : HasId(x, j)' <=> HasId(x, j)
<1>1. x.e \in Endpoint /\ x.leg \in Leg /\ "entry" \in Leg
  BY LabelForms DEF Leg
<1>2. \A n \in 1 .. MaxPlacements :
         meant'[[e |-> x.e, n |-> n, leg |-> "entry"]] = {}
           <=> meant[[e |-> x.e, n |-> n, leg |-> "entry"]] = {}
  <2> TAKE n \in 1 .. MaxPlacements
  <2> DEFINE y == [e |-> x.e, n |-> n, leg |-> "entry"]
  <2>1. y \in Label
    BY <1>1, LabelOf
  <2>2. QED
    BY <2>1 DEF Still
<1>3. {n \in 1 .. MaxPlacements : meant'[[e |-> x.e, n |-> n, leg |-> "entry"]] # {}}
        = {n \in 1 .. MaxPlacements : meant[[e |-> x.e, n |-> n, leg |-> "entry"]] # {}}
  BY <1>2
<1>4. Current(x.e, x.leg)' = Current(x.e, x.leg)
  BY <1>3 DEF Current
<1>5. QED
  BY <1>4 DEF Still, IsSent, HasId

\* The bracket that a thread sends is not filed, and is numbered as a whole.
LEMMA SentOnly ==
    ASSUME BaseInv, NEW x \in Label, IsSent(x)
    PROVE  /\ pc[x.e] = "sending" /\ ids[x.e][x.leg] \in Id
           /\ \A y \in Bracket(x) :
                /\ filed[y] = None /\ y = Current(x.e, y.leg)
                /\ meant[y] # {} => IsSent(y)
           /\ meant[x] # {}
<1>1. SessionTyped /\ ThreadOK(x.e) /\ x.e \in Endpoint /\ x.leg \in Leg
  BY LabelForms DEF BaseInv, ThreadsOK
<1>2. pc[x.e] = "sending"
  BY <1>1 DEF ThreadOK, IsSent, NoIds
<1>3. /\ Begun(x.e) /\ Current(x.e, x.leg) = x
      /\ \A g \in Leg : /\ filed[Current(x.e, g)] = None
                        /\ ids[x.e][g] = None <=> meant[Current(x.e, g)] = {}
  BY <1>1, <1>2 DEF ThreadOK, IsSent
<1>4. /\ x.n = Current(x.e, "entry").n
      /\ \A l \in Label : l.e = x.e /\ l.n = Current(x.e, "entry").n => l = Current(x.e, l.leg)
  BY <1>1, <1>3, CurrentForms
<1>5. ids[x.e][x.leg] \in Id /\ meant[x] # {}
  BY <1>1, <1>3 DEF SessionTyped, TypeOK, Optional, IsSent
<1>6. ASSUME NEW y \in Bracket(x)
      PROVE  filed[y] = None /\ y = Current(x.e, y.leg) /\ (meant[y] # {} => IsSent(y))
  <2>1. y \in Label /\ y.e = x.e /\ y.n = x.n /\ y.leg \in Leg
    BY BracketForms, LabelForms
  <2>2. y = Current(x.e, y.leg)
    BY <1>4, <2>1
  <2>3. filed[y] = None /\ (meant[y] # {} => ids[x.e][y.leg] # None)
    BY <1>3, <2>1, <2>2
  <2>4. QED
    BY <2>1, <2>2, <2>3 DEF IsSent
<1>7. QED
  BY <1>2, <1>5, <1>6

LEMMA NumbersBack ==
    ASSUME BaseInv, Next, NEW l \in Label, meant[l] # {}, NEW x \in Bracket(l)
    PROVE  /\ IsSent(x)' => /\ IsSent(x)
                          /\ \/ todo'[x.e] = todo[x.e]
                             \/ todo'[x.e] = Tail(todo[x.e]) /\ SendLeg(x.e)
           /\ \A j \in Id : HasId(x, j)' => HasId(x, j)
<1>1. /\ SessionTyped /\ ThreadsOK /\ MeantOK
      /\ x \in Label /\ x.e = l.e /\ x.n = l.n /\ x.e \in Endpoint /\ x.leg \in Leg
  BY BracketForms, LabelForms DEF BaseInv
<1>2. CASE Still
  <2>1. todo' = todo
    BY <1>2 DEF Still
  <2>2. QED
    BY <1>1, <1>2, <2>1, StillForms
<1>3. CASE Restart
  <2>1. ~ IsSent(x)' /\ filed' = filed
    BY <1>1, <1>3 DEF Restart, IsSent, NoIds
  <2>2. QED
    BY <2>1 DEF HasId
<1>4. ASSUME NEW e \in Endpoint, NEW legs \in Groups[e], AllocOrderIds(e, legs)
      PROVE  /\ IsSent(x)' => /\ IsSent(x)
                            /\ \/ todo'[x.e] = todo[x.e]
                               \/ todo'[x.e] = Tail(todo[x.e]) /\ SendLeg(x.e)
             /\ \A j \in Id : HasId(x, j)' => HasId(x, j)
  <2>1. PICK n \in 1 .. MaxPlacements :
           /\ \A g \in Leg : LET y == [e |-> e, n |-> n, leg |-> g]
                             IN  /\ Current(e, g)' = y /\ meant[y] = {}
           /\ \A y \in Label : y.e # e \/ y.n # n => meant'[y] = meant[y]
    BY <1>1, <1>4, AllocCurrent
  <2>2. filed' = filed
    BY <1>4 DEF AllocOrderIds
  <2>3. CASE x.e = e
    <3>1. x.n # n
      <4>1. l.leg \in Leg /\ l = [e |-> e, n |-> l.n, leg |-> l.leg]
        BY <1>1, <2>3, LabelForms
      <4>2. meant[[e |-> e, n |-> n, leg |-> l.leg]] = {}
        BY <2>1, <4>1
      <4>3. QED
        BY <1>1, <4>1, <4>2
    <3>2. Current(e, x.leg)' = [e |-> e, n |-> n, leg |-> x.leg]
      BY <1>1, <2>1
    <3>3. Current(e, x.leg)'.n = n
      BY <3>2
    <3>4. ~ IsSent(x)'
      BY <2>3, <3>1, <3>3 DEF IsSent
    <3>5. QED
      BY <2>2, <3>4 DEF HasId
  <2>4. CASE x.e # e
    <3>1. ids'[x.e] = ids[x.e] /\ todo'[x.e] = todo[x.e]
      BY <1>1, <1>4, <2>4 DEF AllocOrderIds, SessionTyped, TypeOK
    <3>2. \A k \in 1 .. MaxPlacements :
             meant'[[e |-> x.e, n |-> k, leg |-> "entry"]]
               = meant[[e |-> x.e, n |-> k, leg |-> "entry"]]
      <4> TAKE k \in 1 .. MaxPlacements
      <4> DEFINE y == [e |-> x.e, n |-> k, leg |-> "entry"]
      <4>1. y \in Label /\ y.e = x.e
        BY <1>1 DEF Label, Leg
      <4>2. QED
        BY <2>1, <2>4, <4>1
    <3>3. Current(x.e, x.leg)' = Current(x.e, x.leg)
      BY <1>1, <3>2, CurrentSame
    <3>4. QED
      BY <2>2, <3>1, <3>3 DEF IsSent, HasId
  <2>5. QED
    BY <2>3, <2>4
<1>5. ASSUME NEW e \in Endpoint, SendLeg(e)
      PROVE  /\ IsSent(x)' => /\ IsSent(x)
                            /\ \/ todo'[x.e] = todo[x.e]
                               \/ todo'[x.e] = Tail(todo[x.e]) /\ SendLeg(x.e)
             /\ \A j \in Id : HasId(x, j)' => HasId(x, j)
  <2>1. /\ meant' = meant /\ \A f \in Endpoint : f # e => ids'[f] = ids[f]
        /\ \/ ids'[e] = ids[e] /\ filed' = filed
           \/ /\ ids'[e] = NoIds
              /\ \A y \in Label :
                   filed'[y] = IF y.leg \in Leg /\ y = Current(e, y.leg)
                               THEN ids[e][y.leg] ELSE filed[y]
    BY <1>1, <1>5, SendFiles
  <2>2. Current(x.e, x.leg)' = Current(x.e, x.leg)
    BY <1>1, <2>1, CurrentSame
  <2>3. todo'[x.e] = IF x.e = e THEN Tail(todo[e]) ELSE todo[x.e]
    BY <1>1, <1>5 DEF SendLeg, SessionTyped, TypeOK
  <2>4. ids'[x.e][x.leg] # None => ids'[x.e] = ids[x.e]
    BY <1>1, <2>1 DEF NoIds
  <2>5. IsSent(x)' => IsSent(x)
    BY <2>2, <2>4 DEF IsSent
  <2>6. ASSUME NEW j \in Id, filed'[x] = j, filed[x] # j PROVE HasId(x, j)
    <3>1. x = Current(e, x.leg) /\ ids[e][x.leg] = j
      BY <1>1, <2>1, <2>6
    <3>2. Begun(e)
      BY <1>1, <1>5, SendForms
    <3>3. x.e = e
      BY <1>1, <3>1, <3>2, CurrentForms
    <3>4. j # None
      BY NoneAssumption, Bounds DEF Id
    <3>5. QED
      BY <3>1, <3>3, <3>4 DEF HasId, IsSent
  <2>7. \A j \in Id : HasId(x, j)' => HasId(x, j)
    BY <2>4, <2>5, <2>6 DEF HasId, IsSent
  <2>8. QED
    BY <1>5, <2>3, <2>5, <2>7
<1>6. QED
  BY <1>2, <1>3, <1>4, <1>5, HistoryGrows

LEMMA NumbersForth ==
    ASSUME BaseInv, Next, NEW x \in Label
    PROVE  /\ ~Restart => \A j \in Id : HasId(x, j) => HasId(x, j)'
           /\ ~Restart /\ (filed[x] # None \/ IsSent(x)) => (filed'[x] # None \/ IsSent(x)')
<1>1. /\ SessionTyped /\ ThreadsOK /\ \A e \in Endpoint : ThreadOK(e)
      /\ x.e \in Endpoint /\ x.leg \in Leg
  BY LabelForms DEF BaseInv, ThreadsOK
<1>2. filed[x] # None => filed'[x] = filed[x]
  BY HistoryGrows
<1>3. ASSUME IsSent(x), ~Restart
      PROVE  filed'[x] = ids[x.e][x.leg] \/ (IsSent(x)' /\ ids'[x.e] = ids[x.e])
  <2>1. CASE Still
    BY <1>3, <2>1, StillForms DEF Still
  <2>2. ASSUME NEW e \in Endpoint, NEW legs \in Groups[e], AllocOrderIds(e, legs)
        PROVE  IsSent(x)' /\ ids'[x.e] = ids[x.e]
    <3>1. x.e # e
      BY <1>3, <2>2, SentOnly DEF AllocOrderIds
    <3>2. ids'[x.e] = ids[x.e]
      BY <1>1, <2>2, <3>1 DEF AllocOrderIds, SessionTyped, TypeOK
    <3>3. PICK n \in 1 .. MaxPlacements :
             \A y \in Label : y.e # e \/ y.n # n => meant'[y] = meant[y]
      BY <1>1, <2>2, AllocCurrent DEF BaseInv
    <3>4. \A k \in 1 .. MaxPlacements :
             meant'[[e |-> x.e, n |-> k, leg |-> "entry"]]
               = meant[[e |-> x.e, n |-> k, leg |-> "entry"]]
      <4> TAKE k \in 1 .. MaxPlacements
      <4> DEFINE y == [e |-> x.e, n |-> k, leg |-> "entry"]
      <4>1. y \in Label /\ y.e = x.e
        BY <1>1 DEF Label, Leg
      <4>2. QED
        BY <3>1, <3>3, <4>1
    <3>5. Current(x.e, x.leg)' = Current(x.e, x.leg)
      BY <1>1, <3>4, CurrentSame
    <3>6. QED
      BY <1>3, <3>2, <3>5 DEF IsSent
  <2>3. ASSUME NEW e \in Endpoint, SendLeg(e)
        PROVE  filed'[x] = ids[x.e][x.leg] \/ (IsSent(x)' /\ ids'[x.e] = ids[x.e])
    <3>1. /\ meant' = meant /\ \A f \in Endpoint : f # e => ids'[f] = ids[f]
          /\ \/ ids'[e] = ids[e] /\ filed' = filed
             \/ /\ ids'[e] = NoIds
                /\ \A y \in Label :
                     filed'[y] = IF y.leg \in Leg /\ y = Current(e, y.leg)
                                 THEN ids[e][y.leg] ELSE filed[y]
      BY <1>1, <2>3, SendFiles
    <3>2. Current(x.e, x.leg)' = Current(x.e, x.leg)
      BY <1>1, <3>1, CurrentSame
    <3>3. CASE ids'[x.e] = ids[x.e]
      BY <1>3, <3>2, <3>3 DEF IsSent
    <3>4. CASE ids'[x.e] # ids[x.e]
      <4>1. x.e = e /\ x = Current(e, x.leg)
        BY <1>1, <1>3, <3>1, <3>4 DEF IsSent
      <4>2. QED
        BY <1>1, <3>1, <3>4, <4>1
    <3>5. QED
      BY <3>3, <3>4
  <2>4. QED
    BY <1>3, <2>1, <2>2, <2>3, HistoryGrows
<1>4. IsSent(x) => ids[x.e][x.leg] # None
  BY DEF IsSent
<1>5. \A j \in Id : j # None
  BY NoneAssumption, Bounds DEF Id
<1>6. QED
  BY <1>2, <1>3, <1>4, <1>5 DEF HasId

\* A request keeps its place, or moves up when the Gateway takes the first.
Place(p, k) ==
    \/ p = k /\ \/ toGateway' = toGateway
                \/ \E y \in Requests : ~IsNew(y) /\ toGateway' = Append(toGateway, y)
                \/ \E e \in Endpoint : SendLeg(e)
    \/ p = k + 1 /\ toGateway # <<>> /\ toGateway' = Tail(toGateway)

LEMMA BehindBack ==
    ASSUME BaseInv, Next, NEW l \in Label, meant[l] # {}, NEW x \in Bracket(l),
           NEW k \in Nat, NEW p \in Nat, Place(p, k), Behind(x, k)'
    PROVE  Behind(x, p)
<1>1. /\ SessionTyped /\ ThreadsOK /\ toGateway \in Seq(Requests) /\ x \in Label
      /\ DOMAIN toGateway = 1 .. Len(toGateway) /\ Len(toGateway) \in Nat
  BY BracketForms DEF BaseInv, SessionTyped
<1>2. ASSUME NEW j \in DOMAIN toGateway', j > k, IsNew(toGateway'[j]),
             toGateway'[j].label = x
      PROVE  Behind(x, p)
  <2>1. CASE p = k + 1 /\ toGateway # <<>> /\ toGateway' = Tail(toGateway)
    <3>1. j + 1 \in DOMAIN toGateway /\ toGateway'[j] = toGateway[j + 1] /\ j \in Int
      BY <1>1, <1>2, <2>1, PopForms
    <3>2. j + 1 > p
      BY <1>2, <2>1, <3>1
    <3>3. QED
      BY <1>2, <3>1, <3>2 DEF Behind, IsNew
  <2>2. CASE p = k /\ j \in DOMAIN toGateway /\ toGateway'[j] = toGateway[j]
    BY <1>2, <2>2 DEF Behind, IsNew
  <2>3. CASE p = k /\ toGateway' = toGateway
    BY <1>2, <2>2, <2>3
  <2>4. ASSUME p = k, NEW y \in Requests, ~IsNew(y), toGateway' = Append(toGateway, y)
        PROVE  Behind(x, p)
    <3>1. toGateway'[j] # y
      BY <1>2, <2>4
    <3>2. j \in DOMAIN toGateway /\ toGateway'[j] = toGateway[j]
      BY <1>1, <1>2, <2>4, <3>1, PushForms
    <3>3. QED
      BY <2>2, <2>4, <3>2
  <2>5. ASSUME p = k, NEW e \in Endpoint, SendLeg(e)
        PROVE  Behind(x, p)
    <3> DEFINE leg == Head(todo[e])
               y == Sent(e, leg)
    <3>1. /\ y \in Requests /\ y.label = Current(e, leg)
          /\ toGateway' = toGateway \/ toGateway' = Append(toGateway, y)
      BY <1>1, <2>5, SentForms
    <3>2. /\ leg \in Leg /\ Begun(e) /\ ids[e][leg] \in Id
          /\ 1 \in DOMAIN todo[e] /\ todo[e][1] = leg
      BY <1>1, <2>5, SendForms
    <3> HIDE DEF y, leg
    <3>3. (j \in DOMAIN toGateway /\ toGateway'[j] = toGateway[j]) \/ toGateway'[j] = y
      BY <1>1, <1>2, <3>1, PushForms
    <3>4. CASE toGateway'[j] = y
      <4>1. x = Current(e, leg) /\ x.e = e /\ x.leg = leg
        BY <1>1, <1>2, <3>1, <3>2, <3>4, CurrentForms
      <4>2. ids[e][leg] # None
        BY <3>2, NoneAssumption, Bounds DEF Id
      <4>3. QED
        BY <3>2, <4>1, <4>2 DEF Behind, IsSent
    <3>5. QED
      BY <2>2, <2>5, <3>3, <3>4
  <2>6. QED
    BY <2>1, <2>3, <2>4, <2>5 DEF Place
<1>3. ASSUME IsSent(x)', NEW j \in DOMAIN todo'[x.e], todo'[x.e][j] = x.leg
      PROVE  Behind(x, p)
  <2>1. IsSent(x) /\ (todo'[x.e] = todo[x.e] \/ (todo'[x.e] = Tail(todo[x.e]) /\ SendLeg(x.e)))
    BY <1>3, NumbersBack
  <2>2. x.e \in Endpoint
    BY <1>1, LabelForms
  <2>3. CASE todo'[x.e] = todo[x.e]
    BY <1>3, <2>1, <2>3 DEF Behind
  <2>4. CASE todo'[x.e] = Tail(todo[x.e]) /\ SendLeg(x.e)
    <3>1. j + 1 \in DOMAIN todo[x.e] /\ todo[x.e][j + 1] = x.leg
      BY <1>1, <1>3, <2>2, <2>4, SendForms
    <3>2. QED
      BY <2>1, <3>1 DEF Behind
  <2>5. QED
    BY <2>1, <2>3, <2>4
<1>4. QED
  BY <1>2, <1>3 DEF Behind, IsNew

LEMMA BehindForth ==
    ASSUME BaseInv, Next, socket', socket, NEW x \in Label,
           NEW p \in Nat, NEW k \in 0 .. Len(toGateway), Place(p, k), Behind(x, p)
    PROVE  Behind(x, k)'
<1>1. /\ SessionTyped /\ ThreadsOK /\ toGateway \in Seq(Requests)
      /\ DOMAIN toGateway = 1 .. Len(toGateway) /\ Len(toGateway) \in Nat
      /\ k \in Nat /\ ~Restart
  BY DEF BaseInv, SessionTyped, Restart, Cut
<1>2. ASSUME NEW j \in DOMAIN toGateway, j > p, IsNew(toGateway[j]), toGateway[j].label = x
      PROVE  Behind(x, k)'
  <2>1. CASE p = k + 1 /\ toGateway # <<>> /\ toGateway' = Tail(toGateway)
    <3>1. j # 1 /\ j \in Int
      BY <1>1, <1>2, <2>1
    <3>2. j - 1 \in DOMAIN toGateway' /\ toGateway'[j - 1] = toGateway[j]
      BY <1>1, <1>2, <2>1, <3>1, PopForms
    <3>3. j - 1 > k
      BY <1>1, <1>2, <2>1, <3>1
    <3>4. QED
      BY <1>2, <3>2, <3>3 DEF Behind, IsNew
  <2>2. CASE p = k /\ j \in DOMAIN toGateway' /\ toGateway'[j] = toGateway[j]
    BY <1>2, <2>2 DEF Behind, IsNew
  <2>3. CASE p = k /\ (toGateway' = toGateway \/ \E y \in Requests : toGateway' = Append(toGateway, y))
    <3>1. j \in DOMAIN toGateway' /\ toGateway'[j] = toGateway[j]
      BY <1>1, <1>2, <2>3, PushForms
    <3>2. QED
      BY <2>2, <2>3, <3>1
  <2>4. ASSUME NEW e \in Endpoint, SendLeg(e)
        PROVE  toGateway' = toGateway \/ \E y \in Requests : toGateway' = Append(toGateway, y)
    BY <1>1, <2>4, SentForms
  <2>5. QED
    BY <2>1, <2>3, <2>4 DEF Place
<1>3. ASSUME IsSent(x), NEW j \in DOMAIN todo[x.e], todo[x.e][j] = x.leg
      PROVE  Behind(x, k)'
  <2>1. x.e \in Endpoint /\ x.leg \in Leg /\ pc[x.e] = "sending" /\ Current(x.e, x.leg) = x
    BY <1>3, LabelForms, SentOnly DEF IsSent
  <2>2. CASE Still
    <3>1. IsSent(x)' /\ todo' = todo
      BY <1>3, <2>2, StillForms DEF Still
    <3>2. QED
      BY <1>3, <3>1 DEF Behind
  <2>3. ASSUME NEW e \in Endpoint, e # x.e, SendLeg(e) \/ \E legs \in Groups[e] : AllocOrderIds(e, legs)
        PROVE  Behind(x, k)'
    <3>1. todo'[x.e] = todo[x.e]
      BY <1>1, <2>1, <2>3 DEF SendLeg, AllocOrderIds, SessionTyped, TypeOK
    <3>2. filed'[x] = filed[x]
      <4>1. CASE \E legs \in Groups[e] : AllocOrderIds(e, legs)
        BY <4>1 DEF AllocOrderIds
      <4>2. CASE SendLeg(e)
        <5>1. Begun(e) /\ x \in Label
          BY <1>1, <2>3, <4>2, SendForms
        <5>2. x.leg \in Leg => x # Current(e, x.leg)
          BY <1>1, <2>3, <5>1, CurrentForms
        <5>3. QED
          BY <1>1, <4>2, <5>1, <5>2, SendFiles
      <4>3. QED
        BY <2>3, <4>1, <4>2
    <3>3. filed[x] = None /\ x \in Bracket(x)
      BY <1>3, SentOnly, BracketForms
    <3>4. IsSent(x)'
      BY <1>1, <1>3, <3>2, <3>3, NumbersForth
    <3>5. QED
      BY <1>3, <3>1, <3>4 DEF Behind
  <2>4. CASE SendLeg(x.e)
    <3> DEFINE e == x.e
               leg == Head(todo[e])
               y == Sent(e, leg)
    <3>1. /\ y \in Requests /\ IsNew(y) /\ y.label = Current(e, leg)
          /\ toGateway' = Append(toGateway, y)
      BY <1>1, <2>1, <2>4, SentForms
    <3>2. /\ leg \in Leg /\ todo[e][1] = leg
          /\ j # 1 => j - 1 \in DOMAIN Tail(todo[e]) /\ Tail(todo[e])[j - 1] = todo[e][j]
      BY <1>1, <1>3, <2>1, <2>4, SendForms
    <3>3. CASE j = 1
      <4>1. y.label = x
        BY <1>3, <2>1, <3>1, <3>2, <3>3
      <4>2. PICK z \in Requests : z = y
        BY <3>1
      <4> HIDE DEF y
      <4>3. Len(toGateway) + 1 \in DOMAIN toGateway' /\ toGateway'[Len(toGateway) + 1] = z
        BY <1>1, <3>1, <4>2, PushForms
      <4>4. Len(toGateway) + 1 > k
        BY <1>1
      <4>5. QED
        BY <3>1, <4>1, <4>2, <4>3, <4>4 DEF Behind, IsNew
    <3>4. CASE j # 1
      <4>1. Tail(todo[e]) # <<>>
        BY <3>2, <3>4
      <4>2. ids'[e] = ids[e] /\ meant' = meant
        BY <1>1, <2>1, <2>4, <4>1, SendFiles
      <4>3. Current(e, x.leg)' = Current(e, x.leg)
        BY <2>1, <4>2, CurrentSame
      <4>4. todo'[e] = Tail(todo[e])
        BY <1>1, <2>1, <2>4 DEF SendLeg, SessionTyped, TypeOK
      <4>5. IsSent(x)'
        BY <1>3, <4>2, <4>3 DEF IsSent
      <4>6. QED
        BY <1>3, <3>2, <3>4, <4>4, <4>5 DEF Behind
    <3>5. QED
      BY <3>3, <3>4
  <2>5. ASSUME NEW e \in Endpoint, NEW legs \in Groups[e], AllocOrderIds(e, legs)
        PROVE  e # x.e
    BY <2>1, <2>5 DEF AllocOrderIds
  <2>6. QED
    BY <1>1, <2>2, <2>3, <2>4, <2>5, HistoryGrows
<1>4. QED
  BY <1>2, <1>3 DEF Behind

\* The label a living parent has, or a request for it ahead of the exit's.
LEMMA ParentKept ==
    ASSUME BaseInv, Next, CoverInv,
           \/ GatewayTakes
           \/ /\ Cut \/ (\E j \in Id : Executes(j)) \/ book' = book
              /\ \/ toGateway' = toGateway \/ toGateway' = <<>>
                 \/ \E x \in Requests : ~IsNew(x) /\ toGateway' = Append(toGateway, x),
           NEW k \in DOMAIN toGateway'
    PROVE  ParentOK(k)'
<1>1. SessionTyped /\ toGateway \in Seq(Requests) /\ DOMAIN <<>> = {}
  BY DEF BaseInv, SessionTyped
<1>2. PICK r : r = toGateway'[k]
  OBVIOUS
<1>3. SUFFICES ASSUME IsNew(r), r.label.leg # "entry", r.parent \notin early'
      PROVE  /\ Live(r.parent)' => book'[r.parent].label = Entry(r.label)
             /\ \A j \in 1 .. k - 1 :
                  IsNew(toGateway'[j]) /\ toGateway'[j].id = r.parent
                     => toGateway'[j].label = Entry(r.label)
  BY <1>2 DEF ParentOK, IsNew, Entry, Live
<1>4. r.parent \notin early
  BY <1>3, EarlyGrows
<1>5. CASE GatewayTakes
  <2>1. toGateway # <<>> /\ toGateway' = Tail(toGateway)
    BY <1>1, <1>5, GatewayHead
  <2>2. /\ k \in Nat /\ k >= 1 /\ k + 1 \in DOMAIN toGateway /\ r = toGateway[k + 1]
        /\ \A j \in 1 .. k - 1 : /\ j + 1 \in 1 .. (k + 1) - 1
                                 /\ toGateway'[j] = toGateway[j + 1]
        /\ 1 \in 1 .. (k + 1) - 1
    <3>1. DOMAIN Tail(toGateway) = 1 .. Len(toGateway) - 1 /\ Len(toGateway) \in Nat
      BY <1>1, <2>1, PopForms
    <3>2. \A j \in DOMAIN Tail(toGateway) : j + 1 \in DOMAIN toGateway
                                            /\ Tail(toGateway)[j] = toGateway[j + 1]
      BY <1>1, <2>1, PopForms
    <3>3. k \in Nat /\ k >= 1 /\ \A j \in 1 .. k - 1 : j \in DOMAIN Tail(toGateway)
      BY <2>1, <3>1
    <3>4. QED
      BY <1>2, <2>1, <3>2, <3>3
  <2>3. r \in Requests
    BY <1>1, <2>2
  <2>4. /\ Live(r.parent) => book[r.parent].label = Entry(r.label)
        /\ \A j \in 1 .. (k + 1) - 1 :
             IsNew(toGateway[j]) /\ toGateway[j].id = r.parent
                => toGateway[j].label = Entry(r.label)
    BY <1>3, <1>4, <2>2, <2>3 DEF CoverInv, ParentOK
  <2>5. r.parent \in Id
    BY <1>3, <2>3, PlacementForms DEF IsNew
  <2>6. Live(r.parent)' => book'[r.parent].label = Entry(r.label)
    <3>1. ASSUME Live(r.parent)'
          PROVE  \/ Live(r.parent) /\ Kept(r.parent)
                 \/ \E q \in Requests : /\ q = toGateway[1] /\ IsNew(q)
                                        /\ q.id = r.parent /\ book'[r.parent].label = q.label
      BY <1>1, <1>5, <2>5, <3>1, BookFrom
    <3>2. QED
      BY <2>2, <2>4, <3>1 DEF Kept
  <2>7. \A j \in 1 .. k - 1 :
            IsNew(toGateway'[j]) /\ toGateway'[j].id = r.parent
               => toGateway'[j].label = Entry(r.label)
    BY <2>2, <2>4
  <2>8. QED
    BY <2>6, <2>7
<1>6. CASE /\ Cut \/ (\E j \in Id : Executes(j)) \/ book' = book
           /\ \/ toGateway' = toGateway \/ toGateway' = <<>>
              \/ \E x \in Requests : ~IsNew(x) /\ toGateway' = Append(toGateway, x)
  <2>1. k \in DOMAIN toGateway /\ \A j \in 1 .. k : toGateway'[j] = toGateway[j]
    <3>1. CASE toGateway' = toGateway \/ toGateway' = <<>>
      BY <1>1, <3>1
    <3>2. ASSUME NEW x \in Requests, ~IsNew(x), toGateway' = Append(toGateway, x)
          PROVE  k \in DOMAIN toGateway /\ \A j \in 1 .. k : toGateway'[j] = toGateway[j]
      <4>1. toGateway'[k] # x
        BY <1>2, <1>3, <3>2
      <4>2. k \in DOMAIN toGateway /\ DOMAIN toGateway = 1 .. Len(toGateway)
        BY <1>1, <3>2, <4>1, PushForms
      <4>3. \A j \in 1 .. k : j \in DOMAIN toGateway
        BY <1>1, <4>2
      <4>4. \A j \in DOMAIN toGateway : Append(toGateway, x)[j] = toGateway[j]
        BY <1>1, PushForms
      <4>5. QED
        BY <3>2, <4>2, <4>3, <4>4
    <3>3. QED
      BY <1>6, <3>1, <3>2
  <2>2. r \in Requests /\ r = toGateway[k]
    <3>1. k \in 1 .. k
      BY <1>1, <2>1
    <3>2. QED
      BY <1>1, <1>2, <2>1, <3>1
  <2>3. /\ Live(r.parent) => book[r.parent].label = Entry(r.label)
        /\ \A j \in 1 .. k - 1 :
             IsNew(toGateway[j]) /\ toGateway[j].id = r.parent
                => toGateway[j].label = Entry(r.label)
    BY <1>3, <1>4, <2>1, <2>2 DEF CoverInv, ParentOK
  <2>4. r.parent \in Id
    BY <1>3, <2>2, PlacementForms DEF IsNew
  <2>5. Live(r.parent)' => Live(r.parent) /\ Kept(r.parent)
    BY <1>1, <1>6, <2>4, LiveKept
  <2>6. \A j \in 1 .. k - 1 : j \in 1 .. k
    BY <1>1, <2>1
  <2>7. \A j \in 1 .. k - 1 :
            IsNew(toGateway'[j]) /\ toGateway'[j].id = r.parent
               => toGateway'[j].label = Entry(r.label)
    BY <2>1, <2>3, <2>6
  <2>8. QED
    BY <2>3, <2>5, <2>7 DEF Kept
<1>7. QED
  BY <1>5, <1>6

LEMMA ParentSent ==
    ASSUME BaseInv, Next, ClaimInv, CoverInv, NEW e \in Endpoint, SendLeg(e),
           NEW k \in DOMAIN toGateway'
    PROVE  ParentOK(k)'
<1> DEFINE leg == Head(todo[e])
           x == Sent(e, leg)
<1>1. SessionTyped /\ ThreadsOK /\ toGateway \in Seq(Requests)
  BY DEF BaseInv, SessionTyped
<1>2. /\ leg \in Leg /\ ids[e]["entry"] \in Id /\ Begun(e)
      /\ x \in Requests /\ x.label = Current(e, leg) /\ x.parent = ids[e]["entry"]
      /\ toGateway' = toGateway \/ toGateway' = Append(toGateway, x)
      /\ book' = book
  BY <1>1, SendForms, SentForms, SendFiles
<1>3. /\ Current(e, leg).leg = leg /\ Current(e, leg) \in Label
      /\ Current(e, "entry") = Entry(Current(e, leg))
  BY <1>1, <1>2, CurrentForms
<1> HIDE DEF x, leg
<1> DEFINE m == toGateway'[k]
<1>4. IsNew(m) <=> IsNew(toGateway[k])'
  BY DEF IsNew
<1>5. SUFFICES ASSUME IsNew(m), m.label.leg # "entry", m.parent \notin early'
      PROVE  /\ Live(m.parent) => book[m.parent].label = Entry(m.label)
             /\ \A j \in 1 .. k - 1 :
                  IsNew(toGateway'[j]) /\ toGateway'[j].id = m.parent
                     => toGateway'[j].label = Entry(m.label)
  BY <1>2 DEF ParentOK, IsNew, Entry, Live
<1>6. m.parent \notin early
  BY <1>5, EarlyGrows
<1>7. /\ \A j \in 1 .. k - 1 : j \in DOMAIN toGateway /\ toGateway'[j] = toGateway[j]
      /\ (k \in DOMAIN toGateway /\ m = toGateway[k]) \/ m = x
  <2>1. /\ DOMAIN toGateway = 1 .. Len(toGateway) /\ Len(toGateway) \in Nat
        /\ DOMAIN Append(toGateway, x) = 1 .. Len(toGateway) + 1
        /\ \A j \in DOMAIN toGateway : Append(toGateway, x)[j] = toGateway[j]
        /\ Append(toGateway, x)[Len(toGateway) + 1] = x
    BY <1>1, <1>2, PushForms
  <2>2. CASE toGateway' = toGateway
    <3>1. \A j \in 1 .. k - 1 : j \in DOMAIN toGateway
      BY <2>1, <2>2
    <3>2. QED
      BY <2>2, <3>1
  <2>3. CASE toGateway' = Append(toGateway, x)
    <3>1. k \in 1 .. Len(toGateway) + 1
      BY <2>1, <2>3
    <3>2. \A j \in 1 .. k - 1 : j \in DOMAIN toGateway
      BY <2>1, <3>1
    <3>3. k \in DOMAIN toGateway \/ k = Len(toGateway) + 1
      BY <2>1, <3>1
    <3>4. QED
      BY <2>1, <2>3, <3>2, <3>3
  <2>4. QED
    BY <1>2, <2>2, <2>3
<1>8. PICK r \in Requests : r = m
  BY <1>1, <1>2, <1>7
<1> HIDE DEF m
<1>9. CASE k \in DOMAIN toGateway /\ m = toGateway[k]
  <2>1. /\ Live(r.parent) => book[r.parent].label = Entry(r.label)
        /\ \A j \in 1 .. k - 1 :
             IsNew(toGateway[j]) /\ toGateway[j].id = r.parent
                => toGateway[j].label = Entry(r.label)
    BY <1>5, <1>6, <1>8, <1>9 DEF CoverInv, ParentOK
  <2>2. QED
    BY <1>7, <1>8, <2>1
<1>10. CASE m = x
  <2>1. r.label = Current(e, leg) /\ Entry(r.label) = Current(e, "entry")
    BY <1>2, <1>3, <1>8, <1>10
  <2>2. PICK i \in Id : i = r.parent /\ i = ids[e]["entry"] /\ i \notin early
    BY <1>2, <1>6, <1>8, <1>10
  <2>3. \A l \in Label : Taken(i, l) => l = Current(e, "entry")
    BY <2>2 DEF ClaimInv, ClaimOK, Leg
  <2>4. Live(i) => book[i].label = Current(e, "entry")
    <3>1. Live(i) => book[i].label \in Label
      BY <1>1, BookForms, OrderForms
    <3>2. QED
      BY <2>3, <3>1 DEF Taken
  <2>5. ASSUME NEW j \in 1 .. k - 1, IsNew(toGateway'[j]), toGateway'[j].id = i
        PROVE  toGateway'[j].label = Current(e, "entry")
    <3>1. j \in DOMAIN toGateway /\ toGateway'[j] = toGateway[j] /\ toGateway[j] \in Requests
      BY <1>1, <1>7
    <3>2. toGateway[j].label \in Label
      BY <2>5, <3>1, PlacementForms DEF IsNew
    <3>3. Taken(i, toGateway[j].label)
      BY <2>5, <3>1 DEF Taken
    <3>4. QED
      BY <2>3, <3>1, <3>2, <3>3
  <2>6. QED
    BY <1>8, <2>1, <2>2, <2>4, <2>5
<1>11. QED
  BY <1>7, <1>9, <1>10

LEMMA StepsApart ==
    ASSUME BaseInv, Next
    PROVE  /\ \/ GatewayTakes \/ Cut
              \/ \E e \in Endpoint : SendLeg(e) /\ book' = book
              \/ /\ (\E j \in Id : Executes(j)) \/ book' = book
                 /\ \/ toGateway' = toGateway
                    \/ \E x \in Requests : ~IsNew(x) /\ toGateway' = Append(toGateway, x)
           /\ Cut \/ (socket => socket')
<1> USE DEF threadVars, idVars, lookupVars, orderVars, gateVars, historyVars
<1>1. SessionTyped /\ ThreadsOK
  BY DEF BaseInv
<1>2. CASE Drop \/ Restart \/ \E e \in Endpoint : ConnectFails(e)
  BY <1>2 DEF Drop, Restart, ConnectFails
<1>3. CASE ReaderTakes \/ \E j \in Id : Executes(j)
  <2>1. ASSUME NEW j \in Id, Executes(j)
        PROVE  toGateway' = toGateway /\ socket' = socket
    BY <2>1 DEF Executes
  <2>2. ReaderTakes => toGateway' = toGateway /\ socket' = socket /\ book' = book
    BY DEF ReaderTakes
  <2>3. QED
    BY <1>3, <2>1, <2>2
<1>4. CASE \E e \in Endpoint : ResolveFails(e) \/ PlacementRaises(e) \/ Connect(e)
  BY <1>4 DEF ResolveFails, PlacementRaises, Connect
<1>5. CASE \E e \in Endpoint : \E legs \in Groups[e] : AllocOrderIds(e, legs)
  BY <1>5 DEF AllocOrderIds
<1>6. CASE \E e \in Endpoint : SendLeg(e)
  BY <1>1, <1>6, SendFiles
<1>7. ASSUME NEW e \in Endpoint, Resolve(e)
      PROVE  /\ book' = book /\ socket' = socket
             /\ \/ toGateway' = toGateway
                \/ \E x \in Requests : ~IsNew(x) /\ toGateway' = Append(toGateway, x)
  <2> DEFINE x == [kind |-> "resolve", id |-> ReqId(reqSeq + 1)]
  <2>1. x \in Requests /\ ~IsNew(x)
    BY <1>1, Bounds DEF SessionTyped, Requests, Lookups, IsNew
  <2>2. /\ book' = book /\ socket' = socket
        /\ toGateway' = toGateway \/ toGateway' = Append(toGateway, x)
    BY <1>7 DEF Resolve
  <2> HIDE DEF x
  <2>3. QED
    BY <2>1, <2>2
<1>8. ASSUME NEW e \in Endpoint, NEW l \in Label, CancelOrder(e, l)
      PROVE  /\ book' = book /\ socket' = socket
             /\ \E x \in Requests : ~IsNew(x) /\ toGateway' = Append(toGateway, x)
  <2>1. Cancelled(l) \in Requests /\ toGateway' = Append(toGateway, Cancelled(l))
    BY <1>1, <1>8, FollowTyped
  <2>2. ~IsNew(Cancelled(l))
    BY DEF IsNew, Cancelled
  <2>3. QED
    BY <1>8, <2>1, <2>2 DEF CancelOrder
<1>9. ASSUME NEW e \in Endpoint, NEW l \in Label, NEW c \in Change, ModifyOrder(e, l, c)
      PROVE  /\ book' = book /\ socket' = socket
             /\ \E x \in Requests : ~IsNew(x) /\ toGateway' = Append(toGateway, x)
  <2>1. Changed(e, l, c) \in Requests /\ toGateway' = Append(toGateway, Changed(e, l, c))
    BY <1>1, <1>9, FollowTyped
  <2>2. ~IsNew(Changed(e, l, c))
    BY DEF IsNew, Changed
  <2>3. QED
    BY <1>9, <2>1, <2>2 DEF ModifyOrder
<1>10. ASSUME NEW e \in Endpoint, NEW l \in Label,
              CancelRaises(e, l) \/ \E c \in Change : ModifyRaises(e, l, c)
       PROVE  book' = book /\ socket' = socket /\ toGateway' = toGateway
  BY <1>10, RaisesAlone
<1>11. CASE GatewayTakes
  BY <1>11 DEF GatewayTakes
<1>12. QED
  BY <1>2, <1>3, <1>4, <1>5, <1>6, <1>7, <1>8, <1>9, <1>10, <1>11 DEF Next

LEMMA FiledStays ==
    ASSUME BaseInv, Next, NEW l \in Label, meant[l] # {}
    PROVE  /\ AllFiled(l) => AllFiled(l)' /\ AllKnown(l)'
           /\ ~Restart /\ AllKnown(l) => AllKnown(l)'
           /\ \A x \in Bracket(l) : meant'[x] = {} <=> meant[x] = {}
           /\ ExitsOf(l)' = ExitsOf(l)
<1>1. \A x \in Bracket(l) : x \in Label /\ (meant'[x] = {} <=> meant[x] = {})
  BY BracketForms, HistoryGrows
<1>2. \A x \in Bracket(l) : /\ filed[x] # None => filed'[x] # None
                            /\ ~Restart /\ (filed[x] # None \/ IsSent(x))
                                 => (filed'[x] # None \/ IsSent(x)')
  BY <1>1, HistoryGrows, NumbersForth
<1>3. QED
  BY <1>1, <1>2 DEF AllFiled, AllKnown, ExitsOf

\* The same of a request, whatever its place.
LEMMA BracketIs ==
    ASSUME NEW k, NEW m, m = toGateway'[k],
           m.kind = "place" =>
             /\ AllKnown(m.label)'
             /\ m.transmit =>
                  AllFiled(m.label)' /\ \A x \in Bracket(m.label) : ~Behind(x, k)'
             /\ IsNew(m) => \A j \in Id : HasId(m.label, j)' => j = m.id
             /\ IsNew(m) /\ m.label.leg = "entry" =>
                  \A x \in ExitsOf(m.label)' : Behind(x, k)'
    PROVE  BracketOK(k)'
<1>1. /\ AllKnown(m.label)' <=> AllKnown(toGateway[k].label)'
      /\ AllFiled(m.label)' <=> AllFiled(toGateway[k].label)'
      /\ ExitsOf(m.label)' = ExitsOf(toGateway[k].label)'
      /\ IsNew(m) <=> IsNew(toGateway[k])'
  BY DEF AllKnown, AllFiled, ExitsOf, IsNew, Bracket
<1>2. \A j : HasId(m.label, j)' <=> HasId(toGateway[k].label, j)'
  BY DEF HasId, IsSent, Current
<1>3. Bracket(m.label) = Bracket(toGateway[k].label)'
  BY DEF Bracket
<1>4. QED
  BY <1>1, <1>2, <1>3 DEF BracketOK

LEMMA BracketStays ==
    ASSUME BaseInv, BaseInv', Next, CoverInv, NEW k \in DOMAIN toGateway',
           NEW p \in DOMAIN toGateway, Place(p, k), toGateway'[k] = toGateway[p]
    PROVE  BracketOK(k)'
<1>1. /\ SessionTyped /\ MeantOK /\ toGateway \in Seq(Requests) /\ RequestOK(toGateway[p])
      /\ DOMAIN toGateway = 1 .. Len(toGateway) /\ Len(toGateway) \in Nat
  BY DEF BaseInv, SessionTyped, RequestsOK
<1>2. socket /\ socket' /\ ~Restart
  <2>1. toGateway # <<>>
    BY <1>1, PopForms
  <2>2. toGateway' # <<>>
    BY DEF SessionTyped
  <2>3. QED
    BY <2>1, <2>2 DEF BaseInv, LinesOK, Restart, Cut
<1>3. PICK m \in Requests : m = toGateway[p]
  BY <1>1
<1>4. SUFFICES ASSUME m.kind = "place"
               PROVE  /\ AllKnown(m.label)'
                      /\ m.transmit =>
                           AllFiled(m.label)' /\ \A x \in Bracket(m.label) : ~Behind(x, k)'
                      /\ IsNew(m) => \A j \in Id : HasId(m.label, j)' => j = m.id
                      /\ IsNew(m) /\ m.label.leg = "entry" =>
                           \A x \in ExitsOf(m.label)' : Behind(x, k)'
  BY <1>3, BracketIs
<1>5. m.label \in Label /\ meant[m.label] # {}
  BY <1>1, <1>3, <1>4, PlacementForms DEF RequestOK
<1>6. /\ AllKnown(m.label)
      /\ m.transmit => AllFiled(m.label) /\ \A x \in Bracket(m.label) : ~Behind(x, p)
      /\ IsNew(m) => \A j \in Id : HasId(m.label, j) => j = m.id
      /\ IsNew(m) /\ m.label.leg = "entry" => \A x \in ExitsOf(m.label) : Behind(x, p)
  BY <1>3, <1>4 DEF CoverInv, BracketOK
<1>7. /\ AllKnown(m.label)' /\ (m.transmit => AllFiled(m.label)')
      /\ ExitsOf(m.label)' = ExitsOf(m.label)
  BY <1>2, <1>5, <1>6, FiledStays
<1>8. p \in Nat /\ k \in Nat /\ k \in 0 .. Len(toGateway)
  BY <1>1 DEF Place
<1>9. m.transmit => \A x \in Bracket(m.label) : ~Behind(x, k)'
  BY <1>5, <1>6, <1>8, BehindBack
<1>10. m.label \in Bracket(m.label) /\ \A x \in ExitsOf(m.label) : x \in Label
  BY <1>5, BracketForms DEF ExitsOf
<1>11. IsNew(m) => \A j \in Id : HasId(m.label, j)' => j = m.id
  BY <1>5, <1>6, <1>10, NumbersBack
<1>12. IsNew(m) /\ m.label.leg = "entry" => \A x \in ExitsOf(m.label)' : Behind(x, k)'
  BY <1>2, <1>6, <1>7, <1>8, <1>10, BehindForth
<1>13. QED
  BY <1>7, <1>9, <1>11, <1>12

\* a modification comes after all of its bracket
LEMMA BracketChange ==
    ASSUME BaseInv, BaseInv', Next, CoverInv, NEW m \in Requests, ~IsNew(m),
           Still, toGateway' = Append(toGateway, m), NEW k \in Nat, k = Len(toGateway) + 1
    PROVE  BracketOK(k)'
<1>1. /\ SessionTyped /\ MeantOK /\ toGateway \in Seq(Requests)
      /\ k \in DOMAIN toGateway' /\ toGateway'[k] = m /\ k \in Nat
      /\ \A j \in DOMAIN toGateway' : ~(j > k)
  <2>1. SessionTyped /\ MeantOK /\ toGateway \in Seq(Requests)
    BY DEF BaseInv, SessionTyped
  <2>2. /\ k \in DOMAIN toGateway' /\ toGateway'[k] = m /\ k \in Nat
        /\ DOMAIN toGateway' = 1 .. k
    BY <2>1, PushForms
  <2>3. QED
    BY <2>1, <2>2
<1>2. SUFFICES ASSUME m.kind = "place"
               PROVE  /\ AllKnown(m.label)' /\ AllFiled(m.label)'
                      /\ \A x \in Bracket(m.label) : ~Behind(x, k)'
  BY <1>1, BracketIs
<1>3. m.label \in Label /\ m.id \in Id /\ ~m.new
  BY <1>2, PlacementForms DEF IsNew
<1>4. filed'[m.label] = m.id
  <2>1. RequestOK(toGateway[k])'
    BY <1>1 DEF BaseInv, RequestsOK
  <2>2. QED
    BY <1>1, <1>2, <1>3, <2>1 DEF RequestOK, IsChange
<1>5. filed[m.label] # None /\ meant[m.label] # {}
  <2>1. filed[m.label] # None
    BY <1>3, <1>4, NoneAssumption, Bounds DEF Still, Id
  <2>2. QED
    BY <1>1, <1>3, <2>1 DEF MeantOK, LabelOK
<1>6. AllFiled(m.label)
  BY <1>3, <1>5 DEF CoverInv
<1>7. ASSUME NEW x \in Bracket(m.label), IsSent(x)' PROVE FALSE
  <2>1. x \in Label
    BY <1>3, BracketForms
  <2>2. IsSent(x)
    BY <1>7, <2>1, StillForms
  <2>3. filed[x] = None /\ meant[x] # {}
    BY <2>1, <2>2, SentOnly, BracketForms
  <2>4. QED
    BY <1>6, <2>3 DEF AllFiled
<1>8. \A x \in Bracket(m.label) : ~Behind(x, k)'
  BY <1>1, <1>7 DEF Behind
<1>9. QED
  BY <1>3, <1>5, <1>6, <1>8, FiledStays

LEMMA BracketSent ==
    ASSUME BaseInv, Next, CoverInv, NEW e \in Endpoint, SendLeg(e),
           toGateway' = Append(toGateway, Sent(e, Head(todo[e]))),
           NEW k \in Nat, k = Len(toGateway) + 1
    PROVE  BracketOK(k)'
<1> DEFINE leg == Head(todo[e])
<1>1. SessionTyped /\ ThreadsOK /\ MeantOK /\ toGateway \in Seq(Requests) /\ ThreadOK(e)
  BY DEF BaseInv, SessionTyped, ThreadsOK
<1>2. PICK m \in Requests : m = Sent(e, leg)
  BY <1>1, SentForms
<1>3. /\ m.kind = "place" /\ m.id = ids[e][leg] /\ m.label = Current(e, leg)
      /\ m.transmit <=> Tail(todo[e]) = <<>>
  BY <1>1, <1>2, SentForms
<1>4. /\ leg \in Leg /\ Begun(e) /\ pc[e] = "sending" /\ ids[e][leg] \in Id
      /\ todo[e][1] = leg
      /\ \A j \in DOMAIN todo[e] :
           j # 1 => j - 1 \in DOMAIN Tail(todo[e]) /\ Tail(todo[e])[j - 1] = todo[e][j]
  BY <1>1, SendForms
<1>5. /\ m.label \in Label /\ m.label.e = e /\ m.label.leg = leg
      /\ Current(e, m.label.leg) = m.label
  BY <1>1, <1>3, <1>4, CurrentForms
<1>6. ids[e][leg] # None
  BY <1>4, NoneAssumption, Bounds DEF Id
<1>7. IsSent(m.label)
  BY <1>5, <1>6 DEF IsSent
<1>8. /\ meant[m.label] # {} /\ filed[m.label] = None
      /\ \A y \in Bracket(m.label) :
           /\ filed[y] = None /\ y = Current(e, y.leg) /\ y \in Label /\ y.e = e /\ y.leg \in Leg
           /\ meant[y] # {} => IsSent(y)
  BY <1>5, <1>7, SentOnly, BracketForms, LabelForms
<1>9. AllKnown(m.label)'
  <2>1. AllKnown(m.label)
    BY <1>8 DEF AllKnown
  <2>2. ~Restart
    BY <1>4 DEF Restart, SendLeg, Cut
  <2>3. QED
    BY <1>5, <1>8, <2>1, <2>2, FiledStays
<1>10. /\ k \in DOMAIN toGateway' /\ toGateway'[k] = m /\ k \in Nat
       /\ \A j \in DOMAIN toGateway' : ~(j > k)
  <2>1. /\ k \in DOMAIN toGateway' /\ toGateway'[k] = m /\ k \in Nat
        /\ DOMAIN toGateway' = 1 .. k
    BY <1>1, <1>2, PushForms
  <2>2. QED
    BY <2>1
<1>11. /\ meant' = meant
       /\ \/ /\ Tail(todo[e]) # <<>> /\ ids'[e] = ids[e] /\ filed' = filed
          \/ /\ Tail(todo[e]) = <<>> /\ ids'[e] = NoIds
             /\ \A l \in Label : filed'[l] = IF l.leg \in Leg /\ l = Current(e, l.leg)
                                             THEN ids[e][l.leg] ELSE filed[l]
  BY <1>1, SendFiles
<1>12. ASSUME Tail(todo[e]) = <<>>
       PROVE  AllFiled(m.label)' /\ \A x \in Bracket(m.label) : ~Behind(x, k)'
  <2>1. \A x \in Bracket(m.label) : meant[x] # {} => ids[e][x.leg] # None
    BY <1>8 DEF IsSent
  <2>2. \A x \in Bracket(m.label) : filed'[x] = ids[e][x.leg]
    BY <1>8, <1>11, <1>12
  <2>3. AllFiled(m.label)'
    BY <1>11, <2>1, <2>2 DEF AllFiled
  <2>4. \A x \in Bracket(m.label) : ~IsSent(x)'
    BY <1>8, <1>11, <1>12 DEF IsSent, NoIds
  <2>5. QED
    BY <1>10, <2>3, <2>4 DEF Behind
<1>13. \A j \in Id : HasId(m.label, j)' => j = m.id
  <2>1. m.label \in Bracket(m.label)
    BY <1>5, BracketForms
  <2>2. \A j \in Id : j # None
    BY NoneAssumption, Bounds DEF Id
  <2>3. \A j \in Id : HasId(m.label, j)' => HasId(m.label, j)
    BY <1>5, <1>8, <2>1, NumbersBack
  <2>4. \A j \in Id : HasId(m.label, j) => j = m.id
    BY <1>3, <1>5, <1>8, <2>2 DEF HasId
  <2>5. QED
    BY <2>3, <2>4
<1>14. ASSUME leg = "entry", NEW x \in ExitsOf(m.label)'
       PROVE  Behind(x, k)'
  <2>1. x \in Bracket(m.label) /\ x.leg # "entry" /\ meant[x] # {}
    BY <1>11, <1>14 DEF ExitsOf
  <2>2. IsSent(x) /\ x = Current(e, x.leg) /\ x.e = e /\ x.leg \in Leg
    BY <1>8, <2>1
  <2>3. PICK j \in DOMAIN todo[e] : todo[e][j] = x.leg
    BY <1>1, <1>4, <1>14, <2>2 DEF ThreadOK, IsSent
  <2>4. j # 1 /\ j - 1 \in DOMAIN Tail(todo[e]) /\ Tail(todo[e])[j - 1] = x.leg
    BY <1>4, <1>14, <2>1, <2>3
  <2>5. Tail(todo[e]) # <<>>
    BY <2>4
  <2>6. todo'[e] = Tail(todo[e])
    BY <1>1 DEF SendLeg, SessionTyped, TypeOK
  <2>7. Current(e, x.leg)' = Current(e, x.leg)
    BY <1>11, <2>2, CurrentSame
  <2>8. IsSent(x)'
    BY <1>11, <2>2, <2>5, <2>7 DEF IsSent
  <2>9. QED
    BY <2>2, <2>4, <2>6, <2>8 DEF Behind
<1> HIDE DEF leg
<1>15. QED
  BY <1>3, <1>5, <1>9, <1>10, <1>12, <1>13, <1>14, BracketIs

LEMMA RequestsOrdered ==
    ASSUME BaseInv, BaseInv', ClaimInv, CoverInv, Next, NEW k \in DOMAIN toGateway'
    PROVE  ParentOK(k)' /\ BracketOK(k)'
<1>1. /\ SessionTyped /\ ThreadsOK /\ toGateway \in Seq(Requests)
      /\ DOMAIN toGateway = 1 .. Len(toGateway) /\ Len(toGateway) \in Nat
      /\ toGateway' \in Seq(Requests)
  BY DEF BaseInv, SessionTyped
<1>2. k \in Nat
  BY <1>1
<1>3. ASSUME k \in DOMAIN toGateway, toGateway'[k] = toGateway[k], Place(k, k)
      PROVE  BracketOK(k)'
  BY <1>2, <1>3, BracketStays
<1>4. CASE GatewayTakes
  <2>1. toGateway # <<>> /\ toGateway' = Tail(toGateway)
    BY <1>1, <1>4, GatewayHead
  <2>2. k + 1 \in DOMAIN toGateway /\ toGateway'[k] = toGateway[k + 1]
    BY <1>1, <2>1, PopForms
  <2>3. PICK p \in DOMAIN toGateway : p = k + 1
    BY <2>2
  <2>4. Place(p, k)
    BY <2>1, <2>3 DEF Place
  <2>5. BracketOK(k)'
    BY <2>2, <2>3, <2>4, BracketStays
  <2>6. QED
    BY <1>4, <2>5, ParentKept
<1>5. CASE Cut
  <2>1. toGateway' = <<>>
    BY <1>5 DEF Cut
  <2>2. QED
    BY <2>1
<1>6. ASSUME NEW e \in Endpoint, SendLeg(e)
      PROVE  ParentOK(k)' /\ BracketOK(k)'
  <2>1. PICK m \in Requests : m = Sent(e, Head(todo[e]))
    BY <1>1, <1>6, SentForms
  <2>2. toGateway' = toGateway \/ toGateway' = Append(toGateway, m)
    BY <1>1, <1>6, <2>1, SentForms
  <2>3. \/ k \in DOMAIN toGateway /\ toGateway'[k] = toGateway[k]
        \/ toGateway' = Append(toGateway, m) /\ k = Len(toGateway) + 1
    BY <1>1, <2>2, PushForms
  <2>4. Place(k, k)
    BY <1>6 DEF Place
  <2>5. QED
    BY <1>2, <1>3, <1>6, <2>1, <2>3, <2>4, BracketSent, ParentSent
<1>7. ASSUME (\E j \in Id : Executes(j)) \/ book' = book, toGateway' = toGateway
      PROVE  ParentOK(k)' /\ BracketOK(k)'
  <2>1. Place(k, k)
    BY <1>7 DEF Place
  <2>2. QED
    BY <1>3, <1>7, <2>1, ParentKept
<1>8. ASSUME (\E j \in Id : Executes(j)) \/ book' = book,
             NEW m \in Requests, ~IsNew(m), toGateway' = Append(toGateway, m), ~Cut,
             \A e \in Endpoint : ~SendLeg(e)
      PROVE  ParentOK(k)' /\ BracketOK(k)'
  <2>1. Place(k, k)
    BY <1>8 DEF Place
  <2>2. Still
    <3>1. \A e \in Endpoint : \A legs \in Groups[e] : ~AllocOrderIds(e, legs)
      <4>1. toGateway' # toGateway
        <5>1. Len(toGateway) + 1 \in DOMAIN toGateway'
          BY <1>1, <1>8, PushForms
        <5>2. Len(toGateway) + 1 \notin DOMAIN toGateway
          BY <1>1
        <5>3. QED
          BY <5>1, <5>2
      <4>2. QED
        BY <4>1 DEF AllocOrderIds, gateVars
    <3>2. ~Restart
      BY <1>8 DEF Restart
    <3>3. QED
      BY <1>8, <3>1, <3>2, HistoryGrows
  <2>3. \/ k \in DOMAIN toGateway /\ toGateway'[k] = toGateway[k]
        \/ k = Len(toGateway) + 1
    BY <1>1, <1>8, PushForms
  <2>4. BracketOK(k)'
    BY <1>2, <1>3, <1>8, <2>1, <2>2, <2>3, BracketChange
  <2>5. QED
    BY <1>8, <2>4, ParentKept
<1>9. QED
  BY <1>4, <1>5, <1>6, <1>7, <1>8, StepsApart

\* the order's label, which stays the same
LEMMA IdsApart ==
    ASSUME BaseInv, Next, CoverInv, NEW i \in Id, NEW j \in Id,
           Live(i)', HasId(book[i].label, j)'
    PROVE  j = i
<1>1. SessionTyped /\ ThreadsOK /\ MeantOK /\ RequestsOK /\ toGateway \in Seq(Requests)
  BY DEF BaseInv, SessionTyped
<1>2. \/ Live(i) /\ Kept(i)
      \/ \E m \in Requests : /\ toGateway # <<>> /\ m = toGateway[1] /\ IsNew(m)
                             /\ m.id = i /\ book'[i].label = m.label
  BY <1>1, BookFrom, LiveKept, StepsApart
<1>3. CASE Live(i) /\ Kept(i)
  <2>1. PICK l \in Label : l = book[i].label /\ l = book'[i].label
    BY <1>1, <1>3, BookForms, OrderForms DEF Kept
  <2>2. HasId(l, j)'
    BY <2>1 DEF HasId, IsSent, Current
  <2>3. meant[l] # {} /\ l \in Bracket(l)
    BY <1>1, <1>3, <2>1, BracketForms DEF MeantOK, Kept
  <2>4. HasId(l, j)
    BY <2>2, <2>3, NumbersBack
  <2>5. HasId(book[i].label, j)
    BY <2>1, <2>4 DEF HasId, IsSent, Current
  <2>6. QED
    BY <1>3, <2>5 DEF CoverInv
<1>4. ASSUME NEW m \in Requests, toGateway # <<>>, m = toGateway[1], IsNew(m), m.id = i,
             book'[i].label = m.label
      PROVE  j = i
  <2>1. PICK l \in Label : l = m.label /\ l = book'[i].label
    BY <1>4, PlacementForms DEF IsNew
  <2>2. HasId(l, j)'
    BY <2>1 DEF HasId, IsSent, Current
  <2>3. 1 \in DOMAIN toGateway
    BY <1>1, <1>4, PopForms
  <2>4. meant[l] # {} /\ l \in Bracket(l)
    BY <1>1, <1>4, <2>1, <2>3, BracketForms DEF RequestsOK, RequestOK, IsNew
  <2>5. HasId(l, j)
    BY <2>2, <2>4, NumbersBack
  <2>6. HasId(m.label, j)
    BY <2>1, <2>5 DEF HasId, IsSent, Current
  <2>7. BracketOK(1)
    BY <2>3 DEF CoverInv
  <2>8. QED
    BY <1>4, <2>6, <2>7 DEF BracketOK, IsNew
<1>5. QED
  BY <1>2, <1>3, <1>4

\* What a request releases is of its own bracket.
LEMMA ReleasedOnly ==
    ASSUME BaseInv, CoverInv, toGateway # <<>>, NEW m \in Requests, m = toGateway[1],
           Modified(m) \/ Accepted(m), NEW i \in Id, i \notin early, Live(i), i \in Released(m)
    PROVE  m.transmit /\ book[i].label \in Bracket(m.label)
<1>1. /\ SessionTyped /\ toGateway \in Seq(Requests) /\ 1 \in DOMAIN toGateway
      /\ RequestOK(m)
  BY PopForms DEF BaseInv, SessionTyped, RequestsOK
<1>2. m.kind = "place" /\ m.label \in Label /\ m.transmit /\ m.new \in BOOLEAN
  BY PlacementForms DEF Modified, Accepted, IsNew, Released
<1>3. m.label \in Bracket(m.label) /\ Entry(m.label) \in Bracket(m.label)
  BY <1>2, BracketForms
<1>4. i \in Siblings(m.label) \/ i = m.parent
  BY DEF Released
<1>5. CASE i \in Siblings(m.label)
  BY <1>2, <1>5 DEF Siblings
<1>6. CASE i = m.parent /\ m.parent = m.id
  <2>1. Modified(m)
    BY <1>6 DEF Accepted
  <2>2. QED
    BY <1>2, <1>3, <1>6, <2>1 DEF Modified
<1>7. CASE i = m.parent /\ m.parent # m.id
  <2>1. m.new /\ m.label.leg # "entry"
    BY <1>1, <1>2, <1>7 DEF RequestOK, IsNew, IsChange
  <2>2. ParentOK(1)
    BY <1>1 DEF CoverInv
  <2>3. book[i].label = Entry(m.label)
    BY <1>2, <1>7, <2>1, <2>2 DEF ParentOK, IsNew
  <2>4. QED
    BY <1>2, <1>3, <2>3
<1>8. QED
  BY <1>4, <1>5, <1>6, <1>7

LEMMA StruckStays ==
    ASSUME BaseInv, Next, NEW x \in Label, Struck(x), ~Restart \/ filed[x] # None
    PROVE  Struck(x)'
<1>1. CASE "cancel" \in meant[x]
  <2>1. "cancel" \in meant'[x]
    BY <1>1, HistoryGrows
  <2>2. QED
    BY <2>1 DEF Struck
<1>2. ASSUME NEW j \in Id, NEW l \in Label \ {x}, HasId(x, j), filed[l] = j,
             "cancel" \in meant[l]
      PROVE  Struck(x)'
  <2>1. j # None
    BY NoneAssumption, Bounds DEF Id
  <2>2. filed'[l] = j /\ "cancel" \in meant'[l]
    BY <1>2, <2>1, HistoryGrows
  <2>3. HasId(x, j)'
    <3>1. CASE ~Restart
      BY <1>2, <3>1, NumbersForth
    <3>2. CASE filed[x] # None
      <4>1. ~IsSent(x)
        BY <3>2, SentOnly, BracketForms
      <4>2. filed'[x] = j
        BY <1>2, <3>2, <4>1, HistoryGrows DEF HasId
      <4>3. QED
        BY <4>2 DEF HasId
    <3>3. QED
      BY <3>1, <3>2
  <2>4. QED
    BY <2>2, <2>3 DEF Struck
<1>3. QED
  BY <1>1, <1>2 DEF Struck

LEMMA CoveredGateway ==
    ASSUME BaseInv, BaseInv', Next, CoverInv, GatewayTakes,
           NEW i \in Id, i \notin early, Live(i), Kept(i), Live(i)',
           NEW l \in Label, l = book[i].label, l.leg = "entry",
           \A y \in ExitsOf(l) : ~Struck(y),
           NEW x \in ExitsOf(l), x \notin rejected', Covered(i, x)
    PROVE  Covered(i, x)'
<1>1. /\ SessionTyped /\ MeantOK /\ RequestsOK /\ toGateway \in Seq(Requests)
  BY DEF BaseInv, SessionTyped
<1>2. PICK m \in Requests : m = Head(toGateway)
  BY <1>1, GatewayHead
<1>3. /\ toGateway # <<>> /\ toGateway' = Tail(toGateway)
      /\ m = toGateway[1] /\ 1 \in DOMAIN toGateway
  BY <1>1, <1>2, GatewayHead, PopForms
<1>4. /\ x \in Label /\ x.e = l.e /\ x.n = l.n /\ x.leg # "entry" /\ meant[x] # {}
      /\ EntryOK(i) /\ AllKnown(l)
  BY <1>1, BracketForms DEF ExitsOf, CoverInv, EntryOK
<1>5. \A z \in Label : l \in Bracket(z) <=> x \in Bracket(z)
  BY <1>4, BracketForms
\* an exit that the Gateway has
<1>6. ASSUME NEW j \in Id, Live(j), book[j].label = x
      PROVE  Live(j)' /\ book'[j].label = x
             /\ (book[j].state = "working" => book'[j].state = "working")
  <2>1. book[j] # None /\ j # i
    BY <1>4, <1>6 DEF Live
  <2>2. CASE book'[j] = book[j]
    BY <1>6, <2>2 DEF Live
  <2>3. CASE Modified(m)
    <3>1. CASE j = m.id
      BY <1>6, <2>3, <3>1 DEF Modified, Kept
    <3>2. CASE j # m.id
      BY <1>6, <2>2, <2>3, <3>2 DEF Modified, Spread, Kept
    <3>3. QED
      BY <3>1, <3>2
  <2>4. CASE Accepted(m)
    <3>1. j # m.id
      BY <1>6, <2>4 DEF Accepted
    <3>2. QED
      BY <1>6, <2>2, <2>4, <3>1 DEF Accepted, Spread, Kept
  <2>5. CASE Refused(m) \/ Answered(m)
    BY <2>2, <2>5 DEF Refused, Answered
  <2>6. CASE Dropped(m)
    <3> SUFFICES ASSUME Live(m.id), j \in Ends(book[m.id].label) PROVE FALSE
      BY <2>2, <2>6 DEF Dropped
    <3>1. m.id \in Id /\ m.label \in Label /\ m.kind = "cancel"
      BY <2>6, PlacementForms DEF Dropped
    <3>2. i \notin Ends(book[m.id].label)
      BY <2>6 DEF Dropped, Over
    <3>3. PICK y \in Label : y = book[m.id].label
      BY <1>1, <3>1, BookForms, OrderForms
    <3>4. x \in Bracket(y) /\ i \in Siblings(y)
      BY <1>5, <1>6, <3>3 DEF Ends, Siblings
    <3>5. y.leg # "entry"
      BY <3>2, <3>3, <3>4 DEF Ends
    <3>6. y \in ExitsOf(l)
      <4>1. y \in Bracket(l)
        BY <1>4, <3>3, <3>4, BracketForms
      <4>2. meant[y] # {}
        BY <1>1, <3>1, <3>3 DEF MeantOK, Live
      <4>3. QED
        BY <3>5, <4>1, <4>2 DEF ExitsOf
    <3>7. filed[m.label] = m.id /\ "cancel" \in meant[m.label]
      BY <1>1, <1>3, <3>1 DEF RequestsOK, RequestOK
    <3>8. HasId(y, m.id)
      <4>1. PICK n \in Id : HasId(y, n)
        <5>1. filed[y] # None \/ IsSent(y)
          BY <1>4, <3>6 DEF AllKnown, ExitsOf
        <5>2. filed[y] # None => filed[y] \in Id
          BY <1>1 DEF SessionTyped, TypeOK, Optional
        <5>3. IsSent(y) => ids[y.e][y.leg] \in Id
          BY SentOnly
        <5>4. QED
          BY <5>1, <5>2, <5>3 DEF HasId
      <4>2. HasId(book[m.id].label, n)
        BY <3>3, <4>1 DEF HasId, IsSent, Current
      <4>3. n = m.id
        BY <3>1, <4>2 DEF CoverInv
      <4>4. QED
        BY <4>1, <4>3
    <3>9. Struck(y)
      BY <3>1, <3>7, <3>8 DEF Struck
    <3>10. QED
      BY <3>6, <3>9
  <2>7. QED
    BY <1>1, <1>2, <2>3, <2>4, <2>5, <2>6, GatewayCases
\* what sets the entry working comes after its exits, and sets them working
<1>7. ASSUME book[i].state # "working", book'[i].state = "working"
      PROVE  /\ m.transmit /\ l \in Bracket(m.label) /\ m.label \in Label
             /\ Modified(m) \/ Accepted(m)
  <2>1. book'[i] # book[i]
    BY <1>7
  <2>2. Modified(m) \/ Accepted(m)
    BY <1>1, <1>2, <2>1, GatewayCases DEF Refused, Answered, Dropped, Over
  <2>3. i \in Released(m)
    BY <1>7, <2>1, <2>2 DEF Modified, Accepted, Spread
  <2>4. m.transmit /\ book[i].label \in Bracket(m.label)
    BY <1>3, <2>2, <2>3, ReleasedOnly
  <2>5. m.label \in Label
    BY <2>2, PlacementForms DEF Modified, Accepted, IsNew
  <2>6. QED
    BY <2>2, <2>4, <2>5
<1>8. m.transmit /\ (Modified(m) \/ Accepted(m)) => \A y \in Bracket(m.label) : ~Behind(y, 1)
  BY <1>3 DEF CoverInv, BracketOK, Modified, Accepted, IsNew
<1>9. ASSUME NEW j \in Id, Live(j), book[j].label = x,
             book[i].state = "working" => book[j].state = "working"
      PROVE  Covered(i, x)'
  <2>1. ASSUME book[i].state # "working", book'[i].state = "working"
        PROVE  book'[j].state = "working"
    <3>1. j \in Released(m) /\ (Modified(m) \/ Accepted(m))
      BY <1>5, <1>7, <1>9, <2>1 DEF Released, Siblings
    <3>2. CASE Modified(m)
      BY <1>9, <3>1, <3>2 DEF Modified, Spread
    <3>3. CASE Accepted(m)
      BY <1>9, <3>1, <3>3 DEF Accepted, Spread
    <3>4. QED
      BY <3>1, <3>2, <3>3
  <2>2. QED
    BY <1>6, <1>9, <2>1 DEF Covered
\* an exit that it has yet to take
<1>10. ASSUME book[i].state = "held", Behind(x, 0), ~Behind(x, 1)
       PROVE  Covered(i, x)'
  <2>1. IsNew(m) /\ m.label = x
    <3>1. /\ DOMAIN toGateway \subseteq Int
          /\ \A j \in DOMAIN toGateway : j > 0 => j = 1 \/ j > 1
      BY <1>1
    <3>2. QED
      BY <1>3, <1>10, <3>1 DEF Behind
  <2>2. Accepted(m)
    <3>1. RequestOK(m) /\ m.new /\ m.label.leg # "entry"
      BY <1>1, <1>3, <1>4, <2>1 DEF RequestsOK, IsNew
    <3>2. ~Modified(m)
      BY <2>1, <3>1 DEF Modified, RequestOK
    <3>3. ~Refused(m)
      BY <2>1, <3>1 DEF Refused, Refuses
    <3>4. ~Dropped(m) /\ ~Answered(m)
      BY <2>1 DEF Dropped, Answered, IsNew
    <3>5. QED
      BY <1>1, <1>2, <3>2, <3>3, <3>4, GatewayCases
  <2>3. m.id \in Id /\ Live(m.id)' /\ book'[m.id].label = x
    BY <2>1, <2>2, PlacementForms DEF Accepted, IsNew
  <2>4. book'[i].state = "working" => book'[m.id].state = "working"
    BY <1>7, <1>10, <2>2 DEF Accepted
  <2>5. QED
    BY <2>3, <2>4 DEF Covered
<1>11. ASSUME book[i].state = "held", Behind(x, 1)
       PROVE  Covered(i, x)'
  <2>1. book'[i].state # "working"
    BY <1>5, <1>7, <1>8, <1>11
  <2>2. book'[i].state = "held"
    BY <2>1 DEF Live
  <2>3. Behind(x, 0)'
    <3>1. socket /\ socket'
      BY <1>3 DEF BaseInv, LinesOK, GatewayTakes, idVars
    <3>2. Place(1, 0)
      BY <1>3 DEF Place
    <3>3. 0 \in 0 .. Len(toGateway) /\ 1 \in Nat
      BY <1>1
    <3>4. QED
      BY <1>4, <1>11, <3>1, <3>2, <3>3, BehindForth
  <2>4. QED
    BY <2>2, <2>3 DEF Covered
<1>12. QED
  BY <1>9, <1>10, <1>11 DEF Covered

LEMMA CoveredRest ==
    ASSUME BaseInv, BaseInv', Next, CoverInv,
           Cut \/ (\E q \in Id : Executes(q)) \/ book' = book, ~GatewayTakes,
           NEW i \in Id, Live(i), Live(i)', NEW l \in Label, l = book[i].label, l.leg = "entry",
           NEW x \in ExitsOf(l), Covered(i, x)
    PROVE  Covered(i, x)'
<1>1. SessionTyped /\ ThreadsOK /\ toGateway \in Seq(Requests)
  BY DEF BaseInv, SessionTyped
<1>2. /\ x \in Label /\ x.e = l.e /\ x.n = l.n /\ x.leg # "entry"
      /\ \A z \in Label : l \in Bracket(z) <=> x \in Bracket(z)
  BY BracketForms DEF ExitsOf
<1>3. book'[i] = book[i]
  <2>1. CASE Cut
    BY <1>1, <2>1, CutBook DEF Live
  <2>2. CASE \E q \in Id : Executes(q)
    BY <1>1, <2>2, ExecutesBook DEF Over
  <2>3. QED
    BY <2>1, <2>2
<1>4. ASSUME NEW j \in Id, Live(j), book[j].label = x,
             book[i].state = "working" => book[j].state = "working"
      PROVE  Covered(i, x)'
  <2>1. CASE book'[j] = book[j]
    BY <1>3, <1>4, <2>1 DEF Covered, Live
  <2>2. CASE Cut
    <3>1. book[i].state = "working" /\ book[j] # None
      BY <1>1, <1>4, <2>2, CutBook DEF Live, Cut
    <3>2. book'[j] # None /\ book'[j].label = x /\ book'[j].state = "working"
      BY <1>1, <1>4, <2>2, <3>1, CutBook
    <3>3. QED
      BY <3>2 DEF Covered, Live
  <2>3. ASSUME NEW q \in Id, Executes(q)
        PROVE  book'[j] = book[j]
    <3>1. SUFFICES ASSUME Over(j) PROVE FALSE
      BY <1>1, <2>3, ExecutesBook
    <3>2. j = q \/ book[q].label.leg # "entry"
      BY <1>1, <2>3, <3>1, ExecutesBook
    <3>3. book[q].label.leg # "entry"
      BY <1>2, <1>4, <3>2
    <3>4. j \in Siblings(book[q].label) /\ i \notin Siblings(book[q].label)
      BY <1>1, <2>3, <3>1, <3>3, ExecutesBook
    <3>5. book[q].label \in Label
      BY <1>1, <2>3, BookForms, OrderForms DEF Executes
    <3>6. i \in Siblings(book[q].label)
      BY <1>2, <1>4, <3>4, <3>5 DEF Siblings
    <3>7. QED
      BY <3>4, <3>6
  <2>4. QED
    BY <2>1, <2>2, <2>3
<1>5. ASSUME book[i].state = "held", Behind(x, 0)
      PROVE  Covered(i, x)'
  <2>1. ~Cut
    <3>1. SUFFICES ASSUME Cut PROVE FALSE
      OBVIOUS
    <3>2. book'[i].state = "gone"
      BY <1>1, <1>5, <3>1 DEF Cut, Live, SessionTyped, TypeOK
    <3>3. QED
      BY <1>3, <1>5, <3>2
  <2>2. socket /\ socket'
    BY <1>5, <2>1, StepsApart DEF CoverInv
  <2>3. Place(0, 0)
    BY <2>1, StepsApart DEF Place
  <2>4. 0 \in 0 .. Len(toGateway) /\ 0 \in Nat
    BY <1>1
  <2>5. Behind(x, 0)'
    BY <1>2, <1>5, <2>2, <2>3, <2>4, BehindForth
  <2>6. QED
    BY <1>3, <1>5, <2>5 DEF Covered
<1>6. QED
  BY <1>4, <1>5 DEF Covered

LEMMA EntryIs ==
    ASSUME NEW i, NEW l, l = book'[i].label, AllKnown(l)',
           book'[i].state = "working" => AllFiled(l)',
           (\A x \in ExitsOf(l)' : ~Struck(x)')
              => \A x \in ExitsOf(l)' : x \notin rejected' => Covered(i, x)'
    PROVE  EntryOK(i)'
<1>1. /\ AllKnown(l)' <=> AllKnown(book[i].label)'
      /\ AllFiled(l)' <=> AllFiled(book[i].label)'
      /\ ExitsOf(l)' = ExitsOf(book[i].label)'
  BY DEF AllKnown, AllFiled, ExitsOf, Bracket
<1>2. QED
  BY <1>1 DEF EntryOK

\* The step that sets an entry working finds its whole bracket filed.
LEMMA EntryFiled ==
    ASSUME BaseInv, Next, CoverInv, NEW i \in Id, i \notin early,
           Live(i), Live(i)', Kept(i), NEW l \in Label, l = book[i].label, l.leg = "entry",
           book'[i].state = "working"
    PROVE  AllFiled(l)
<1>1. /\ SessionTyped /\ ThreadsOK /\ toGateway \in Seq(Requests)
      /\ book[i].state = "working" => AllFiled(l)
  BY DEF BaseInv, SessionTyped, CoverInv, EntryOK
<1>2. CASE book'[i] = book[i]
  BY <1>1, <1>2
<1>3. CASE Cut
  BY <1>1, <1>3, CutBook, <1>2
<1>4. CASE \E j \in Id : Executes(j)
  BY <1>1, <1>2, <1>4, ExecutesBook DEF Over
<1>5. CASE GatewayTakes /\ book'[i] # book[i]
  <2>1. PICK m \in Requests : m = Head(toGateway)
    BY <1>1, <1>5, GatewayHead
  <2>2. toGateway # <<>> /\ m = toGateway[1] /\ 1 \in DOMAIN toGateway
    BY <1>1, <1>5, <2>1, GatewayHead, PopForms
  <2>3. CASE book[i].state = "working"
    BY <1>1, <2>3
  <2>4. CASE book[i].state # "working"
    <3>1. Modified(m) \/ Accepted(m)
      BY <1>1, <1>5, <2>1, GatewayCases DEF Refused, Answered, Dropped, Over
    <3>2. i \in Released(m)
      <4>1. CASE Accepted(m)
        BY <1>5, <2>4, <4>1 DEF Accepted, Spread
      <4>2. CASE Modified(m)
        BY <1>5, <2>4, <4>2 DEF Modified, Spread
      <4>3. QED
        BY <3>1, <4>1, <4>2
    <3>3. m.transmit /\ book[i].label \in Bracket(m.label)
      BY <2>2, <3>1, <3>2, ReleasedOnly
    <3>4. m.label \in Label /\ m.kind = "place"
      BY <3>1, PlacementForms DEF Modified, Accepted, IsNew
    <3>5. AllFiled(m.label)
      BY <2>2, <3>3, <3>4 DEF CoverInv, BracketOK
    <3>6. \A x \in Bracket(l) : x \in Bracket(m.label)
      BY <3>3, <3>4, BracketForms
    <3>7. QED
      BY <3>5, <3>6 DEF AllFiled
  <2>5. QED
    BY <2>3, <2>4
<1>6. QED
  BY <1>2, <1>3, <1>4, <1>5, StepsApart

LEMMA EntryKept ==
    ASSUME BaseInv, BaseInv', Next, CoverInv, NEW i \in Id, i \notin early,
           Live(i), Live(i)', Kept(i), book[i].label.leg = "entry"
    PROVE  EntryOK(i)'
<1>1. SessionTyped /\ ThreadsOK /\ MeantOK
  BY DEF BaseInv
<1>2. PICK l \in Label : l = book[i].label /\ l = book'[i].label
  BY <1>1, BookForms, OrderForms DEF Kept
<1>3. meant[l] # {} /\ EntryOK(i) /\ AllKnown(l)
  BY <1>1, <1>2 DEF MeantOK, Kept, CoverInv, EntryOK
<1>4. /\ AllFiled(l) => AllFiled(l)' /\ AllKnown(l)'
      /\ ~Restart /\ AllKnown(l) => AllKnown(l)'
      /\ ExitsOf(l)' = ExitsOf(l)
  BY <1>3, FiledStays
<1>5. Restart => AllFiled(l)
  <2>1. SUFFICES ASSUME Restart PROVE AllFiled(l)
    OBVIOUS
  <2>2. Cut /\ book'[i] = book[i]
    BY <1>1, <2>1, CutBook DEF Restart, Kept
  <2>3. book'[i].state = "working"
    BY <1>1, <2>2, CutBook, BookForms, OrderForms DEF Live, Cut, SessionTyped, TypeOK
  <2>4. QED
    BY <1>2, <2>3, EntryFiled
<1>6. book'[i].state = "working" => AllFiled(l)'
  BY <1>2, <1>4, EntryFiled
<1>7. AllKnown(l)'
  BY <1>3, <1>4, <1>5
<1>8. ASSUME \A y \in ExitsOf(l)' : ~Struck(y)',
             NEW x \in ExitsOf(l)', x \notin rejected'
      PROVE  Covered(i, x)'
  <2>1. ASSUME NEW y \in ExitsOf(l) PROVE ~Struck(y)
    <3>1. y \in Label /\ y \in Bracket(l) /\ meant[y] # {}
      BY BracketForms DEF ExitsOf
    <3>2. ~Restart \/ filed[y] # None
      BY <1>5, <3>1 DEF AllFiled
    <3>3. y \in ExitsOf(l)'
      BY <1>4
    <3>4. QED
      BY <1>8, <3>1, <3>2, <3>3, StruckStays
  <2>2. x \in ExitsOf(l) /\ x \notin rejected
    BY <1>4, <1>8, HistoryGrows
  <2>3. Covered(i, x)
    BY <1>2, <1>3, <2>1, <2>2 DEF EntryOK
  <2>4. CASE GatewayTakes
    BY <1>2, <1>8, <2>1, <2>2, <2>3, <2>4, CoveredGateway
  <2>5. CASE ~GatewayTakes
    <3>1. Cut \/ (\E q \in Id : Executes(q)) \/ book' = book
      BY <2>5, StepsApart
    <3>2. QED
      BY <1>2, <2>2, <2>3, <2>5, <3>1, CoveredRest
  <2>6. QED
    BY <2>4, <2>5
<1>9. QED
  BY <1>2, <1>6, <1>7, <1>8, EntryIs

LEMMA EntryNew ==
    ASSUME BaseInv, BaseInv', Next, CoverInv, GatewayTakes, NEW m \in Requests,
           toGateway # <<>>, m = toGateway[1], Accepted(m), m.label.leg = "entry"
    PROVE  EntryOK(m.id)'
<1>1. /\ SessionTyped /\ toGateway \in Seq(Requests) /\ RequestsOK
      /\ 1 \in DOMAIN toGateway /\ toGateway' = Tail(toGateway)
  BY PopForms, GatewayHead DEF BaseInv, SessionTyped
<1>2. PICK i \in Id : i = m.id
  BY PlacementForms DEF Accepted, IsNew
<1>3. PICK l \in Label : l = m.label /\ l = book'[i].label
  BY <1>2, PlacementForms DEF Accepted, IsNew
<1>4. m.kind = "place" /\ IsNew(m) /\ meant[l] # {}
  BY <1>1, <1>3 DEF Accepted, IsNew, RequestsOK, RequestOK
<1>5. /\ AllKnown(l)
      /\ m.transmit => AllFiled(l) /\ \A x \in Bracket(l) : ~Behind(x, 1)
      /\ \A x \in ExitsOf(l) : Behind(x, 1)
  BY <1>1, <1>3, <1>4 DEF CoverInv, BracketOK
<1>6. ~Restart
  BY <1>1 DEF Restart, Cut, GatewayTakes, idVars, BaseInv, LinesOK
<1>7. /\ AllKnown(l)' /\ (AllFiled(l) => AllFiled(l)')
      /\ ExitsOf(l)' = ExitsOf(l)
  BY <1>4, <1>5, <1>6, FiledStays
<1>8. book'[i].state = IF m.transmit THEN "working" ELSE "held"
  BY <1>2 DEF Accepted
<1>9. ASSUME NEW x \in ExitsOf(l) PROVE Covered(i, x)'
  <2>1. Behind(x, 1) /\ x \in Bracket(l) /\ x \in Label
    BY <1>5, BracketForms DEF ExitsOf
  <2>2. book'[i].state = "held"
    BY <1>5, <1>8, <2>1
  <2>3. socket /\ socket'
    BY DEF BaseInv, LinesOK, GatewayTakes, idVars
  <2>4. Place(1, 0) /\ 0 \in 0 .. Len(toGateway) /\ 1 \in Nat
    BY <1>1 DEF Place
  <2>5. Behind(x, 0)'
    BY <2>1, <2>3, <2>4, BehindForth
  <2>6. QED
    BY <2>2, <2>5 DEF Covered
<1>10. EntryOK(i)'
  BY <1>3, <1>5, <1>7, <1>8, <1>9, EntryIs
<1>11. QED
  BY <1>2, <1>10 DEF EntryOK, Covered

LEMMA BracketsFiled ==
    ASSUME BaseInv, Next, CoverInv, NEW l \in Label, filed'[l] # None
    PROVE  AllFiled(l)'
<1>1. /\ SessionTyped /\ ThreadsOK /\ MeantOK
      /\ \A e \in Endpoint : ThreadOK(e)
  BY DEF BaseInv, ThreadsOK
<1>2. CASE filed[l] # None
  <2>1. meant[l] # {} /\ AllFiled(l)
    BY <1>1, <1>2 DEF MeantOK, LabelOK, CoverInv
  <2>2. QED
    BY <2>1, FiledStays
<1>3. CASE filed[l] = None
  <2>1. ~Still /\ ~Restart
    BY <1>3 DEF Still, Restart
  <2>2. ASSUME NEW e \in Endpoint, NEW legs \in Groups[e] PROVE ~AllocOrderIds(e, legs)
    BY <1>3 DEF AllocOrderIds
  <2>3. PICK e \in Endpoint : SendLeg(e)
    BY <2>1, <2>2, HistoryGrows
  <2>4. /\ meant' = meant /\ l = Current(e, l.leg)
        /\ \A x \in Label : filed'[x] = IF x.leg \in Leg /\ x = Current(e, x.leg)
                                        THEN ids[e][x.leg] ELSE filed[x]
    BY <1>1, <1>3, <2>3, SendFiles
  <2>5. /\ pc[e] = "sending" /\ Begun(e)
        /\ \A g \in Leg : ids[e][g] = None <=> meant[Current(e, g)] = {}
    BY <1>1, <2>3 DEF SendLeg, ThreadOK
  <2>6. l.e = e /\ l.n = Current(e, "entry").n
    BY <1>1, <2>4, <2>5, CurrentForms, LabelForms
  <2>7. ASSUME NEW x \in Bracket(l), meant[x] # {} PROVE filed'[x] # None
    <3>1. x \in Label /\ x.e = e /\ x.n = l.n /\ x.leg \in Leg
      BY <2>6, BracketForms, LabelForms
    <3>2. x = Current(e, x.leg)
      BY <1>1, <2>5, <2>6, <3>1, CurrentForms
    <3>3. QED
      BY <2>4, <2>5, <2>7, <3>1, <3>2
  <2>8. QED
    BY <2>4, <2>7 DEF AllFiled
<1>4. QED
  BY <1>2, <1>3

LEMMA CoverStep ==
    ASSUME BaseInv, ClaimInv, CoverInv, [Next]_vars
    PROVE  CoverInv'
<1>1. SessionTyped /\ ThreadsOK /\ toGateway \in Seq(Requests)
  BY DEF BaseInv, SessionTyped
<1>2. BaseInv'
  BY BaseStep
<1>3. ASSUME Next, NEW i \in Id, Live(i)'
      PROVE  \/ Live(i) /\ Kept(i)
             \/ /\ GatewayTakes /\ ~Live(i)
                /\ \E m \in Requests : /\ toGateway # <<>> /\ m = toGateway[1]
                                       /\ Accepted(m) /\ m.id = i
  <2>1. CASE Cut \/ (\E j \in Id : Executes(j)) \/ book' = book
    BY <1>1, <1>3, <2>1, LiveKept
  <2>2. ASSUME GatewayTakes, ~Live(i),
               NEW m \in Requests, toGateway # <<>>, m = toGateway[1], IsNew(m), m.id = i
        PROVE  Accepted(m)
    <3>1. m = Head(toGateway)
      BY <1>1, <2>2, PopForms
    <3>2. ~Modified(m) /\ ~Dropped(m) /\ ~Answered(m)
      BY <2>2 DEF Modified, Dropped, Answered, IsNew
    <3>3. ~Refused(m)
      BY <1>3, <2>2 DEF Refused, Live
    <3>4. QED
      BY <1>1, <2>2, <3>1, <3>2, <3>3, GatewayCases
  <2>3. CASE GatewayTakes
    <3>1. CASE Live(i)
      <4>1. \/ Kept(i)
            \/ \E m \in Requests : /\ toGateway # <<>> /\ m = toGateway[1] /\ IsNew(m)
                                   /\ m.id = i
        BY <1>1, <1>3, <2>3, BookFrom
      <4>2. ASSUME NEW m \in Requests, toGateway # <<>>, m = toGateway[1], IsNew(m), m.id = i
            PROVE  Kept(i)
        <5>1. m = Head(toGateway)
          BY <1>1, <4>2, PopForms
        <5>2. ~Accepted(m) /\ ~Dropped(m) /\ ~Answered(m)
          BY <3>1, <4>2 DEF Accepted, Dropped, Answered, IsNew
        <5>3. Modified(m) => Kept(i)
          BY <4>2 DEF Modified
        <5>4. Refused(m) => Kept(i)
          BY <3>1 DEF Refused, Kept, Live
        <5>5. QED
          BY <1>1, <2>3, <5>1, <5>2, <5>3, <5>4, GatewayCases
      <4>3. QED
        BY <3>1, <4>1, <4>2
    <3>2. CASE ~Live(i)
      BY <1>1, <1>3, <2>2, <2>3, <3>2, BookFrom
    <3>3. QED
      BY <3>1, <3>2
  <2>4. QED
    BY <1>3, <2>1, <2>3, StepsApart
<1>4. CASE Next
  <2>1. \A k \in DOMAIN toGateway' : ParentOK(k)' /\ BracketOK(k)'
    BY <1>2, <1>4, RequestsOrdered
  <2>2. \A l \in Label : filed'[l] # None => AllFiled(l)'
    BY <1>4, BracketsFiled
  <2>3. \A i, j \in Id : Live(i)' /\ HasId(book[i].label, j)' => j = i
    BY <1>4, IdsApart
  <2>4. ASSUME NEW i \in Id, Live(i)' PROVE socket' \/ book'[i].state = "working"
    <3>1. CASE GatewayTakes
      BY <3>1 DEF BaseInv, LinesOK, GatewayTakes, idVars
    <3>2. CASE Cut
      BY <1>1, <2>4, <3>2, CutBook, BookForms, OrderForms DEF Live, Cut
    <3>3. CASE ~GatewayTakes /\ ~Cut
      <4>1. (\E j \in Id : Executes(j)) \/ book' = book
        BY <1>4, <3>3, StepsApart
      <4>2. Live(i) /\ (socket => socket')
        BY <1>1, <1>4, <2>4, <3>3, <4>1, LiveKept, StepsApart
      <4>3. book'[i] = book[i]
        BY <1>1, <2>4, <4>1, ExecutesBook DEF Over
      <4>4. QED
        BY <4>2, <4>3 DEF CoverInv
    <3>4. QED
      BY <3>1, <3>2, <3>3
  <2>5. ASSUME NEW i \in Id, i \notin early', Live(i)', book'[i].label.leg = "entry"
        PROVE  EntryOK(i)'
    <3>1. i \notin early
      BY <1>4, <2>5, EarlyGrows
    <3>2. CASE Live(i) /\ Kept(i)
      BY <1>2, <1>4, <2>5, <3>1, <3>2, EntryKept DEF Kept
    <3>3. ASSUME NEW m \in Requests, GatewayTakes, toGateway # <<>>, m = toGateway[1],
                 Accepted(m), m.id = i
          PROVE  EntryOK(i)'
      <4>1. m.label.leg = "entry"
        BY <2>5, <3>3 DEF Accepted
      <4>2. EntryOK(m.id)'
        BY <1>2, <1>4, <3>3, <4>1, EntryNew
      <4>3. QED
        BY <3>3, <4>2 DEF EntryOK, Covered
    <3>4. QED
      BY <1>3, <1>4, <2>5, <3>2, <3>3
  <2>6. QED
    BY <2>1, <2>2, <2>3, <2>4, <2>5 DEF CoverInv
<1>5. CASE UNCHANGED vars
  <2> USE DEF vars, threadVars, idVars, lookupVars, orderVars, gateVars, historyVars
  <2>1. /\ \A x, j : HasId(x, j)' <=> HasId(x, j)
        /\ \A x, k : Behind(x, k)' <=> Behind(x, k)
        /\ \A l : (AllFiled(l)' <=> AllFiled(l)) /\ (AllKnown(l)' <=> AllKnown(l))
        /\ \A l : ExitsOf(l)' = ExitsOf(l)
    BY <1>5 DEF HasId, IsSent, Current, Behind, IsNew, AllFiled, AllKnown, ExitsOf
  <2>2. /\ \A i : Live(i)' <=> Live(i)
        /\ \A x : Struck(x)' <=> Struck(x)
        /\ \A i, x : Covered(i, x)' <=> Covered(i, x)
        /\ \A k : (ParentOK(k)' <=> ParentOK(k)) /\ (BracketOK(k)' <=> BracketOK(k))
    <3>1. \A i : Live(i)' <=> Live(i)
      BY <1>5 DEF Live
    <3>2. \A x : Struck(x)' <=> Struck(x)
      BY <1>5, <2>1 DEF Struck
    <3>3. \A i, x : Covered(i, x)' <=> Covered(i, x)
      BY <1>5, <2>1, <3>1 DEF Covered
    <3>4. \A k : ParentOK(k)' <=> ParentOK(k)
      BY <1>5, <3>1 DEF ParentOK, IsNew
    <3>5. \A k : BracketOK(k)' <=> BracketOK(k)
      BY <1>5, <2>1 DEF BracketOK, IsNew, HasId, IsSent, Current, Behind, AllFiled, AllKnown,
                        ExitsOf
    <3>6. QED
      BY <3>1, <3>2, <3>3, <3>4, <3>5
  <2>3. QED
    BY <1>5, <2>1, <2>2 DEF CoverInv, EntryOK, HasId, IsSent, Current, AllFiled, AllKnown,
                            ExitsOf
<1>6. QED
  BY <1>4, <1>5

(* Exits: an entry works only while each exit that was not refused or taken
   down lives, for any number of endpoints, drops and restarts, wherever the
   socket breaks and whatever request transmits the bracket. *)
THEOREM NoEntryIsNaked == Spec => []NoNakedEntry
<1>1. Init => BaseInv /\ ClaimInv /\ CoverInv
  <2> SUFFICES ASSUME Init PROVE CoverInv
    BY BaseInit, ClaimInit
  <2>1. /\ DOMAIN toGateway = {} /\ \A i \in Id : book[i] = None
        /\ \A l \in Label : filed[l] = None
    BY DEF Init, Empty
  <2>2. QED
    BY <2>1 DEF CoverInv, Live
<1>2. BaseInv /\ ClaimInv /\ CoverInv /\ [Next]_vars => (BaseInv /\ ClaimInv /\ CoverInv)'
  BY BaseStep, ClaimStep, CoverStep
<1>3. BaseInv /\ CoverInv => NoNakedEntry
  <2> SUFFICES ASSUME BaseInv, CoverInv, NEW i \in Id, book[i] # None,
                      book[i].state = "working", i \notin early,
                      NEW l, l = book[i].label, l.leg = "entry", ~TakenDown(l),
                      NEW x \in ExitsOf(l), x \notin rejected
               PROVE  \E j \in Id : Live(j) /\ book[j].label = x
    BY DEF NoNakedEntry
  <2>1. l \in Label /\ Live(i) /\ SessionTyped
    BY BookForms, OrderForms DEF BaseInv, Live
  <2>2. EntryOK(i) /\ AllFiled(l)
    BY <2>1 DEF CoverInv, EntryOK
  <2>3. ASSUME NEW y \in ExitsOf(l) PROVE ~Struck(y)
    <3>1. y \in Label /\ filed[y] # None
      BY <2>1, <2>2, BracketForms DEF ExitsOf, AllFiled
    <3>2. ~IsSent(y)
      BY <3>1, SentOnly, BracketForms
    <3>3. "cancel" \notin meant[y] /\ ~Stray(y)
      BY DEF TakenDown
    <3>4. QED
      BY <3>2, <3>3 DEF Struck, HasId, Stray
  <2>4. Covered(i, x)
    BY <2>2, <2>3 DEF EntryOK
  <2>5. QED
    BY <2>4 DEF Covered
<1>4. QED
  BY <1>1, <1>2, <1>3, PTL DEF Spec

-----------------------------------------------------------------------------
(* Changes: unless an echo is under way, the client holds the order's last  *)
(* form or none, and each change builds on what the order has.              *)

LEMMA LiveSame ==
    ASSUME SessionTyped, Cut \/ (\E j \in Id : Executes(j)) \/ book' = book,
           NEW i \in Id, Live(i)'
    PROVE  Live(i) /\ book'[i] = book[i]
<1>1. Live(i)
  BY LiveKept
<1>2. CASE Cut
  BY <1>1, <1>2, CutBook DEF Live
<1>3. ASSUME NEW j \in Id, Executes(j)
      PROVE  book'[i] = book[i]
  BY <1>3, ExecutesBook DEF Over
<1>4. QED
  BY <1>1, <1>2, <1>3

LEMMA ChangeParts ==
    ASSUME \A i \in Id : book'[i] # None /\ book'[i].label \notin excused' => EchoOK(i)',
           \A i \in Id : Live(i)' /\ book'[i].label \notin excused'
                         /\ echo'[i] = None /\ ~Echoing(i)' => Unknown(i)',
           \A k \in DOMAIN toGateway' : \A m :
               m = toGateway'[k] /\ m.kind = "place" /\ m.label \notin excused' => ChangeOK(m)',
           \A i \in Id : Live(i)' /\ book'[i].label \notin excused' => HasChanges(i)'
    PROVE  ChangeInv'
<1>1. ASSUME NEW k \in DOMAIN toGateway', toGateway'[k].kind = "place",
             toGateway'[k].label \notin excused'
      PROVE  ChangeOK(toGateway[k])'
  <2>1. PICK m : m = toGateway'[k]
    OBVIOUS
  <2>2. ChangeOK(m)'
    BY <1>1, <2>1
  <2>3. QED
    BY <2>1, <2>2 DEF ChangeOK, IsNew, IsChange, Live, Asked
<1>2. QED
  BY <1>1 DEF ChangeInv

LEMMA EchoFrame ==
    ASSUME SessionTyped, NEW i \in Id, EchoOK(i),
           book'[i].has = book[i].has, book'[i].label = book[i].label, echo'[i] = echo[i],
           \/ toClient' = toClient
           \/ \E y \in Callbacks : ~IsEcho(y, i) /\ toClient' = Append(toClient, y)
    PROVE  EchoOK(i)' /\ Echoing(i)' = Echoing(i)
<1>1. toClient \in Seq(Callbacks)
  BY DEF SessionTyped
<1>2. \A k \in DOMAIN toClient : k \in DOMAIN toClient' /\ toClient'[k] = toClient[k]
  BY StillOnItsWay
<1>3. ASSUME NEW k \in DOMAIN toClient', IsEcho(toClient'[k], i)
      PROVE  k \in DOMAIN toClient
  <2>1. ASSUME NEW y \in Callbacks, ~IsEcho(y, i), toClient' = Append(toClient, y)
        PROVE  k \in DOMAIN toClient
    <3>1. toClient'[k] # y
      BY <1>3, <2>1
    <3>2. QED
      BY <1>1, <2>1, <3>1, PushForms
  <2>2. QED
    BY <2>1
<1>4. Echoing(i)' <=> \E k \in DOMAIN toClient' : IsEcho(toClient'[k], i)
  BY DEF Echoing, IsEcho
<1>5. Echoing(i)' = Echoing(i)
  BY <1>2, <1>3, <1>4 DEF Echoing
<1>6. CASE Echoing(i)
  <2>1. PICK k \in DOMAIN toClient :
          /\ IsEcho(toClient[k], i)
          /\ toClient[k].has = book[i].has /\ toClient[k].label = book[i].label
          /\ \A j \in DOMAIN toClient : j > k => ~IsEcho(toClient[j], i)
    BY <1>6 DEF EchoOK
  <2>2. /\ k \in DOMAIN toClient' /\ IsEcho(toClient'[k], i)
        /\ toClient'[k].has = book'[i].has /\ toClient'[k].label = book'[i].label
        /\ \A j \in DOMAIN toClient' : j > k => ~IsEcho(toClient'[j], i)
    BY <1>2, <1>3, <2>1
  <2>3. QED
    BY <1>5, <1>6, <2>2 DEF EchoOK, IsEcho
<1>7. CASE ~Echoing(i)
  BY <1>5, <1>7 DEF EchoOK
<1>8. QED
  BY <1>5, <1>6, <1>7

LEMMA UnknownFrame ==
    ASSUME NEW i \in Id, Unknown(i),
           nextId' # None => i < nextId',
           \A e \in Endpoint : placed'[e][i] = placed[e][i] \/ placed'[e][i] = None,
           \A e \in Endpoint, g \in Leg : ids'[e][g] # i,
           \A k \in DOMAIN toClient' : toClient'[k].kind = "nextId" =>
               (\E j \in DOMAIN toClient : toClient'[k] = toClient[j]) \/ i < toClient'[k].id
    PROVE  Unknown(i)'
  BY DEF Unknown

LEMMA HasForms ==
    ASSUME NEW i \in Id, NEW l, l = book'[i].label,
           filed'[l] = i => \/ meant'[l] \cap Change \subseteq book'[i].has
                            \/ \E k \in DOMAIN toGateway' :
                                  IsChange(toGateway'[k]) /\ toGateway'[k].label = l
    PROVE  HasChanges(i)'
  BY DEF HasChanges, Asked, IsChange

LEMMA AskedSame ==
    ASSUME BaseInv, Next, NEW l \in Label,
           ~ \E e \in Endpoint, c \in Change : ModifyOrder(e, l, c)
    PROVE  meant'[l] \cap Change = Asked(l)
<1>1. SessionTyped /\ ThreadsOK /\ MeantOK
      /\ meant \in [Label -> SUBSET (Change \cup {"place", "cancel"})]
  BY DEF BaseInv, SessionTyped
<1>2. CASE meant'[l] = meant[l]
  BY <1>2 DEF Asked
<1>3. ASSUME NEW e \in Endpoint, NEW legs \in Groups[e], AllocOrderIds(e, legs)
      PROVE  meant'[l] \cap Change = Asked(l)
  <2>1. PICK n \in 1 .. MaxPlacements :
          /\ \A g \in Leg : LET k == [e |-> e, n |-> n, leg |-> g]
                            IN  /\ meant[k] = {}
                                /\ meant'[k] = IF ids'[e][g] # None THEN {"place"} ELSE {}
          /\ \A k \in Label : k.e # e \/ k.n # n => meant'[k] = meant[k]
    BY <1>1, <1>3, AllocCurrent
  <2>2. CASE l.e = e /\ l.n = n
    <3>1. l = [e |-> e, n |-> n, leg |-> l.leg] /\ l.leg \in Leg
      BY <2>2, LabelForms
    <3>2. meant[l] = {} /\ meant'[l] \subseteq {"place"}
      BY <2>1, <3>1
    <3>3. QED
      BY <3>2, ChangeAssumption DEF Asked
  <2>3. QED
    BY <1>2, <2>1, <2>2
<1>4. ASSUME NEW e \in Endpoint, NEW k \in Label, CancelOrder(e, k)
      PROVE  meant'[l] \cap Change = Asked(l)
  <2>1. meant' = [meant EXCEPT ![k] = meant[k] \cup {"cancel"}]
    BY <1>1, <1>4, FollowForms DEF CancelOrder
  <2>2. QED
    BY <1>1, <2>1, ChangeAssumption DEF Asked
<1>5. ASSUME NEW e \in Endpoint, NEW k \in Label, NEW c \in Change, ModifyOrder(e, k, c)
      PROVE  meant'[l] = meant[l]
  <2>1. meant' = [meant EXCEPT ![k] = meant[k] \cup {c}]
    BY <1>1, <1>5, FollowForms DEF ModifyOrder
  <2>2. k # l
    BY <1>5
  <2>3. QED
    BY <1>1, <2>1, <2>2
<1>6. CASE GatewayTakes \/ ReaderTakes \/ Drop \/ Restart \/ \E i \in Id : Executes(i)
  BY <1>2, <1>6 DEF GatewayTakes, ReaderTakes, Drop, Restart, Executes, historyVars
<1>7. CASE \E e \in Endpoint : \/ Connect(e) \/ ConnectFails(e) \/ Resolve(e)
                               \/ ResolveFails(e) \/ PlacementRaises(e)
  BY <1>2, <1>7 DEF Connect, ConnectFails, Resolve, ResolveFails, PlacementRaises, historyVars
<1>8. CASE \E e \in Endpoint : SendLeg(e)
  BY <1>1, <1>2, <1>8, SendFiles
<1>9. CASE \E e \in Endpoint : \E k \in Label :
              CancelRaises(e, k) \/ \E c \in Change : ModifyRaises(e, k, c)
  BY <1>2, <1>9, RaisesAlone
<1>10. QED
  BY <1>2, <1>3, <1>4, <1>5, <1>6, <1>7, <1>8, <1>9 DEF Next

LEMMA ChangeCut ==
    ASSUME BaseInv, Next, ChangeInv, Drop \/ Restart \/ \E e \in Endpoint : ConnectFails(e)
    PROVE  ChangeInv'
<1> USE DEF threadVars, idVars, lookupVars, orderVars, gateVars, historyVars
<1>1. SessionTyped /\ DOMAIN <<>> = {}
  BY DEF BaseInv
<1>2. /\ Cut /\ meant' = meant /\ filed' = filed /\ toGateway' = <<>> /\ toClient' = <<>>
      /\ excused' = excused \cup {l \in Label : UnderWay(l)}
      /\ \/ echo' = echo /\ placed' = placed /\ ids' = ids /\ nextId' = nextId
         \/ /\ echo' = Empty /\ placed' = [e \in Endpoint |-> Empty]
            /\ ids' = [e \in Endpoint |-> NoIds] /\ nextId' = None
  <2>1. CASE Drop
    BY <2>1 DEF Drop, Cut
  <2>2. CASE Restart
    BY <2>2 DEF Restart, Cut
  <2>3. CASE \E e \in Endpoint : ConnectFails(e)
    BY <2>3 DEF ConnectFails, Cut
  <2>4. QED
    BY <2>1, <2>2, <2>3
<1>3. ASSUME NEW i \in Id, book[i] # None, book[i].label \notin excused'
      PROVE  ~Echoing(i) /\ EchoOK(i) /\ book[i].label \notin excused
             /\ ~UnderWay(book[i].label)
  <2>1. book[i].label \in Label
    BY <1>1, <1>3, BookForms, OrderForms
  <2>2. book[i].label \notin excused /\ ~UnderWay(book[i].label)
    BY <1>2, <1>3, <2>1
  <2>3. EchoOK(i)
    BY <1>3, <2>2 DEF ChangeInv
  <2>4. QED
    BY <2>2, <2>3 DEF EchoOK, UnderWay, IsEcho
<1>4. \A i \in Id : ~Echoing(i)'
  BY <1>1, <1>2 DEF Echoing
<1>5. \A i \in Id : echo'[i] = echo[i] \/ echo'[i] = None
  BY <1>2 DEF Empty
<1>6. ASSUME NEW i \in Id, book'[i] # None, book'[i].label \notin excused'
      PROVE  EchoOK(i)'
  <2>1. book[i] # None /\ book'[i].label = book[i].label /\ book'[i].has = book[i].has
    BY <1>1, <1>2, <1>6, CutBook
  <2>2. echo[i] \in {None, book[i].has}
    BY <1>3, <1>6, <2>1 DEF EchoOK
  <2>3. echo'[i] \in {None, book'[i].has}
    BY <1>5, <2>1, <2>2
  <2>4. QED
    BY <1>4, <2>3 DEF EchoOK
<1>7. ASSUME NEW i \in Id, Live(i)', book'[i].label \notin excused', echo'[i] = None
      PROVE  Unknown(i)'
  <2>1. Live(i) /\ book'[i] = book[i]
    BY <1>1, <1>2, <1>7, LiveSame
  <2>2. CASE echo' = echo /\ placed' = placed /\ ids' = ids /\ nextId' = nextId
    <3>1. ~Echoing(i) /\ book[i].label \notin excused
      BY <1>3, <1>7, <2>1 DEF Live
    <3>2. Unknown(i)
      BY <1>7, <2>1, <2>2, <3>1 DEF ChangeInv
    <3>3. QED
      BY <1>1, <1>2, <2>2, <3>2 DEF Unknown
  <2>3. CASE /\ placed' = [e \in Endpoint |-> Empty]
             /\ ids' = [e \in Endpoint |-> NoIds] /\ nextId' = None
    <3>1. \A e \in Endpoint : placed'[e][i] = None /\ \A g \in Leg : ids'[e][g] # i
      BY <2>3, NoneAssumption, Bounds DEF Empty, NoIds, Id
    <3>2. QED
      BY <1>1, <1>2, <2>3, <3>1 DEF Unknown
  <2>4. QED
    BY <1>2, <2>2, <2>3
<1>8. ASSUME NEW i \in Id, Live(i)', book'[i].label \notin excused'
      PROVE  HasChanges(i)'
  <2>1. Live(i) /\ book'[i] = book[i]
    BY <1>1, <1>2, <1>8, LiveSame
  <2>2. PICK l : l = book'[i].label /\ l = book[i].label
    BY <2>1
  <2>3. HasChanges(i) /\ ~UnderWay(l)
    BY <1>3, <1>8, <2>1, <2>2 DEF ChangeInv, Live
  <2>4. filed'[l] = i => meant'[l] \cap Change \subseteq book'[i].has
    BY <1>2, <2>1, <2>2, <2>3 DEF HasChanges, UnderWay, Asked, IsChange
  <2>5. QED
    BY <2>2, <2>4, HasForms
<1>9. \A k \in DOMAIN toGateway' : \A m :
          m = toGateway'[k] /\ m.kind = "place" /\ m.label \notin excused' => ChangeOK(m)'
  BY <1>1, <1>2
<1>10. QED
  BY <1>6, <1>7, <1>8, <1>9, ChangeParts

LEMMA ChangeConnect ==
    ASSUME BaseInv, Next, ChangeInv, NEW e \in Endpoint, Connect(e)
    PROVE  ChangeInv'
<1> USE DEF threadVars, idVars, lookupVars, orderVars, gateVars, historyVars
<1>1. SessionTyped /\ toClient \in Seq(Callbacks)
  BY DEF BaseInv, SessionTyped
<1>2. /\ meant' = meant /\ filed' = filed /\ toGateway' = toGateway /\ book' = book
      /\ excused' = excused /\ echo' = echo /\ placed' = placed /\ ids' = ids /\ nextId' = nextId
      /\ \/ toClient' = toClient
         \/ \E a \in NextValidIds :
              a <= MaxId /\ toClient' = Append(toClient, [kind |-> "nextId", id |-> a])
  BY DEF Connect
<1>3. \/ toClient' = toClient
      \/ \E y \in Callbacks : /\ toClient' = Append(toClient, y) /\ y.kind = "nextId"
                              /\ \A i \in Id : Live(i) => i < y.id
  <2>1. ASSUME NEW a \in NextValidIds, a <= MaxId,
               toClient' = Append(toClient, [kind |-> "nextId", id |-> a])
        PROVE  \E y \in Callbacks : /\ toClient' = Append(toClient, y) /\ y.kind = "nextId"
                                    /\ \A i \in Id : Live(i) => i < y.id
    <3> DEFINE y == [kind |-> "nextId", id |-> a]
    <3>1. y \in Callbacks /\ y.kind = "nextId" /\ \A i \in Id : Live(i) => i < y.id
      BY <2>1, NextIdForms, Bounds DEF Id, Callbacks
    <3>2. QED
      BY <2>1, <3>1
  <2>2. QED
    BY <1>2, <2>1
<1>4. \/ toClient' = toClient
      \/ \E y \in Callbacks : toClient' = Append(toClient, y) /\ \A i \in Id : ~IsEcho(y, i)
  BY <1>3 DEF IsEcho
<1>5. ASSUME NEW i \in Id, book'[i] # None, book'[i].label \notin excused'
      PROVE  EchoOK(i)' /\ Echoing(i)' = Echoing(i)
  <2>1. EchoOK(i)
    BY <1>2, <1>5 DEF ChangeInv
  <2>2. QED
    BY <1>1, <1>2, <1>4, <2>1, EchoFrame
<1>6. ASSUME NEW i \in Id, Live(i)', book'[i].label \notin excused', echo'[i] = None, ~Echoing(i)'
      PROVE  Unknown(i)'
  <2>1. Live(i) /\ ~Echoing(i) /\ book[i] # None
    BY <1>2, <1>5, <1>6 DEF Live
  <2>2. Unknown(i)
    BY <1>2, <1>6, <2>1 DEF ChangeInv
  <2>3. \A k \in DOMAIN toClient' : toClient'[k].kind = "nextId" =>
               (\E j \in DOMAIN toClient : toClient'[k] = toClient[j]) \/ i < toClient'[k].id
    <3>1. ASSUME NEW y \in Callbacks, toClient' = Append(toClient, y), i < y.id,
                 NEW k \in DOMAIN toClient'
          PROVE  (\E j \in DOMAIN toClient : toClient'[k] = toClient[j]) \/ i < toClient'[k].id
      BY <1>1, <3>1, PushForms
    <3>2. QED
      BY <1>3, <2>1, <3>1
  <2>4. QED
    BY <1>2, <2>2, <2>3, UnknownFrame DEF Unknown
<1>7. ASSUME NEW i \in Id, Live(i)', book'[i].label \notin excused'
      PROVE  HasChanges(i)'
  BY <1>2, <1>7 DEF ChangeInv, HasChanges, Live, Asked, IsChange
<1>8. ASSUME NEW k \in DOMAIN toGateway', NEW m, m = toGateway'[k],
             m.kind = "place", m.label \notin excused'
      PROVE  ChangeOK(m)'
  <2>1. ChangeOK(m)
    BY <1>2, <1>8 DEF ChangeInv
  <2>2. QED
    BY <1>2, <2>1 DEF ChangeOK, IsNew, IsChange, Asked, Live
<1>9. QED
  BY <1>5, <1>6, <1>7, <1>8, ChangeParts

LEMMA ChangeReader ==
    ASSUME BaseInv, Next, ChangeInv, ReaderTakes
    PROVE  ChangeInv'
<1> USE DEF lookupVars, orderVars
<1>1. SessionTyped /\ toClient \in Seq(Callbacks)
  BY DEF BaseInv, SessionTyped
<1>2. /\ meant' = meant /\ filed' = filed /\ toGateway' = toGateway /\ book' = book
      /\ excused' = excused /\ ids' = ids /\ toClient # <<>> /\ toClient' = Tail(toClient)
  BY DEF ReaderTakes
<1>3. PICK m \in Callbacks : m = Head(toClient) /\ m = toClient[1]
  BY <1>1, <1>2, PopForms
<1>4. /\ 1 \in DOMAIN toClient /\ DOMAIN toClient \subseteq Nat
      /\ \A k \in DOMAIN toClient' : /\ k + 1 \in DOMAIN toClient
                                     /\ toClient'[k] = toClient[k + 1] /\ k \in Nat
      /\ \A k \in DOMAIN toClient : k # 1 => /\ k - 1 \in DOMAIN toClient'
                                             /\ toClient'[k - 1] = toClient[k]
      /\ \A k \in DOMAIN toClient : k >= 1
  BY <1>1, <1>2, PopForms
<1>5. /\ placed' = placed
      /\ m.kind # "echo" => echo' = echo
      /\ m.kind = "echo" => echo' = [echo EXCEPT ![m.id] = m.has] /\ nextId' = nextId
      /\ m.kind # "nextId" => nextId' = nextId
      /\ m.kind = "nextId" => nextId' = m.id
  BY <1>3 DEF ReaderTakes, OnNextValidId, OnOpenOrder, OnContractDetails, OnError
<1>6. \A i \in Id : Echoing(i)' <=> \E k \in DOMAIN toClient' : IsEcho(toClient'[k], i)
  BY DEF Echoing, IsEcho
<1>7. ASSUME NEW i \in Id
      PROVE  /\ Echoing(i)' => Echoing(i)
             /\ Echoing(i) /\ ~Echoing(i)' => IsEcho(m, i)
  BY <1>3, <1>4, <1>6 DEF Echoing
<1>8. ASSUME NEW i \in Id, book'[i] # None, book'[i].label \notin excused'
      PROVE  EchoOK(i)'
  <2>1. EchoOK(i)
    BY <1>2, <1>8 DEF ChangeInv
  <2>2. CASE Echoing(i)'
    <3>1. PICK k \in DOMAIN toClient :
            /\ IsEcho(toClient[k], i)
            /\ toClient[k].has = book[i].has /\ toClient[k].label = book[i].label
            /\ \A j \in DOMAIN toClient : j > k => ~IsEcho(toClient[j], i)
      BY <1>7, <2>1, <2>2 DEF EchoOK
    <3>2. PICK j \in DOMAIN toClient' : IsEcho(toClient'[j], i)
      BY <1>6, <2>2
    <3>3. k # 1
      <4>1. j + 1 \in DOMAIN toClient /\ IsEcho(toClient[j + 1], i) /\ j \in Nat /\ k \in Nat
        BY <1>4, <3>2
      <4>2. j >= 1
        BY <1>1, <1>2, PopForms
      <4>3. QED
        BY <3>1, <4>1, <4>2
    <3>4. PICK n \in DOMAIN toClient' : n = k - 1 /\ toClient'[n] = toClient[k]
      BY <1>4, <3>3
    <3>5. \A h \in DOMAIN toClient' : h > n => ~IsEcho(toClient'[h], i)
      BY <1>4, <3>1, <3>4
    <3>6. /\ IsEcho(toClient'[n], i)
          /\ toClient'[n].has = book'[i].has /\ toClient'[n].label = book'[i].label
      BY <1>2, <3>1, <3>4
    <3>7. QED
      BY <2>2, <3>5, <3>6 DEF EchoOK, IsEcho
  <2>3. CASE ~Echoing(i)' /\ Echoing(i)
    <3>1. IsEcho(m, i)
      BY <1>7, <2>3
    <3>2. PICK k \in DOMAIN toClient :
            IsEcho(toClient[k], i) /\ toClient[k].has = book[i].has
      BY <2>1, <2>3 DEF EchoOK
    <3>3. k = 1
      BY <1>4, <1>6, <2>3, <3>2
    <3>4. m.has = book'[i].has
      BY <1>2, <1>3, <3>2, <3>3
    <3>5. echo'[i] = m.has
      BY <1>1, <1>5, <3>1 DEF IsEcho, SessionTyped, TypeOK
    <3>6. QED
      BY <2>3, <3>4, <3>5 DEF EchoOK
  <2>4. CASE ~Echoing(i)' /\ ~Echoing(i)
    <3>1. ~IsEcho(m, i)
      BY <1>3, <1>4, <2>4 DEF Echoing
    <3>2. echo'[i] = echo[i]
      BY <1>1, <1>5, <3>1, CallbackForms DEF IsEcho, SessionTyped, TypeOK
    <3>3. QED
      BY <1>2, <2>1, <2>4, <3>2 DEF EchoOK
  <2>5. QED
    BY <2>2, <2>3, <2>4
<1>9. ASSUME NEW i \in Id, Live(i)', book'[i].label \notin excused', echo'[i] = None, ~Echoing(i)'
      PROVE  Unknown(i)'
  <2>1. ~IsEcho(m, i)
    <3>1. IsEcho(m, i) => echo'[i] = m.has /\ m.has # None
      BY <1>1, <1>5, CallbackForms, NoneAssumption DEF IsEcho, SessionTyped, TypeOK
    <3>2. QED
      BY <1>9, <3>1
  <2>2. echo[i] = None /\ ~Echoing(i) /\ Live(i)
    BY <1>1, <1>2, <1>5, <1>7, <1>9, <2>1, CallbackForms DEF IsEcho, SessionTyped, TypeOK, Live
  <2>3. Unknown(i)
    BY <1>2, <1>9, <2>2 DEF ChangeInv
  <2>4. nextId' # None => i < nextId'
    BY <1>3, <1>4, <1>5, <2>3 DEF Unknown
  <2>5. QED
    BY <1>2, <1>4, <1>5, <2>3, <2>4, UnknownFrame DEF Unknown
<1>10. ASSUME NEW i \in Id, Live(i)', book'[i].label \notin excused'
       PROVE  HasChanges(i)'
  BY <1>2, <1>10 DEF ChangeInv, HasChanges, Live, Asked, IsChange
<1>11. ASSUME NEW k \in DOMAIN toGateway', NEW r, r = toGateway'[k],
              r.kind = "place", r.label \notin excused'
       PROVE  ChangeOK(r)'
  <2>1. ChangeOK(r)
    BY <1>2, <1>11 DEF ChangeInv
  <2>2. QED
    BY <1>2, <2>1 DEF ChangeOK, IsNew, IsChange, Asked, Live
<1>12. QED
  BY <1>8, <1>9, <1>10, <1>11, ChangeParts

LEMMA GatewayEchoes ==
    ASSUME SessionTyped, GatewayTakes, NEW m \in Requests, m = Head(toGateway), NEW i \in Id
    PROVE  \/ /\ m.kind = "place" /\ m.id = i /\ toClient' = Append(toClient, Echo(m))
              /\ Modified(m) \/ Accepted(m)
              /\ book'[i] # None /\ book'[i].has = m.has /\ book'[i].label = m.label
           \/ /\ ~ (m.kind = "place" /\ m.id = i /\ (Modified(m) \/ Accepted(m)))
              /\ \E y \in Callbacks : ~IsEcho(y, i) /\ toClient' = Append(toClient, y)
              /\ book'[i] # None =>
                   /\ book[i] # None /\ book'[i].has = book[i].has
                   /\ book'[i].label = book[i].label
                   /\ Live(i)' => Live(i)
<1>1. ASSUME book'[i] = book[i] \/ (Kept(i) /\ book'[i].has = book[i].has), book'[i] # None
      PROVE  /\ book[i] # None /\ book'[i].has = book[i].has
             /\ book'[i].label = book[i].label
             /\ Live(i)' => Live(i)
  BY <1>1 DEF Live, Kept
<1>2. CASE Modified(m) \/ Accepted(m)
  <2>1. /\ m.kind = "place" /\ Echo(m) \in Callbacks /\ toClient' = Append(toClient, Echo(m))
        /\ Echo(m).kind = "echo" /\ Echo(m).id = m.id
    BY <1>2, AnswerForms DEF Modified, Accepted, IsNew
  <2>2. CASE m.id = i
    <3>1. book'[i] # None /\ book'[i].has = m.has /\ book'[i].label = m.label
      BY <1>2, <2>2 DEF Modified, Accepted, Kept
    <3>2. QED
      BY <1>2, <2>1, <2>2, <3>1
  <2>3. CASE m.id # i
    <3>1. ~IsEcho(Echo(m), i)
      BY <2>1, <2>3 DEF IsEcho
    <3>2. book'[i] = book[i]
          \/ (Kept(i) /\ book'[i].has = book[i].has)
      BY <1>2, <2>3 DEF Modified, Accepted, Spread
    <3>3. QED
      BY <1>1, <2>1, <2>3, <3>1, <3>2
  <2>4. QED
    BY <2>2, <2>3
<1>3. CASE Refused(m) \/ Answered(m) \/ Dropped(m)
  <2>1. \E y \in Callbacks : ~IsEcho(y, i) /\ toClient' = Append(toClient, y)
    <3>1. CASE m.kind # "resolve" /\ \E b \in BOOLEAN : toClient' = Append(toClient, Error(m.id, m.label, b))
      <4>1. PICK b \in BOOLEAN : toClient' = Append(toClient, Error(m.id, m.label, b))
        BY <3>1
      <4>2. Error(m.id, m.label, b) \in Callbacks /\ Error(m.id, m.label, b).kind = "error"
        BY <3>1, AnswerForms
      <4>3. QED
        BY <4>1, <4>2 DEF IsEcho
    <3>2. CASE Answered(m)
      <4>1. [kind |-> "contract", id |-> m.id] \in Callbacks
        BY <3>2, AnswerForms DEF Answered
      <4>2. QED
        BY <3>2, <4>1 DEF Answered, IsEcho
    <3>3. CASE Refused(m) \/ Dropped(m)
      BY <3>1, <3>3 DEF Refused, Dropped, Refuses, Live
    <3>4. QED
      BY <1>3, <3>2, <3>3
  <2>2. book'[i] = book[i] \/ (Kept(i) /\ book'[i].has = book[i].has)
    BY <1>3 DEF Refused, Answered, Dropped, Over
  <2>3. CASE ~ (Modified(m) \/ Accepted(m))
    BY <1>1, <2>1, <2>2, <2>3
  <2>4. QED
    BY <1>2, <2>3
<1>4. QED
  BY <1>2, <1>3, GatewayCases

LEMMA ChangeGateway ==
    ASSUME BaseInv, Next, ChangeInv, GatewayTakes
    PROVE  ChangeInv'
<1> USE DEF threadVars, idVars, lookupVars, orderVars, gateVars, historyVars
<1>1. /\ SessionTyped /\ RequestsOK
      /\ toClient \in Seq(Callbacks) /\ toGateway \in Seq(Requests)
  BY DEF BaseInv, SessionTyped
<1>2. /\ meant' = meant /\ filed' = filed /\ excused' = excused /\ echo' = echo
      /\ placed' = placed /\ ids' = ids /\ nextId' = nextId
  BY DEF GatewayTakes
<1>3. PICK m \in Requests : m = Head(toGateway)
  BY <1>1, GatewayHead
<1>4. /\ m = toGateway[1] /\ 1 \in DOMAIN toGateway
      /\ \A k \in DOMAIN toGateway' : /\ k + 1 \in DOMAIN toGateway
                                      /\ toGateway'[k] = toGateway[k + 1]
      /\ \A k \in DOMAIN toGateway : k # 1 => /\ k - 1 \in DOMAIN toGateway'
                                              /\ toGateway'[k - 1] = toGateway[k]
  BY <1>1, <1>3, GatewayHead, PopForms
<1>5. RequestOK(m) /\ (m.kind = "place" /\ m.label \notin excused => ChangeOK(m))
  BY <1>1, <1>4 DEF RequestsOK, ChangeInv
<1>6. ASSUME NEW i \in Id, m.kind = "place", m.id = i, Modified(m) \/ Accepted(m),
             toClient' = Append(toClient, Echo(m))
      PROVE  /\ Len(toClient) + 1 \in DOMAIN toClient'
             /\ toClient'[Len(toClient) + 1] = Echo(m) /\ IsEcho(Echo(m), i)
             /\ Echoing(i)'
             /\ \A j \in DOMAIN toClient' : ~(j > Len(toClient) + 1)
  <2>1. Echo(m) \in Callbacks /\ IsEcho(Echo(m), i)
    BY <1>6, AnswerForms DEF IsEcho
  <2>2. /\ Len(toClient) + 1 \in DOMAIN toClient' /\ toClient'[Len(toClient) + 1] = Echo(m)
        /\ DOMAIN toClient' = 1 .. Len(toClient) + 1
    BY <1>1, <1>6, <2>1, PushForms
  <2>3. Echoing(i)'
    BY <2>1, <2>2 DEF Echoing, IsEcho
  <2>4. QED
    BY <1>1, <2>1, <2>2, <2>3
<1>7. ASSUME NEW i \in Id, book'[i] # None, book'[i].label \notin excused'
      PROVE  EchoOK(i)'
  <2>1. CASE /\ m.kind = "place" /\ m.id = i /\ toClient' = Append(toClient, Echo(m))
             /\ Modified(m) \/ Accepted(m)
             /\ book'[i].has = m.has /\ book'[i].label = m.label
    <3> DEFINE n == Len(toClient) + 1
    <3>1. /\ n \in DOMAIN toClient' /\ toClient'[n] = Echo(m) /\ IsEcho(Echo(m), i)
          /\ Echoing(i)' /\ \A j \in DOMAIN toClient' : ~(j > n)
      BY <1>6, <2>1
    <3>2. Echo(m).has = m.has /\ Echo(m).label = m.label
      BY DEF Echo
    <3> HIDE DEF n
    <3>3. /\ n \in DOMAIN toClient' /\ IsEcho(toClient'[n], i)
          /\ toClient'[n].has = book'[i].has /\ toClient'[n].label = book'[i].label
          /\ \A j \in DOMAIN toClient' : j > n => ~IsEcho(toClient'[j], i)
      BY <2>1, <3>1, <3>2
    <3>4. QED
      BY <3>1, <3>3 DEF EchoOK, IsEcho
  <2>2. CASE /\ \E y \in Callbacks : ~IsEcho(y, i) /\ toClient' = Append(toClient, y)
             /\ book[i] # None /\ book'[i].has = book[i].has
             /\ book'[i].label = book[i].label
    <3>1. EchoOK(i)
      BY <1>2, <1>7, <2>2 DEF ChangeInv
    <3>2. QED
      BY <1>1, <1>2, <2>2, <3>1, EchoFrame
  <2>3. QED
    BY <1>1, <1>3, <1>7, <2>1, <2>2, GatewayEchoes
<1>8. ASSUME NEW i \in Id, Live(i)', book'[i].label \notin excused'
      PROVE  \/ /\ m.kind = "place" /\ m.id = i /\ Echoing(i)'
                /\ Modified(m) \/ Accepted(m)
                /\ book'[i].has = m.has /\ book'[i].label = m.label
             \/ /\ ~ (m.kind = "place" /\ m.id = i /\ (Modified(m) \/ Accepted(m)))
                /\ Live(i) /\ book[i] # None /\ book'[i].has = book[i].has
                /\ book'[i].label = book[i].label /\ Echoing(i)' = Echoing(i)
  <2>1. book'[i] # None
    BY <1>8 DEF Live
  <2>2. CASE /\ m.kind = "place" /\ m.id = i /\ toClient' = Append(toClient, Echo(m))
             /\ Modified(m) \/ Accepted(m)
             /\ book'[i].has = m.has /\ book'[i].label = m.label
    BY <1>6, <2>2
  <2>3. CASE /\ ~ (m.kind = "place" /\ m.id = i /\ (Modified(m) \/ Accepted(m)))
             /\ \E y \in Callbacks : ~IsEcho(y, i) /\ toClient' = Append(toClient, y)
             /\ book[i] # None /\ book'[i].has = book[i].has
             /\ book'[i].label = book[i].label /\ Live(i)
    <3>1. EchoOK(i)
      BY <1>2, <1>8, <2>3 DEF ChangeInv
    <3>2. Echoing(i)' = Echoing(i)
      BY <1>1, <1>2, <2>3, <3>1, EchoFrame
    <3>3. QED
      BY <2>3, <3>2
  <2>4. QED
    BY <1>1, <1>3, <1>8, <2>1, <2>2, <2>3, GatewayEchoes
<1>9. ASSUME NEW i \in Id, Live(i)', book'[i].label \notin excused', echo'[i] = None, ~Echoing(i)'
      PROVE  Unknown(i)'
  <2>1. Unknown(i)
    BY <1>2, <1>8, <1>9 DEF ChangeInv
  <2>2. \A k \in DOMAIN toClient' : toClient'[k].kind = "nextId" =>
               \E j \in DOMAIN toClient : toClient'[k] = toClient[j]
    BY <1>1, GatewayAnswers, NumbersFrom
  <2>3. QED
    BY <1>2, <2>1, <2>2, UnknownFrame DEF Unknown
<1>10. ASSUME NEW i \in Id, Live(i)', book'[i].label \notin excused'
       PROVE  HasChanges(i)'
  <2>1. PICK l : l = book'[i].label
    OBVIOUS
  <2>2. CASE /\ m.kind = "place" /\ m.id = i
             /\ Modified(m) \/ Accepted(m)
             /\ book'[i].has = m.has /\ l = m.label
    <3>1. ChangeOK(m)
      BY <1>2, <1>5, <1>10, <2>1, <2>2
    <3>2. CASE IsNew(m)
      BY <1>2, <2>1, <2>2, <3>1, <3>2, HasForms DEF ChangeOK, Asked
    <3>3. CASE ~IsNew(m)
      <4>1. IsChange(m) /\ Modified(m)
        BY <2>2, <3>3 DEF IsNew, IsChange, Accepted
      <4>2. Asked(m.label) \subseteq m.has
        BY <3>1, <4>1 DEF ChangeOK, Modified
      <4>3. QED
        BY <1>2, <2>1, <2>2, <4>2, HasForms DEF Asked
    <3>4. QED
      BY <3>2, <3>3
  <2>3. CASE /\ ~ (m.kind = "place" /\ m.id = i /\ (Modified(m) \/ Accepted(m)))
             /\ Live(i) /\ book'[i].has = book[i].has /\ l = book[i].label
    <3>1. HasChanges(i)
      BY <1>2, <1>10, <2>1, <2>3 DEF ChangeInv
    <3>2. ASSUME filed[l] = i, ~ (Asked(l) \subseteq book[i].has)
          PROVE  \E k \in DOMAIN toGateway' : IsChange(toGateway'[k]) /\ toGateway'[k].label = l
      <4>1. PICK k \in DOMAIN toGateway : IsChange(toGateway[k]) /\ toGateway[k].label = l
        BY <2>3, <3>1, <3>2 DEF HasChanges
      <4>2. CASE k = 1
        <5>1. IsChange(m) /\ m.label = l /\ m.id = i /\ m.kind = "place"
          BY <1>4, <1>5, <3>2, <4>1, <4>2 DEF RequestOK, IsChange
        <5>2. Refused(m)
          BY <1>1, <1>3, <2>3, <5>1, GatewayCases DEF Dropped, Answered
        <5>3. ChangeOK(m)
          BY <1>2, <1>5, <1>10, <2>1, <5>1
        <5>4. QED
          BY <2>3, <5>1, <5>2, <5>3 DEF ChangeOK, Refused
      <4>3. CASE k # 1
        BY <1>4, <4>1, <4>3
      <4>4. QED
        BY <4>2, <4>3
    <3>3. QED
      BY <1>2, <2>1, <2>3, <3>2, HasForms DEF Asked
  <2>4. QED
    BY <1>8, <1>10, <2>1, <2>2, <2>3
<1>11. ASSUME NEW k \in DOMAIN toGateway', NEW r, r = toGateway'[k],
              r.kind = "place", r.label \notin excused'
       PROVE  ChangeOK(r)'
  <2>1. k + 1 \in DOMAIN toGateway /\ r = toGateway[k + 1]
    BY <1>4, <1>11
  <2>2. ChangeOK(r) /\ r \in Requests /\ RequestOK(r)
    BY <1>1, <1>2, <1>11, <2>1 DEF ChangeInv, RequestsOK
  <2>3. r.id \in Id
    BY <1>11, <2>2, PlacementForms
  <2>4. ASSUME IsChange(r)
        PROVE  \A j \in DOMAIN toGateway' : IsNew(toGateway'[j]) => toGateway'[j].label # r.label
    BY <1>4, <2>2, <2>4 DEF ChangeOK
  <2>5. ASSUME IsChange(r), Live(r.id)', book'[r.id].label = r.label
        PROVE  Asked(r.label) \subseteq r.has /\ r.echoed
    <3>1. CASE Live(r.id) /\ book'[r.id].label = book[r.id].label
      BY <2>2, <2>5, <3>1 DEF ChangeOK
    <3>2. CASE m.id = r.id /\ m.label = r.label /\ (Modified(m) \/ Accepted(m))
      <4>1. CASE Modified(m)
        BY <2>2, <2>5, <3>2, <4>1 DEF ChangeOK, Modified
      <4>2. CASE Accepted(m)
        <5>1. IsNew(m)
          BY <4>2 DEF Accepted
        <5>2. QED
          BY <1>4, <2>2, <2>5, <3>2, <5>1 DEF ChangeOK
      <4>3. QED
        BY <3>2, <4>1, <4>2
    <3>3. QED
      BY <1>8, <1>11, <2>3, <2>5, <3>1, <3>2
  <2>6. /\ IsNew(r) => meant'[r.label] \cap Change = {}
        /\ Asked(r.label) = meant'[r.label] \cap Change
    BY <1>2, <2>2 DEF ChangeOK, Asked
  <2>7. QED
    BY <2>4, <2>5, <2>6 DEF ChangeOK, IsNew, IsChange, Live, Asked
<1>12. QED
  BY <1>7, <1>9, <1>10, <1>11, ChangeParts

LEMMA UnknownLocal ==
    ASSUME SessionTyped, ThreadsOK, NEW i \in Id, Unknown(i), toClient' = toClient,
           \/ \E j \in Id : Executes(j)
           \/ \E e \in Endpoint :
                \/ Resolve(e) \/ ResolveFails(e) \/ PlacementRaises(e) \/ SendLeg(e)
                \/ \E legs \in Groups[e] : AllocOrderIds(e, legs)
                \/ \E l \in Label : CancelOrder(e, l)
    PROVE  Unknown(i)'
<1> USE DEF threadVars, idVars, lookupVars, orderVars, gateVars, historyVars
<1>1. CASE nextId' = nextId /\ placed' = placed /\ ids' = ids
  BY <1>1, UnknownFrame DEF Unknown
<1>2. ASSUME NEW e \in Endpoint, NEW legs \in Groups[e], AllocOrderIds(e, legs)
      PROVE  Unknown(i)'
  <2>1. /\ nextId \in Id /\ ids' = [ids EXCEPT ![e] = ids'[e]]
        /\ ids'[e] \in [Leg -> Optional(Id)]
        /\ \A g \in Leg : ids'[e][g] # None => nextId <= ids'[e][g]
        /\ nextId < nextId' /\ nextId' \in 1 .. MaxId + 1
    BY <1>2, AllocForms
  <2>2. i < nextId /\ i \in Nat /\ nextId \in Nat /\ nextId' \in Nat
    BY <2>1, NoneAssumption, Bounds DEF Unknown, Id
  <2>3. placed' = placed
    BY <1>2 DEF AllocOrderIds
  <2>4. \A f \in Endpoint, g \in Leg : ids'[f][g] # i
    <3>1. ASSUME NEW g \in Leg PROVE ids'[e][g] # i
      <4>1. ids'[e][g] = None \/ ids'[e][g] \in Nat
        BY <2>1, Bounds DEF Optional
      <4>2. i # None
        BY NoneAssumption, Bounds DEF Id
      <4>3. QED
        BY <2>1, <2>2, <4>1, <4>2
    <3>2. \A f \in Endpoint : f # e => ids'[f] = ids[f]
      BY <2>1 DEF SessionTyped, TypeOK
    <3>3. QED
      BY <3>1, <3>2 DEF Unknown
  <2>5. i < nextId'
    BY <2>1, <2>2
  <2>6. QED
    BY <2>3, <2>4, <2>5, UnknownFrame
<1>3. ASSUME NEW e \in Endpoint, SendLeg(e)
      PROVE  Unknown(i)'
  <2>1. /\ nextId' = nextId
        /\ \A f \in Endpoint : f # e => ids'[f] = ids[f]
        /\ ids'[e] = ids[e] \/ ids'[e] = NoIds
    BY <1>3, SendFiles
  <2>2. \A f \in Endpoint, g \in Leg : ids'[f][g] # i
    BY <2>1, NoneAssumption, Bounds DEF Unknown, NoIds, Id
  <2>3. \/ placed' = placed
        \/ placed' = [placed EXCEPT ![e] = [j \in Id |->
                         IF \E g \in Leg : ids[e][g] = j THEN {} ELSE placed[e][j]]]
    BY <1>3 DEF SendLeg
  <2>4. \A f \in Endpoint : placed'[f][i] = placed[f][i]
    <3>1. \A g \in Leg : ids[e][g] # i
      BY DEF Unknown
    <3> DEFINE kept == [j \in Id |-> IF \E g \in Leg : ids[e][g] = j THEN {} ELSE placed[e][j]]
    <3>2. kept[i] = placed[e][i]
      BY <3>1
    <3>3. placed \in [Endpoint -> [Id -> Optional(Changes)]]
      BY DEF SessionTyped, TypeOK
    <3>4. placed' = placed \/ placed' = [placed EXCEPT ![e] = kept]
      BY <2>3
    <3> HIDE DEF kept
    <3>5. QED
      BY <3>2, <3>3, <3>4
  <2>5. QED
    BY <2>1, <2>2, <2>4, UnknownFrame DEF Unknown
<1>4. QED
  BY <1>1, <1>2, <1>3 DEF Executes, Resolve, ResolveFails, PlacementRaises, CancelOrder

LEMMA ChangeLocal ==
    ASSUME BaseInv, Next, ChangeInv,
           \/ \E i \in Id : Executes(i)
           \/ \E e \in Endpoint :
                \/ Resolve(e) \/ ResolveFails(e) \/ PlacementRaises(e) \/ SendLeg(e)
                \/ \E legs \in Groups[e] : AllocOrderIds(e, legs)
                \/ \E l \in Label : CancelOrder(e, l)
    PROVE  ChangeInv'
<1> USE DEF threadVars, idVars, lookupVars, orderVars, gateVars, historyVars
<1>1. /\ SessionTyped /\ ThreadsOK /\ MeantOK /\ RequestsOK
      /\ toGateway \in Seq(Requests)
  BY DEF BaseInv, SessionTyped
<1>2. /\ toClient' = toClient /\ echo' = echo /\ excused' = excused
      /\ book' = book \/ \E i \in Id : Executes(i)
  <2>1. ASSUME NEW e \in Endpoint, SendLeg(e)
        PROVE  /\ toClient' = toClient /\ echo' = echo /\ excused' = excused
               /\ book' = book
    BY <2>1 DEF SendLeg
  <2>2. ASSUME NEW e \in Endpoint, NEW legs \in Groups[e], AllocOrderIds(e, legs)
        PROVE  /\ toClient' = toClient /\ echo' = echo /\ excused' = excused
               /\ book' = book
    BY <2>2 DEF AllocOrderIds
  <2>3. QED
    BY <2>1, <2>2 DEF Executes, Resolve, ResolveFails, PlacementRaises, CancelOrder
<1>3. ASSUME NEW i \in Id, book'[i] # None
      PROVE  book[i] # None /\ book'[i].has = book[i].has /\ book'[i].label = book[i].label
  BY <1>1, <1>2, <1>3, ExecutesBook DEF Kept, Over
<1>4. \/ toGateway' = toGateway
      \/ \E x \in Requests : /\ toGateway' = Append(toGateway, x) /\ ~IsChange(x)
                             /\ IsNew(x) => x.label \in Label /\ filed[x.label] = None
  <2>1. ASSUME NEW e \in Endpoint, SendLeg(e)
        PROVE  \/ toGateway' = toGateway
               \/ \E x \in Requests : /\ toGateway' = Append(toGateway, x) /\ ~IsChange(x)
                                      /\ x.label \in Label /\ filed[x.label] = None
    <3>1. PICK g \in Leg : /\ g = Head(todo[e]) /\ pc[e] = "sending" /\ Begun(e)
      BY <1>1, <2>1, SendForms
    <3>2. Current(e, g) \in Label
      BY <1>1, <3>1, CurrentForms
    <3>3. filed[Current(e, g)] = None
      BY <1>1, <3>1 DEF ThreadsOK, ThreadOK
    <3>4. QED
      BY <1>1, <2>1, <3>1, <3>2, <3>3, SentForms
  <2>2. ASSUME NEW e \in Endpoint, NEW l \in Label, CancelOrder(e, l)
        PROVE  \E x \in Requests : /\ toGateway' = Append(toGateway, x) /\ ~IsChange(x)
                                   /\ ~IsNew(x)
    <3>1. Cancelled(l) \in Requests /\ toGateway' = Append(toGateway, Cancelled(l))
      BY <1>1, <2>2, FollowTyped
    <3>2. QED
      BY <3>1 DEF Cancelled, IsChange, IsNew
  <2>3. ASSUME NEW e \in Endpoint, Resolve(e)
        PROVE  \/ toGateway' = toGateway
               \/ \E x \in Requests : /\ toGateway' = Append(toGateway, x) /\ ~IsChange(x)
                                      /\ ~IsNew(x)
    <3>1. CASE toGateway' = Append(toGateway, [kind |-> "resolve", id |-> ReqId(reqSeq + 1)])
      <4>1. [kind |-> "resolve", id |-> ReqId(reqSeq + 1)] \in Requests
        BY <1>1, Bounds DEF SessionTyped, Requests, Lookups
      <4>2. QED
        BY <3>1, <4>1 DEF IsChange, IsNew
    <3>2. QED
      BY <2>3, <3>1 DEF Resolve
  <2>4. ASSUME NEW e \in Endpoint, NEW legs \in Groups[e], AllocOrderIds(e, legs)
        PROVE  toGateway' = toGateway
    BY <2>4 DEF AllocOrderIds
  <2>5. QED
    BY <2>1, <2>2, <2>3, <2>4 DEF Executes, ResolveFails, PlacementRaises
<1>5. ASSUME NEW l \in Label
      PROVE  meant'[l] \cap Change = Asked(l)
  <2>1. ASSUME NEW e \in Endpoint, NEW c \in Change, ModifyOrder(e, l, c)
        PROVE  FALSE
    <3>1. /\ Changed(e, l, c) \in Requests /\ toGateway' = Append(toGateway, Changed(e, l, c))
          /\ IsChange(Changed(e, l, c))
      BY <1>1, <2>1, FollowTyped DEF Changed, IsChange
    <3>2. toGateway' # toGateway
      BY <1>1, <3>1, PushForms
    <3>3. PICK x \in Requests : toGateway' = Append(toGateway, x) /\ ~IsChange(x)
      BY <1>4, <3>2
    <3>4. QED
      BY <1>1, <3>1, <3>3, PushedIs
  <2>2. QED
    BY <2>1, AskedSame
<1>6. ASSUME NEW l \in Label, filed[l] = None
      PROVE  Asked(l) = {}
  BY <1>1, <1>6, ChangeAssumption DEF MeantOK, LabelOK, Asked
<1>7. ASSUME NEW l \in Label
      PROVE  filed'[l] = filed[l] \/ Asked(l) = {}
  <2>1. ASSUME NEW e \in Endpoint, SendLeg(e), filed'[l] # filed[l]
        PROVE  filed[l] = None
    <3>1. l.leg \in Leg /\ l = Current(e, l.leg)
      BY <1>1, <2>1, SendFiles
    <3>2. pc[e] = "sending"
      BY <1>1, <2>1, SendForms
    <3>3. QED
      BY <1>1, <3>1, <3>2 DEF ThreadsOK, ThreadOK
  <2>2. ASSUME NEW e \in Endpoint, NEW legs \in Groups[e], AllocOrderIds(e, legs)
        PROVE  filed' = filed
    BY <2>2 DEF AllocOrderIds
  <2>3. QED
    BY <1>6, <2>1, <2>2
       DEF Executes, Resolve, ResolveFails, PlacementRaises, CancelOrder
<1>8. ASSUME NEW i \in Id, book'[i] # None, book'[i].label \notin excused'
      PROVE  EchoOK(i)' /\ Echoing(i)' = Echoing(i)
  <2>1. EchoOK(i)
    BY <1>2, <1>3, <1>8 DEF ChangeInv
  <2>2. QED
    BY <1>1, <1>2, <1>3, <1>8, <2>1, EchoFrame
<1>9. ASSUME NEW i \in Id, Live(i)', book'[i].label \notin excused', echo'[i] = None, ~Echoing(i)'
      PROVE  Unknown(i)'
  <2>1. Live(i) /\ book'[i] = book[i]
    BY <1>1, <1>2, <1>9, LiveSame
  <2>2. Unknown(i)
    BY <1>2, <1>8, <1>9, <2>1 DEF ChangeInv, Live
  <2>3. QED
    BY <1>1, <1>2, <2>2, UnknownLocal
<1>10. ASSUME NEW i \in Id, Live(i)', book'[i].label \notin excused'
       PROVE  HasChanges(i)'
  <2>1. Live(i) /\ book'[i] = book[i]
    BY <1>1, <1>2, <1>10, LiveSame
  <2>2. PICK l \in Label : l = book'[i].label /\ l = book[i].label
    BY <1>1, <2>1, BookForms, OrderForms
  <2>3. HasChanges(i)
    BY <1>2, <1>10, <2>1 DEF ChangeInv
  <2>4. \A k \in DOMAIN toGateway : k \in DOMAIN toGateway' /\ toGateway'[k] = toGateway[k]
    BY <1>1, <1>4, PushForms
  <2>5. filed'[l] = i => \/ meant'[l] \cap Change \subseteq book'[i].has
                         \/ \E k \in DOMAIN toGateway' :
                               IsChange(toGateway'[k]) /\ toGateway'[k].label = l
    BY <1>5, <1>7, <2>1, <2>2, <2>3, <2>4 DEF HasChanges
  <2>6. QED
    BY <2>2, <2>5, HasForms
<1>11. ASSUME NEW k \in DOMAIN toGateway', NEW r, r = toGateway'[k],
              r.kind = "place", r.label \notin excused'
       PROVE  ChangeOK(r)'
  <2>1. \A j \in DOMAIN toGateway' :
           \/ j \in DOMAIN toGateway /\ toGateway'[j] = toGateway[j]
           \/ /\ ~IsChange(toGateway'[j]) /\ toGateway'[j] \in Requests
              /\ IsNew(toGateway'[j]) => filed[toGateway'[j].label] = None
    BY <1>1, <1>4, PushForms
  <2>2. r \in Requests
    BY <1>1, <1>4, <1>11, PushForms
  <2>3. r.id \in Id /\ r.label \in Label
    BY <1>11, <2>2, PlacementForms
  <2>4. CASE k \in DOMAIN toGateway /\ r = toGateway[k]
    <3>1. ChangeOK(r) /\ RequestOK(r)
      BY <1>1, <1>2, <1>11, <2>4 DEF ChangeInv, RequestsOK
    <3>2. meant'[r.label] \cap Change = Asked(r.label)
      BY <1>5, <2>3
    <3>3. ASSUME IsChange(r)
          PROVE  \A j \in DOMAIN toGateway' : IsNew(toGateway'[j]) => toGateway'[j].label # r.label
      <4>1. filed[r.label] # None
        BY <2>3, <3>1, <3>3, NoneAssumption, Bounds DEF RequestOK, Id
      <4>2. QED
        BY <2>1, <3>1, <3>3, <4>1 DEF ChangeOK
    <3>4. Live(r.id)' => Live(r.id) /\ book'[r.id] = book[r.id]
      BY <1>1, <1>2, <2>3, LiveSame
    <3>5. QED
      BY <3>1, <3>2, <3>3, <3>4 DEF ChangeOK, IsNew, IsChange, Live, Asked
  <2>5. CASE ~IsChange(r) /\ (IsNew(r) => filed[r.label] = None)
    <3>1. IsNew(r) => meant'[r.label] \cap Change = {}
      BY <1>5, <1>6, <2>3, <2>5
    <3>2. QED
      BY <2>5, <3>1 DEF ChangeOK, IsNew, IsChange, Asked
  <2>6. QED
    BY <1>11, <2>1, <2>4, <2>5
<1>12. QED
  BY <1>8, <1>9, <1>10, <1>11, ChangeParts

LEMMA ChangeModify ==
    ASSUME BaseInv, Next, ChangeInv, NEW e \in Endpoint, NEW l \in Label,
           NEW c \in Change, ModifyOrder(e, l, c)
    PROVE  ChangeInv'
<1> USE DEF threadVars
<1>1. /\ SessionTyped /\ MeantOK /\ RequestsOK /\ toGateway \in Seq(Requests)
  BY DEF BaseInv, SessionTyped
<1> DEFINE x == Changed(e, l, c)
           b == Base(e, filed[l])
<1>2. PICK i0 \in Id : i0 = filed[l]
  BY <1>1, FollowForms DEF ModifyOrder
<1>3. /\ meant' = [meant EXCEPT ![l] = meant[l] \cup {c}]
      /\ filed' = filed /\ toClient' = toClient /\ book' = book /\ echo' = echo
      /\ ids' = ids /\ nextId' = nextId
      /\ placed' = [placed EXCEPT ![e][i0] = b.has \cup {c}]
      /\ excused' = IF UnderWay(l) THEN excused \cup {l} ELSE excused
  <2>1. meant' = [meant EXCEPT ![l] = meant[l] \cup {c}]
    BY <1>1, FollowForms DEF ModifyOrder
  <2>2. ids' = ids /\ nextId' = nextId
    BY DEF ModifyOrder, idVars
  <2>3. QED
    BY <1>2, <2>1, <2>2 DEF ModifyOrder
<1>4. /\ x \in Requests /\ toGateway' = Append(toGateway, x)
      /\ b.has \in Changes /\ b.has # None
      /\ \/ echo[i0] # None /\ b.has = echo[i0] /\ b.echoed
         \/ echo[i0] = None /\ b.has = placed[e][i0]
  BY <1>1, <1>2, FollowTyped, NoneAssumption
<1>5. /\ IsChange(x) /\ ~IsNew(x) /\ x.kind = "place" /\ x.id = i0 /\ x.label = l
      /\ x.has = b.has \cup {c} /\ x.echoed = b.echoed
  BY <1>2 DEF Changed, IsChange, IsNew
<1> HIDE DEF x, b
<1>6. /\ \A k \in DOMAIN toGateway : k \in DOMAIN toGateway' /\ toGateway'[k] = toGateway[k]
      /\ \E k \in DOMAIN toGateway' : toGateway'[k] = x
      /\ \A k \in DOMAIN toGateway' : \/ k \in DOMAIN toGateway /\ toGateway'[k] = toGateway[k]
                                      \/ toGateway'[k] = x
  BY <1>1, <1>4, PushForms
<1>7. /\ meant'[l] \cap Change = Asked(l) \cup {c}
      /\ \A k \in Label : k # l => meant'[k] \cap Change = Asked(k)
  BY <1>1, <1>3 DEF Asked, SessionTyped
<1>8. excused \subseteq excused'
  BY <1>3
<1>9. ASSUME NEW i \in Id, book'[i] # None, book'[i].label \notin excused'
      PROVE  EchoOK(i)' /\ Echoing(i)' = Echoing(i)
  <2>1. EchoOK(i)
    BY <1>3, <1>8, <1>9 DEF ChangeInv
  <2>2. QED
    BY <1>1, <1>3, <2>1, EchoFrame
<1>10. ASSUME NEW i \in Id, Live(i)', book'[i].label \notin excused', echo'[i] = None, ~Echoing(i)'
       PROVE  Unknown(i)'
  <2>1. Live(i)
    BY <1>3, <1>10 DEF Live
  <2>2. Unknown(i)
    BY <1>3, <1>8, <1>9, <1>10, <2>1 DEF ChangeInv, Live
  <2>3. i # i0
    BY <1>3, <1>4, <1>10, <2>2 DEF Unknown
  <2>4. placed \in [Endpoint -> [Id -> Optional(Changes)]]
    BY <1>1 DEF SessionTyped, TypeOK
  <2>5. \A f \in Endpoint : placed'[f][i] = placed[f][i]
    BY <1>3, <2>3, <2>4
  <2>6. QED
    BY <1>3, <2>2, <2>5, UnknownFrame DEF Unknown
<1>11. ASSUME NEW i \in Id, Live(i)', book'[i].label \notin excused'
       PROVE  HasChanges(i)'
  <2>1. Live(i)
    BY <1>3, <1>11 DEF Live
  <2>2. PICK k \in Label : k = book'[i].label /\ k = book[i].label
    BY <1>1, <1>3, <2>1, BookForms, OrderForms
  <2>3. CASE k = l
    BY <1>5, <1>6, <2>2, <2>3, HasForms
  <2>4. CASE k # l
    <3>1. HasChanges(i)
      BY <1>3, <1>8, <1>11, <2>1 DEF ChangeInv
    <3>2. filed'[k] = i => \/ meant'[k] \cap Change \subseteq book'[i].has
                           \/ \E j \in DOMAIN toGateway' :
                                 IsChange(toGateway'[j]) /\ toGateway'[j].label = k
      BY <1>3, <1>6, <1>7, <2>2, <2>4, <3>1 DEF HasChanges
    <3>3. QED
      BY <2>2, <3>2, HasForms
  <2>5. QED
    BY <2>3, <2>4
<1>12. ASSUME l \notin excused'
       PROVE  /\ ~UnderWay(l) /\ l \notin excused
              /\ \A k \in DOMAIN toGateway : toGateway[k].kind # "resolve" => toGateway[k].label # l
              /\ Live(i0) /\ book[i0].label = l => Asked(l) \subseteq b.has /\ b.echoed
  <2>1. ~UnderWay(l) /\ l \notin excused
    BY <1>3, <1>12
  <2>2. \A k \in DOMAIN toGateway : toGateway[k].kind # "resolve" => toGateway[k].label # l
    BY <2>1 DEF UnderWay
  <2>3. ASSUME Live(i0), book[i0].label = l
        PROVE  Asked(l) \subseteq b.has /\ b.echoed
    <3>1. EchoOK(i0) /\ HasChanges(i0)
      BY <2>1, <2>3 DEF ChangeInv, Live
    <3>2. ~Echoing(i0)
      BY <2>1, <2>3, <3>1 DEF EchoOK, UnderWay, IsEcho
    <3>3. echo[i0] # None
      <4>1. echo[i0] = None => Unknown(i0)
        BY <2>1, <2>3, <3>2 DEF ChangeInv
      <4>2. QED
        BY <1>4, <4>1 DEF Unknown
    <3>4. b.has = book[i0].has /\ b.echoed
      BY <1>4, <3>1, <3>2, <3>3 DEF EchoOK
    <3>5. Asked(l) \subseteq book[i0].has
      BY <1>2, <2>2, <2>3, <3>1 DEF HasChanges, IsChange
    <3>6. QED
      BY <3>4, <3>5
  <2>4. QED
    BY <2>1, <2>2, <2>3
<1>13. ASSUME NEW k \in DOMAIN toGateway', NEW r, r = toGateway'[k],
              r.kind = "place", r.label \notin excused'
       PROVE  ChangeOK(r)'
  <2>1. Live(r.id)' <=> Live(r.id)
    BY <1>3 DEF Live
  <2>2. CASE r = x
    <3>1. l \notin excused'
      BY <1>5, <1>13, <2>2
    <3>2. \A j \in DOMAIN toGateway' : IsNew(toGateway'[j]) => toGateway'[j].label # l
      BY <1>5, <1>6, <1>12, <3>1 DEF IsNew
    <3>3. Live(i0) /\ book[i0].label = l => meant'[l] \cap Change \subseteq x.has /\ x.echoed
      BY <1>5, <1>7, <1>12, <3>1
    <3>4. QED
      BY <1>3, <1>5, <2>1, <2>2, <3>2, <3>3 DEF ChangeOK, IsNew, IsChange, Asked
  <2>3. CASE k \in DOMAIN toGateway /\ r = toGateway[k]
    <3>1. ChangeOK(r) /\ r \in Requests
      BY <1>1, <1>8, <1>13, <2>3 DEF ChangeInv
    <3>2. r.label \in Label /\ r.label # l
      <4>1. r.label \in Label
        BY <1>13, <3>1, PlacementForms
      <4>2. r.label = l => UnderWay(l)
        BY <1>13, <2>3 DEF UnderWay
      <4>3. QED
        BY <1>12, <1>13, <4>1, <4>2
    <3>3. meant'[r.label] \cap Change = Asked(r.label)
      BY <1>7, <3>2
    <3>4. ASSUME IsChange(r)
          PROVE  \A j \in DOMAIN toGateway' : IsNew(toGateway'[j]) => toGateway'[j].label # r.label
      BY <1>5, <1>6, <3>1, <3>4 DEF ChangeOK
    <3>5. QED
      BY <1>3, <2>1, <3>1, <3>3, <3>4 DEF ChangeOK, IsNew, IsChange, Asked
  <2>4. QED
    BY <1>6, <1>13, <2>2, <2>3
<1>14. QED
  BY <1>9, <1>10, <1>11, <1>13, ChangeParts

LEMMA ChangeSame ==
    ASSUME ChangeInv,
           UNCHANGED <<ids, nextId, echo, placed, filed, toGateway, toClient, book, meant,
                       excused>>
    PROVE  ChangeInv'
<1>1. /\ \A i \in Id : EchoOK(i)' <=> EchoOK(i)
      /\ \A i \in Id : HasChanges(i)' <=> HasChanges(i)
      /\ \A i \in Id : Unknown(i)' <=> Unknown(i)
      /\ \A i \in Id : Live(i)' <=> Live(i)
      /\ \A i \in Id : Echoing(i)' <=> Echoing(i)
  BY DEF EchoOK, HasChanges, Unknown, Live, Echoing, IsEcho, Asked, IsChange
<1>2. ASSUME NEW m, ChangeOK(m)
      PROVE  ChangeOK(m)'
  BY <1>2 DEF ChangeOK, IsNew, IsChange, Asked, Live
<1>3. QED
  BY <1>1, <1>2, ChangeParts DEF ChangeInv

LEMMA ChangeStep ==
    ASSUME BaseInv, ChangeInv, [Next]_vars
    PROVE  ChangeInv'
<1>1. CASE UNCHANGED vars
  BY <1>1, ChangeSame
     DEF vars, threadVars, idVars, lookupVars, orderVars, gateVars, historyVars
<1>2. CASE Next
  <2>1. CASE GatewayTakes
    BY <1>2, <2>1, ChangeGateway
  <2>2. CASE ReaderTakes
    BY <1>2, <2>2, ChangeReader
  <2>3. CASE Drop \/ Restart \/ \E e \in Endpoint : ConnectFails(e)
    BY <1>2, <2>3, ChangeCut
  <2>4. CASE \E e \in Endpoint : Connect(e)
    BY <1>2, <2>4, ChangeConnect
  <2>5. CASE \E e \in Endpoint, l \in Label, c \in Change : ModifyOrder(e, l, c)
    BY <1>2, <2>5, ChangeModify
  <2>6. CASE \/ \E i \in Id : Executes(i)
             \/ \E e \in Endpoint :
                \/ Resolve(e) \/ ResolveFails(e) \/ PlacementRaises(e) \/ SendLeg(e)
                \/ \E legs \in Groups[e] : AllocOrderIds(e, legs)
                \/ \E l \in Label : CancelOrder(e, l)
    BY <1>2, <2>6, ChangeLocal
  <2>7. CASE \E e \in Endpoint : \E l \in Label :
                CancelRaises(e, l) \/ \E c \in Change : ModifyRaises(e, l, c)
    BY <2>7, RaisesAlone, ChangeSame
  <2>8. QED
    BY <1>2, <2>1, <2>2, <2>3, <2>4, <2>5, <2>6, <2>7 DEF Next
<1>3. QED
  BY <1>1, <1>2

(* Successive modifications add up: once nothing about an order is under   *)
(* way, it has every change its source made and the client passed on, though *)
(* each is built on the Gateway's last echo, the connection may drop in      *)
(* between and the engine restart. A change whose call raised is in lost     *)
(* and not among them. The step the proof rests on is modify_order's base:   *)
(* the echo if there is one, or else what this endpoint remembers, which is  *)
(* nothing for an order from before a restart: that call raises.             *)
THEOREM ModificationsAddUp == Spec => []ModificationsCompose
<1>1. Init => BaseInv /\ ChangeInv
  <2> SUFFICES ASSUME Init PROVE ChangeInv
    BY BaseInit
  <2>1. DOMAIN toGateway = {} /\ \A i \in Id : book[i] = None
    BY DEF Init, Empty
  <2>2. QED
    BY <2>1 DEF ChangeInv, Live
<1>2. BaseInv /\ ChangeInv /\ [Next]_vars => (BaseInv /\ ChangeInv)'
  BY BaseStep, ChangeStep
<1>3. BaseInv /\ ChangeInv => ModificationsCompose
  <2> SUFFICES ASSUME BaseInv, ChangeInv, NEW l \in Label,
                      NEW i, i = filed[l], i # None, Live(i), book[i].label = l,
                      l \notin excused, ~UnderWay(l)
               PROVE  meant[l] \cap Change \subseteq book[i].has
    BY DEF ModificationsCompose
  <2>1. i \in Id
    BY DEF BaseInv, SessionTyped, TypeOK, Optional
  <2>2. HasChanges(i)
    BY <2>1 DEF ChangeInv
  <2>3. QED
    BY <2>2 DEF HasChanges, UnderWay, IsChange, Asked
<1>4. QED
  BY <1>1, <1>2, <1>3, PTL DEF Spec

=============================================================================
