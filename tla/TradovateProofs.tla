-------------------------- MODULE TradovateProofs --------------------------
(***************************************************************************)
(* Proofs about the two Tradovate modules.                                 *)
(*                                                                         *)
(* TradovateSession, for any threads, operations, accounts and clock: the  *)
(* tokens requests carry and the accounts orders carry.                    *)
(*                                                                         *)
(* PushFeed, for any orders, modifications, executions, delays, troubles   *)
(* and frames left unread: the events the parser makes of the user-data    *)
(* channel, whatever a lost connection swallowed, and, while it swallowed  *)
(* nothing, that they announce brackets whole and follow the account.      *)
(***************************************************************************)
EXTENDS TradovateSession, PushFeed, FiniteSetTheorems, SequenceTheorems, TLAPS

-----------------------------------------------------------------------------
(* TradovateSession: the client's invariant.                               *)

Places == Exchanging \cup {"idle", "fresh", "ready"}
Ops == {"none", "connect", "lookup", "place", "use"}
Grant == [life : Life, dated : BOOLEAN]
Wire == [life : Life \cup {None}, account : Account \cup {None}]

Dating == {"auth_dating", "renew_dating"}
Granting == Dating \cup {"authed", "renewed"}
LoggingIn == {"auth", "authed", "auth_dating", "listing"}

\* What holds of a thread at place p, with operation o, d logins under way,
\* the grant g, the request w and l ticks left, when the client holds the
\* token tk, the expiry ex and the account ac.
ThreadOK(p, o, d, g, w, l, tk, ex, ac) ==
    \* no login begins within a login
    /\ d <= 1
    /\ p \in LoggingIn => d = 1
    /\ p \in {"idle", "renewing", "renewed", "renew_dating", "ready", "sent"}
          => d = 0
    /\ p = "fresh" /\ d = 1 => ex = None \/ ex > Leeway
    \* a grant has lost no more than its exchange has taken, and the stored
    \* token is at most an exchange older than a grant about to be dated
    /\ p \in Granting => g.life <= Lifetime /\ g.life + MaxCall >= Lifetime + l
    /\ p \in Dating => tk # None /\ tk + MaxCall >= g.life
    \* a token about to be sent outlives an exchange
    /\ p = "ready" => tk # None /\ tk > MaxCall
    /\ p = "listing" => tk # None /\ tk > Leeway - 2 * MaxCall + l
    /\ p \in {"sent", "listing"} => w.life # None /\ w.life > l
    \* accounts, and the shadow session, which exchanges nothing
    /\ p # "idle" /\ o = "place" => ac # None
    /\ p # "sent" => w.account = None
    /\ p \in Exchanging => ~shadow
    /\ shadow => d = 0

\* the token is at most an exchange older than the expiry
ClientOK(tk, ex, ac) ==
    /\ tk \in Life \cup {None} /\ ex \in Life \cup {None}
    /\ ex # None => tk # None /\ tk + MaxCall >= ex
    /\ shadow => ex \in {None, Lifetime}
    /\ shadow \/ ac \in Account \cup {None}

\* The inductive invariant.
SessionInv ==
    /\ TypeOK
    /\ ClientOK(token, expiration, account)
    /\ \A t \in Thread : ThreadOK(pc[t], op[t], depth[t], grant[t], wire[t],
                                  left[t], token, expiration, account)

\* the accounts an order may carry
Intended(a) ==
    IF pin = None THEN a \in Own
    ELSE a = pin \/ (a # None /\ pin \notin Account /\ NameOf[a] = pin)

ListsComplete ==
    /\ Own # {}
    /\ \A list \in Lists : Account \subseteq {list[i] : i \in DOMAIN list}

AccountInv ==
    /\ ~shadow /\ account # None => Intended(account)
    /\ OrdersOnAccount

-----------------------------------------------------------------------------
(* One thread moves.                                                       *)

Moves(t, p, o, d, g, w, l) ==
    /\ pc' = [pc EXCEPT ![t] = p]
    /\ op' = [op EXCEPT ![t] = o]
    /\ depth' = [depth EXCEPT ![t] = d]
    /\ grant' = [grant EXCEPT ![t] = g]
    /\ wire' = [wire EXCEPT ![t] = w]
    /\ left' = [left EXCEPT ![t] = l]

\* a client that leaves what other threads rely on
Serves(tk, ex, ac) ==
    /\ ClientOK(tk, ex, ac)
    /\ token # None =>
          tk # None /\ (tk = token \/ tk + MaxCall >= Lifetime)
    /\ ex \in {expiration, None} \/ ex > Leeway
    /\ account # None => ac # None

\* A step of one thread keeps the invariant when the thread's new state and
\* the client's suit each other.
LEMMA MoveKeeps ==
    ASSUME SessionInv, UNCHANGED fixed,
           NEW t \in Thread, NEW p \in Places, NEW o \in Ops, NEW d \in Nat,
           NEW g \in Grant, NEW w \in Wire, NEW l \in 0 .. MaxCall,
           Moves(t, p, o, d, g, w, l),
           Serves(token', expiration', account'),
           ThreadOK(p, o, d, g, w, l, token', expiration', account'),
           cached' \in BOOLEAN, blind' \in BOOLEAN,
           failed' \subseteq Thread, faults' \in 0 .. MaxFaults
    PROVE  SessionInv'
<1>1. TypeOK'
    <2>1. d \in 0 .. 1 /\ (p \in Renewing => d = 0)
        BY DEF ThreadOK, Renewing
    <2>2. /\ depth' \in [Thread -> 0 .. 1]
          /\ \A u \in Thread : pc'[u] \in Renewing => depth'[u] = 0
        BY <2>1 DEF SessionInv, TypeOK, Moves
    <2>3. /\ pc' \in [Thread -> Places] /\ op' \in [Thread -> Ops]
          /\ left' \in [Thread -> 0 .. MaxCall]
          /\ grant' \in [Thread -> Grant] /\ wire' \in [Thread -> Wire]
        BY DEF SessionInv, TypeOK, Moves, Places, Ops, Grant, Wire
    <2>4. /\ shadow' \in BOOLEAN /\ pin' \in Pins
          /\ token' \in Life \cup {None} /\ expiration' \in Life \cup {None}
          /\ ~shadow' => account' \in Account \cup {None}
        BY DEF SessionInv, TypeOK, fixed, Serves, ClientOK
    <2> QED
        BY <2>2, <2>3, <2>4 DEF TypeOK, Places, Ops, Grant, Wire
<1>2. ClientOK(token, expiration, account)'
    BY DEF Serves, ClientOK, fixed
<1>3. ASSUME NEW u \in Thread
      PROVE  ThreadOK(pc[u], op[u], depth[u], grant[u], wire[u], left[u],
                      token, expiration, account)'
    <2>1. CASE u = t
        <3>1. /\ pc'[u] = p /\ op'[u] = o /\ depth'[u] = d
              /\ grant'[u] = g /\ wire'[u] = w /\ left'[u] = l
            BY <2>1 DEF SessionInv, TypeOK, Moves
        <3> QED
            BY <3>1 DEF ThreadOK, fixed
    <2>2. CASE u # t
        <3>1. /\ pc'[u] = pc[u] /\ op'[u] = op[u] /\ depth'[u] = depth[u]
              /\ grant'[u] = grant[u] /\ wire'[u] = wire[u]
              /\ left'[u] = left[u]
            BY <2>2 DEF SessionInv, TypeOK, Moves
        <3>2. /\ pc[u] \in Places /\ depth[u] \in Nat
              /\ grant[u].life \in Life /\ left[u] \in 0 .. MaxCall
            BY DEF SessionInv, TypeOK, Places
        <3>3. ThreadOK(pc[u], op[u], depth[u], grant[u], wire[u], left[u],
                       token, expiration, account)
            BY DEF SessionInv
        <3>4. token \in Life \cup {None} /\ expiration \in Life \cup {None}
            BY DEF SessionInv, ClientOK
        <3>5. token' \in Life \cup {None} /\ expiration' \in Life \cup {None}
            BY DEF Serves, ClientOK
        <3>6. /\ token # None =>
                    token \in Nat /\ token' \in Nat /\ token' # None
                    /\ (token' = token \/ token' + MaxCall >= Lifetime)
              /\ expiration' \in {expiration, None} \/ expiration' > Leeway
              /\ account # None => account' # None
            BY <3>4, <3>5 DEF Serves, Life
        <3>7. pc[u] \in Granting =>
                    grant[u].life <= Lifetime
                    /\ grant[u].life + MaxCall >= Lifetime + left[u]
            BY <3>3 DEF ThreadOK
        <3>8. pc[u] \in Dating =>
                  token' # None /\ token' + MaxCall >= grant[u].life
            BY <3>2, <3>3, <3>6, <3>7, TimeAssumption
            DEF ThreadOK, Granting, Life
        <3>9. pc[u] = "ready" => token' # None /\ token' > MaxCall
            BY <3>3, <3>6, TimeAssumption DEF ThreadOK
        <3>10. pc[u] = "listing" =>
                  token' # None /\ token' > Leeway - 2 * MaxCall + left[u]
            BY <3>2, <3>3, <3>6, TimeAssumption DEF ThreadOK
        <3>11. pc[u] = "fresh" /\ depth[u] = 1 =>
                  expiration' = None \/ expiration' > Leeway
            BY <3>3, <3>6 DEF ThreadOK
        <3>12. pc[u] # "idle" /\ op[u] = "place" => account' # None
            BY <3>3, <3>6 DEF ThreadOK
        <3> QED
            BY <3>1, <3>3, <3>7, <3>8, <3>9, <3>10, <3>11, <3>12
            DEF ThreadOK, fixed
    <2> QED
        BY <2>1, <2>2
<1> QED
    BY <1>1, <1>2, <1>3 DEF SessionInv

\* what the invariant says of one thread, and of the client
LEMMA Known ==
    ASSUME SessionInv, NEW t \in Thread
    PROVE  /\ pc[t] \in Places /\ op[t] \in Ops /\ depth[t] \in Nat
           /\ grant[t] \in Grant /\ wire[t] \in Wire
           /\ left[t] \in 0 .. MaxCall
           /\ ThreadOK(pc[t], op[t], depth[t], grant[t], wire[t], left[t],
                       token, expiration, account)
           /\ Serves(token, expiration, account)
           /\ cached \in BOOLEAN /\ blind \in BOOLEAN /\ failed \subseteq Thread
           /\ faults \in 0 .. MaxFaults
           /\ shadow \in BOOLEAN
           /\ NoWire \in Wire /\ NoGrant \in Grant
<1>1. NoWire \in Wire /\ NoGrant \in Grant
    BY TimeAssumption DEF NoWire, NoGrant, Wire, Grant, Life
<1>2. Serves(token, expiration, account)
    BY DEF SessionInv, Serves
<1> QED
    BY <1>1, <1>2 DEF SessionInv, TypeOK, Places, Ops, Grant, Wire

\* An operation that ends, however it does.
LEMMA EndKeeps ==
    ASSUME SessionInv, UNCHANGED fixed, NEW t \in Thread, Ends(t),
           Serves(token', expiration', account'),
           cached' \in BOOLEAN, blind' \in BOOLEAN,
           failed' \subseteq Thread, faults' \in 0 .. MaxFaults
    PROVE  SessionInv'
<1>1. Moves(t, "idle", "none", 0, grant[t], NoWire, 0)
    BY DEF Ends, Goto, Moves, SessionInv, TypeOK
<1>2. ThreadOK("idle", "none", 0, grant[t], NoWire, 0,
               token', expiration', account')
    BY DEF ThreadOK, Granting, Dating, LoggingIn, Exchanging, NoWire
<1>3. /\ "idle" \in Places /\ "none" \in Ops /\ 0 \in Nat
      /\ 0 \in 0 .. MaxCall
    BY TimeAssumption DEF Places, Ops
<1> QED
    BY <1>1, <1>2, <1>3, Known, MoveKeeps

\* An order operation that begins, or is refused without a connection.
LEMMA GuardedKeeps ==
    ASSUME SessionInv, UNCHANGED fixed, NEW t \in Thread, NEW o \in Ops,
           Guarded(t, o), pc[t] \in {"idle", "sent"},
           UNCHANGED <<token, expiration, account, faults, blind>>,
           cached' \in BOOLEAN
    PROVE  SessionInv'
<1>1. Serves(token', expiration', account')
    BY Known
<1>2. CASE Connected
    <2>1. Moves(t, "fresh", o, depth[t], grant[t], NoWire, 0)
        BY <1>2 DEF Guarded, Goto, Moves, SessionInv, TypeOK
    <2>2. ThreadOK("fresh", o, depth[t], grant[t], NoWire, 0,
                   token', expiration', account')
        BY <1>2, Known DEF ThreadOK, Granting, Dating, LoggingIn, Exchanging,
           NoWire, Connected
    <2>3. "fresh" \in Places /\ 0 \in 0 .. MaxCall /\ failed' \subseteq Thread
        BY <1>2, Known, TimeAssumption DEF Places, Guarded
    <2> QED
        BY <1>1, <2>1, <2>2, <2>3, Known, MoveKeeps
<1>3. CASE ~Connected
    <2>1. Ends(t) /\ failed' = failed \cup {t}
        BY <1>3 DEF Guarded, Raises
    <2> QED
        BY <1>1, <2>1, Known, EndKeeps
<1> QED
    BY <1>2, <1>3

-----------------------------------------------------------------------------
(* The actions of a thread.                                                *)

LEMMA ConnectKeeps ==
    ASSUME SessionInv, NEW t \in Thread, Connect(t)
    PROVE  SessionInv'
<1>1. CASE shadow
    <2>1. /\ UNCHANGED <<fixed, pc, op, left, depth, grant, wire, cached,
                         faults, blind>>
          /\ token' = Lifetime /\ expiration' = Lifetime /\ account' # None
          /\ failed' = failed \ {t}
        BY <1>1, NoneAssumption, AccountAssumption DEF Connect, fixed
    <2>2. Moves(t, pc[t], op[t], depth[t], grant[t], wire[t], left[t])
        BY <2>1 DEF Moves, SessionInv, TypeOK
    <2>3. Serves(token', expiration', account')
        BY <1>1, <2>1, TimeAssumption, NoneAssumption
        DEF Serves, ClientOK, Life
    <2>4. ThreadOK(pc[t], op[t], depth[t], grant[t], wire[t], left[t],
                   token', expiration', account')
        BY <1>1, <2>1, Known, TimeAssumption, NoneAssumption
        DEF ThreadOK, Granting, Dating, Exchanging
    <2> QED
        BY <2>1, <2>2, <2>3, <2>4, Known, MoveKeeps
<1>2. CASE ~shadow
    <2>1. /\ UNCHANGED <<fixed, client, faults, blind>>
          /\ Moves(t, "auth", "connect", depth[t] + 1, grant[t], wire[t],
                   MaxCall)
          /\ failed' = failed \ {t}
        BY <1>2 DEF Connect, Login, Exchange, Goto, Moves, client, SessionInv,
           TypeOK
    <2>2. Serves(token', expiration', account') /\ cached' \in BOOLEAN
        BY <2>1, Known DEF client
    <2>3. ThreadOK("auth", "connect", depth[t] + 1, grant[t], wire[t], MaxCall,
                   token', expiration', account')
        BY <1>2, <2>1, Known
        DEF Connect, ThreadOK, Granting, Dating, LoggingIn, client
    <2>4. /\ "auth" \in Places /\ "connect" \in Ops /\ depth[t] + 1 \in Nat
          /\ MaxCall \in 0 .. MaxCall
        BY Known, TimeAssumption DEF Places, Ops, Exchanging
    <2> QED
        BY <2>1, <2>2, <2>3, <2>4, Known, MoveKeeps
<1> QED
    BY <1>1, <1>2

LEMMA UseKeeps ==
    ASSUME SessionInv, NEW t \in Thread, Use(t)
    PROVE  SessionInv'
<1>1. /\ UNCHANGED <<fixed, client, faults, blind>> /\ pc[t] = "idle"
      /\ UNCHANGED <<token, expiration, account, cached>>
    BY DEF Use, client
<1>2. CASE Returns(t)
    BY <1>1, <1>2, Known, EndKeeps DEF Returns
<1>3. CASE Guarded(t, "use")
    BY <1>1, <1>3, Known, GuardedKeeps DEF Ops
<1> QED
    BY <1>2, <1>3 DEF Use

LEMMA ListAccountsKeeps ==
    ASSUME SessionInv, NEW t \in Thread, ListAccounts(t)
    PROVE  SessionInv'
<1>1. /\ UNCHANGED <<fixed, client, faults, blind>> /\ pc[t] = "idle"
      /\ UNCHANGED <<token, expiration, account, cached>>
    BY DEF ListAccounts, client
<1>2. CASE shadow
    BY <1>1, <1>2, Known, EndKeeps DEF ListAccounts, Returns
<1>3. CASE ~shadow
    <2>1. /\ Moves(t, "fresh", "use", depth[t], grant[t], wire[t], left[t])
          /\ failed' = failed \ {t}
        BY <1>3 DEF ListAccounts, Goto, Moves, SessionInv, TypeOK
    <2>2. ThreadOK("fresh", "use", depth[t], grant[t], wire[t], left[t],
                   token', expiration', account')
        BY <1>1, Known DEF ThreadOK, Granting, Dating, LoggingIn, Exchanging
    <2>3. "fresh" \in Places /\ "use" \in Ops
        BY DEF Places, Ops
    <2> QED
        BY <1>1, <2>1, <2>2, <2>3, Known, MoveKeeps
<1> QED
    BY <1>2, <1>3

LEMMA PlaceKeeps ==
    ASSUME SessionInv, NEW t \in Thread, Place(t)
    PROVE  SessionInv'
<1>1. /\ UNCHANGED <<fixed, token, expiration, account, faults, blind>>
      /\ pc[t] = "idle"
    BY DEF Place
<1>2. CASE cached \/ shadow
    BY <1>1, <1>2, GuardedKeeps DEF Place, Ops
<1>3. CASE ~(cached \/ shadow)
    <2>1. /\ Moves(t, "fresh", "lookup", depth[t], grant[t], wire[t], left[t])
          /\ failed' = failed \ {t} /\ cached' = cached
        BY <1>3 DEF Place, Goto, Moves, SessionInv, TypeOK
    <2>2. ThreadOK("fresh", "lookup", depth[t], grant[t], wire[t], left[t],
                   token', expiration', account')
        BY <1>1, Known DEF ThreadOK, Granting, Dating, LoggingIn, Exchanging
    <2>3. "fresh" \in Places /\ "lookup" \in Ops
        BY DEF Places, Ops
    <2> QED
        BY <1>1, <2>1, <2>2, <2>3, Known, MoveKeeps
<1> QED
    BY <1>2, <1>3

\* The answer to a login or a renewal: the grant is as old as a new one.
LEMMA GrantedKeeps ==
    ASSUME SessionInv, NEW t \in Thread, NEW next, Granted(t, next),
           \/ pc[t] = "auth" /\ next = "authed"
           \/ pc[t] = "renewing" /\ next = "renewed"
    PROVE  SessionInv'
<1>1. PICK g \in Grant :
          /\ g.life = Lifetime
          /\ Moves(t, next, op[t], depth[t], g, NoWire, left[t])
    <2>1. \A b \in BOOLEAN : [life |-> Lifetime, dated |-> b] \in Grant
        BY TimeAssumption DEF Grant, Life
    <2>2. PICK b \in BOOLEAN :
              grant' = [grant EXCEPT ![t] = [life |-> Lifetime, dated |-> b]]
        BY DEF Granted
    <2> QED
        BY <2>1, <2>2 DEF Granted, Goto, Moves, SessionInv, TypeOK
<1>2. /\ UNCHANGED <<fixed, failed, token, expiration, account, cached>>
      /\ faults' \in 0 .. MaxFaults /\ blind' \in BOOLEAN
    <2>1. UNCHANGED <<fixed, failed, token, expiration, account, cached>>
        BY DEF Granted, client
    <2>2. CASE UNCHANGED <<faults, blind>>
        BY <2>1, <2>2, Known
    <2>3. CASE Fault /\ blind' = TRUE
        BY <2>1, <2>3, Known, TimeAssumption DEF Fault
    <2> QED
        BY <2>1, <2>2, <2>3 DEF Granted
<1>3. ThreadOK(next, op[t], depth[t], g, NoWire, left[t],
               token', expiration', account')
    BY <1>1, <1>2, Known, TimeAssumption
    DEF ThreadOK, Granting, Dating, LoggingIn, Exchanging, NoWire
<1>4. next \in Places
    BY DEF Places, Exchanging
<1> QED
    BY <1>1, <1>2, <1>3, <1>4, Known, MoveKeeps

LEMMA StoreTokenKeeps ==
    ASSUME SessionInv, NEW t \in Thread, StoreToken(t)
    PROVE  SessionInv'
<1> DEFINE next == IF pc[t] = "authed" THEN "auth_dating" ELSE "renew_dating"
<1>1. /\ UNCHANGED <<fixed, failed, expiration, account, cached, faults, blind>>
      /\ token' = grant[t].life /\ pc[t] \in {"authed", "renewed"}
      /\ Moves(t, next, op[t], depth[t], grant[t], wire[t], left[t])
    BY DEF StoreToken, Goto, Moves, SessionInv, TypeOK
<1>2. /\ token' \in Life /\ token' # None
      /\ token' + MaxCall >= Lifetime + left[t] /\ left[t] \in 0 .. MaxCall
      /\ ~shadow
    BY <1>1, Known, NoneAssumption
    DEF ThreadOK, Granting, Grant, Life, Exchanging
<1>3. Serves(token', expiration', account')
    BY <1>1, <1>2, Known, TimeAssumption DEF Serves, ClientOK, Life
<1>4. ThreadOK(next, op[t], depth[t], grant[t], wire[t], left[t],
               token', expiration', account')
    BY <1>1, <1>2, Known, TimeAssumption
    DEF ThreadOK, Granting, Dating, LoggingIn, Exchanging, Life
<1>5. next \in Places
    BY DEF Places, Exchanging
<1> QED
    BY <1>1, <1>3, <1>4, <1>5, Known, MoveKeeps

LEMMA StoreExpirationKeeps ==
    ASSUME SessionInv, NEW t \in Thread, StoreExpiration(t)
    PROVE  SessionInv'
<1>1. /\ UNCHANGED <<fixed, failed, token, account, cached, faults, blind>>
      /\ pc[t] \in Dating
      /\ expiration' \in {grant[t].life, None}
    BY DEF StoreExpiration, Dating
<1>2. /\ grant[t].life \in Life /\ left[t] \in 0 .. MaxCall
      /\ grant[t].life + MaxCall >= Lifetime + left[t]
      /\ token \in Life /\ token # None /\ token + MaxCall >= grant[t].life
      /\ ~shadow
    BY <1>1, Known
    DEF ThreadOK, Granting, Dating, Grant, Exchanging, Serves, ClientOK
<1>3. Serves(token', expiration', account')
    BY <1>1, <1>2, Known, TimeAssumption DEF Serves, ClientOK, Life
<1>4. CASE pc[t] = "auth_dating"
    <2>1. Moves(t, "fresh", op[t], depth[t], NoGrant, wire[t], 0)
        BY <1>4 DEF StoreExpiration, Goto, Moves, SessionInv, TypeOK
    <2>2. ThreadOK("fresh", op[t], depth[t], NoGrant, wire[t], 0,
                   token', expiration', account')
        BY <1>1, <1>2, <1>4, Known, TimeAssumption
        DEF ThreadOK, Granting, Dating, LoggingIn, Exchanging, Life
    <2>3. "fresh" \in Places /\ 0 \in 0 .. MaxCall
        BY TimeAssumption DEF Places
    <2> QED
        BY <1>1, <1>3, <2>1, <2>2, <2>3, Known, MoveKeeps
<1>5. CASE pc[t] = "renew_dating"
    <2>1. depth[t] = 0
        BY <1>5, Known DEF ThreadOK
    <2>2. Moves(t, "ready", op[t], depth[t], NoGrant, wire[t], 0)
        BY <1>5, <2>1 DEF StoreExpiration, Resume, Goto, Moves, SessionInv,
           TypeOK
    <2>3. ThreadOK("ready", op[t], depth[t], NoGrant, wire[t], 0,
                   token', expiration', account')
        BY <1>1, <1>2, <1>5, <2>1, Known, TimeAssumption
        DEF ThreadOK, Granting, Dating, LoggingIn, Exchanging, Life
    <2>4. "ready" \in Places /\ 0 \in 0 .. MaxCall
        BY TimeAssumption DEF Places
    <2> QED
        BY <1>1, <1>3, <2>2, <2>3, <2>4, Known, MoveKeeps
<1> QED
    BY <1>1, <1>4, <1>5 DEF Dating

LEMMA ListAnswersKeeps ==
    ASSUME SessionInv, NEW t \in Thread, NEW list \in Lists,
           ListAnswers(t, list)
    PROVE  SessionInv'
<1>1. /\ UNCHANGED <<fixed, token, expiration, cached, faults, blind>>
      /\ pc[t] = "listing"
    BY DEF ListAnswers
<1>2. CASE Raises(t) /\ UNCHANGED account
    BY <1>1, <1>2, Known, EndKeeps DEF Raises
<1>3. CASE account' \in Account /\ LoginEnds(t)
    <2>1. /\ depth[t] = 1 /\ ~shadow
          /\ token \in Life /\ token # None
          /\ token > Leeway - 2 * MaxCall + left[t]
        BY <1>1, Known
        DEF ThreadOK, LoggingIn, Exchanging, Serves, ClientOK
    <2>2. Serves(token', expiration', account')
        BY <1>1, <1>3, <2>1, Known, AccountAssumption DEF Serves, ClientOK
    <2>3. CASE op[t] = "connect"
        <3>1. Returns(t)
            BY <1>3, <2>1, <2>3 DEF LoginEnds
        <3> QED
            BY <1>1, <2>2, <3>1, Known, EndKeeps DEF Returns
    <2>4. CASE op[t] # "connect"
        <3>1. /\ Moves(t, "ready", op[t], 0, grant[t], NoWire, 0)
              /\ failed' = failed
            BY <1>3, <2>1, <2>4 DEF LoginEnds, Goto, Moves, SessionInv, TypeOK
        <3>2. ThreadOK("ready", op[t], 0, grant[t], NoWire, 0,
                       token', expiration', account')
            BY <1>1, <1>3, <2>1, Known, TimeAssumption, AccountAssumption
            DEF ThreadOK, Granting, Dating, LoggingIn, Exchanging, NoWire, Life
        <3>3. "ready" \in Places /\ 0 \in 0 .. MaxCall /\ 0 \in Nat
            BY TimeAssumption DEF Places
        <3> QED
            BY <1>1, <2>2, <3>1, <3>2, <3>3, Known, MoveKeeps
    <2> QED
        BY <2>3, <2>4
<1>4. \/ Raises(t) /\ UNCHANGED account
      \/ account' \in Account /\ LoginEnds(t)
    BY DEF ListAnswers
<1> QED
    BY <1>2, <1>3, <1>4

\* A check that finds the token fresh goes on to a request, any other renews
\* it; within a login the check finds what the login has just stored.
LEMMA CheckFreshKeeps ==
    ASSUME SessionInv, NEW t \in Thread, CheckFresh(t)
    PROVE  SessionInv'
<1>1. /\ UNCHANGED <<fixed, token, expiration, account, cached, faults, blind>>
      /\ pc[t] = "fresh"
      /\ Serves(token', expiration', account')
    BY Known DEF CheckFresh, client
<1>2. CASE expiration = None \/ token = None
    <2>1. Raises(t)
        BY <1>2 DEF CheckFresh
    <2> QED
        BY <1>1, <2>1, Known, EndKeeps DEF Raises
<1>3. CASE expiration # None /\ token # None
    <2>1. /\ token \in Life /\ expiration \in Life
          /\ token + MaxCall >= expiration
        BY <1>3, Known DEF Serves, ClientOK
    <2>2. CASE IsFresh(expiration)
        <3>1. Resume(t) /\ UNCHANGED <<op, depth, grant, failed>>
            BY <1>3, <2>2 DEF CheckFresh
        <3>2. CASE depth[t] > 0
            <4> DEFINE w == [wire[t] EXCEPT !.life = token]
            <4>1. Moves(t, "listing", op[t], depth[t], grant[t], w, MaxCall)
                BY <3>1, <3>2 DEF Resume, Exchange, Goto, Moves, SessionInv,
                   TypeOK
            <4>2. w \in Wire /\ w.life = token /\ w.account = wire[t].account
                BY <2>1, Known DEF Wire
            <4>3. token > Leeway - 2 * MaxCall + MaxCall /\ token > MaxCall
                BY <2>1, <2>2, TimeAssumption DEF IsFresh, Life
            <4>4. ThreadOK("listing", op[t], depth[t], grant[t], w, MaxCall,
                           token', expiration', account')
                <5> HIDE DEF w
                <5> QED
                    BY <1>1, <1>3, <3>2, <4>2, <4>3, Known
                    DEF ThreadOK, Granting, Dating, LoggingIn, Exchanging
            <4>5. "listing" \in Places /\ MaxCall \in 0 .. MaxCall
                BY TimeAssumption DEF Places, Exchanging
            <4> QED
                BY <1>1, <3>1, <4>1, <4>2, <4>4, <4>5, Known, MoveKeeps
        <3>3. CASE ~(depth[t] > 0)
            <4>1. Moves(t, "ready", op[t], depth[t], grant[t], wire[t], 0)
                BY <3>1, <3>3 DEF Resume, Goto, Moves, SessionInv, TypeOK
            <4>2. depth[t] = 0 /\ token > MaxCall
                BY <2>1, <2>2, <3>3, Known, TimeAssumption DEF IsFresh, Life
            <4>3. ThreadOK("ready", op[t], depth[t], grant[t], wire[t], 0,
                           token', expiration', account')
                BY <1>1, <1>3, <4>2, Known
                DEF ThreadOK, Granting, Dating, LoggingIn, Exchanging
            <4>4. "ready" \in Places /\ 0 \in 0 .. MaxCall
                BY TimeAssumption DEF Places
            <4> QED
                BY <1>1, <3>1, <4>1, <4>3, <4>4, Known, MoveKeeps
        <3> QED
            BY <3>2, <3>3
    <2>3. CASE ~IsFresh(expiration)
        <3> DEFINE w == [wire[t] EXCEPT !.life = token]
        <3>1. /\ Moves(t, "renewing", op[t], depth[t], grant[t], w, MaxCall)
              /\ failed' = failed
            BY <1>3, <2>3 DEF CheckFresh, Exchange, Goto, Moves, SessionInv,
               TypeOK
        <3>2. w \in Wire /\ w.account = wire[t].account
            BY <2>1, Known DEF Wire
        <3>3. depth[t] = 0 /\ ~shadow
            <4>1. depth[t] \in Nat /\ depth[t] <= 1 /\ depth[t] # 1
                BY <1>1, <1>3, <2>1, <2>3, Known, TimeAssumption
                DEF ThreadOK, IsFresh, Life
            <4>2. ~shadow
                BY <1>3, <2>3, Known, TimeAssumption
                DEF IsFresh, Serves, ClientOK
            <4> QED
                BY <4>1, <4>2
        <3>4. ThreadOK("renewing", op[t], depth[t], grant[t], w, MaxCall,
                       token', expiration', account')
            <4> HIDE DEF w
            <4> QED
                BY <1>1, <3>2, <3>3, Known
                DEF ThreadOK, Granting, Dating, LoggingIn, Exchanging
        <3>5. "renewing" \in Places /\ MaxCall \in 0 .. MaxCall
            BY TimeAssumption DEF Places, Exchanging
        <3> QED
            BY <1>1, <3>1, <3>2, <3>4, <3>5, Known, MoveKeeps
    <2> QED
        BY <2>2, <2>3
<1> QED
    BY <1>2, <1>3

LEMMA RenewFailsKeeps ==
    ASSUME SessionInv, NEW t \in Thread, RenewFails(t)
    PROVE  SessionInv'
<1>1. /\ UNCHANGED <<fixed, failed, token, expiration, account, cached, blind>>
      /\ pc[t] = "renewing"
      /\ Moves(t, "auth", op[t], depth[t] + 1, grant[t], NoWire, MaxCall)
    BY DEF RenewFails, Login, Exchange, Goto, Moves, client, SessionInv, TypeOK
<1>2. faults' \in 0 .. MaxFaults
    BY Known, TimeAssumption DEF RenewFails, Fault
<1>3. ThreadOK("auth", op[t], depth[t] + 1, grant[t], NoWire, MaxCall,
               token', expiration', account')
    BY <1>1, Known
    DEF ThreadOK, Granting, Dating, LoggingIn, Exchanging, NoWire
<1>4. "auth" \in Places /\ MaxCall \in 0 .. MaxCall /\ depth[t] + 1 \in Nat
    BY Known, TimeAssumption DEF Places, Exchanging
<1> QED
    BY <1>1, <1>2, <1>3, <1>4, Known, MoveKeeps

\* A request takes the token and the account the client holds.
LEMMA SendKeeps ==
    ASSUME SessionInv, NEW t \in Thread, Send(t)
    PROVE  SessionInv'
<1>1. /\ UNCHANGED <<fixed, token, expiration, account, cached, faults, blind>>
      /\ pc[t] = "ready"
    BY DEF Send, client
<1>2. CASE shadow
    BY <1>1, <1>2, Known, EndKeeps DEF Send, Returns
<1>3. CASE ~shadow
    <2> DEFINE w == [life |-> token, account |-> account]
    <2>1. /\ Moves(t, "sent", op[t], depth[t], grant[t], w, MaxCall)
          /\ failed' = failed
        BY <1>3 DEF Send, Exchange, Goto, Moves, SessionInv, TypeOK
    <2>2. w \in Wire /\ w.life = token
        BY <1>3, Known DEF Wire, Serves, ClientOK
    <2>3. ThreadOK("sent", op[t], depth[t], grant[t], w, MaxCall,
                   token', expiration', account')
        <3> HIDE DEF w
        <3> QED
            BY <1>1, <1>3, <2>2, Known
            DEF ThreadOK, Granting, Dating, LoggingIn
    <2>4. "sent" \in Places /\ MaxCall \in 0 .. MaxCall
        BY TimeAssumption DEF Places, Exchanging
    <2> QED
        BY <1>1, <2>1, <2>2, <2>3, <2>4, Known, MoveKeeps
<1> QED
    BY <1>2, <1>3

LEMMA AnswersKeeps ==
    ASSUME SessionInv, NEW t \in Thread, Answers(t)
    PROVE  SessionInv'
<1>1. /\ UNCHANGED <<fixed, token, expiration, account, faults, blind>>
      /\ pc[t] = "sent"
    BY DEF Answers
<1>2. CASE op[t] = "lookup"
    BY <1>1, <1>2, GuardedKeeps DEF Answers, Ops
<1>3. CASE op[t] # "lookup"
    BY <1>1, <1>3, Known, EndKeeps DEF Answers, Returns
<1> QED
    BY <1>2, <1>3

\* An operation that raises on a failed exchange.
LEMMA FailsKeeps ==
    ASSUME SessionInv, NEW t \in Thread, AuthFails(t) \/ RequestFails(t)
    PROVE  SessionInv'
<1>1. /\ UNCHANGED <<fixed, token, expiration, account, cached, blind>>
      /\ Ends(t) /\ failed' = failed \cup {t}
    BY DEF AuthFails, RequestFails, Raises, client
<1>2. faults' \in 0 .. MaxFaults
    BY Known, TimeAssumption DEF AuthFails, RequestFails, Fault
<1> QED
    BY <1>1, <1>2, Known, EndKeeps

-----------------------------------------------------------------------------
(* Time.                                                                   *)

\* What grows old loses at most a tick, and nothing that has none left.
LEMMA OlderIs ==
    ASSUME NEW life \in Life \cup {None}
    PROVE  /\ Older(life) \in Life \cup {None}
           /\ (Older(life) = None) <=> (life = None)
           /\ life # None => /\ life \in Nat /\ Older(life) \in Nat
                             /\ Older(life) >= life - 1 /\ Older(life) <= life
                             /\ life > 0 => Older(life) = life - 1
                             /\ life = 0 => Older(life) = 0
BY TimeAssumption, NoneAssumption DEF Older, Life

LEMMA TickKeeps ==
    ASSUME SessionInv, Tick
    PROVE  SessionInv'
<1>1. /\ UNCHANGED <<fixed, account, cached, pc, op, depth, failed, faults,
                     blind>>
      /\ ~shadow /\ token # None
      /\ token' = Older(token) /\ expiration' = Older(expiration)
    BY DEF Tick
<1>2. /\ token \in Life \cup {None} /\ expiration \in Life \cup {None}
      /\ expiration # None => token + MaxCall >= expiration
      /\ shadow \/ account \in Account \cup {None}
    BY DEF SessionInv, ClientOK
<1>3. ClientOK(token, expiration, account)'
    BY <1>1, <1>2, OlderIs, TimeAssumption DEF ClientOK, fixed
<1>4. ASSUME NEW t \in Thread
      PROVE  /\ grant'[t] \in Grant
             /\ grant'[t].life = Older(grant[t].life)
             /\ grant[t].life \in Life
             /\ wire'[t] \in Wire
             /\ wire'[t].account = wire[t].account
             /\ wire[t].life \in Life \cup {None}
             /\ pc[t] \in Exchanging =>
                   /\ wire'[t].life = Older(wire[t].life)
                   /\ left'[t] = left[t] - 1 /\ left[t] > 0
             /\ left'[t] \in 0 .. MaxCall
             /\ pc[t] \in Exchanging \cup {"idle"}
    <2>1. /\ grant[t] \in Grant /\ wire[t] \in Wire /\ left[t] \in 0 .. MaxCall
          /\ grant[t].life \in Life /\ wire[t].life \in Life \cup {None}
        BY Known DEF Grant, Wire
    <2>2. /\ pc[t] \in Exchanging \cup {"idle"}
          /\ pc[t] \in Exchanging => left[t] > 0
          /\ grant'[t] = [grant[t] EXCEPT !.life = Older(@)]
          /\ wire'[t] = IF pc[t] \in Exchanging
                        THEN [wire[t] EXCEPT !.life = Older(@)] ELSE wire[t]
          /\ left'[t] = IF pc[t] \in Exchanging THEN left[t] - 1 ELSE left[t]
        BY DEF Tick
    <2>3. /\ Older(grant[t].life) \in Life
          /\ Older(wire[t].life) \in Life \cup {None}
        BY <2>1, OlderIs, NoneAssumption DEF Life
    <2>4. grant'[t] \in Grant /\ grant'[t].life = Older(grant[t].life)
        BY <2>1, <2>2, <2>3 DEF Grant
    <2>5. /\ wire'[t] \in Wire /\ wire'[t].account = wire[t].account
          /\ pc[t] \in Exchanging => wire'[t].life = Older(wire[t].life)
        BY <2>1, <2>2, <2>3 DEF Wire
    <2>6. left'[t] \in 0 .. MaxCall
        BY <2>1, <2>2, TimeAssumption
    <2> QED
        BY <2>1, <2>2, <2>4, <2>5, <2>6
<1>5. TypeOK'
    <2>1. /\ token' \in Life \cup {None} /\ expiration' \in Life \cup {None}
        BY <1>1, <1>2, OlderIs
    <2>2. /\ grant' \in [Thread -> Grant] /\ wire' \in [Thread -> Wire]
          /\ left' \in [Thread -> 0 .. MaxCall]
        BY <1>4 DEF Tick
    <2> QED
        BY <1>1, <2>1, <2>2 DEF SessionInv, TypeOK, Grant, Wire, fixed
<1>6. ASSUME NEW t \in Thread
      PROVE  ThreadOK(pc[t], op[t], depth[t], grant[t], wire[t], left[t],
                      token, expiration, account)'
    <2>1. /\ pc[t] \in Places /\ left[t] \in 0 .. MaxCall
          /\ ThreadOK(pc[t], op[t], depth[t], grant[t], wire[t], left[t],
                      token, expiration, account)
        BY Known
    <2>2. pc[t] \in Granting =>
              grant'[t].life <= Lifetime
              /\ grant'[t].life + MaxCall >= Lifetime + left'[t]
        <3>1. grant[t].life # None
            BY <1>4, NoneAssumption DEF Life
        <3> QED
            BY <1>4, <2>1, <3>1, OlderIs, TimeAssumption
            DEF ThreadOK, Granting, Dating, Exchanging
    <2>3. pc[t] \in Dating =>
              token' # None /\ token' + MaxCall >= grant'[t].life
        <3>1. grant[t].life # None
            BY <1>4, NoneAssumption DEF Life
        <3> QED
            BY <1>1, <1>2, <1>4, <2>1, <3>1, OlderIs, TimeAssumption
            DEF ThreadOK
    <2>4. pc[t] = "listing" =>
              token' # None /\ token' > Leeway - 2 * MaxCall + left'[t]
        BY <1>1, <1>2, <1>4, <2>1, OlderIs, TimeAssumption
        DEF ThreadOK, Exchanging
    <2>5. pc[t] \in {"sent", "listing"} =>
              wire'[t].life # None /\ wire'[t].life > left'[t]
        BY <1>4, <2>1, OlderIs DEF ThreadOK, Exchanging
    <2>6. pc[t] # "ready" /\ pc[t] # "fresh"
        BY <1>4 DEF Exchanging
    <2> QED
        BY <1>1, <1>4, <2>1, <2>2, <2>3, <2>4, <2>5, <2>6
        DEF ThreadOK, fixed
<1> QED
    BY <1>3, <1>5, <1>6 DEF SessionInv

-----------------------------------------------------------------------------
(* The invariant.                                                          *)

LEMMA InitHolds == Init => SessionInv
<1> SUFFICES ASSUME Init PROVE SessionInv
    OBVIOUS
<1>1. NoWire \in Wire /\ NoGrant \in Grant /\ NoWire.account = None
    BY TimeAssumption DEF NoWire, NoGrant, Wire, Grant, Life
<1>2. TypeOK
    <2>1. /\ pc \in [Thread -> Exchanging \cup {"idle", "fresh", "ready"}]
          /\ op \in [Thread -> {"none", "connect", "lookup", "place", "use"}]
          /\ depth \in [Thread -> 0 .. 1] /\ left \in [Thread -> 0 .. MaxCall]
          /\ \A t \in Thread : depth[t] = 0
        BY TimeAssumption DEF Init
    <2>2. grant \in [Thread -> Grant] /\ wire \in [Thread -> Wire]
        BY <1>1 DEF Init
    <2>3. shadow \in BOOLEAN /\ cached \in BOOLEAN /\ blind \in BOOLEAN
        BY DEF Init
    <2> QED
        BY <2>1, <2>2, <2>3, TimeAssumption DEF Init, TypeOK, Grant, Wire
<1>3. ClientOK(token, expiration, account)
    BY DEF Init, ClientOK
<1>4. \A t \in Thread : ThreadOK(pc[t], op[t], depth[t], grant[t], wire[t],
                                 left[t], token, expiration, account)
    <2> SUFFICES ASSUME NEW t \in Thread
                 PROVE  ThreadOK(pc[t], op[t], depth[t], grant[t], wire[t],
                                 left[t], token, expiration, account)
        OBVIOUS
    <2>1. pc[t] = "idle" /\ depth[t] = 0 /\ wire[t] = NoWire
        BY DEF Init
    <2> QED
        BY <1>1, <2>1 DEF ThreadOK, LoggingIn, Granting, Dating, Exchanging
<1> QED
    BY <1>2, <1>3, <1>4 DEF SessionInv

LEMMA NextKeeps == SessionInv /\ [Next]_vars => SessionInv'
<1> SUFFICES ASSUME SessionInv, [Next]_vars PROVE SessionInv'
    OBVIOUS
<1>1. ASSUME NEW t \in Thread, Connect(t) PROVE SessionInv'
    BY <1>1, ConnectKeeps
<1>2. ASSUME NEW t \in Thread, Use(t) PROVE SessionInv'
    BY <1>2, UseKeeps
<1>3. ASSUME NEW t \in Thread, ListAccounts(t) PROVE SessionInv'
    BY <1>3, ListAccountsKeeps
<1>4. ASSUME NEW t \in Thread, Place(t) PROVE SessionInv'
    BY <1>4, PlaceKeeps
<1>5. ASSUME NEW t \in Thread, AuthAnswers(t) PROVE SessionInv'
    BY <1>5, GrantedKeeps DEF AuthAnswers
<1>6. ASSUME NEW t \in Thread, RenewAnswers(t) PROVE SessionInv'
    BY <1>6, GrantedKeeps DEF RenewAnswers
<1>7. ASSUME NEW t \in Thread, StoreToken(t) PROVE SessionInv'
    BY <1>7, StoreTokenKeeps
<1>8. ASSUME NEW t \in Thread, StoreExpiration(t) PROVE SessionInv'
    BY <1>8, StoreExpirationKeeps
<1>9. ASSUME NEW t \in Thread, NEW list \in Lists, ListAnswers(t, list)
      PROVE  SessionInv'
    BY <1>9, ListAnswersKeeps
<1>10. ASSUME NEW t \in Thread, CheckFresh(t) PROVE SessionInv'
    BY <1>10, CheckFreshKeeps
<1>11. ASSUME NEW t \in Thread, RenewFails(t) PROVE SessionInv'
    BY <1>11, RenewFailsKeeps
<1>12. ASSUME NEW t \in Thread, Send(t) PROVE SessionInv'
    BY <1>12, SendKeeps
<1>13. ASSUME NEW t \in Thread, Answers(t) PROVE SessionInv'
    BY <1>13, AnswersKeeps
<1>14. ASSUME NEW t \in Thread, AuthFails(t) \/ RequestFails(t)
       PROVE  SessionInv'
    BY <1>14, FailsKeeps
<1>15. ASSUME Tick PROVE SessionInv'
    BY <1>15, TickKeeps
<1>16. ASSUME UNCHANGED vars PROVE SessionInv'
    BY <1>16 DEF vars, fixed, client, threads, SessionInv, TypeOK, ClientOK,
       ThreadOK
<1> QED
    BY <1>1, <1>2, <1>3, <1>4, <1>5, <1>6, <1>7, <1>8, <1>9, <1>10, <1>11,
       <1>12, <1>13, <1>14, <1>15, <1>16 DEF Next, Step

LEMMA SessionInvariant == Spec => []SessionInv
BY InitHolds, NextKeeps, PTL DEF Spec

(* The locals of every thread and the client's fields stay within their    *)
(* types; in particular a login never runs within a login.                 *)
THEOREM SessionTypeCorrect == Spec => []TypeOK
<1>1. SessionInv => TypeOK
    BY DEF SessionInv
<1> QED
    BY <1>1, SessionInvariant, PTL

(* No request but a renewal travels with an expired token, for every       *)
(* number of threads, as long as the leeway is three exchanges and a new   *)
(* token outlives the leeway and an exchange.                              *)
THEOREM TokensOutliveRequests == Spec => []NoExpiredToken
<1>1. SessionInv => NoExpiredToken
    <2> SUFFICES ASSUME SessionInv, NEW t \in Thread,
                        pc[t] \in {"sent", "listing"}
                 PROVE  wire[t].life > 0
        BY DEF NoExpiredToken
    <2>1. wire[t].life \in Life \cup {None} /\ left[t] \in 0 .. MaxCall
        BY Known DEF Wire
    <2>2. wire[t].life # None /\ wire[t].life > left[t]
        BY Known DEF ThreadOK
    <2> QED
        BY <2>1, <2>2, TimeAssumption DEF Life
<1> QED
    BY <1>1, SessionInvariant, PTL

-----------------------------------------------------------------------------
(* The accounts orders carry.                                              *)

\* What a login finds is an intended account.
LEMMA FoundIsIntended ==
    ASSUME ListsComplete, NEW list \in Lists, NEW a \in Account,
           IF pin = None THEN FirstOwn(list, a) ELSE ResolvePinned(list, a)
    PROVE  Intended(a)
<1>1. \A b \in Account : \E i \in DOMAIN list : list[i] = b
    BY DEF ListsComplete
<1>2. CASE pin = None
    <2>1. PICK b \in Account : b \in Own
        BY AccountAssumption DEF ListsComplete
    <2>2. \E i \in DOMAIN list : list[i] \in Own
        BY <1>1, <2>1
    <2> QED
        BY <1>2, <2>2 DEF FirstOwn, Intended
<1>3. CASE pin # None
    BY <1>1, <1>3, AccountAssumption DEF ResolvePinned, Intended
<1> QED
    BY <1>2, <1>3

\* No other thread's request changes, and this one sends none.
SendsNothing(t) ==
    /\ \A u \in Thread \ {t} :
          pc'[u] = pc[u] /\ op'[u] = op[u] /\ wire'[u] = wire[u]
    /\ pc'[t] # "sent"

LEMMA EndsSendNothing ==
    ASSUME TypeOK, NEW t \in Thread, Ends(t)
    PROVE  SendsNothing(t)
BY DEF TypeOK, Ends, Goto, SendsNothing

LEMMA GuardedSendsNothing ==
    ASSUME TypeOK, NEW t \in Thread, NEW o, Guarded(t, o)
    PROVE  SendsNothing(t)
<1>1. CASE Connected
    BY <1>1 DEF Guarded, Goto, TypeOK, SendsNothing
<1>2. CASE ~Connected
    BY <1>2, EndsSendNothing DEF Guarded, Raises
<1> QED
    BY <1>1, <1>2

\* An answered list leaves the login, or the whole operation.
LEMMA LoginEndsSendsNothing ==
    ASSUME TypeOK, NEW t \in Thread, LoginEnds(t)
    PROVE  SendsNothing(t)
<1>1. CASE Returns(t)
    BY <1>1, EndsSendNothing DEF Returns
<1>2. CASE Exchange(t, "listing") /\ wire' = [wire EXCEPT ![t].life = token]
           /\ op' = op
    BY <1>2 DEF Exchange, Goto, TypeOK, SendsNothing
<1>3. CASE Goto(t, "ready") /\ wire' = [wire EXCEPT ![t] = NoWire] /\ op' = op
    BY <1>3 DEF Goto, TypeOK, SendsNothing
<1> QED
    BY <1>1, <1>2, <1>3 DEF LoginEnds

\* Only Send sends; only a login's list moves the account.
LEMMA OthersSendNothing ==
    ASSUME SessionInv, NEW t \in Thread,
           \/ Connect(t) \/ Use(t) \/ ListAccounts(t) \/ Place(t)
           \/ AuthAnswers(t) \/ AuthFails(t) \/ StoreToken(t)
           \/ StoreExpiration(t) \/ CheckFresh(t) \/ RenewAnswers(t)
           \/ RenewFails(t) \/ Answers(t) \/ RequestFails(t)
    PROVE  SendsNothing(t) /\ UNCHANGED fixed
           /\ (shadow \/ UNCHANGED account)
<1> USE DEF SessionInv
<1>1. ASSUME Connect(t) PROVE SendsNothing(t) /\ UNCHANGED fixed
                              /\ (shadow \/ UNCHANGED account)
    <2>1. pc' = [pc EXCEPT ![t] = "auth"] \/ UNCHANGED pc
        BY <1>1 DEF Connect, Login, Exchange, Goto
    <2>2. op' = [op EXCEPT ![t] = "connect"] \/ UNCHANGED op
        BY <1>1 DEF Connect
    <2> QED
        BY <1>1, <2>1, <2>2 DEF Connect, SendsNothing, TypeOK
<1>2. CASE Use(t)
    BY <1>2, EndsSendNothing, GuardedSendsNothing DEF Use, Returns, client
<1>3. ASSUME ListAccounts(t) PROVE SendsNothing(t)
    <2>1. CASE shadow
        BY <1>3, <2>1, EndsSendNothing DEF ListAccounts, Returns
    <2>2. CASE ~shadow
        BY <1>3, <2>2 DEF ListAccounts, Goto, SendsNothing, TypeOK
    <2> QED
        BY <2>1, <2>2
<1>4. ASSUME Place(t) PROVE SendsNothing(t)
    <2>1. CASE cached \/ shadow
        BY <1>4, <2>1, GuardedSendsNothing DEF Place
    <2>2. CASE ~(cached \/ shadow)
        BY <1>4, <2>2 DEF Place, Goto, SendsNothing, TypeOK
    <2> QED
        BY <2>1, <2>2
<1>5. CASE AuthAnswers(t) \/ RenewAnswers(t)
    <2>1. PICK next \in {"authed", "renewed"} : Granted(t, next)
        BY <1>5 DEF AuthAnswers, RenewAnswers
    <2> QED
        BY <2>1 DEF Granted, Goto, SendsNothing, TypeOK, client
<1>6. CASE AuthFails(t) \/ RequestFails(t)
    BY <1>6, EndsSendNothing DEF AuthFails, RequestFails, Raises, client
<1>7. CASE StoreToken(t)
    BY <1>7 DEF StoreToken, Goto, SendsNothing, TypeOK
<1>8. ASSUME StoreExpiration(t) PROVE SendsNothing(t)
    <2>1. pc'[t] # "sent" /\ \A u \in Thread \ {t} :
              pc'[u] = pc[u] /\ wire'[u] = wire[u]
        BY <1>8 DEF StoreExpiration, Resume, Exchange, Goto, TypeOK
    <2> QED
        BY <1>8, <2>1 DEF StoreExpiration, SendsNothing
<1>9. ASSUME CheckFresh(t) PROVE SendsNothing(t)
    <2>1. CASE Raises(t)
        BY <2>1, EndsSendNothing DEF Raises
    <2>2. CASE Resume(t) /\ op' = op
        BY <2>2 DEF Resume, Exchange, Goto, SendsNothing, TypeOK
    <2>3. CASE Exchange(t, "renewing") /\ op' = op
               /\ wire' = [wire EXCEPT ![t].life = token]
        BY <2>3 DEF Exchange, Goto, SendsNothing, TypeOK
    <2> QED
        BY <1>9, <2>1, <2>2, <2>3 DEF CheckFresh
<1>10. CASE RenewFails(t)
    BY <1>10 DEF RenewFails, Login, Exchange, Goto, SendsNothing, TypeOK, client
<1>11. ASSUME Answers(t) PROVE SendsNothing(t)
    BY <1>11, EndsSendNothing, GuardedSendsNothing DEF Answers, Returns
<1>12. UNCHANGED fixed
    BY <1>1, <1>2, <1>5, <1>6
    DEF ListAccounts, Place, StoreToken, StoreExpiration, CheckFresh,
        RenewFails, Answers
<1>13. CASE ListAccounts(t) \/ StoreExpiration(t) \/ CheckFresh(t)
            \/ Answers(t) \/ Place(t)
    BY <1>3, <1>4, <1>8, <1>9, <1>11, <1>12, <1>13
    DEF ListAccounts, StoreExpiration, CheckFresh, Answers, Place, client
<1> QED
    BY <1>1, <1>2, <1>5, <1>6, <1>7, <1>10, <1>12, <1>13

LEMMA AccountKept ==
    ASSUME ListsComplete, SessionInv, AccountInv, [Next]_vars
    PROVE  AccountInv'
<1>1. ASSUME NEW t \in Thread, SendsNothing(t), UNCHANGED fixed,
             shadow \/ UNCHANGED account \/ Intended(account')
      PROVE  AccountInv'
    <2>1. ~shadow' /\ account' # None => Intended(account)'
        BY <1>1 DEF AccountInv, Intended, fixed
    <2>2. OrdersOnAccount'
        BY <1>1 DEF AccountInv, OrdersOnAccount, SendsNothing, fixed
    <2> QED
        BY <2>1, <2>2 DEF AccountInv
<1>2. ASSUME NEW t \in Thread, NEW list \in Lists, ListAnswers(t, list)
      PROVE  AccountInv'
    <2>1. UNCHANGED fixed
        BY <1>2 DEF ListAnswers
    <2>2. CASE Raises(t) /\ UNCHANGED account
        BY <1>1, <2>1, <2>2, EndsSendNothing DEF Raises, SessionInv
    <2>3. ASSUME NEW a \in Account, account' = a, LoginEnds(t),
                 IF pin = None THEN FirstOwn(list, a)
                               ELSE ResolvePinned(list, a)
          PROVE  AccountInv'
        BY <1>1, <2>1, <2>3, FoundIsIntended, LoginEndsSendsNothing
        DEF SessionInv
    <2> QED
        BY <1>2, <2>2, <2>3 DEF ListAnswers
<1>3. ASSUME NEW t \in Thread, Send(t) PROVE AccountInv'
    <2>1. UNCHANGED fixed /\ UNCHANGED account
        BY <1>3 DEF Send, client
    <2>2. CASE shadow
        BY <1>1, <1>3, <2>1, <2>2, EndsSendNothing
        DEF Send, Returns, SessionInv
    <2>3. CASE ~shadow
        <3>1. \A u \in Thread \ {t} :
                  pc'[u] = pc[u] /\ op'[u] = op[u] /\ wire'[u] = wire[u]
            BY <1>3, <2>3 DEF Send, Exchange, Goto, SessionInv, TypeOK
        <3>2. /\ wire'[t].account = account /\ op'[t] = op[t]
              /\ pc[t] = "ready"
            BY <1>3, <2>3 DEF Send, SessionInv, TypeOK
        <3>3. op[t] = "place" => account # None
            BY <3>2, Known DEF ThreadOK
        <3>4. op'[t] = "place" => Intended(wire'[t].account)
            BY <2>3, <3>2, <3>3 DEF AccountInv
        <3>5. OrdersOnAccount'
            BY <2>1, <3>1, <3>4
            DEF AccountInv, OrdersOnAccount, Intended, fixed
        <3>6. ~shadow' /\ account' # None => Intended(account)'
            BY <2>1 DEF AccountInv, Intended, fixed
        <3> QED
            BY <3>5, <3>6 DEF AccountInv
    <2> QED
        BY <2>2, <2>3
<1>4. ASSUME Tick PROVE AccountInv'
    <2>1. /\ UNCHANGED <<fixed, account, pc, op>>
          /\ \A t \in Thread : wire'[t].account = wire[t].account
        <3>1. \A t \in Thread : wire[t] \in Wire
            BY Known
        <3> QED
            BY <1>4, <3>1 DEF Tick, Wire
    <2> QED
        BY <2>1 DEF AccountInv, OrdersOnAccount, Intended, fixed
<1>5. CASE UNCHANGED vars
    BY <1>5 DEF vars, fixed, client, threads, AccountInv, OrdersOnAccount,
       Intended
<1> QED
    BY <1>1, <1>2, <1>3, <1>4, <1>5, OthersSendNothing DEF Next, Step

(* An order carries the account that was asked for, whatever logins other  *)
(* threads have under way, as long as an account list names every account  *)
(* and one of them is the user's.                                          *)
THEOREM OrdersReachTheAccount == ListsComplete /\ Spec => []OrdersOnAccount
<1>1. Init => AccountInv
    BY DEF Init, AccountInv, OrdersOnAccount
<1>2. AccountInv => OrdersOnAccount
    BY DEF AccountInv
<1>3. ListsComplete /\ SessionInv /\ AccountInv /\ [Next]_vars => AccountInv'
    BY AccountKept
<1>4. ListsComplete => (Spec => []AccountInv)
    <2> SUFFICES ASSUME ListsComplete PROVE Spec => []AccountInv
        OBVIOUS
    <2>1. SessionInv /\ AccountInv /\ [Next]_vars => AccountInv'
        BY <1>3
    <2> QED
        BY <1>1, <2>1, SessionInvariant, PTL DEF Spec
<1> QED
    BY <1>2, <1>4, PTL

-----------------------------------------------------------------------------
(* PushFeed: the frames, and what holds of them and of the parser.         *)

Versions == 1 .. MaxVer + 1
BracketLeg == UNION {LegsOf(b) : b \in Bracket}

Frame ==
    ({"order"} \X Leg)
    \cup ({"orderVersion"} \X Leg \X Versions)
    \cup ({"orderStrategyLink"} \X BracketLeg)
    \cup ({"orderStrategy"} \X Bracket)
    \cup ({"executionReport"} \X Leg \X {"New", "Replaced", "Canceled", "Filled"})

IsVersion(f, leg) == f[1] = "orderVersion" /\ f[2] = leg

FeedTyped ==
    /\ FeedTypeOK /\ channel \in Seq(Frame)
    /\ legs \in [Bracket -> Seq(Leg)] /\ news \in Seq(Leg \X SUBSET Leg)
    /\ \A leg \in Leg : src[leg] = "none" <=> srcVer[leg] = 0
    /\ \A leg \in replacing : src[leg] # "none"

\* What a queued frame says of its leg is not older than what the parser has
\* read, and not newer than the order.
FrameOK(f) ==
    /\ f[1] = "orderVersion" => version[f[2]] <= f[3] /\ f[3] <= srcVer[f[2]]
    /\ f[1] \in {"orderStrategyLink", "executionReport"} => src[f[2]] # "none"
    /\ f[1] = "orderStrategyLink" => f[2] \notin emittedNew

\* The versions of a leg come in order, and its link before its report.
InOrder(f, g) ==
    /\ f[1] = "orderVersion" /\ g[1] = "orderVersion" /\ f[2] = g[2]
          => f[3] <= g[3]
    /\ g[1] = "orderStrategyLink" => f # Report(g[2], "New")

ChannelOK ==
    /\ \A k \in DOMAIN channel : FrameOK(channel[k])
    /\ \A j, k \in DOMAIN channel : j < k => InOrder(channel[j], channel[k])

\* leg was announced, alone or with its bracket
EmittedIn(leg) == leg \in emittedNew \/ (Linked(leg) /\ leg[1] \in placed)

NewsOK ==
    /\ \A leg \in Leg : told[leg] <= version[leg] /\ version[leg] <= srcVer[leg]
    /\ \A leg \in emittedNew : src[leg] # "none" /\ ~Linked(leg)
    /\ \A i \in DOMAIN news : \A leg \in LegsIn(news[i]) : EmittedIn(leg)
    /\ \A i, j \in DOMAIN news :
          LegsIn(news[i]) \cap LegsIn(news[j]) # {} => i = j

\* The inductive invariant, whatever frames were lost.
FeedInv == FeedTyped /\ ChannelOK /\ NewsOK

\* f was sent and is not yet read
Waiting(f) == \E k \in DOMAIN channel : channel[k] = f

\* no exit without its entry
EntriesFirst == \A leg \in Leg : src[leg] # "none" => src[EntryOf(leg)] # "none"

\* the parser knows the size of a bracket, or will
ParamsTold ==
    \A b \in Bracket : src[Entry(b)] # "none" =>
        b \in expects \/ Waiting(StrategyFrame(b))

\* and which legs it has
LinksTold ==
    \A leg \in BracketLeg : src[leg] # "none" => Linked(leg) \/ Waiting(LinkFrame(leg))

ParamsFirst ==
    /\ \A j, k \in DOMAIN channel :
          /\ j < k /\ channel[k][1] = "orderStrategy"
          /\ channel[j][1] = "orderStrategyLink"
          => channel[j][2][1] # channel[k][2]
    /\ \A leg \in BracketLeg : Linked(leg) => leg[1] \in expects

WholeInv ==
    /\ EntriesFirst /\ ParamsTold /\ LinksTold /\ ParamsFirst
    /\ \A leg \in emittedNew : leg[1] \in Single
    /\ \A i \in DOMAIN news : Whole(news[i])

\* What holds besides while no frame is lost.
GapInv == ~gap => WholeInv

\* The parser has the details of leg, or will before it takes frame k.
Detailed(leg, k) ==
    /\ leg \in known \/ \E j \in 1 .. k - 1 : channel[j] = OrderFrame(leg)
    /\ version[leg] > 0 \/ \E j \in 1 .. k - 1 : IsVersion(channel[j], leg)

\* what the parser, or the last event about leg, knows of it
Shown(leg) == IF EmittedIn(leg) THEN told[leg] ELSE version[leg]

\* frame k is the report of a modification of leg, or of an order with it
Reports(k, leg) ==
    LET f == channel[k]
    IN  f[1] = "executionReport" /\ f[3] = "Replaced" /\ f[2][1] = leg[1]

Latest(leg) == VersionFrame(leg, srcVer[leg])

Followed(leg) ==
    \/ leg \in replacing \/ srcVer[leg] = 1 \/ Shown(leg) = srcVer[leg]
    \/ \E k \in DOMAIN channel :
          /\ Reports(k, leg)
          /\ version[leg] = srcVer[leg]
             \/ \E j \in 1 .. k - 1 : channel[j] = Latest(leg)

\* a leg's frames come before those that announce it
DetailsFirst ==
    /\ \A leg \in Leg : Linked(leg) => Ready(leg)
    /\ \A k \in DOMAIN channel : \A leg \in Leg :
          channel[k] \in {LinkFrame(leg), Report(leg, "New")} => Detailed(leg, k)

\* and are not lost
DetailsTold ==
    \A leg \in Leg : src[leg] # "none" =>
        /\ leg \in known \/ Waiting(OrderFrame(leg))
        /\ version[leg] = srcVer[leg] \/ Waiting(Latest(leg))

\* an order is announced, or a report is still to come that will
AllAnnounced ==
    /\ \A b \in Bracket : src[Entry(b)] # "none" =>
          b \in armed \/ Waiting(Report(Entry(b), "New"))
    /\ \A b \in Bracket : Complete(b) => b \in placed
    /\ \A o \in Single : src[Entry(o)] # "none" =>
          Entry(o) \in emittedNew \/ Waiting(Report(Entry(o), "New"))

\* what is announced is in a NEW event, with its details
NewsKept ==
    /\ \A b \in placed : \E i \in DOMAIN news : news[i][1] = Entry(b)
    /\ \A leg \in emittedNew : \E i \in DOMAIN news : leg \in LegsIn(news[i])
    /\ \A leg \in Leg : EmittedIn(leg) => told[leg] > 0

FollowInv ==
    /\ DetailsFirst /\ DetailsTold /\ AllAnnounced /\ NewsKept
    /\ \A leg \in Leg : Alive(leg) => Followed(leg)

\* And while no contract lookup raised.
ResolvedInv == ~gap /\ unresolved = 0 => FollowInv

-----------------------------------------------------------------------------
(* Legs, frames and sequences.                                             *)

LEMMA LegForms ==
    /\ \A o \in Order : Entry(o) \in Leg /\ Entry(o)[1] = o
    /\ \A b \in Bracket : /\ <<b, "LMT">> \in Leg /\ <<b, "STP">> \in Leg
                          /\ Entry(b) \in BracketLeg
                          /\ <<b, "LMT">> \in BracketLeg
                          /\ <<b, "STP">> \in BracketLeg
    /\ \A leg \in Leg : /\ leg[1] \in Order
                        /\ \/ leg = Entry(leg[1])
                           \/ leg[1] \in Bracket /\ leg = <<leg[1], "LMT">>
                           \/ leg[1] \in Bracket /\ leg = <<leg[1], "STP">>
    /\ \A leg \in Leg : leg \in BracketLeg <=> leg[1] \in Bracket
    /\ BracketLeg \subseteq Leg
    /\ \A leg \in Leg : EntryOf(leg) \in Leg
    /\ \A leg \in Leg : leg \in ExitLeg <=> leg # EntryOf(leg)
BY LegAssumption
   DEF Leg, ExitLeg, LegsOf, Exits, Entry, EntryOf, Order, BracketLeg

LEMMA LegsOfForms ==
    ASSUME NEW o \in Order
    PROVE  /\ \A k : k \in LegsOf(o) <=> k \in Leg /\ k[1] = o
           /\ o \in Bracket =>
                LegsOf(o) = {Entry(o), <<o, "LMT">>, <<o, "STP">>}
           /\ o \notin Bracket => LegsOf(o) = {Entry(o)}
BY LegForms DEF LegsOf, Exits, Entry, Leg

LEMMA FrameForms ==
    /\ \A f \in Frame :
        \/ f[1] = "order" /\ f[2] \in Leg /\ f = OrderFrame(f[2])
        \/ /\ f[1] = "orderVersion" /\ f[2] \in Leg /\ f[3] \in Versions
           /\ f = VersionFrame(f[2], f[3])
        \/ f[1] = "orderStrategyLink" /\ f[2] \in BracketLeg /\ f = LinkFrame(f[2])
        \/ f[1] = "orderStrategy" /\ f[2] \in Bracket /\ f = StrategyFrame(f[2])
        \/ /\ f[1] = "executionReport" /\ f[2] \in Leg
           /\ f[3] \in {"New", "Replaced", "Canceled", "Filled"}
           /\ f = Report(f[2], f[3])
    /\ \A leg \in Leg : /\ OrderFrame(leg) \in Frame
                        /\ \A v \in Versions : VersionFrame(leg, v) \in Frame
                        /\ \A how \in {"New", "Replaced", "Canceled", "Filled"} :
                              Report(leg, how) \in Frame
    /\ \A leg \in BracketLeg : LinkFrame(leg) \in Frame
    /\ \A b \in Bracket : StrategyFrame(b) \in Frame
BY DEF Frame, OrderFrame, VersionFrame, LinkFrame, StrategyFrame, Report

Sent(fs, f) == \E k \in DOMAIN fs : fs[k] = f

LEMMA ConcatForms ==
    ASSUME NEW S, NEW q \in Seq(S), NEW r \in Seq(S)
    PROVE  /\ q \o r \in Seq(S)
           /\ DOMAIN q = 1 .. Len(q) /\ Len(q) \in Nat
           /\ DOMAIN r = 1 .. Len(r) /\ Len(r) \in Nat
           /\ DOMAIN (q \o r) = 1 .. Len(q) + Len(r)
           /\ Len(q \o r) = Len(q) + Len(r)
           /\ \A k \in DOMAIN q : k \in DOMAIN (q \o r) /\ (q \o r)[k] = q[k]
           /\ \A k \in DOMAIN r : /\ Len(q) + k \in DOMAIN (q \o r)
                                  /\ (q \o r)[Len(q) + k] = r[k]
           /\ \A k \in DOMAIN (q \o r) :
                 \/ k \in DOMAIN q /\ (q \o r)[k] = q[k]
                 \/ k - Len(q) \in DOMAIN r /\ (q \o r)[k] = r[k - Len(q)]
<1>1. /\ q \o r \in Seq(S) /\ Len(q \o r) = Len(q) + Len(r)
      /\ \A i \in 1 .. Len(q) + Len(r) :
           (q \o r)[i] = IF i <= Len(q) THEN q[i] ELSE r[i - Len(q)]
  BY ConcatProperties
<1>2. /\ DOMAIN q = 1 .. Len(q) /\ Len(q) \in Nat
      /\ DOMAIN r = 1 .. Len(r) /\ Len(r) \in Nat
      /\ DOMAIN (q \o r) = 1 .. Len(q \o r)
  BY <1>1, LenProperties
<1>3. \A k \in DOMAIN r : Len(q) + k \in 1 .. Len(q) + Len(r)
                          /\ ~(Len(q) + k <= Len(q)) /\ Len(q) + k - Len(q) = k
  BY <1>2
<1>4. \A k \in DOMAIN q : k \in 1 .. Len(q) + Len(r) /\ k <= Len(q)
  BY <1>2
<1>5. \A k \in 1 .. Len(q) + Len(r) :
         \/ k <= Len(q) /\ k \in DOMAIN q
         \/ ~(k <= Len(q)) /\ k - Len(q) \in DOMAIN r
  BY <1>2
<1>6. QED
  BY <1>1, <1>2, <1>3, <1>4, <1>5

LEMMA ConcatOne ==
    ASSUME NEW S, NEW a \in S, NEW b \in S, NEW c \in S, NEW d \in S
    PROVE  /\ <<a, b, c>> \o <<d>> = <<a, b, c, d>>
           /\ <<a, b, c>> \o <<>> = <<a, b, c>>
<1> DEFINE x == <<a, b, c>> \o <<d>>
           y == <<a, b, c, d>>
<1>1. /\ <<a, b, c>> \in Seq(S) /\ <<d>> \in Seq(S) /\ y \in Seq(S)
      /\ Len(<<a, b, c>>) = 3 /\ Len(<<d>>) = 1 /\ Len(y) = 4
  OBVIOUS
<1>2. /\ x \in Seq(S) /\ Len(x) = 4
      /\ \A i \in 1 .. 4 : x[i] = IF i <= 3 THEN <<a, b, c>>[i] ELSE <<d>>[i - 3]
  BY <1>1, ConcatProperties
<1>3. \A i \in 1 .. 4 : x[i] = y[i]
  BY <1>2
<1>4. x = y
  BY <1>1, <1>2, <1>3, SeqEqual
<1>5. QED
  BY <1>1, <1>4, ConcatEmptySeq

LEMMA SentConcat ==
    ASSUME NEW S, NEW q \in Seq(S), NEW r \in Seq(S), NEW f
    PROVE  Sent(q \o r, f) <=> Sent(q, f) \/ Sent(r, f)
<1>1. Sent(q, f) => Sent(q \o r, f)
  BY ConcatForms DEF Sent
<1>2. Sent(r, f) => Sent(q \o r, f)
  <2>1. \A k \in DOMAIN r : Len(q) + k \in DOMAIN (q \o r)
                           /\ (q \o r)[Len(q) + k] = r[k]
    BY ConcatForms
  <2>2. QED
    BY <2>1 DEF Sent
<1>3. Sent(q \o r, f) => Sent(q, f) \/ Sent(r, f)
  <2>1. \A k \in DOMAIN (q \o r) :
                 \/ k \in DOMAIN q /\ (q \o r)[k] = q[k]
                 \/ k - Len(q) \in DOMAIN r /\ (q \o r)[k] = r[k - Len(q)]
    BY ConcatForms
  <2>2. QED
    BY <2>1 DEF Sent
<1>4. QED
  BY <1>1, <1>2, <1>3

LEMMA TailForms ==
    ASSUME NEW S, NEW q \in Seq(S), q # <<>>
    PROVE  /\ Tail(q) \in Seq(S) /\ Head(q) = q[1] /\ 1 \in DOMAIN q
           /\ Len(q) \in Nat /\ DOMAIN q = 1 .. Len(q)
           /\ DOMAIN Tail(q) = 1 .. Len(q) - 1
           /\ \A k \in DOMAIN Tail(q) : k + 1 \in DOMAIN q /\ Tail(q)[k] = q[k + 1]
           /\ \A k \in DOMAIN q : \/ k = 1
                                  \/ k - 1 \in DOMAIN Tail(q) /\ Tail(q)[k - 1] = q[k]
<1>1. /\ Tail(q) \in Seq(S) /\ Len(Tail(q)) = Len(q) - 1
      /\ \A i \in 1 .. Len(Tail(q)) : Tail(q)[i] = q[i + 1]
      /\ Head(q) = q[1]
  BY HeadTailProperties
<1>2. /\ Len(q) \in Nat /\ Len(q) # 0 /\ DOMAIN q = 1 .. Len(q)
      /\ DOMAIN Tail(q) = 1 .. Len(Tail(q))
  BY <1>1, LenProperties, EmptySeq
<1>3. QED
  BY <1>1, <1>2

-----------------------------------------------------------------------------
(* What the account sends.                                                 *)

\* what any step of the account does to its orders, and the frames it sends
Accounts(fs) ==
    /\ src' \in [Leg -> {"none", "suspended", "working", "Filled", "Canceled"}]
    /\ srcVer' \in [Leg -> 0 .. MaxVer + 1] /\ replacing' \subseteq Leg
    /\ \A leg \in Leg :
          /\ src[leg] # "none" => src'[leg] # "none"
          /\ srcVer[leg] <= srcVer'[leg]
          /\ src'[leg] = "none" => srcVer'[leg] = 0 /\ leg \notin replacing'
    \* what the frames say
    /\ fs \in Seq(Frame)
    /\ \A k \in DOMAIN fs :
          /\ fs[k][1] = "orderVersion" => fs[k][3] = srcVer'[fs[k][2]]
          /\ fs[k][1] = "orderStrategyLink" =>
                src[fs[k][2]] = "none" /\ src'[fs[k][2]] # "none"
          /\ fs[k][1] = "executionReport" => src'[fs[k][2]] # "none"
          /\ fs[k][1] = "orderStrategy" =>
                src[Entry(fs[k][2])] = "none"
    \* and in which order
    /\ \A j, k \in DOMAIN fs : j < k =>
          /\ fs[k][1] = "orderStrategyLink" => fs[j] # Report(fs[k][2], "New")
          /\ fs[k][1] = "orderStrategy" => fs[j][1] # "orderStrategyLink"
    /\ \A k \in DOMAIN fs : \A leg \in Leg :
          fs[k] \in {LinkFrame(leg), Report(leg, "New")} =>
             \/ src[leg] # "none"
             \/ /\ \E j \in 1 .. k - 1 : fs[j] = OrderFrame(leg)
                /\ \E j \in 1 .. k - 1 : IsVersion(fs[j], leg)
    \* what is sent of a new order, and of a change
    /\ \A leg \in Leg : src[leg] = "none" /\ src'[leg] # "none" =>
          /\ Sent(fs, OrderFrame(leg))
          /\ srcVer'[leg] = 1
          /\ src'[EntryOf(leg)] # "none"
          /\ leg \in BracketLeg => Sent(fs, LinkFrame(leg))
          /\ leg = EntryOf(leg) =>
                /\ Sent(fs, Report(leg, "New"))
                /\ leg \in BracketLeg => Sent(fs, StrategyFrame(leg[1]))
    /\ \A leg \in Leg : \/ srcVer'[leg] = srcVer[leg]
                        \/ Sent(fs, VersionFrame(leg, srcVer'[leg]))
    /\ \A leg \in Leg : src'[leg] \in {"suspended", "working"} =>
          \/ src[leg] = "none" \/ leg \in replacing'
          \/ /\ Alive(leg) /\ srcVer'[leg] = srcVer[leg]
             /\ leg \in replacing =>
                  \E k \in DOMAIN fs : /\ fs[k][1] = "executionReport"
                                       /\ fs[k][3] = "Replaced"
                                       /\ fs[k][2][1] = leg[1]

LEMMA PlacesEntry ==
    ASSUME FeedTyped, NEW o \in Order, PlaceEntry(o)
    PROVE  \E fs \in Seq(Frame) : Accounts(fs) /\ SendFrames(fs)
<1> DEFINE entry == Entry(o)
           fs == IF o \in Bracket
                 THEN << StrategyFrame(o), OrderFrame(entry), VersionFrame(entry, 1),
                         LinkFrame(entry), Report(entry, "New") >>
                 ELSE << OrderFrame(entry), VersionFrame(entry, 1),
                         Report(entry, "New") >>
<1>1. /\ entry \in Leg /\ entry[1] = o /\ EntryOf(entry) = entry
      /\ o \in Bracket => entry \in BracketLeg
      /\ entry \in BracketLeg => o \in Bracket
      /\ 1 \in Versions /\ 1 \in 0 .. MaxVer + 1
      /\ src[entry] = "none"
  BY LegForms, ParserAssumption DEF PlaceEntry, EntryOf, Versions
<1>2. fs \in Seq(Frame)
  BY <1>1, FrameForms
<1>3. SendFrames(fs)
  BY DEF PlaceEntry
<1>4. Accounts(fs)
  <2> DEFINE States == {"none", "suspended", "working", "Filled", "Canceled"}
  <2>1. /\ src \in [Leg -> States] /\ srcVer \in [Leg -> 0 .. MaxVer + 1]
        /\ src' = [src EXCEPT ![entry] = "working"]
        /\ srcVer' = [srcVer EXCEPT ![entry] = 1]
        /\ replacing \subseteq Leg /\ replacing' = replacing
    BY DEF PlaceEntry, FeedTyped, FeedTypeOK
  <2>2. /\ src' \in [Leg -> States] /\ srcVer' \in [Leg -> 0 .. MaxVer + 1]
        /\ \A leg \in Leg : leg # entry =>
              src'[leg] = src[leg] /\ srcVer'[leg] = srcVer[leg]
        /\ src'[entry] = "working" /\ srcVer'[entry] = 1
    BY <1>1, <2>1
  <2>3. CASE o \in Bracket
    <3>1. /\ DOMAIN fs = 1 .. 5 /\ fs[1] = StrategyFrame(o)
          /\ fs[2] = OrderFrame(entry) /\ fs[3] = VersionFrame(entry, 1)
          /\ fs[4] = LinkFrame(entry) /\ fs[5] = Report(entry, "New")
      BY <2>3
    <3>2. \A leg \in Leg : leg[1] = o /\ leg = EntryOf(leg) => leg = entry
      BY DEF EntryOf
    <3> HIDE DEF fs
    <3>3. \A k \in DOMAIN fs : k = 1 \/ k = 2 \/ k = 3 \/ k = 4 \/ k = 5
      BY <3>1
    <3>4. \A k \in DOMAIN fs :
          /\ fs[k][1] = "orderVersion" => fs[k][3] = srcVer'[fs[k][2]]
          /\ fs[k][1] = "orderStrategyLink" =>
                src[fs[k][2]] = "none" /\ src'[fs[k][2]] # "none"
          /\ fs[k][1] = "executionReport" => src'[fs[k][2]] # "none"
          /\ fs[k][1] = "orderStrategy" =>
                src[Entry(fs[k][2])] = "none"
      BY <1>1, <2>2, <3>1, <3>3
         DEF StrategyFrame, OrderFrame, VersionFrame, LinkFrame, Report
    <3>5. \A j, k \in DOMAIN fs : j < k =>
          /\ fs[k][1] = "orderStrategyLink" => fs[j] # Report(fs[k][2], "New")
          /\ fs[k][1] = "orderStrategy" => fs[j][1] # "orderStrategyLink"
      BY <3>1, <3>3
         DEF StrategyFrame, OrderFrame, VersionFrame, LinkFrame, Report
    <3>6. \A k \in DOMAIN fs : \A leg \in Leg :
          fs[k] \in {LinkFrame(leg), Report(leg, "New")} =>
             /\ \E j \in 1 .. k - 1 : fs[j] = OrderFrame(leg)
             /\ \E j \in 1 .. k - 1 : IsVersion(fs[j], leg)
      <4> SUFFICES ASSUME NEW k \in DOMAIN fs, NEW leg \in Leg,
                          fs[k] \in {LinkFrame(leg), Report(leg, "New")}
                   PROVE  /\ \E j \in 1 .. k - 1 : fs[j] = OrderFrame(leg)
                          /\ \E j \in 1 .. k - 1 : IsVersion(fs[j], leg)
        OBVIOUS
      <4>1. leg = entry /\ (k = 4 \/ k = 5)
        BY <3>1, <3>3
           DEF StrategyFrame, OrderFrame, VersionFrame, LinkFrame, Report
      <4>2. 2 \in 1 .. k - 1 /\ 3 \in 1 .. k - 1
        BY <4>1
      <4>3. QED
        BY <3>1, <4>1, <4>2 DEF IsVersion, VersionFrame
    <3>7. /\ Sent(fs, OrderFrame(entry)) /\ Sent(fs, VersionFrame(entry, 1))
          /\ Sent(fs, LinkFrame(entry)) /\ Sent(fs, Report(entry, "New"))
          /\ Sent(fs, StrategyFrame(o))
      BY <3>1 DEF Sent
    <3>8. \A leg \in Leg :
             /\ src[leg] = "none" /\ src'[leg] # "none" => leg = entry
             /\ srcVer'[leg] # srcVer[leg] => leg = entry
             /\ leg # entry => (Alive(leg) <=> src'[leg] \in {"suspended", "working"})
             /\ src[leg] # "none" => src'[leg] # "none"
             /\ srcVer[leg] <= srcVer'[leg]
             /\ src'[leg] = "none" => srcVer'[leg] = 0 /\ leg \notin replacing'
      BY <1>1, <2>1, <2>2, ParserAssumption DEF Alive, FeedTyped
    <3>9. \A leg \in Leg : src'[leg] \in {"suspended", "working"} =>
          \/ src[leg] = "none"
          \/ /\ Alive(leg) /\ srcVer'[leg] = srcVer[leg]
             /\ leg \in replacing => leg \in replacing'
      BY <1>1, <2>1, <2>2, <3>8
    <3>10. \A leg \in Leg : src[leg] = "none" /\ src'[leg] # "none" =>
          /\ Sent(fs, OrderFrame(leg))
          /\ srcVer'[leg] = 1
          /\ src'[EntryOf(leg)] # "none"
          /\ leg \in BracketLeg => Sent(fs, LinkFrame(leg))
          /\ leg = EntryOf(leg) =>
                /\ Sent(fs, Report(leg, "New"))
                /\ leg \in BracketLeg => Sent(fs, StrategyFrame(leg[1]))
      BY <1>1, <2>2, <3>7, <3>8
    <3>11. QED
      BY <1>2, <2>1, <2>2, <3>4, <3>5, <3>6, <3>7, <3>8, <3>9, <3>10, SMTT(60)
         DEF Accounts, VersionFrame
  <2>4. CASE o \notin Bracket
    <3>1. /\ DOMAIN fs = 1 .. 3
          /\ fs[1] = OrderFrame(entry) /\ fs[2] = VersionFrame(entry, 1)
          /\ fs[3] = Report(entry, "New")
      BY <2>4
    <3>2. entry \notin BracketLeg /\ entry[1] \notin Bracket
      BY <1>1, <2>4
    <3> HIDE DEF fs
    <3>3. \A k \in DOMAIN fs : k = 1 \/ k = 2 \/ k = 3
      BY <3>1
    <3>4. \A k \in DOMAIN fs :
          /\ fs[k][1] = "orderVersion" => fs[k][3] = srcVer'[fs[k][2]]
          /\ fs[k][1] # "orderStrategyLink" /\ fs[k][1] # "orderStrategy"
          /\ fs[k][1] = "executionReport" => src'[fs[k][2]] # "none"
      BY <1>1, <2>2, <3>1, <3>3 DEF OrderFrame, VersionFrame, Report
    <3>5. \A k \in DOMAIN fs : \A leg \in Leg :
          fs[k] \in {LinkFrame(leg), Report(leg, "New")} =>
             /\ \E j \in 1 .. k - 1 : fs[j] = OrderFrame(leg)
             /\ \E j \in 1 .. k - 1 : IsVersion(fs[j], leg)
      <4> SUFFICES ASSUME NEW k \in DOMAIN fs, NEW leg \in Leg,
                          fs[k] \in {LinkFrame(leg), Report(leg, "New")}
                   PROVE  /\ \E j \in 1 .. k - 1 : fs[j] = OrderFrame(leg)
                          /\ \E j \in 1 .. k - 1 : IsVersion(fs[j], leg)
        OBVIOUS
      <4>1. leg = entry /\ k = 3
        BY <3>1, <3>3 DEF OrderFrame, VersionFrame, LinkFrame, Report
      <4>2. 1 \in 1 .. k - 1 /\ 2 \in 1 .. k - 1
        BY <4>1
      <4>3. QED
        BY <3>1, <4>1, <4>2 DEF IsVersion, VersionFrame
    <3>6. /\ Sent(fs, OrderFrame(entry)) /\ Sent(fs, VersionFrame(entry, 1))
          /\ Sent(fs, Report(entry, "New"))
      BY <3>1 DEF Sent
    <3>7. \A leg \in Leg :
             /\ src[leg] = "none" /\ src'[leg] # "none" => leg = entry
             /\ srcVer'[leg] # srcVer[leg] => leg = entry
             /\ leg # entry => (Alive(leg) <=> src'[leg] \in {"suspended", "working"})
             /\ src[leg] # "none" => src'[leg] # "none"
             /\ srcVer[leg] <= srcVer'[leg]
             /\ src'[leg] = "none" => srcVer'[leg] = 0 /\ leg \notin replacing'
      BY <1>1, <2>1, <2>2, ParserAssumption DEF Alive, FeedTyped
    <3>8. \A leg \in Leg : src'[leg] \in {"suspended", "working"} =>
          \/ src[leg] = "none"
          \/ /\ Alive(leg) /\ srcVer'[leg] = srcVer[leg]
             /\ leg \in replacing => leg \in replacing'
      BY <1>1, <2>1, <2>2, <3>7
    <3>9. \A leg \in Leg : src[leg] = "none" /\ src'[leg] # "none" =>
          /\ Sent(fs, OrderFrame(leg))
          /\ srcVer'[leg] = 1
          /\ src'[EntryOf(leg)] # "none"
          /\ leg \notin BracketLeg
          /\ Sent(fs, Report(leg, "New"))
      BY <1>1, <2>2, <3>2, <3>6, <3>7
    <3>10. \A j, k \in DOMAIN fs : j < k =>
          /\ fs[k][1] = "orderStrategyLink" => fs[j] # Report(fs[k][2], "New")
          /\ fs[k][1] = "orderStrategy" => fs[j][1] # "orderStrategyLink"
      BY <3>4
    <3>11. \A leg \in Leg : \/ srcVer'[leg] = srcVer[leg]
                            \/ Sent(fs, VersionFrame(leg, srcVer'[leg]))
      BY <2>2, <3>6, <3>7
    <3> HIDE DEF entry
    <3>12. QED
      BY <1>2, <2>1, <2>2, <3>4, <3>5, <3>7, <3>8, <3>9, <3>10, <3>11, SMTT(60)
         DEF Accounts
  <2>5. QED
    BY <2>3, <2>4
<1>5. QED
  BY <1>2, <1>3, <1>4

(* Steps that add no order. *)
LEMMA AddsNone ==
    ASSUME FeedTyped, NEW fs \in Seq(Frame),
           src' \in [Leg -> {"none", "suspended", "working", "Filled", "Canceled"}],
           srcVer' \in [Leg -> 0 .. MaxVer + 1], replacing' \subseteq Leg,
           \A leg \in Leg : /\ src[leg] = "none" <=> src'[leg] = "none"
                            /\ srcVer[leg] <= srcVer'[leg]
                            /\ src[leg] = "none" =>
                                  srcVer'[leg] = srcVer[leg] /\ leg \notin replacing',
           \A k \in DOMAIN fs :
              \/ fs[k][1] = "orderVersion" /\ fs[k][3] = srcVer'[fs[k][2]]
              \/ fs[k][1] = "executionReport" /\ src[fs[k][2]] # "none",
           \A leg \in Leg : \/ srcVer'[leg] = srcVer[leg]
                            \/ Sent(fs, VersionFrame(leg, srcVer'[leg])),
           \A leg \in Leg : src'[leg] \in {"suspended", "working"} =>
              \/ leg \in replacing'
              \/ /\ Alive(leg) /\ srcVer'[leg] = srcVer[leg]
                 /\ leg \in replacing =>
                      \E k \in DOMAIN fs : /\ fs[k][1] = "executionReport"
                                           /\ fs[k][3] = "Replaced"
                                           /\ fs[k][2][1] = leg[1]
    PROVE  Accounts(fs)
<1>1. \A k \in DOMAIN fs : fs[k] \in Frame
  BY ElementOfSeq, LenProperties
<1>2. \A k \in DOMAIN fs : fs[k][1] \in {"orderVersion", "executionReport"}
  OBVIOUS
<1>3. \A k \in DOMAIN fs : \A leg \in Leg :
          fs[k] \in {LinkFrame(leg), Report(leg, "New")} => src[leg] # "none"
  BY <1>2 DEF LinkFrame, Report
<1>4. \A k \in DOMAIN fs :
          /\ fs[k][1] = "orderVersion" => fs[k][3] = srcVer'[fs[k][2]]
          /\ fs[k][1] # "orderStrategyLink"
          /\ fs[k][1] = "executionReport" => src'[fs[k][2]] # "none"
          /\ fs[k][1] # "orderStrategy"
  <2>1. \A k \in DOMAIN fs : fs[k][1] = "executionReport" =>
           fs[k][2] \in Leg /\ src[fs[k][2]] # "none"
    BY <1>1, FrameForms
  <2>2. QED
    BY <2>1
<1>5. \A leg \in Leg : /\ src[leg] # "none" => src'[leg] # "none"
                       /\ src'[leg] = "none" =>
                             srcVer'[leg] = 0 /\ leg \notin replacing'
  BY DEF FeedTyped
<1>6. QED
  BY <1>3, <1>4, <1>5 DEF Accounts, VersionFrame

LEMMA SeqOfFrames ==
    ASSUME NEW R, R \subseteq Frame, NEW fs \in Seq(R)
    PROVE  fs \in Seq(Frame) /\ \A k \in DOMAIN fs : fs[k] \in R
BY SeqMonotonic, ElementOfSeq, LenProperties

LEMMA SentLast ==
    ASSUME NEW S, NEW q \in Seq(S), NEW f \in S
    PROVE  Sent(q \o <<f>>, f)
<1>1. <<f>> \in Seq(S) /\ Sent(<<f>>, f)
  BY DEF Sent
<1>2. QED
  BY <1>1, SentConcat

LEMMA DueForms ==
    ASSUME NEW S, NEW sent \in BOOLEAN, NEW f, sent => f \in S
    PROVE  Due(sent, f) \in Seq(S)
BY DEF Due

LEMMA AliveForms ==
    ASSUME FeedTyped, NEW leg \in Leg
    PROVE  /\ Alive(leg) \in BOOLEAN
           /\ Alive(leg) => src[leg] # "none" /\ srcVer[leg] \in Versions
BY ParserAssumption DEF Alive, FeedTyped, FeedTypeOK, Versions

LEMMA Modifies ==
    ASSUME FeedTyped, NEW leg \in Leg, Modify(leg)
    PROVE  \E fs \in Seq(Frame) : Accounts(fs) /\ SendFrames(fs)
<1> DEFINE entry == EntryOf(leg)
           again == Due(leg # entry /\ Alive(entry), VersionFrame(entry, srcVer[entry]))
           last == VersionFrame(leg, srcVer[leg] + 1)
           fs == again \o <<last>>
           R == {f \in Frame : f[1] = "orderVersion" /\ f[3] = srcVer'[f[2]]}
<1>1. /\ src' = src /\ replacing' = replacing \cup {leg}
      /\ srcVer \in [Leg -> 0 .. MaxVer + 1] /\ src[leg] # "none"
      /\ srcVer' = [srcVer EXCEPT ![leg] = srcVer[leg] + 1]
      /\ srcVer[leg] <= MaxVer
      /\ SendFrames(fs)
  BY AliveForms DEF Modify, FeedTyped, FeedTypeOK
<1>2. /\ srcVer[leg] + 1 \in Versions /\ srcVer[leg] + 1 \in 0 .. MaxVer + 1
      /\ srcVer[leg] \in Nat
  BY <1>1, ParserAssumption DEF Versions
<1>3. entry \in Leg
  BY LegForms
<1>4. last \in R
  BY <1>1, <1>2, FrameForms DEF VersionFrame
<1>5. again \in Seq(R)
  <2>1. ASSUME leg # entry, Alive(entry)
        PROVE  VersionFrame(entry, srcVer[entry]) \in R
    BY <1>1, <1>3, <2>1, AliveForms, FrameForms DEF VersionFrame
  <2>2. QED
    BY <1>3, <2>1, DueForms, AliveForms
<1>6. fs \in Seq(R) /\ Sent(fs, last)
  BY <1>4, <1>5, ConcatProperties, SentLast
<1>7. R \subseteq Frame
  OBVIOUS
<1>8. /\ fs \in Seq(Frame)
      /\ \A k \in DOMAIN fs : fs[k][1] = "orderVersion" /\ fs[k][3] = srcVer'[fs[k][2]]
  BY <1>6, <1>7, SeqOfFrames
<1>9. /\ srcVer' \in [Leg -> 0 .. MaxVer + 1]
      /\ \A k \in Leg : srcVer[k] <= srcVer'[k] /\ srcVer[k] \in Nat
      /\ \A k \in Leg : k # leg => srcVer'[k] = srcVer[k]
      /\ srcVer'[leg] = srcVer[leg] + 1
  BY <1>1, <1>2, ParserAssumption
<1>10. /\ src' \in [Leg -> {"none", "suspended", "working", "Filled", "Canceled"}]
       /\ replacing' \subseteq Leg
  BY <1>1 DEF FeedTyped, FeedTypeOK
<1> HIDE DEF fs, R
<1>11. \A k \in Leg : src'[k] \in {"suspended", "working"} =>
          \/ k \in replacing'
          \/ Alive(k) /\ srcVer'[k] = srcVer[k] /\ k \notin replacing
  BY <1>1, <1>9 DEF Alive
<1>12. \A k \in Leg : \/ srcVer'[k] = srcVer[k]
                      \/ Sent(fs, VersionFrame(k, srcVer'[k]))
  BY <1>6, <1>9
<1>13. Accounts(fs)
  <2>1. \A k \in Leg : /\ src[k] = "none" <=> src'[k] = "none"
                       /\ src[k] = "none" =>
                             srcVer'[k] = srcVer[k] /\ k \notin replacing'
    BY <1>1, <1>9 DEF FeedTyped
  <2>2. \A k \in Leg : src'[k] \in {"suspended", "working"} =>
              \/ k \in replacing'
              \/ /\ Alive(k) /\ srcVer'[k] = srcVer[k]
                 /\ k \in replacing =>
                      \E j \in DOMAIN fs : /\ fs[j][1] = "executionReport"
                                           /\ fs[j][3] = "Replaced"
                                           /\ fs[j][2][1] = k[1]
    BY <1>11
  <2>3. QED
    BY <1>8, <1>9, <1>10, <1>12, <2>1, <2>2, AddsNone
<1>14. QED
  BY <1>1, <1>8, <1>13

LEMMA ReportsReplaced ==
    ASSUME FeedTyped, NEW leg \in Leg, Replaced(leg)
    PROVE  \E fs \in Seq(Frame) : Accounts(fs) /\ SendFrames(fs)
<1> DEFINE x == IF Alive(EntryOf(leg)) THEN EntryOf(leg) ELSE leg
           fs == << Report(x, "Replaced") >>
<1>1. /\ src' = src /\ srcVer' = srcVer /\ leg \in replacing
      /\ replacing' = replacing \ {leg} /\ SendFrames(fs)
  BY DEF Replaced
<1>2. x \in Leg /\ x[1] = leg[1] /\ src[x] # "none"
  <2>1. EntryOf(leg) \in Leg /\ EntryOf(leg)[1] = leg[1]
    BY LegForms DEF EntryOf
  <2>2. QED
    BY <1>1, <2>1, AliveForms DEF FeedTyped
<1> HIDE DEF x
<1>3. /\ fs \in Seq(Frame) /\ DOMAIN fs = {1}
      /\ fs[1] = <<"executionReport", x, "Replaced">>
  <2>1. Report(x, "Replaced") \in Frame
    BY <1>2, FrameForms
  <2>2. QED
    BY <2>1 DEF Report
<1> HIDE DEF fs
<1>4. \A k \in Leg : src'[k] \in {"suspended", "working"} =>
              \/ k \in replacing'
              \/ /\ Alive(k) /\ srcVer'[k] = srcVer[k]
                 /\ k \in replacing =>
                      \E j \in DOMAIN fs : /\ fs[j][1] = "executionReport"
                                           /\ fs[j][3] = "Replaced"
                                           /\ fs[j][2][1] = k[1]
  BY <1>1, <1>2, <1>3 DEF Alive
<1>5. \A k \in Leg : /\ src[k] = "none" <=> src'[k] = "none"
                     /\ srcVer[k] <= srcVer'[k]
                     /\ src[k] = "none" =>
                           srcVer'[k] = srcVer[k] /\ k \notin replacing'
  BY <1>1, ParserAssumption DEF FeedTyped, FeedTypeOK
<1>6. /\ src' \in [Leg -> {"none", "suspended", "working", "Filled", "Canceled"}]
      /\ srcVer' \in [Leg -> 0 .. MaxVer + 1] /\ replacing' \subseteq Leg
  BY <1>1 DEF FeedTyped, FeedTypeOK
<1>7. \A k \in DOMAIN fs : fs[k][1] = "executionReport" /\ src[fs[k][2]] # "none"
  BY <1>2, <1>3
<1>8. Accounts(fs)
  BY <1>1, <1>3, <1>4, <1>5, <1>6, <1>7, AddsNone
<1>9. QED
  BY <1>1, <1>3, <1>8

(* Steps that end orders, or let them work, and report it. *)
LEMMA OnlyReports ==
    ASSUME FeedTyped, NEW fs \in Seq(Frame),
           src' \in [Leg -> {"none", "suspended", "working", "Filled", "Canceled"}],
           srcVer' = srcVer, replacing' \subseteq replacing,
           \A leg \in Leg : /\ src[leg] = "none" <=> src'[leg] = "none"
                            /\ src'[leg] \in {"suspended", "working"} => Alive(leg)
                            /\ leg \in replacing /\ leg \notin replacing' =>
                                  src'[leg] \notin {"suspended", "working"},
           \A k \in DOMAIN fs : fs[k][1] = "executionReport" /\ src[fs[k][2]] # "none"
    PROVE  Accounts(fs)
<1>1. /\ srcVer' \in [Leg -> 0 .. MaxVer + 1] /\ replacing' \subseteq Leg
      /\ \A leg \in Leg : /\ srcVer[leg] <= srcVer'[leg]
                           /\ src[leg] = "none" =>
                                 srcVer'[leg] = srcVer[leg] /\ leg \notin replacing'
  BY ParserAssumption DEF FeedTyped, FeedTypeOK
<1>2. \A leg \in Leg : src'[leg] \in {"suspended", "working"} =>
              \/ leg \in replacing'
              \/ Alive(leg) /\ srcVer'[leg] = srcVer[leg] /\ leg \notin replacing
  OBVIOUS
<1>3. QED
  BY <1>1, <1>2, AddsNone

LEMMA EndsOrder ==
    ASSUME FeedTyped, NEW leg \in Leg, src[leg] = "working",
           NEW how \in {"Filled", "Canceled"}, End(leg, how)
    PROVE  \E fs \in Seq(Frame) : Accounts(fs) /\ SendFrames(fs)
<1> DEFINE dragged == IF leg[1] \notin Bracket THEN {}
                      ELSE {k \in LegsOf(leg[1]) \ {leg} :
                              Alive(k) /\ (leg \in ExitLeg \/ how = "Canceled")}
           report(k) == Due(k \in dragged /\ src[k] = "working", Report(k, "Canceled"))
           fs == << Report(leg, how) >> \o report(<<leg[1], "ENTRY">>)
                   \o report(<<leg[1], "LMT">>) \o report(<<leg[1], "STP">>)
           R == {f \in Frame : f[1] = "executionReport" /\ src[f[2]] # "none"}
<1>1. /\ src' = [k \in Leg |-> IF k = leg \/ k \in dragged THEN how ELSE src[k]]
      /\ replacing' = replacing \ ({leg} \cup dragged)
      /\ srcVer' = srcVer /\ SendFrames(fs)
  BY DEF End
<1>2. dragged \subseteq Leg /\ \A k \in dragged : Alive(k) /\ src[k] # "none"
  <2>1. leg[1] \in Order
    BY LegForms
  <2>2. QED
    BY <2>1, LegsOfForms, AliveForms
<1> HIDE DEF dragged
<1>3. /\ << Report(leg, how) >> \in Seq(R)
      /\ \A k : report(k) \in Seq(R)
  <2>1. Report(leg, how) \in R
    BY FrameForms DEF Report
  <2>2. \A k : (k \in dragged /\ src[k] = "working") => Report(k, "Canceled") \in R
    BY <1>2, FrameForms DEF Report
  <2> HIDE DEF R
  <2>3. \A k : report(k) \in Seq(R)
    BY <2>2 DEF Due
  <2>4. QED
    BY <2>1, <2>3
<1> HIDE DEF R
<1>4. fs \in Seq(R)
  BY <1>3, ConcatProperties
<1>5. /\ fs \in Seq(Frame)
      /\ \A k \in DOMAIN fs : fs[k][1] = "executionReport" /\ src[fs[k][2]] # "none"
  <2>1. R \subseteq Frame /\ \A f \in R : f[1] = "executionReport" /\ src[f[2]] # "none"
    BY DEF R
  <2>2. QED
    BY <1>4, <2>1, SeqOfFrames
<1> HIDE DEF fs
<1>6. /\ src \in [Leg -> {"none", "suspended", "working", "Filled", "Canceled"}]
      /\ src' \in [Leg -> {"none", "suspended", "working", "Filled", "Canceled"}]
  BY <1>1 DEF FeedTyped, FeedTypeOK
<1>7. \A k \in Leg : /\ src[k] = "none" <=> src'[k] = "none"
                     /\ src'[k] \in {"suspended", "working"} => Alive(k)
                     /\ k \in replacing /\ k \notin replacing' =>
                                  src'[k] \notin {"suspended", "working"}
  BY <1>1, <1>2 DEF Alive
<1>8. Accounts(fs)
  BY <1>1, <1>5, <1>6, <1>7, OnlyReports
<1>9. QED
  BY <1>1, <1>5, <1>8

LEMMA FillsEntry ==
    ASSUME FeedTyped, NEW o \in Order, FillEntry(o)
    PROVE  \E fs \in Seq(Frame) : Accounts(fs) /\ SendFrames(fs)
<1> DEFINE entry == Entry(o)
           exits == {k \in LegsOf(o) : src[k] = "suspended"}
           report(k) == Due(k \in exits, Report(k, "New"))
           fs == << Report(entry, "Filled") >>
                   \o report(<<o, "LMT">>) \o report(<<o, "STP">>)
           R == {f \in Frame : f[1] = "executionReport" /\ src[f[2]] # "none"}
<1>1. /\ src' = [k \in Leg |-> IF k = entry THEN "Filled"
                               ELSE IF k \in exits THEN "working" ELSE src[k]]
      /\ replacing' = replacing \ {entry}
      /\ srcVer' = srcVer /\ SendFrames(fs) /\ src[entry] = "working"
  BY DEF FillEntry
<1>2. entry \in Leg /\ exits \subseteq Leg /\ \A k \in exits : src[k] = "suspended"
  BY LegForms, LegsOfForms
<1> HIDE DEF exits, entry
<1>3. /\ << Report(entry, "Filled") >> \in Seq(R)
      /\ \A k : report(k) \in Seq(R)
  <2>1. Report(entry, "Filled") \in R
    BY <1>1, <1>2, FrameForms DEF Report
  <2>2. \A k \in exits : Report(k, "New") \in R
    BY <1>2, FrameForms DEF Report
  <2> HIDE DEF R
  <2>3. \A k : report(k) \in Seq(R)
    BY <2>2 DEF Due
  <2>4. QED
    BY <2>1, <2>3
<1> HIDE DEF R
<1>4. fs \in Seq(R)
  BY <1>3, ConcatProperties
<1>5. /\ fs \in Seq(Frame)
      /\ \A k \in DOMAIN fs : fs[k][1] = "executionReport" /\ src[fs[k][2]] # "none"
  <2>1. R \subseteq Frame /\ \A f \in R : f[1] = "executionReport" /\ src[f[2]] # "none"
    BY DEF R
  <2>2. QED
    BY <1>4, <2>1, SeqOfFrames
<1> HIDE DEF fs
<1>6. /\ src \in [Leg -> {"none", "suspended", "working", "Filled", "Canceled"}]
      /\ src' \in [Leg -> {"none", "suspended", "working", "Filled", "Canceled"}]
  BY <1>1 DEF FeedTyped, FeedTypeOK
<1>7. \A k \in Leg : /\ src[k] = "none" <=> src'[k] = "none"
                     /\ src'[k] \in {"suspended", "working"} => Alive(k)
                     /\ k \in replacing /\ k \notin replacing' =>
                                  src'[k] \notin {"suspended", "working"}
  BY <1>1, <1>2 DEF Alive
<1>8. Accounts(fs)
  BY <1>1, <1>5, <1>6, <1>7, OnlyReports
<1>9. QED
  BY <1>1, <1>5, <1>8

\* the frames of an exit that comes into being
FramesOf(q, x) ==
    /\ q \in Seq(Frame) /\ {1, 2, 3} \subseteq DOMAIN q
    /\ q[1] = OrderFrame(x) /\ q[2] = VersionFrame(x, 1) /\ q[3] = LinkFrame(x)
    /\ \A k \in DOMAIN q : k \in {1, 2, 3} \/ (k = 4 /\ q[k] = Report(x, "New"))

LEMMA FramesOfForms ==
    ASSUME NEW q, NEW x \in BracketLeg, FramesOf(q, x)
    PROVE  /\ \A k \in DOMAIN q :
                 \/ q[k] = OrderFrame(x) \/ q[k] = VersionFrame(x, 1)
                 \/ q[k] = LinkFrame(x) \/ q[k] = Report(x, "New")
           /\ \A k \in DOMAIN q : q[k] = LinkFrame(x) => k = 3
           /\ \A k \in DOMAIN q : q[k] = Report(x, "New") => k = 4
           /\ Sent(q, OrderFrame(x)) /\ Sent(q, VersionFrame(x, 1))
           /\ Sent(q, LinkFrame(x))
BY DEF FramesOf, Sent, OrderFrame, VersionFrame, LinkFrame, Report

LEMMA ExitFrames ==
    ASSUME NEW q, NEW x \in BracketLeg,
           \/ q = << OrderFrame(x), VersionFrame(x, 1), LinkFrame(x) >>
           \/ q = << OrderFrame(x), VersionFrame(x, 1), LinkFrame(x),
                     Report(x, "New") >>
    PROVE  FramesOf(q, x)
<1> DEFINE a == OrderFrame(x)
           b == VersionFrame(x, 1)
           c == LinkFrame(x)
           d == Report(x, "New")
<1>1. a \in Frame /\ b \in Frame /\ c \in Frame /\ d \in Frame
  BY LegForms, FrameForms, ParserAssumption DEF Versions
<1>2. q = <<a, b, c>> \/ q = <<a, b, c, d>>
  OBVIOUS
<1> HIDE DEF a, b, c, d
<1>3. CASE q = <<a, b, c>>
  <2>1. q \in Seq(Frame) /\ DOMAIN q = 1 .. 3
    BY <1>1, <1>3
  <2>2. q[1] = a /\ q[2] = b /\ q[3] = c
    BY <1>3
  <2>3. QED
    BY <2>1, <2>2 DEF FramesOf, a, b, c
<1>4. CASE q = <<a, b, c, d>>
  <2>1. q \in Seq(Frame) /\ DOMAIN q = 1 .. 4
    BY <1>1, <1>4
  <2>2. q[1] = a /\ q[2] = b /\ q[3] = c /\ q[4] = d
    BY <1>4
  <2>3. \A k \in DOMAIN q : k \in {1, 2, 3} \/ k = 4
    BY <2>1
  <2>4. QED
    BY <2>1, <2>2, <2>3 DEF FramesOf, a, b, c, d
<1>5. QED
  BY <1>2, <1>3, <1>4

LEMMA FramesOfLen ==
    ASSUME NEW q, NEW x, FramesOf(q, x)
    PROVE  DOMAIN q = 1 .. Len(q) /\ Len(q) \in {3, 4}
<1>1. q \in Seq(Frame) /\ DOMAIN q = 1 .. Len(q) /\ Len(q) \in Nat
  BY LenProperties DEF FramesOf
<1>2. 3 \in DOMAIN q /\ \A k \in DOMAIN q : k \in {1, 2, 3} \/ k = 4
  BY DEF FramesOf
<1>3. 3 <= Len(q)
  BY <1>1, <1>2
<1>4. Len(q) \in DOMAIN q
  BY <1>1, <1>3
<1>5. QED
  BY <1>1, <1>2, <1>3, <1>4

LEMMA AddsExits ==
    ASSUME FeedTyped, NEW b \in Bracket, AddExits(b)
    PROVE  \E fs \in Seq(Frame) : Accounts(fs) /\ SendFrames(fs)
<1> DEFINE filled == src[Entry(b)] = "Filled"
           state  == IF filled THEN "working" ELSE "suspended"
           frames(leg) == << OrderFrame(leg), VersionFrame(leg, 1), LinkFrame(leg) >>
                             \o Due(filled, Report(leg, "New"))
           x == <<b, "LMT">>
           y == <<b, "STP">>
           q == frames(x)
           r == frames(y)
           fs == q \o r
<1>1. /\ src[Entry(b)] \in {"working", "Filled"}
      /\ src[x] = "none" /\ src[y] = "none"
      /\ src' = [leg \in Leg |-> IF leg \in {x, y} THEN state ELSE src[leg]]
      /\ srcVer' = [leg \in Leg |-> IF leg \in {x, y} THEN 1 ELSE srcVer[leg]]
      /\ replacing' = replacing /\ SendFrames(fs)
  BY DEF AddExits, Exits
<1>2. /\ x \in BracketLeg /\ y \in BracketLeg /\ x # y /\ b \in Order
      /\ x \in Leg /\ y \in Leg /\ Entry(b) \in Leg
      /\ EntryOf(x) = Entry(b) /\ EntryOf(y) = Entry(b)
      /\ x # Entry(b) /\ y # Entry(b)
  BY LegForms DEF EntryOf, Entry, Order
<1>3. /\ 1 \in Versions
      /\ \A leg \in BracketLeg : FramesOf(frames(leg), leg)
  <2>1. 1 \in Versions
    BY ParserAssumption DEF Versions
  <2>2. SUFFICES ASSUME NEW leg \in BracketLeg
                 PROVE  FramesOf(frames(leg), leg)
    BY <2>1
  <2>3. /\ OrderFrame(leg) \in Frame /\ VersionFrame(leg, 1) \in Frame
        /\ LinkFrame(leg) \in Frame /\ Report(leg, "New") \in Frame
    BY <2>1, LegForms, FrameForms
  <2>4. CASE filled
    <3>1. frames(leg) = << OrderFrame(leg), VersionFrame(leg, 1), LinkFrame(leg),
                           Report(leg, "New") >>
      BY <2>3, <2>4, ConcatOne DEF Due
    <3>2. QED
      BY <3>1, ExitFrames
  <2>5. CASE ~filled
    <3>1. frames(leg) = << OrderFrame(leg), VersionFrame(leg, 1), LinkFrame(leg) >>
      BY <2>3, <2>5, ConcatOne DEF Due
    <3>2. QED
      BY <3>1, ExitFrames
  <2>6. QED
    BY <2>4, <2>5
<1>4. FramesOf(q, x) /\ FramesOf(r, y)
  BY <1>2, <1>3
<1> HIDE DEF frames, x, y, q, r
<1>5. q \in Seq(Frame) /\ r \in Seq(Frame) /\ fs \in Seq(Frame)
  BY <1>4, ConcatProperties DEF FramesOf
<1>6. /\ DOMAIN q = 1 .. Len(q) /\ Len(q) \in {3, 4}
      /\ DOMAIN r = 1 .. Len(r) /\ Len(r) \in {3, 4}
  BY <1>4, FramesOfLen
<1>7. /\ \A k \in DOMAIN fs :
                 \/ k \in DOMAIN q /\ fs[k] = q[k]
                 \/ k - Len(q) \in DOMAIN r /\ fs[k] = r[k - Len(q)]
      /\ \A k \in DOMAIN r : Len(q) + k \in DOMAIN fs /\ fs[Len(q) + k] = r[k]
      /\ \A k \in DOMAIN q : k \in DOMAIN fs /\ fs[k] = q[k]
      /\ DOMAIN fs = 1 .. Len(q) + Len(r)
  BY <1>5, ConcatForms
<1>8. /\ \A f : Sent(q, f) \/ Sent(r, f) => Sent(fs, f)
  BY <1>5, SentConcat
<1> HIDE DEF fs
<1>9. /\ src \in [Leg -> {"none", "suspended", "working", "Filled", "Canceled"}]
      /\ srcVer \in [Leg -> 0 .. MaxVer + 1] /\ replacing \subseteq Leg
      /\ srcVer[x] = 0 /\ srcVer[y] = 0
      /\ x \notin replacing /\ y \notin replacing
  BY <1>1, <1>2 DEF FeedTyped, FeedTypeOK
<1>10. /\ src' \in [Leg -> {"none", "suspended", "working", "Filled", "Canceled"}]
       /\ srcVer' \in [Leg -> 0 .. MaxVer + 1] /\ replacing' \subseteq Leg
       /\ \A leg \in Leg : leg \notin {x, y} =>
             src'[leg] = src[leg] /\ srcVer'[leg] = srcVer[leg]
       /\ \A leg \in {x, y} : src'[leg] # "none" /\ srcVer'[leg] = 1
  BY <1>1, <1>2, <1>3, <1>9, ParserAssumption
<1>11. \A k \in DOMAIN fs : \E leg \in {x, y} :
           \/ fs[k] = OrderFrame(leg) \/ fs[k] = VersionFrame(leg, 1)
           \/ fs[k] = LinkFrame(leg) \/ fs[k] = Report(leg, "New")
  BY <1>2, <1>4, <1>7, FramesOfForms
<1>12. \A k \in DOMAIN fs :
          /\ fs[k][1] = "orderVersion" => fs[k][3] = srcVer'[fs[k][2]]
          /\ fs[k][1] = "orderStrategyLink" =>
                src[fs[k][2]] = "none" /\ src'[fs[k][2]] # "none"
          /\ fs[k][1] = "executionReport" => src'[fs[k][2]] # "none"
          /\ fs[k][1] # "orderStrategy"
  BY <1>1, <1>10, <1>11 DEF OrderFrame, VersionFrame, LinkFrame, Report
<1>13. \A k \in DOMAIN fs : \A leg :
          /\ fs[k] = LinkFrame(leg) =>
                \/ leg = x /\ k = 3
                \/ leg = y /\ k = Len(q) + 3
          /\ fs[k] = Report(leg, "New") =>
                \/ leg = x /\ k = 4
                \/ leg = y /\ k = Len(q) + 4
  <2> SUFFICES ASSUME NEW k \in DOMAIN fs, NEW leg
               PROVE  /\ fs[k] = LinkFrame(leg) =>
                            \/ leg = x /\ k = 3
                            \/ leg = y /\ k = Len(q) + 3
                      /\ fs[k] = Report(leg, "New") =>
                            \/ leg = x /\ k = 4
                            \/ leg = y /\ k = Len(q) + 4
    OBVIOUS
  <2>1. CASE k \in DOMAIN q /\ fs[k] = q[k]
    <3>1. \/ fs[k] = OrderFrame(x) \/ fs[k] = VersionFrame(x, 1)
          \/ fs[k] = LinkFrame(x) /\ k = 3
          \/ fs[k] = Report(x, "New") /\ k = 4
      BY <1>2, <1>4, <2>1, FramesOfForms
    <3>2. QED
      BY <3>1 DEF OrderFrame, VersionFrame, LinkFrame, Report
  <2>2. CASE k - Len(q) \in DOMAIN r /\ fs[k] = r[k - Len(q)]
    <3>1. \/ fs[k] = OrderFrame(y) \/ fs[k] = VersionFrame(y, 1)
          \/ fs[k] = LinkFrame(y) /\ k - Len(q) = 3
          \/ fs[k] = Report(y, "New") /\ k - Len(q) = 4
      BY <1>2, <1>4, <2>2, FramesOfForms
    <3>2. k \in Nat /\ Len(q) \in Nat
      BY <1>6, <1>7
    <3>3. QED
      BY <3>1, <3>2 DEF OrderFrame, VersionFrame, LinkFrame, Report
  <2>3. QED
    BY <1>7, <2>1, <2>2
<1>14. \A j, k \in DOMAIN fs : j < k =>
          /\ fs[k][1] = "orderStrategyLink" => fs[j] # Report(fs[k][2], "New")
          /\ fs[k][1] = "orderStrategy" => fs[j][1] # "orderStrategyLink"
  <2> SUFFICES ASSUME NEW j \in DOMAIN fs, NEW k \in DOMAIN fs, j < k,
                      fs[k][1] = "orderStrategyLink",
                      fs[j] = Report(fs[k][2], "New")
               PROVE  FALSE
    BY <1>12
  <2>1. fs[k] = LinkFrame(fs[k][2])
    BY <1>11 DEF OrderFrame, VersionFrame, LinkFrame, Report
  <2>2. QED
    BY <1>2, <1>6, <1>13, <2>1
<1>15. \A k \in DOMAIN fs : \A leg \in Leg :
          fs[k] \in {LinkFrame(leg), Report(leg, "New")} =>
             /\ \E j \in 1 .. k - 1 : fs[j] = OrderFrame(leg)
             /\ \E j \in 1 .. k - 1 : IsVersion(fs[j], leg)
  <2>1. /\ fs[1] = OrderFrame(x) /\ fs[2] = VersionFrame(x, 1)
        /\ fs[Len(q) + 1] = OrderFrame(y) /\ fs[Len(q) + 2] = VersionFrame(y, 1)
    BY <1>4, <1>7 DEF FramesOf
  <2> SUFFICES ASSUME NEW k \in DOMAIN fs, NEW leg \in Leg,
                      fs[k] \in {LinkFrame(leg), Report(leg, "New")}
               PROVE  /\ \E j \in 1 .. k - 1 : fs[j] = OrderFrame(leg)
                      /\ \E j \in 1 .. k - 1 : IsVersion(fs[j], leg)
    OBVIOUS
  <2>2. CASE leg = x /\ k \in {3, 4}
    <3>1. 1 \in 1 .. k - 1 /\ 2 \in 1 .. k - 1
      BY <2>2
    <3>2. QED
      BY <2>1, <2>2, <3>1 DEF IsVersion, VersionFrame
  <2>3. CASE leg = y /\ k \in {Len(q) + 3, Len(q) + 4}
    <3>1. Len(q) + 1 \in 1 .. k - 1 /\ Len(q) + 2 \in 1 .. k - 1
      BY <1>6, <2>3
    <3>2. QED
      BY <2>1, <2>3, <3>1 DEF IsVersion, VersionFrame
  <2>4. QED
    BY <1>13, <2>2, <2>3
<1>16. /\ Sent(fs, OrderFrame(x)) /\ Sent(fs, OrderFrame(y))
       /\ Sent(fs, VersionFrame(x, 1)) /\ Sent(fs, VersionFrame(y, 1))
       /\ Sent(fs, LinkFrame(x)) /\ Sent(fs, LinkFrame(y))
  BY <1>2, <1>4, <1>8, FramesOfForms
<1>17. \A leg \in Leg : src[leg] = "none" /\ src'[leg] # "none" =>
          /\ Sent(fs, OrderFrame(leg))
          /\ srcVer'[leg] = 1
          /\ src'[EntryOf(leg)] # "none"
          /\ Sent(fs, LinkFrame(leg))
          /\ leg # EntryOf(leg)
  BY <1>1, <1>2, <1>10, <1>16
<1>18. \A leg \in Leg : \/ srcVer'[leg] = srcVer[leg]
                        \/ Sent(fs, VersionFrame(leg, srcVer'[leg]))
  BY <1>10, <1>16
<1>19. \A leg \in Leg : src'[leg] \in {"suspended", "working"} =>
          \/ src[leg] = "none"
          \/ /\ Alive(leg) /\ srcVer'[leg] = srcVer[leg]
             /\ leg \in replacing => leg \in replacing'
  BY <1>1, <1>2, <1>10 DEF Alive
<1>20. \A leg \in Leg :
          /\ src[leg] # "none" => src'[leg] # "none"
          /\ srcVer[leg] <= srcVer'[leg]
          /\ src'[leg] = "none" => srcVer'[leg] = 0 /\ leg \notin replacing'
  BY <1>1, <1>2, <1>9, <1>10, ParserAssumption DEF FeedTyped
<1>21. Accounts(fs)
  BY <1>5, <1>10, <1>12, <1>14, <1>15, <1>17, <1>18, <1>19, <1>20
     DEF Accounts
<1>22. QED
  BY <1>1, <1>5, <1>21

(* Every step of the account is one of these. *)
LEMMA AccountSends ==
    ASSUME FeedTyped, AccountMoves
    PROVE  \E fs \in Seq(Frame) : Accounts(fs) /\ SendFrames(fs)
<1>1. CASE \E o \in Order : PlaceEntry(o) \/ FillEntry(o)
  BY <1>1, PlacesEntry, FillsEntry
<1>2. CASE \E b \in Bracket : AddExits(b)
  BY <1>2, AddsExits
<1>3. CASE \E leg \in Leg : Modify(leg) \/ Replaced(leg)
  BY <1>3, Modifies, ReportsReplaced
<1>4. CASE \E leg \in Leg : Cancel(leg) \/ FillExit(leg)
  BY <1>4, EndsOrder DEF Cancel, FillExit
<1>5. QED
  BY <1>1, <1>2, <1>3, <1>4 DEF AccountMoves
-----------------------------------------------------------------------------
(* What the parser emits.                                                  *)

LEMMA BracketSize ==
    ASSUME NEW b \in Bracket
    PROVE  Cardinality(LegsOf(b)) = 3
<1> DEFINE x == Entry(b)
           y == <<b, "LMT">>
           z == <<b, "STP">>
<1>1. LegsOf(b) = ({x} \cup {y}) \cup {z} /\ x # y /\ x # z /\ y # z
  BY LegsOfForms DEF Order, Entry
<1> HIDE DEF x, y, z
<1>2. IsFiniteSet({x}) /\ Cardinality({x}) = 1
  BY FS_Singleton
<1>3. IsFiniteSet({x} \cup {y}) /\ Cardinality({x} \cup {y}) = 2
  BY <1>1, <1>2, FS_AddElement
<1>4. y \notin {x} /\ z \notin {x} \cup {y}
  BY <1>1
<1>5. Cardinality(({x} \cup {y}) \cup {z}) = 3
  BY <1>3, <1>4, FS_AddElement
<1>6. QED
  BY <1>1, <1>5

LEMMA Pairs ==
    ASSUME NEW i, NEW j, i # j
    PROVE  IsFiniteSet({i, j}) /\ Cardinality({i, j}) = 2
<1>1. IsFiniteSet({i}) /\ Cardinality({i}) = 1
  BY FS_Singleton
<1>2. j \notin {i} /\ {i} \cup {j} = {i, j}
  OBVIOUS
<1>3. QED
  BY <1>1, <1>2, FS_AddElement

(* A list of a bracket's linked legs has at most three, and its entry is one
   of them: the bracket's entry once all are there. *)
LEMMA PickForms ==
    ASSUME NEW b \in Bracket, NEW ls \in Seq(Leg), IsInjective(ls),
           ToSet(ls) \subseteq LegsOf(b), Len(ls) >= 2
    PROVE  /\ PickEntry(ls) \in ToSet(ls)
           /\ Len(ls) >= 3 => PickEntry(ls) = Entry(b) /\ ToSet(ls) = LegsOf(b)
<1> DEFINE x == Entry(b)
           y == <<b, "LMT">>
           z == <<b, "STP">>
           ofSide(i) == {j \in DOMAIN ls : Side(ls[j]) = Side(ls[i])}
           size(i) == Cardinality(ofSide(i))
           minority == {i \in DOMAIN ls : \A j \in DOMAIN ls : size(i) <= size(j)}
           first == CHOOSE i \in minority : \A j \in minority : i <= j
<1>1. /\ LegsOf(b) = {x, y, z} /\ x # y /\ x # z /\ y # z
      /\ Side(x) = "entry" /\ Side(y) = "exit" /\ Side(z) = "exit"
  BY LegForms, LegsOfForms DEF Order, Entry, Side, ExitLeg, Exits
<1>2. /\ DOMAIN ls = 1 .. Len(ls) /\ Len(ls) \in Nat
      /\ \A i \in DOMAIN ls : ls[i] \in {x, y, z}
      /\ \A i, j \in DOMAIN ls : ls[i] = ls[j] => i = j
  BY <1>1, LenProperties DEF IsInjective, ToSet
<1> HIDE DEF x, y, z
<1>3. Len(ls) <= 3
  <2> SUFFICES ASSUME Len(ls) >= 4 PROVE FALSE
    BY <1>2
  <2>1. 1 \in DOMAIN ls /\ 2 \in DOMAIN ls /\ 3 \in DOMAIN ls /\ 4 \in DOMAIN ls
    BY <1>2
  <2>2. QED
    BY <1>2, <2>1
<1>4. \A i \in DOMAIN ls : size(i) \in Nat
  <2> SUFFICES ASSUME NEW i \in DOMAIN ls PROVE size(i) \in Nat
    OBVIOUS
  <2>1. IsFiniteSet(1 .. Len(ls))
    BY <1>2, FS_Interval
  <2>2. ofSide(i) \in SUBSET (1 .. Len(ls))
    BY <1>2
  <2>3. IsFiniteSet(ofSide(i))
    BY <2>1, <2>2, FS_Subset
  <2>4. QED
    BY <2>3, FS_CardinalityType
<1>5. PickEntry(ls) = ls[first]
  BY DEF PickEntry
<1>6. CASE Len(ls) = 2
  <2>1. DOMAIN ls = {1, 2}
    BY <1>2, <1>6
  <2>2. size(1) \in Nat /\ size(2) \in Nat
    BY <1>4, <2>1
  <2> HIDE DEF size
  <2>3. 1 \in minority \/ 2 \in minority
    BY <2>1, <2>2
  <2>4. minority \subseteq {1, 2}
    BY <2>1
  <2> HIDE DEF minority
  <2>5. \E i \in minority : \A j \in minority : i <= j
    BY <2>3, <2>4
  <2>6. first \in minority
    BY <2>5
  <2> HIDE DEF first
  <2>7. first \in DOMAIN ls
    BY <2>1, <2>4, <2>6
  <2>8. QED
    BY <1>5, <1>6, <2>7 DEF ToSet
<1>7. CASE Len(ls) = 3
  <2>1. DOMAIN ls = {1, 2, 3}
    BY <1>2, <1>7
  <2>2. ToSet(ls) = {x, y, z}
    <3>1. ls[1] \in {x, y, z} /\ ls[2] \in {x, y, z} /\ ls[3] \in {x, y, z}
      BY <1>2, <2>1
    <3>2. ls[1] # ls[2] /\ ls[1] # ls[3] /\ ls[2] # ls[3]
      BY <1>2, <2>1
    <3>3. ToSet(ls) = {ls[1], ls[2], ls[3]}
      BY <2>1 DEF ToSet
    <3>4. QED
      BY <3>1, <3>2, <3>3
  <2>3. PICK e \in DOMAIN ls : ls[e] = x
    BY <2>2 DEF ToSet
  <2>4. PICK i \in DOMAIN ls : ls[i] = y
    BY <2>2 DEF ToSet
  <2>5. PICK j \in DOMAIN ls : ls[j] = z
    BY <2>2 DEF ToSet
  <2>6. e # i /\ e # j /\ i # j /\ DOMAIN ls = {e, i, j}
    BY <1>1, <2>1, <2>3, <2>4, <2>5
  <2>7. ofSide(e) = {e} /\ ofSide(i) = {i, j} /\ ofSide(j) = {i, j}
    BY <1>1, <2>3, <2>4, <2>5, <2>6
  <2> HIDE DEF ofSide
  <2>8. /\ Cardinality({e}) = 1 /\ Cardinality({i, j}) = 2
        /\ size(e) = Cardinality({e}) /\ size(i) = Cardinality({i, j})
        /\ size(j) = Cardinality({i, j})
    <3>1. Cardinality({e}) = 1
      BY FS_Singleton
    <3>2. Cardinality({i, j}) = 2
      BY <2>6, Pairs
    <3>3. QED
      BY <2>7, <3>1, <3>2
  <2> HIDE DEF size
  <2>9. minority = {e}
    BY <2>6, <2>8
  <2>10. e <= e
    BY <2>1
  <2> HIDE DEF minority
  <2>11. first = e
    BY <2>9, <2>10
  <2>12. QED
    BY <1>1, <1>5, <2>2, <2>3, <2>11 DEF x
<1>8. QED
  BY <1>2, <1>3, <1>6, <1>7

\* a NEW event is emitted
Announces(new) ==
    /\ news' = Append(news, new)
    /\ told' = [leg \in Leg |-> IF leg \in LegsIn(new) THEN version'[leg]
                                ELSE told[leg]]

(* The bracket's legs are announced together, once, and all of them when its
   size is known; or nothing changes but what the contract lookups left. *)
LEMMA BracketEmits ==
    ASSUME NEW b \in Bracket, FeedTyped, legs' \in [Bracket -> Seq(Leg)],
           IsInjective(legs'[b]), ToSet(legs'[b]) \subseteq LegsOf(b),
           MaybeEmitBracket(b)
    PROVE  /\ UNCHANGED <<emittedNew, closed>>
           /\ resolved' \in BOOLEAN
           /\ unresolved' \in 0 .. MaxUnresolved /\ unresolved <= unresolved'
           /\ \/ /\ UNCHANGED <<placed, told, news>>
                 /\ b \in placed \/ ~Complete(b)' \/ unresolved' # 0
              \/ /\ b \notin placed /\ Complete(b)' /\ placed' = placed \cup {b}
                 /\ \E new \in Leg \X SUBSET Leg :
                       /\ Announces(new) /\ LegsIn(new) = ToSet(legs'[b])
                       /\ b \in expects' => Whole(new) /\ new[1] = Entry(b)
<1> DEFINE ls == legs'[b]
           new == <<PickEntry(ls), ToSet(ls) \ {PickEntry(ls)}>>
<1>1. /\ resolved \in BOOLEAN /\ unresolved \in 0 .. MaxUnresolved
      /\ MaxUnresolved \in Nat
  BY ParserAssumption DEF FeedTyped, FeedTypeOK, ParserTypeOK
<1>2. ASSUME ResolveSymbol(TRUE) \/ ResolveSymbol(FALSE) \/ UNCHANGED symbolVars
      PROVE  /\ resolved' \in BOOLEAN /\ unresolved' \in 0 .. MaxUnresolved
             /\ unresolved <= unresolved'
  <2>1. CASE ResolveSymbol(TRUE)
    BY <1>1, <2>1 DEF ResolveSymbol
  <2>2. CASE ResolveSymbol(FALSE)
    BY <1>1, <2>2 DEF ResolveSymbol
  <2>3. CASE UNCHANGED symbolVars
    BY <1>1, <2>3 DEF symbolVars
  <2>4. QED
    BY <1>2, <2>1, <2>2, <2>3
<1>3. UNCHANGED <<emittedNew, closed>>
  BY DEF MaybeEmitBracket
<1>4. CASE b \notin placed /\ Complete(b)' /\ ResolveSymbol(TRUE)
           /\ placed' = placed \cup {b}
           /\ told' = [leg \in Leg |-> IF leg \in ToSet(ls)
                                       THEN version'[leg] ELSE told[leg]]
           /\ news' = Append(news, new)
  <2>1. /\ ls \in Seq(Leg) /\ Len(ls) >= 2
        /\ b \in expects' => Len(ls) >= 3
    BY <1>4, BracketSize DEF Complete
  <2>2. /\ PickEntry(ls) \in ToSet(ls)
        /\ Len(ls) >= 3 => PickEntry(ls) = Entry(b) /\ ToSet(ls) = LegsOf(b)
    BY <2>1, PickForms
  <2>3. ToSet(ls) \subseteq Leg
    BY LegsOfForms DEF Order
  <2> DEFINE p == PickEntry(ls)
             T == ToSet(ls)
  <2> HIDE DEF p
  <2>4. /\ new \in Leg \X SUBSET Leg /\ LegsIn(new) = T /\ new[1] = p
    BY <2>2, <2>3 DEF LegsIn, p
  <2>5. b \in expects' => Whole(new) /\ new[1] = Entry(b)
    BY <2>1, <2>2, <2>4, LegForms DEF Whole, p, Order
  <2>6. Announces(new)
    BY <1>4, <2>4 DEF Announces
  <2>7. QED
    BY <1>2, <1>3, <1>4, <2>4, <2>5, <2>6
<1>5. CASE b \notin placed /\ Complete(b)' /\ ResolveSymbol(FALSE)
           /\ UNCHANGED <<placed, told, news>>
  <2>1. unresolved' # 0
    BY <1>1, <1>5 DEF ResolveSymbol
  <2>2. QED
    BY <1>2, <1>3, <1>5, <2>1
<1>6. CASE (b \in placed \/ ~Complete(b)')
           /\ UNCHANGED <<placed, told, news, symbolVars>>
  BY <1>2, <1>3, <1>6
<1>7. QED
  BY <1>4, <1>5, <1>6 DEF MaybeEmitBracket

-----------------------------------------------------------------------------
(* What a frame does to the parser.                                        *)

\* what it stores of the frame
Stores(f) ==
    /\ known \subseteq known' /\ known' \subseteq Leg
    /\ \A leg \in Leg : f = OrderFrame(leg) => leg \in known'
    /\ version' \in [Leg -> 0 .. MaxVer + 1]
    /\ version' = IF f[1] = "orderVersion" THEN [version EXCEPT ![f[2]] = f[3]]
                  ELSE version
    /\ legs' \in [Bracket -> Seq(Leg)]
    /\ \A x \in Bracket : IsInjective(legs'[x]) /\ ToSet(legs'[x]) \subseteq LegsOf(x)
    /\ \A leg \in Leg : Linked(leg)' <=> Linked(leg) \/ f = LinkFrame(leg)
    /\ expects \subseteq expects' /\ expects' \subseteq Bracket
    /\ \A x \in Bracket : f = StrategyFrame(x) => x \in expects'
    /\ armed \subseteq armed' /\ armed' \subseteq Bracket
    /\ \A leg \in Leg : f = Report(leg, "New") /\ Linked(leg) => leg[1] \in armed'

\* what it holds of bracket x is what it held
Rests(x) ==
    /\ legs'[x] = legs[x] /\ (x \in expects' <=> x \in expects)
    /\ x \in armed' <=> x \in armed

\* what it emits for the frame
Emits(f) ==
    /\ ParserTypeOK' /\ news' \in Seq(Leg \X SUBSET Leg)
    /\ unresolved <= unresolved'
    /\ placed \subseteq placed' /\ emittedNew \subseteq emittedNew'
    /\ \A leg \in emittedNew' \ emittedNew : f = Report(leg, "New") /\ ~Linked(leg)
    /\ \A x \in Bracket : Complete(x)' => x \in placed' \/ unresolved' # 0 \/ Rests(x)
    /\ \/ /\ news' = news /\ placed' = placed /\ emittedNew' = emittedNew
          /\ \A leg \in Leg : told'[leg] \in {told[leg], version'[leg]}
       \/ \E new \in Leg \X SUBSET Leg :
             /\ Announces(new)
             /\ \A leg \in LegsIn(new) : ~EmittedIn(leg) /\ EmittedIn(leg)'
             /\ \/ \E leg \in Leg : /\ new = <<leg, {}>> /\ placed' = placed
                                    /\ leg \notin emittedNew
                                    /\ emittedNew' = emittedNew \cup {leg}
                \/ \E x \in Bracket :
                      /\ LegsIn(new) = ToSet(legs'[x]) /\ Len(legs'[x]) >= 2
                      /\ x \in expects' => Whole(new) /\ new[1] = Entry(x)
                      /\ placed' = placed \cup {x} /\ emittedNew' = emittedNew

Parses(f) == Stores(f) /\ Emits(f)

LEMMA NewsForms ==
    ASSUME NEW q \in Seq(Leg \X SUBSET Leg)
    PROVE  /\ DOMAIN q = 1 .. Len(q) /\ Len(q) \in Nat
           /\ \A i \in DOMAIN q : q[i][1] \in Leg /\ q[i][2] \subseteq Leg
                                  /\ LegsIn(q[i]) \subseteq Leg
<1>1. DOMAIN q = 1 .. Len(q) /\ Len(q) \in Nat
  BY LenProperties
<1>2. \A i \in DOMAIN q : q[i] \in Leg \X SUBSET Leg
  BY <1>1, ElementOfSeq
<1>3. QED
  BY <1>1, <1>2 DEF LegsIn

LEMMA AnnouncesForms ==
    ASSUME FeedTyped, NEW new \in Leg \X SUBSET Leg, Announces(new),
           version' \in [Leg -> 0 .. MaxVer + 1]
    PROVE  /\ told' \in [Leg -> 0 .. MaxVer + 1]
           /\ news' \in Seq(Leg \X SUBSET Leg) /\ LegsIn(new) \subseteq Leg
           /\ DOMAIN news' = 1 .. Len(news) + 1
           /\ DOMAIN news = 1 .. Len(news) /\ Len(news) \in Nat
           /\ news'[Len(news) + 1] = new
           /\ \A i \in DOMAIN news : news'[i] = news[i]
<1>1. told \in [Leg -> 0 .. MaxVer + 1] /\ news \in Seq(Leg \X SUBSET Leg)
  BY DEF FeedTyped, FeedTypeOK, ParserTypeOK
<1>2. told' \in [Leg -> 0 .. MaxVer + 1]
  BY <1>1 DEF Announces
<1>3. /\ news' \in Seq(Leg \X SUBSET Leg) /\ Len(news') = Len(news) + 1
      /\ \A i \in 1 .. Len(news) : news'[i] = news[i]
      /\ news'[Len(news) + 1] = new
  BY <1>1, AppendProperties DEF Announces
<1>4. LegsIn(new) \subseteq Leg
  BY DEF LegsIn
<1>5. QED
  BY <1>1, <1>2, <1>3, <1>4, LenProperties

LEMMA ParserTypes ==
    ASSUME known' \cup emittedNew' \cup closed' \subseteq Leg,
           version' \in [Leg -> 0 .. MaxVer + 1],
           told' \in [Leg -> 0 .. MaxVer + 1],
           legs' \in [Bracket -> Seq(Leg)],
           \A b \in Bracket : IsInjective(legs'[b]) /\ ToSet(legs'[b]) \subseteq LegsOf(b),
           expects' \cup armed' \cup placed' \subseteq Bracket,
           news' \in Seq(Leg \X SUBSET Leg),
           resolved' \in BOOLEAN, unresolved' \in 0 .. MaxUnresolved
    PROVE  ParserTypeOK'
<1>1. \A i \in DOMAIN news' : news'[i][1] \in Leg /\ news'[i][2] \subseteq Leg
  BY NewsForms
<1>2. DOMAIN legs' = Bracket
  OBVIOUS
<1> DEFINE Fine(q, b) == IsInjective(q) /\ ToSet(q) \subseteq LegsOf(b)
<1>3. \A b \in Bracket : Fine(legs'[b], b)
  OBVIOUS
<1>4. (\A b \in Bracket : Fine(legs[b], b))'
  BY <1>3
<1>5. QED
  BY <1>1, <1>2, <1>4 DEF ParserTypeOK

LEMMA BracketParses ==
    ASSUME FeedInv, NEW f \in Frame, FrameOK(f), Stores(f),
           NEW b \in Bracket, MaybeEmitBracket(b),
           \A x \in Bracket : x # b => Rests(x)
    PROVE  Parses(f)
<1>1. FeedTyped /\ NewsOK
  BY DEF FeedInv
<1>2. /\ emittedNew \subseteq Leg /\ closed \subseteq Leg /\ placed \subseteq Bracket
      /\ told \in [Leg -> 0 .. MaxVer + 1] /\ news \in Seq(Leg \X SUBSET Leg)
  BY <1>1 DEF FeedTyped, FeedTypeOK, ParserTypeOK
<1>3. /\ known' \subseteq Leg /\ expects' \cup armed' \subseteq Bracket
      /\ version' \in [Leg -> 0 .. MaxVer + 1] /\ legs' \in [Bracket -> Seq(Leg)]
      /\ \A x \in Bracket : IsInjective(legs'[x]) /\ ToSet(legs'[x]) \subseteq LegsOf(x)
      /\ \A leg \in Leg : Linked(leg)' <=> Linked(leg) \/ f = LinkFrame(leg)
  BY DEF Stores
<1>4. /\ emittedNew' = emittedNew /\ closed' = closed
      /\ resolved' \in BOOLEAN /\ unresolved' \in 0 .. MaxUnresolved
      /\ unresolved <= unresolved'
      /\ \/ /\ UNCHANGED <<placed, told, news>>
            /\ b \in placed \/ ~Complete(b)' \/ unresolved' # 0
         \/ /\ b \notin placed /\ Complete(b)' /\ placed' = placed \cup {b}
            /\ \E new \in Leg \X SUBSET Leg :
                  /\ Announces(new) /\ LegsIn(new) = ToSet(legs'[b])
                  /\ b \in expects' => Whole(new) /\ new[1] = Entry(b)
  BY <1>1, <1>3, BracketEmits
<1>5. CASE /\ UNCHANGED <<placed, told, news>>
           /\ b \in placed \/ ~Complete(b)' \/ unresolved' # 0
  <2>1. ParserTypeOK'
    BY <1>2, <1>3, <1>4, <1>5, ParserTypes
  <2>2. \A x \in Bracket : Complete(x)' => x \in placed' \/ unresolved' # 0 \/ Rests(x)
    BY <1>5
  <2>3. Emits(f)
    BY <1>2, <1>4, <1>5, <2>1, <2>2 DEF Emits
  <2>4. QED
    BY <2>3 DEF Parses
<1>6. CASE /\ b \notin placed /\ Complete(b)' /\ placed' = placed \cup {b}
           /\ \E new \in Leg \X SUBSET Leg :
                 /\ Announces(new) /\ LegsIn(new) = ToSet(legs'[b])
                 /\ b \in expects' => Whole(new) /\ new[1] = Entry(b)
  <2>1. PICK new \in Leg \X SUBSET Leg :
                 /\ Announces(new) /\ LegsIn(new) = ToSet(legs'[b])
                 /\ b \in expects' => Whole(new) /\ new[1] = Entry(b)
    BY <1>6
  <2>2. /\ told' \in [Leg -> 0 .. MaxVer + 1]
        /\ news' \in Seq(Leg \X SUBSET Leg)
    BY <1>1, <1>3, <2>1, AnnouncesForms
  <2>3. placed' \subseteq Bracket /\ b \in placed'
    BY <1>2, <1>6
  <2>4. ParserTypeOK'
    BY <1>2, <1>3, <1>4, <2>2, <2>3, ParserTypes
  <2>5. \A leg \in LegsIn(new) : ~EmittedIn(leg) /\ EmittedIn(leg)'
    <3> SUFFICES ASSUME NEW leg \in ToSet(legs'[b])
                 PROVE  ~EmittedIn(leg) /\ EmittedIn(leg)'
      BY <2>1
    <3>1. leg \in Leg /\ leg[1] = b
      BY <1>3, LegsOfForms DEF Order
    <3>2. Linked(leg)'
      BY <3>1 DEF Linked
    <3>3. leg \notin emittedNew
      <4>1. CASE Linked(leg)
        BY <1>1, <4>1 DEF NewsOK
      <4>2. CASE f = LinkFrame(leg)
        BY <4>2 DEF FrameOK, LinkFrame
      <4>3. QED
        BY <1>3, <3>1, <3>2, <4>1, <4>2
    <3>4. QED
      BY <1>6, <3>1, <3>2, <3>3 DEF EmittedIn
  <2>6. Len(legs'[b]) >= 2
    BY <1>6 DEF Complete
  <2>7. \A x \in Bracket : Complete(x)' => x \in placed' \/ unresolved' # 0 \/ Rests(x)
    BY <2>3
  <2>8. Emits(f)
    BY <1>4, <1>6, <2>1, <2>2, <2>4, <2>5, <2>6, <2>7 DEF Emits
  <2>9. QED
    BY <2>8 DEF Parses
<1>7. QED
  BY <1>4, <1>5, <1>6

LEMMA TypedForms ==
    ASSUME FeedTyped
    PROVE  /\ known \subseteq Leg /\ emittedNew \subseteq Leg /\ closed \subseteq Leg
           /\ version \in [Leg -> 0 .. MaxVer + 1]
           /\ told \in [Leg -> 0 .. MaxVer + 1]
           /\ legs \in [Bracket -> Seq(Leg)]
           /\ \A b \in Bracket : IsInjective(legs[b]) /\ ToSet(legs[b]) \subseteq LegsOf(b)
           /\ expects \subseteq Bracket /\ armed \subseteq Bracket
           /\ placed \subseteq Bracket
           /\ news \in Seq(Leg \X SUBSET Leg)
           /\ resolved \in BOOLEAN /\ unresolved \in 0 .. MaxUnresolved
BY DEF FeedTyped, FeedTypeOK, ParserTypeOK

\* a frame for which nothing is emitted
LEMMA SilentParses ==
    ASSUME FeedInv, NEW f \in Frame, Stores(f),
           UNCHANGED <<placed, emittedNew, news>>, closed' \subseteq Leg,
           resolved' \in BOOLEAN, unresolved' \in 0 .. MaxUnresolved,
           unresolved <= unresolved',
           told' \in [Leg -> 0 .. MaxVer + 1],
           \A leg \in Leg : told'[leg] \in {told[leg], version'[leg]},
           \A x \in Bracket : Rests(x)
    PROVE  Parses(f)
<1>1. FeedTyped
  BY DEF FeedInv
<1>2. ParserTypeOK'
  BY <1>1, TypedForms, ParserTypes DEF Stores
<1>3. Emits(f)
  BY <1>1, <1>2, TypedForms DEF Emits
<1>4. QED
  BY <1>3 DEF Parses

LEMMA Links ==
    ASSUME FeedTyped, NEW leg \in BracketLeg, OnStrategyLink(leg)
    PROVE  /\ legs' \in [Bracket -> Seq(Leg)]
           /\ \A x \in Bracket : IsInjective(legs'[x]) /\ ToSet(legs'[x]) \subseteq LegsOf(x)
           /\ \A k \in Leg : Linked(k)' <=> Linked(k) \/ k = leg
<1>1. /\ legs \in [Bracket -> Seq(Leg)]
      /\ \A b \in Bracket : IsInjective(legs[b]) /\ ToSet(legs[b]) \subseteq LegsOf(b)
      /\ leg \in Leg /\ leg[1] \in Bracket /\ leg \in LegsOf(leg[1])
  BY TypedForms, LegForms, LegsOfForms DEF Order
<1>2. CASE Linked(leg)
  <2>1. legs' = legs
    BY <1>2 DEF OnStrategyLink
  <2>2. QED
    BY <1>1, <1>2, <2>1 DEF Linked
<1>3. CASE ~Linked(leg)
  <2> DEFINE c == leg[1]
             q == legs[c]
             r == Append(q, leg)
  <2>1. legs' = [legs EXCEPT ![c] = r]
    BY <1>3 DEF OnStrategyLink
  <2>2. /\ q \in Seq(Leg) /\ \A i, j \in DOMAIN q : q[i] = q[j] => i = j
        /\ \A i \in DOMAIN q : q[i] # leg /\ q[i] \in LegsOf(c)
    BY <1>1, <1>3 DEF Linked, ToSet, IsInjective
  <2> HIDE DEF q
  <2>3. /\ r \in Seq(Leg) /\ Len(r) = Len(q) + 1 /\ r[Len(q) + 1] = leg
        /\ \A i \in 1 .. Len(q) : r[i] = q[i]
    BY <1>1, <2>2, AppendProperties
  <2>4. DOMAIN q = 1 .. Len(q) /\ Len(q) \in Nat /\ DOMAIN r = 1 .. Len(r)
    BY <2>2, <2>3, LenProperties
  <2> HIDE DEF r
  <2>5. /\ \A i \in DOMAIN r : \/ i \in DOMAIN q /\ r[i] = q[i]
                               \/ i = Len(q) + 1 /\ r[i] = leg
        /\ \A i \in DOMAIN q : i \in DOMAIN r /\ r[i] = q[i]
        /\ Len(q) + 1 \in DOMAIN r
    BY <2>3, <2>4
  <2>6. \A i, j \in DOMAIN r : r[i] = r[j] => i = j
    BY <2>2, <2>5
  <2>7. \A k : k \in ToSet(r) <=> k \in ToSet(q) \/ k = leg
    BY <2>3, <2>5 DEF ToSet
  <2>8. ToSet(q) \subseteq LegsOf(c)
    BY <1>1 DEF q
  <2>9. /\ legs' \in [Bracket -> Seq(Leg)] /\ legs'[c] = r
        /\ \A x \in Bracket : x # c => legs'[x] = legs[x]
    BY <1>1, <2>1, <2>3
  <2> HIDE DEF c
  <2>10. \A x \in Bracket : IsInjective(legs'[x]) /\ ToSet(legs'[x]) \subseteq LegsOf(x)
    BY <1>1, <2>6, <2>7, <2>8, <2>9 DEF IsInjective, c
  <2>11. \A k \in Leg : Linked(k)' <=> Linked(k) \/ k = leg
    <3> SUFFICES ASSUME NEW k \in Leg PROVE Linked(k)' <=> Linked(k) \/ k = leg
      OBVIOUS
    <3>1. CASE k[1] = c
      BY <1>1, <2>7, <2>9, <3>1 DEF Linked, c, q
    <3>2. CASE k[1] # c
      BY <1>1, <2>9, <3>2 DEF Linked, c
    <3>3. QED
      BY <3>1, <3>2
  <2>12. QED
    BY <2>9, <2>10, <2>11
<1>4. QED
  BY <1>2, <1>3

LEMMA LooksUp ==
    ASSUME FeedTyped,
           UNCHANGED symbolVars \/ \E found \in BOOLEAN : ResolveSymbol(found)
    PROVE  /\ resolved' \in BOOLEAN /\ unresolved' \in 0 .. MaxUnresolved
           /\ unresolved <= unresolved'
           /\ ResolveSymbol(FALSE) => unresolved' # 0
<1>1. /\ resolved \in BOOLEAN /\ unresolved \in 0 .. MaxUnresolved
      /\ MaxUnresolved \in Nat
  BY TypedForms, ParserAssumption
<1>2. ResolveSymbol(FALSE) => unresolved' # 0
  BY <1>1 DEF ResolveSymbol
<1>3. CASE UNCHANGED symbolVars
  <2>1. resolved' = resolved /\ unresolved' = unresolved
    BY <1>3 DEF symbolVars
  <2>2. unresolved' \in 0 .. MaxUnresolved /\ unresolved <= unresolved'
    BY <1>1, <2>1
  <2>3. QED
    BY <1>1, <1>2, <2>1, <2>2
<1>4. CASE \E found \in BOOLEAN : ResolveSymbol(found)
  <2>1. PICK found \in BOOLEAN : ResolveSymbol(found)
    BY <1>4
  <2>2. /\ resolved' \in BOOLEAN \/ resolved' = resolved
        /\ \/ unresolved' = unresolved
           \/ unresolved < MaxUnresolved /\ unresolved' = unresolved + 1
    BY <2>1 DEF ResolveSymbol
  <2>3. unresolved' \in 0 .. MaxUnresolved /\ unresolved <= unresolved'
    BY <1>1, <2>2
  <2>4. QED
    BY <1>1, <1>2, <2>2, <2>3
<1>5. QED
  BY <1>3, <1>4

LEMMA OrderParses ==
    ASSUME FeedInv, NEW leg \in Leg, OnOrder(leg)
    PROVE  Parses(OrderFrame(leg))
<1> DEFINE f == OrderFrame(leg)
<1>1. /\ FeedTyped /\ f[1] = "order" /\ f \in Frame
      /\ \A k : /\ f # LinkFrame(k) /\ f # StrategyFrame(k) /\ f # Report(k, "New")
                /\ f = OrderFrame(k) => k = leg
  BY FrameForms DEF FeedInv, OrderFrame, LinkFrame, StrategyFrame, Report
<1>2. /\ known' = known \cup {leg}
      /\ UNCHANGED <<version, legs, expects, armed, placed, emittedNew, told, news,
                     closed, resolved, unresolved>>
  BY DEF OnOrder, NothingEmitted, emitVars, symbolVars
<1> HIDE DEF f
<1>3. \A k : Linked(k)' <=> Linked(k)
  BY <1>2 DEF Linked
<1>4. Stores(f)
  BY <1>1, <1>2, <1>3, TypedForms DEF Stores
<1>5. \A x \in Bracket : Rests(x)
  BY <1>2 DEF Rests
<1>6. unresolved <= unresolved'
  BY <1>1, <1>2, TypedForms, ParserAssumption
<1>7. Parses(f)
  BY <1>1, <1>2, <1>4, <1>5, <1>6, TypedForms, SilentParses
<1>8. QED
  BY <1>7 DEF f

LEMMA VersionParses ==
    ASSUME FeedInv, NEW leg \in Leg, NEW v \in Versions,
           FrameOK(VersionFrame(leg, v)), OnOrderVersion(leg, v)
    PROVE  Parses(VersionFrame(leg, v))
<1> DEFINE f == VersionFrame(leg, v)
<1>1. /\ FeedTyped /\ FrameOK(f) /\ f[1] = "orderVersion" /\ f[2] = leg /\ f[3] = v
      /\ \A k : /\ f # LinkFrame(k) /\ f # StrategyFrame(k) /\ f # Report(k, "New")
                /\ f # OrderFrame(k)
      /\ f \in Frame /\ v \in 0 .. MaxVer + 1
  <2>1. f \in Frame
    BY FrameForms
  <2>2. v \in 0 .. MaxVer + 1
    BY ParserAssumption DEF Versions
  <2>3. QED
    BY <2>1, <2>2
       DEF FeedInv, VersionFrame, OrderFrame, LinkFrame, StrategyFrame, Report
<1> HIDE DEF f
<1>2. /\ version' = [version EXCEPT ![leg] = v]
      /\ known' = known /\ legs' = legs /\ expects' = expects /\ armed' = armed
  BY DEF OnOrderVersion
<1>3. version' \in [Leg -> 0 .. MaxVer + 1]
  BY <1>1, <1>2, TypedForms
<1>4. \A k : Linked(k)' <=> Linked(k)
  BY <1>2 DEF Linked
<1>5. Stores(f)
  BY <1>1, <1>2, <1>3, <1>4, TypedForms DEF Stores
<1>6. \A x \in Bracket : Rests(x)
  BY <1>2 DEF Rests
<1>7. CASE Linked(leg)
  <2>1. leg[1] \in Bracket /\ MaybeEmitBracket(leg[1])
    BY <1>7 DEF OnOrderVersion, Linked
  <2>2. Parses(f)
    BY <1>1, <1>5, <1>6, <2>1, BracketParses
  <2>3. QED
    BY <2>2 DEF f
<1>8. CASE ~Linked(leg)
  <2>1. UNCHANGED <<placed, emittedNew, told, news, closed, resolved, unresolved>>
    BY <1>8 DEF OnOrderVersion, NothingEmitted, emitVars, symbolVars
  <2>2. unresolved <= unresolved'
    BY <1>1, <2>1, TypedForms, ParserAssumption
  <2>3. Parses(f)
    BY <1>1, <1>5, <1>6, <2>1, <2>2, TypedForms, SilentParses
  <2>4. QED
    BY <2>3 DEF f
<1>9. QED
  BY <1>7, <1>8

LEMMA LinkParses ==
    ASSUME FeedInv, NEW leg \in BracketLeg, FrameOK(LinkFrame(leg)),
           OnStrategyLink(leg)
    PROVE  Parses(LinkFrame(leg))
<1> DEFINE f == LinkFrame(leg)
<1>1. /\ FeedTyped /\ FrameOK(f) /\ f[1] = "orderStrategyLink" /\ f[2] = leg
      /\ \A k : /\ f = LinkFrame(k) <=> k = leg
                /\ f # StrategyFrame(k) /\ f # Report(k, "New") /\ f # OrderFrame(k)
      /\ f \in Frame /\ leg[1] \in Bracket /\ leg \in Leg
  BY FrameForms, LegForms DEF FeedInv, OrderFrame, LinkFrame, StrategyFrame, Report
<1> HIDE DEF f
<1>2. /\ UNCHANGED <<known, version, expects, armed>> /\ MaybeEmitBracket(leg[1])
  BY DEF OnStrategyLink
<1>3. /\ legs' \in [Bracket -> Seq(Leg)]
      /\ \A x \in Bracket : IsInjective(legs'[x]) /\ ToSet(legs'[x]) \subseteq LegsOf(x)
      /\ \A k \in Leg : Linked(k)' <=> Linked(k) \/ k = leg
  BY <1>1, Links
<1>4. Stores(f)
  BY <1>1, <1>2, <1>3, TypedForms DEF Stores
<1>5. \A x \in Bracket : x # leg[1] => Rests(x)
  <2>1. \A x \in Bracket : x # leg[1] => legs'[x] = legs[x]
    BY <1>1, TypedForms DEF OnStrategyLink
  <2>2. QED
    BY <1>2, <2>1 DEF Rests
<1>6. Parses(f)
  BY <1>1, <1>2, <1>4, <1>5, BracketParses
<1>7. QED
  BY <1>6 DEF f

LEMMA StrategyParses ==
    ASSUME FeedInv, NEW b \in Bracket, OnOrderStrategy(b)
    PROVE  Parses(StrategyFrame(b))
<1> DEFINE f == StrategyFrame(b)
<1>1. /\ FeedTyped /\ FrameOK(f) /\ f[1] = "orderStrategy" /\ f \in Frame
      /\ \A k : /\ f # LinkFrame(k) /\ f # OrderFrame(k) /\ f # Report(k, "New")
                /\ f = StrategyFrame(k) => k = b
  BY FrameForms DEF FeedInv, FrameOK, OrderFrame, LinkFrame, StrategyFrame, Report
<1> HIDE DEF f
<1>2. /\ UNCHANGED <<known, version, legs, armed>> /\ expects' = expects \cup {b}
      /\ MaybeEmitBracket(b)
  BY DEF OnOrderStrategy
<1>3. \A k : Linked(k)' <=> Linked(k)
  BY <1>2 DEF Linked
<1>4. Stores(f)
  BY <1>1, <1>2, <1>3, TypedForms DEF Stores
<1>5. \A x \in Bracket : x # b => Rests(x)
  BY <1>2 DEF Rests
<1>6. Parses(f)
  BY <1>1, <1>2, <1>4, <1>5, BracketParses
<1>7. QED
  BY <1>6 DEF f

LEMMA ReportParses ==
    ASSUME FeedInv, NEW leg \in Leg, NEW how \in {"New", "Replaced", "Canceled", "Filled"},
           FrameOK(Report(leg, how)), OnExecutionReport(leg, how)
    PROVE  Parses(Report(leg, how))
<1> DEFINE f == Report(leg, how)
<1>1. /\ FeedTyped /\ FrameOK(f) /\ f[1] = "executionReport" /\ f \in Frame
      /\ \A k : /\ f # LinkFrame(k) /\ f # OrderFrame(k) /\ f # StrategyFrame(k)
                /\ f = Report(k, "New") => k = leg /\ how = "New"
  BY FrameForms DEF FeedInv, OrderFrame, LinkFrame, StrategyFrame, Report
<1>2. f = Report(leg, how)
  OBVIOUS
<1> HIDE DEF f
<1>3. /\ UNCHANGED <<known, version, legs, expects>>
      /\ how = "New" => OnNew(leg)
      /\ how = "Replaced" => OnReplaced(leg)
      /\ how \in {"Canceled", "Filled"} => OnClosed(leg)
  BY DEF OnExecutionReport
<1>4. \A k : Linked(k)' <=> Linked(k)
  BY <1>3 DEF Linked
<1>5. CASE how = "New" /\ Linked(leg)
  <2>1. /\ armed' = armed \cup {leg[1]} /\ MaybeEmitBracket(leg[1])
        /\ leg[1] \in Bracket
    BY <1>3, <1>5 DEF OnNew, Linked
  <2>2. Stores(f)
    BY <1>1, <1>3, <1>4, <2>1, TypedForms DEF Stores
  <2>3. \A x \in Bracket : x # leg[1] => Rests(x)
    BY <1>3, <2>1 DEF Rests
  <2>4. QED
    BY <1>1, <1>2, <2>1, <2>2, <2>3, BracketParses
<1>6. ASSUME armed' = armed, ~(how = "New" /\ Linked(leg))
      PROVE  Stores(f) /\ \A x \in Bracket : Rests(x)
  <2>1. Stores(f)
    BY <1>1, <1>3, <1>4, <1>6, TypedForms DEF Stores
  <2>2. QED
    BY <1>3, <1>6, <2>1 DEF Rests
<1>7. CASE how = "New" /\ ~Linked(leg)
  <2>1. EmitSingle(leg) /\ UNCHANGED <<armed, placed, closed>>
    BY <1>3, <1>7 DEF OnNew, EmitSingle
  <2>2. UNCHANGED symbolVars \/ \E found \in BOOLEAN : ResolveSymbol(found)
    BY <2>1 DEF EmitSingle
  <2>3. /\ resolved' \in BOOLEAN /\ unresolved' \in 0 .. MaxUnresolved
        /\ unresolved <= unresolved'
    BY <1>1, <2>2, LooksUp
  <2>4. Stores(f) /\ \A x \in Bracket : Rests(x)
    BY <1>6, <1>7, <2>1
  <2>5. CASE UNCHANGED <<emittedNew, told, news>>
    <3>1. told \in [Leg -> 0 .. MaxVer + 1] /\ closed \subseteq Leg
      BY <1>1, TypedForms
    <3>2. QED
      BY <1>1, <1>2, <2>1, <2>3, <2>4, <2>5, <3>1, SilentParses
  <2>6. CASE /\ leg \notin emittedNew
             /\ emittedNew' = emittedNew \cup {leg}
             /\ told' = [told EXCEPT ![leg] = version[leg]]
             /\ news' = Append(news, <<leg, {}>>)
    <3> DEFINE new == <<leg, {}>>
    <3>1. new \in Leg \X SUBSET Leg /\ LegsIn(new) = {leg}
      BY DEF LegsIn
    <3>2. told' = [k \in Leg |-> IF k \in {leg} THEN version'[k] ELSE told[k]]
      BY <1>1, <1>3, <2>6, TypedForms
    <3>3. Announces(new)
      BY <2>6, <3>1, <3>2 DEF Announces
    <3>4. version' \in [Leg -> 0 .. MaxVer + 1]
      BY <2>4 DEF Stores
    <3>5. told' \in [Leg -> 0 .. MaxVer + 1] /\ news' \in Seq(Leg \X SUBSET Leg)
      BY <1>1, <3>1, <3>3, <3>4, AnnouncesForms
    <3>6. ParserTypeOK'
      BY <1>1, <2>1, <2>3, <2>4, <2>6, <3>5, TypedForms, ParserTypes DEF Stores
    <3>7. ~EmittedIn(leg) /\ EmittedIn(leg)'
      BY <1>7, <2>6 DEF EmittedIn
    <3> HIDE DEF new
    <3>8. \A k \in LegsIn(new) : ~EmittedIn(k) /\ EmittedIn(k)'
      BY <3>1, <3>7
    <3>9. \A k \in emittedNew' \ emittedNew : f = Report(k, "New") /\ ~Linked(k)
      BY <1>2, <1>7, <2>6
    <3>10. \E k \in Leg : /\ new = <<k, {}>> /\ placed' = placed
                          /\ k \notin emittedNew
                          /\ emittedNew' = emittedNew \cup {k}
      BY <2>1, <2>6 DEF new
    <3>11. placed' = placed /\ emittedNew \subseteq emittedNew'
      BY <2>1, <2>6
    <3>12. Emits(f)
      BY <2>3, <2>4, <3>1, <3>3, <3>5, <3>6, <3>8, <3>9, <3>10, <3>11 DEF Emits
    <3>13. QED
      BY <1>2, <2>4, <3>12 DEF Parses
  <2>7. QED
    BY <2>1, <2>5, <2>6 DEF EmitSingle
<1>8. CASE how = "Replaced"
  <2>1. /\ OnReplaced(leg)
        /\ UNCHANGED <<armed, placed, emittedNew, news, closed, resolved, unresolved>>
    BY <1>3, <1>8 DEF OnReplaced, symbolVars
  <2>2. /\ told' \in [Leg -> 0 .. MaxVer + 1]
        /\ \A k \in Leg : told'[k] \in {told[k], version'[k]}
    BY <1>1, <1>3, <2>1, TypedForms DEF OnReplaced
  <2>3. unresolved <= unresolved' /\ closed \subseteq Leg
    BY <1>1, <2>1, TypedForms, ParserAssumption
  <2>4. QED
    BY <1>1, <1>2, <1>6, <1>8, <2>1, <2>2, <2>3, TypedForms, SilentParses
<1>9. CASE how \in {"Canceled", "Filled"}
  <2>1. /\ UNCHANGED <<armed, placed, emittedNew, told, news, resolved, unresolved>>
        /\ closed' = closed \cup {leg}
    BY <1>3, <1>9 DEF OnClosed, symbolVars
  <2>2. unresolved <= unresolved' /\ closed' \subseteq Leg
    BY <1>1, <2>1, TypedForms, ParserAssumption
  <2>3. how # "New"
    BY <1>9
  <2>4. QED
    BY <1>1, <1>2, <1>6, <2>1, <2>2, <2>3, TypedForms, SilentParses
<1>10. QED
  BY <1>5, <1>7, <1>8, <1>9

LEMMA HandleParses ==
    ASSUME FeedInv, NEW f \in Frame, FrameOK(f), Handle(f)
    PROVE  Parses(f)
<1>1. CASE f[1] = "order" /\ f[2] \in Leg /\ f = OrderFrame(f[2])
  <2>1. OnOrder(f[2])
    BY <1>1 DEF Handle
  <2>2. QED
    BY <1>1, <2>1, OrderParses
<1>2. CASE /\ f[1] = "orderVersion" /\ f[2] \in Leg /\ f[3] \in Versions
           /\ f = VersionFrame(f[2], f[3])
  <2>1. OnOrderVersion(f[2], f[3])
    BY <1>2 DEF Handle
  <2>2. QED
    BY <1>2, <2>1, VersionParses
<1>3. CASE f[1] = "orderStrategyLink" /\ f[2] \in BracketLeg /\ f = LinkFrame(f[2])
  <2>1. OnStrategyLink(f[2])
    BY <1>3 DEF Handle
  <2>2. QED
    BY <1>3, <2>1, LinkParses
<1>4. CASE f[1] = "orderStrategy" /\ f[2] \in Bracket /\ f = StrategyFrame(f[2])
  <2>1. OnOrderStrategy(f[2])
    BY <1>4 DEF Handle
  <2>2. QED
    BY <1>4, <2>1, StrategyParses
<1>5. CASE /\ f[1] = "executionReport" /\ f[2] \in Leg
           /\ f[3] \in {"New", "Replaced", "Canceled", "Filled"}
           /\ f = Report(f[2], f[3])
  <2>1. OnExecutionReport(f[2], f[3])
    BY <1>5 DEF Handle
  <2>2. QED
    BY <1>5, <2>1, ReportParses
<1>6. QED
  BY <1>1, <1>2, <1>3, <1>4, <1>5, FrameForms

-----------------------------------------------------------------------------
(* The invariant of the frames on their way.                               *)

LEMMA AccountKeepsFeed ==
    ASSUME FeedInv, NEW fs \in Seq(Frame), Accounts(fs), SendFrames(fs)
    PROVE  FeedInv'
<1>1. /\ FeedTyped /\ ChannelOK /\ NewsOK
      /\ channel \in Seq(Frame) /\ channel' \in {channel, channel \o fs}
      /\ gap' \in BOOLEAN
  BY DEF FeedInv, FeedTyped, FeedTypeOK, SendFrames
<1>2. /\ UNCHANGED <<known, version, legs, expects, armed, placed, emittedNew, told,
                     news, closed, resolved, unresolved>>
      /\ UNCHANGED observerVars
  BY DEF SendFrames, parserVars, emitVars, symbolVars
<1>3. ParserTypeOK' /\ ObserverTypeOK'
  <2>1. ParserTypeOK /\ ObserverTypeOK
    BY <1>1 DEF FeedTyped, FeedTypeOK
  <2>2. ObserverTypeOK'
    BY <1>2, <2>1 DEF ObserverTypeOK, observerVars, Open
  <2>3. ParserTypeOK'
    BY <1>1, <1>2, TypedForms, ParserTypes
  <2>4. QED
    BY <2>2, <2>3
<1>4. /\ \A leg \in Leg : /\ src[leg] # "none" => src'[leg] # "none"
                          /\ srcVer[leg] <= srcVer'[leg]
                          /\ src'[leg] = "none" => srcVer'[leg] = 0 /\ leg \notin replacing'
                          /\ src[leg] = "none" /\ src'[leg] # "none" => srcVer'[leg] = 1
      /\ src' \in [Leg -> {"none", "suspended", "working", "Filled", "Canceled"}]
      /\ srcVer' \in [Leg -> 0 .. MaxVer + 1] /\ replacing' \subseteq Leg
  BY DEF Accounts
<1>5. /\ srcVer \in [Leg -> 0 .. MaxVer + 1]
      /\ \A leg \in Leg : src[leg] = "none" <=> srcVer[leg] = 0
      /\ version \in [Leg -> 0 .. MaxVer + 1] /\ told \in [Leg -> 0 .. MaxVer + 1]
      /\ \A leg \in Leg : srcVer[leg] \in Int /\ srcVer'[leg] \in Int
                          /\ version[leg] \in Int /\ told[leg] \in Int
      /\ emittedNew \subseteq Leg
  BY <1>1, <1>4, TypedForms, ParserAssumption DEF FeedTyped, FeedTypeOK
<1>6. FeedTyped'
  <2>1. channel' \in Seq(Frame)
    BY <1>1, ConcatProperties
  <2>2. FeedTypeOK'
    BY <1>1, <1>3, <1>4 DEF FeedTypeOK
  <2>3. \A leg \in Leg : src'[leg] = "none" <=> srcVer'[leg] = 0
    BY <1>4, <1>5
  <2>4. legs' \in [Bracket -> Seq(Leg)] /\ news' \in Seq(Leg \X SUBSET Leg)
    BY <1>1, <1>2 DEF FeedTyped
  <2>5. \A leg \in replacing' : src'[leg] # "none"
    BY <1>4
  <2>6. QED
    BY <2>1, <2>2, <2>3, <2>4, <2>5 DEF FeedTyped
<1>7. \A f \in Frame : FrameOK(f) => FrameOK(f)'
  <2>1. \A f \in Frame : f[1] # "orderStrategy" => f[2] \in Leg
    BY FrameForms, LegForms
  <2> SUFFICES ASSUME NEW f \in Frame, FrameOK(f) PROVE FrameOK(f)'
    OBVIOUS
  <2>2. CASE f[1] = "orderVersion"
    <3>1. f[2] \in Leg /\ f[3] \in Int
      BY <2>2, FrameForms, ParserAssumption DEF Versions
    <3>2. QED
      BY <1>2, <1>4, <1>5, <2>2, <3>1 DEF FrameOK
  <2>3. CASE f[1] # "orderVersion"
    BY <1>2, <1>4, <2>1, <2>3 DEF FrameOK
  <2>4. QED
    BY <2>2, <2>3
<1>8. \A k \in DOMAIN fs : FrameOK(fs[k])'
  <2> SUFFICES ASSUME NEW k \in DOMAIN fs PROVE FrameOK(fs[k])'
    OBVIOUS
  <2> DEFINE f == fs[k]
  <2>1. f \in Frame
    BY LenProperties, ElementOfSeq
  <2>2. /\ f[1] = "orderVersion" => f[3] = srcVer'[f[2]]
        /\ f[1] = "orderStrategyLink" => src[f[2]] = "none" /\ src'[f[2]] # "none"
        /\ f[1] = "executionReport" => src'[f[2]] # "none"
    BY DEF Accounts
  <2> HIDE DEF f
  <2>3. f[1] = "orderVersion" => f[2] \in Leg
    BY <2>1, FrameForms
  <2>4. f[1] = "orderVersion" => version[f[2]] <= srcVer'[f[2]]
    BY <1>1, <1>4, <1>5, <2>3 DEF NewsOK
  <2>5. f[1] = "orderStrategyLink" => f[2] \notin emittedNew
    BY <1>1, <1>5, <2>2 DEF NewsOK
  <2>6. f[1] = "orderVersion" => srcVer'[f[2]] \in Int
    BY <1>5, <2>3
  <2>7. FrameOK(f)'
    BY <1>2, <2>2, <2>4, <2>5, <2>6 DEF FrameOK
  <2>8. QED
    BY <2>7 DEF f
<1>9. \A f \in Frame : \A k \in DOMAIN fs : FrameOK(f) => InOrder(f, fs[k])
  <2> SUFFICES ASSUME NEW f \in Frame, NEW k \in DOMAIN fs, FrameOK(f)
               PROVE  InOrder(f, fs[k])
    OBVIOUS
  <2> DEFINE g == fs[k]
  <2>1. /\ g[1] = "orderVersion" => g[3] = srcVer'[g[2]]
        /\ g[1] = "orderStrategyLink" => src[g[2]] = "none"
    BY DEF Accounts
  <2> HIDE DEF g
  <2>2. f[1] = "orderVersion" => f[2] \in Leg /\ f[3] \in Int /\ f[3] <= srcVer[f[2]]
    BY FrameForms, ParserAssumption DEF FrameOK, Versions
  <2>3. f[1] = "orderVersion" /\ g[1] = "orderVersion" /\ f[2] = g[2]
          => f[3] <= g[3]
    BY <1>4, <1>5, <2>1, <2>2
  <2>4. g[1] = "orderStrategyLink" => f # Report(g[2], "New")
    BY <2>1 DEF FrameOK, Report
  <2>5. InOrder(f, g)
    BY <2>3, <2>4 DEF InOrder
  <2>6. QED
    BY <2>5 DEF g
<1>10. \A j, k \in DOMAIN fs : j < k => InOrder(fs[j], fs[k])
  <2> SUFFICES ASSUME NEW j \in DOMAIN fs, NEW k \in DOMAIN fs, j < k
               PROVE  InOrder(fs[j], fs[k])
    OBVIOUS
  <2>1. fs[j] \in Frame
    BY LenProperties, ElementOfSeq
  <2>2. fs[j][1] = "orderVersion" => srcVer'[fs[j][2]] \in Int
    BY <1>5, <2>1, FrameForms
  <2>3. /\ fs[j][1] = "orderVersion" => fs[j][3] = srcVer'[fs[j][2]]
        /\ fs[k][1] = "orderVersion" => fs[k][3] = srcVer'[fs[k][2]]
        /\ fs[k][1] = "orderStrategyLink" => fs[j] # Report(fs[k][2], "New")
    BY DEF Accounts
  <2>4. QED
    BY <2>2, <2>3 DEF InOrder
<1>11. ChannelOK'
  <2>1. /\ \A k \in DOMAIN channel : channel[k] \in Frame /\ FrameOK(channel[k])
        /\ \A j, k \in DOMAIN channel : j < k => InOrder(channel[j], channel[k])
    BY <1>1, LenProperties, ElementOfSeq DEF ChannelOK
  <2>2. CASE channel' = channel
    BY <1>7, <2>1, <2>2 DEF ChannelOK, InOrder
  <2>3. CASE channel' = channel \o fs
    <3> DEFINE c == channel
               d == channel'
    <3>1. /\ DOMAIN c = 1 .. Len(c) /\ Len(c) \in Nat
          /\ DOMAIN fs = 1 .. Len(fs) /\ Len(fs) \in Nat
          /\ \A k \in DOMAIN d : \/ k \in DOMAIN c /\ d[k] = c[k]
                                 \/ k - Len(c) \in DOMAIN fs /\ d[k] = fs[k - Len(c)]
          /\ DOMAIN d = 1 .. Len(c) + Len(fs)
      BY <1>1, <2>3, ConcatForms
    <3>2. \A k \in DOMAIN d : \A f : f = d[k] => FrameOK(f)'
      <4> SUFFICES ASSUME NEW k \in DOMAIN d, NEW f, f = d[k] PROVE FrameOK(f)'
        OBVIOUS
      <4>1. CASE k \in DOMAIN c /\ d[k] = c[k]
        BY <1>7, <2>1, <4>1
      <4>2. CASE k - Len(c) \in DOMAIN fs /\ d[k] = fs[k - Len(c)]
        <5>1. PICK m \in DOMAIN fs : d[k] = fs[m]
          BY <4>2
        <5>2. FrameOK(fs[m])'
          BY <1>8
        <5>3. QED
          BY <5>1, <5>2
      <4>3. QED
        BY <3>1, <4>1, <4>2
    <3>3. \A j, k \in DOMAIN d : j < k => InOrder(d[j], d[k])
      <4> SUFFICES ASSUME NEW j \in DOMAIN d, NEW k \in DOMAIN d, j < k
                   PROVE  InOrder(d[j], d[k])
        OBVIOUS
      <4>1. CASE j \in DOMAIN c /\ d[j] = c[j] /\ k \in DOMAIN c /\ d[k] = c[k]
        BY <2>1, <4>1
      <4>2. CASE /\ j \in DOMAIN c /\ d[j] = c[j]
                 /\ k - Len(c) \in DOMAIN fs /\ d[k] = fs[k - Len(c)]
        BY <1>9, <2>1, <4>2
      <4>3. CASE /\ j - Len(c) \in DOMAIN fs /\ d[j] = fs[j - Len(c)]
                 /\ k - Len(c) \in DOMAIN fs /\ d[k] = fs[k - Len(c)]
        <5>1. j - Len(c) < k - Len(c)
          BY <3>1
        <5>2. QED
          BY <1>10, <4>3, <5>1
      <4>4. CASE /\ j - Len(c) \in DOMAIN fs /\ k \in DOMAIN c
        BY <3>1, <4>4
      <4>5. QED
        BY <3>1, <4>1, <4>2, <4>3, <4>4
    <3> HIDE DEF c
    <3>4. QED
      BY <3>2, <3>3 DEF ChannelOK, FrameOK, InOrder
  <2>4. QED
    BY <1>1, <2>2, <2>3
<1>12. NewsOK'
  <2>1. \A leg \in Leg : told'[leg] <= version'[leg] /\ version'[leg] <= srcVer'[leg]
    BY <1>1, <1>2, <1>4, <1>5 DEF NewsOK
  <2>2. \A leg : (EmittedIn(leg)' <=> EmittedIn(leg)) /\ (Linked(leg)' <=> Linked(leg))
    BY <1>2 DEF EmittedIn, Linked
  <2>3. \A leg \in emittedNew' : src'[leg] # "none" /\ ~Linked(leg)'
    BY <1>1, <1>2, <1>4, <1>5, <2>2 DEF NewsOK
  <2>4. \A i \in DOMAIN news : \A leg \in LegsIn(news[i]) : EmittedIn(leg)'
    BY <1>1, <2>2 DEF NewsOK
  <2>5. QED
    BY <1>1, <1>2, <2>1, <2>3, <2>4 DEF NewsOK
<1>13. QED
  BY <1>6, <1>11, <1>12 DEF FeedInv

LEMMA DeliverKeepsFeed ==
    ASSUME FeedInv, Deliver
    PROVE  FeedInv'
<1> DEFINE f == channel[1]
<1>1. /\ FeedTyped /\ ChannelOK /\ NewsOK /\ channel \in Seq(Frame) /\ channel # <<>>
      /\ channel' = Tail(channel)
      /\ UNCHANGED <<observerVars, accountVars, gap>>
  BY DEF FeedInv, FeedTyped, Deliver
<1>2. /\ Tail(channel) \in Seq(Frame) /\ Head(channel) = f /\ 1 \in DOMAIN channel
      /\ \A k \in DOMAIN Tail(channel) :
            k + 1 \in DOMAIN channel /\ Tail(channel)[k] = channel[k + 1]
      /\ DOMAIN channel = 1 .. Len(channel)
      /\ DOMAIN Tail(channel) = 1 .. Len(channel) - 1
      /\ Len(channel) \in Nat
  BY <1>1, TailForms
<1>3. f \in Frame /\ FrameOK(f) /\ Handle(f)
  <2>1. f \in Frame
    BY <1>1, <1>2, ElementOfSeq
  <2>2. QED
    BY <1>1, <1>2, <2>1 DEF ChannelOK, Deliver
<1>4. Parses(f)
  BY <1>3, HandleParses
<1>5. /\ ParserTypeOK' /\ legs' \in [Bracket -> Seq(Leg)]
      /\ news' \in Seq(Leg \X SUBSET Leg)
      /\ version' = IF f[1] = "orderVersion" THEN [version EXCEPT ![f[2]] = f[3]]
                    ELSE version
      /\ \A leg \in Leg : Linked(leg)' <=> Linked(leg) \/ f = LinkFrame(leg)
      /\ placed \subseteq placed' /\ emittedNew \subseteq emittedNew'
      /\ \A leg \in emittedNew' \ emittedNew : f = Report(leg, "New") /\ ~Linked(leg)
      /\ \/ /\ news' = news
            /\ \A leg \in Leg : told'[leg] \in {told[leg], version'[leg]}
         \/ \E new \in Leg \X SUBSET Leg :
               /\ Announces(new)
               /\ \A leg \in LegsIn(new) : ~EmittedIn(leg) /\ EmittedIn(leg)'
  BY <1>4 DEF Parses, Stores, Emits
<1> HIDE DEF f
<1>6. FeedTyped'
  <2>1. /\ ObserverTypeOK /\ gap \in BOOLEAN
        /\ src \in [Leg -> {"none", "suspended", "working", "Filled", "Canceled"}]
        /\ srcVer \in [Leg -> 0 .. MaxVer + 1] /\ replacing \subseteq Leg
        /\ \A leg \in Leg : src[leg] = "none" <=> srcVer[leg] = 0
        /\ \A leg \in replacing : src[leg] # "none"
    BY <1>1 DEF FeedTyped, FeedTypeOK
  <2>2. ObserverTypeOK'
    BY <1>1, <2>1 DEF ObserverTypeOK, observerVars, Open
  <2>3. QED
    BY <1>1, <1>2, <1>5, <2>1, <2>2 DEF FeedTyped, FeedTypeOK, accountVars
<1>7. /\ src' = src /\ srcVer' = srcVer
      /\ \A leg \in Leg : /\ srcVer[leg] \in Int /\ version[leg] \in Int
                          /\ told[leg] \in Int
      /\ version \in [Leg -> 0 .. MaxVer + 1] /\ emittedNew \subseteq Leg
      /\ emittedNew' \subseteq Leg
      /\ version' \in [Leg -> 0 .. MaxVer + 1]
  <2>1. srcVer \in [Leg -> 0 .. MaxVer + 1]
    BY <1>1 DEF FeedTyped, FeedTypeOK
  <2>2. emittedNew' \subseteq Leg /\ version' \in [Leg -> 0 .. MaxVer + 1]
    BY <1>5 DEF ParserTypeOK
  <2>3. QED
    BY <1>1, <2>1, <2>2, TypedForms, ParserAssumption DEF accountVars
<1>8. f[1] = "orderVersion" =>
         /\ f[2] \in Leg /\ f[3] \in Int
         /\ version[f[2]] <= f[3] /\ f[3] <= srcVer[f[2]]
  BY <1>3, FrameForms, ParserAssumption DEF FrameOK, Versions
<1>9. \A leg \in Leg : /\ version[leg] <= version'[leg]
                       /\ version'[leg] <= srcVer[leg] /\ version'[leg] \in Int
  <2>1. \A leg \in Leg : version[leg] <= srcVer[leg]
    BY <1>1 DEF NewsOK
  <2>2. CASE f[1] = "orderVersion"
    BY <1>5, <1>7, <1>8, <2>1, <2>2
  <2>3. CASE f[1] # "orderVersion"
    BY <1>5, <1>7, <2>1, <2>3
  <2>4. QED
    BY <2>2, <2>3
<1>10. \A g \in Frame : FrameOK(g) /\ InOrder(f, g) => FrameOK(g)'
  <2> SUFFICES ASSUME NEW g \in Frame, FrameOK(g), InOrder(f, g) PROVE FrameOK(g)'
    OBVIOUS
  <2>1. CASE g[1] = "orderVersion"
    <3>1. g[2] \in Leg
      BY <2>1, FrameForms
    <3>2. version'[g[2]] <= g[3]
      <4>1. CASE f[1] = "orderVersion" /\ f[2] = g[2]
        BY <1>5, <1>7, <1>8, <2>1, <3>1, <4>1 DEF InOrder
      <4>2. CASE ~(f[1] = "orderVersion" /\ f[2] = g[2])
        <5>1. version'[g[2]] = version[g[2]]
          BY <1>5, <1>7, <3>1, <4>2
        <5>2. QED
          BY <2>1, <5>1 DEF FrameOK
      <4>3. QED
        BY <4>1, <4>2
    <3>3. QED
      BY <1>7, <2>1, <3>2 DEF FrameOK
  <2>2. CASE g[1] = "orderStrategyLink"
    <3>1. g[2] \notin emittedNew /\ f # Report(g[2], "New") /\ src[g[2]] # "none"
      BY <2>2 DEF FrameOK, InOrder
    <3>2. g[2] \notin emittedNew'
      BY <1>5, <3>1
    <3>3. QED
      BY <1>7, <2>2, <3>1, <3>2 DEF FrameOK
  <2>3. CASE g[1] \notin {"orderVersion", "orderStrategyLink"}
    BY <1>7, <2>3 DEF FrameOK
  <2>4. QED
    BY <2>1, <2>2, <2>3
<1>11. ChannelOK'
  <2> DEFINE d == channel'
  <2>1. \A k \in DOMAIN channel : channel[k] \in Frame
    BY <1>1, <1>2, ElementOfSeq
  <2>2. \A k \in DOMAIN d : /\ k + 1 \in DOMAIN channel /\ d[k] = channel[k + 1]
                            /\ 1 < k + 1 /\ k \in Int
    BY <1>1, <1>2
  <2>3. \A k \in DOMAIN d : \A g : g = d[k] => FrameOK(g)'
    <3> SUFFICES ASSUME NEW k \in DOMAIN d, NEW g, g = d[k] PROVE FrameOK(g)'
      OBVIOUS
    <3>1. g \in Frame /\ FrameOK(g) /\ InOrder(f, g)
      BY <1>1, <1>2, <2>1, <2>2 DEF ChannelOK, f
    <3>2. QED
      BY <1>10, <3>1
  <2>4. \A j, k \in DOMAIN d : j < k => InOrder(d[j], d[k])
    <3> SUFFICES ASSUME NEW j \in DOMAIN d, NEW k \in DOMAIN d, j < k
                 PROVE  InOrder(d[j], d[k])
      OBVIOUS
    <3>1. j + 1 < k + 1
      BY <2>2
    <3>2. QED
      BY <1>1, <2>2, <3>1 DEF ChannelOK
  <2>5. QED
    BY <2>3, <2>4 DEF ChannelOK, FrameOK, InOrder
<1>12. NewsOK'
  <2>1. \A leg \in Leg : EmittedIn(leg) => EmittedIn(leg)'
    BY <1>5 DEF EmittedIn
  <2>2. \A leg \in emittedNew' : src'[leg] # "none" /\ ~Linked(leg)'
    <3> SUFFICES ASSUME NEW leg \in emittedNew' PROVE src'[leg] # "none" /\ ~Linked(leg)'
      OBVIOUS
    <3>1. CASE leg \in emittedNew
      <4>1. f # LinkFrame(leg)
        BY <1>3, <3>1 DEF FrameOK, LinkFrame
      <4>2. QED
        BY <1>1, <1>5, <1>7, <3>1, <4>1 DEF NewsOK
    <3>2. CASE leg \notin emittedNew
      <4>1. f = Report(leg, "New") /\ ~Linked(leg) /\ leg \in Leg
        BY <1>5, <1>7, <3>2
      <4>2. f # LinkFrame(leg) /\ src[leg] # "none"
        BY <1>3, <4>1 DEF Report, LinkFrame, FrameOK
      <4>3. QED
        BY <1>5, <1>7, <4>1, <4>2
    <3>3. QED
      BY <3>1, <3>2
  <2>3. CASE /\ news' = news
             /\ \A leg \in Leg : told'[leg] \in {told[leg], version'[leg]}
    <3>1. \A leg \in Leg : told'[leg] <= version'[leg] /\ version'[leg] <= srcVer'[leg]
      <4>1. \A leg \in Leg : told[leg] <= version[leg]
        BY <1>1 DEF NewsOK
      <4>2. QED
        BY <1>7, <1>9, <2>3, <4>1
    <3>2. \A i \in DOMAIN news : \A leg \in LegsIn(news[i]) : EmittedIn(leg)'
      BY <1>1, <2>1, NewsForms, TypedForms DEF NewsOK
    <3>3. QED
      BY <1>1, <2>2, <2>3, <3>1, <3>2 DEF NewsOK
  <2>4. CASE \E new \in Leg \X SUBSET Leg :
               /\ Announces(new)
               /\ \A leg \in LegsIn(new) : ~EmittedIn(leg) /\ EmittedIn(leg)'
    <3>1. PICK new \in Leg \X SUBSET Leg :
               /\ Announces(new)
               /\ \A leg \in LegsIn(new) : ~EmittedIn(leg) /\ EmittedIn(leg)'
      BY <2>4
    <3>2. /\ LegsIn(new) \subseteq Leg
          /\ DOMAIN news' = 1 .. Len(news) + 1
          /\ DOMAIN news = 1 .. Len(news) /\ Len(news) \in Nat
          /\ news'[Len(news) + 1] = new
          /\ \A i \in DOMAIN news : news'[i] = news[i]
      BY <1>1, <1>7, <3>1, AnnouncesForms
    <3>3. \A leg \in Leg : told'[leg] <= version'[leg] /\ version'[leg] <= srcVer'[leg]
      BY <1>1, <1>7, <1>9, <3>1 DEF NewsOK, Announces
    <3>4. \A i \in DOMAIN news' : \/ i \in DOMAIN news /\ news'[i] = news[i]
                                  \/ i = Len(news) + 1 /\ news'[i] = new
      BY <3>2
    <3>5. \A i \in DOMAIN news : \A leg \in LegsIn(news[i]) :
              EmittedIn(leg) /\ EmittedIn(leg)'
      BY <1>1, <2>1, NewsForms, TypedForms DEF NewsOK
    <3>6. \A i \in DOMAIN news' : \A leg \in LegsIn(news'[i]) :
              \A l : l = leg => EmittedIn(l)'
      BY <3>1, <3>4, <3>5
    <3>7. \A i \in DOMAIN news : LegsIn(news[i]) \cap LegsIn(new) = {}
      BY <3>1, <3>5
    <3>8. \A i, j \in DOMAIN news' :
             LegsIn(news'[i]) \cap LegsIn(news'[j]) # {} => i = j
      BY <1>1, <3>4, <3>7 DEF NewsOK
    <3>9. QED
      BY <2>2, <3>3, <3>6, <3>8 DEF NewsOK, EmittedIn, Linked, LegsIn
  <2>5. QED
    BY <1>5, <2>3, <2>4
<1>13. QED
  BY <1>6, <1>11, <1>12 DEF FeedInv

LEMMA ObserverTypes ==
    ASSUME ObserverTypeOK, Proceeds \/ Loses
    PROVE  ObserverTypeOK'
<1>1. Delays \in Nat \ {0} /\ MaxTroubles \in Nat
  BY ObserverAssumption
<1>2. /\ Trouble => troubles' \in 0 .. MaxTroubles
      /\ Backoff(attempt) \/ Backoff(0) =>
            /\ conn' = "backoff" /\ connected' = FALSE /\ mute' = FALSE
            /\ attempt' \in 0 .. Delays - 1
  <2>1. troubles \in 0 .. MaxTroubles /\ attempt \in 0 .. Delays - 1
    BY DEF ObserverTypeOK
  <2>2. Trouble => troubles' \in 0 .. MaxTroubles
    BY <1>1, <2>1 DEF Trouble
  <2>3. ASSUME NEW from \in 0 .. Delays - 1, Backoff(from)
        PROVE  attempt' \in 0 .. Delays - 1
    BY <1>1, <2>3 DEF Backoff
  <2>4. 0 \in 0 .. Delays - 1
    BY <1>1
  <2>5. QED
    BY <2>1, <2>2, <2>3, <2>4 DEF Backoff
<1>3. CASE Proceeds
  <2>1. CASE OpenSocket
    BY <1>2, <2>1 DEF OpenSocket, ObserverTypeOK, Open
  <2>2. CASE Refresh
    BY <1>2, <2>2 DEF Refresh, ObserverTypeOK, Open
  <2>3. CASE Authorized
    BY <1>2, <2>3 DEF Authorized, ObserverTypeOK, Open
  <2>4. CASE Snapshot
    BY <1>2, <2>4 DEF Snapshot, ObserverTypeOK, Open
  <2>5. CASE Watchdog
    BY <1>2, <2>5 DEF Watchdog, ObserverTypeOK, Open
  <2>6. CASE Wake
    BY <1>2, <2>6 DEF Wake, ObserverTypeOK, Open
  <2>7. QED
    BY <1>3, <2>1, <2>2, <2>3, <2>4, <2>5, <2>6 DEF Proceeds
<1>4. CASE Loses
  <2>1. CASE ConnectFails
    BY <1>2, <2>1 DEF ConnectFails, ObserverTypeOK, Open
  <2>2. CASE AuthExpired
    BY <1>2, <2>2 DEF AuthExpired, ObserverTypeOK, Open
  <2>3. CASE RefreshFails
    BY <1>2, <2>3 DEF RefreshFails, ObserverTypeOK, Open
  <2>4. CASE Breaks
    BY <1>2, <2>4 DEF Breaks, ObserverTypeOK, Open
  <2>5. CASE ServerCloses
    BY <1>2, <2>5 DEF ServerCloses, ObserverTypeOK, Open
  <2>6. CASE GoesMute
    BY <1>2, <2>6 DEF GoesMute, ObserverTypeOK, Open
  <2>7. CASE StopObserving
    BY <1>2, <2>7 DEF StopObserving, ObserverTypeOK, Open
  <2>8. QED
    BY <1>4, <2>1, <2>2, <2>3, <2>4, <2>5, <2>6, <2>7 DEF Loses
<1>5. QED
  BY <1>3, <1>4

\* the parser and the account rest
LEMMA RestKeepsFeed ==
    ASSUME FeedInv, UNCHANGED <<parserVars, accountVars>>, ObserverTypeOK',
           channel' \in {channel, <<>>}, gap' \in BOOLEAN
    PROVE  FeedInv'
<1>1. /\ FeedTyped /\ ChannelOK /\ NewsOK
      /\ UNCHANGED <<known, version, legs, expects, armed, placed, emittedNew, told,
                     news, closed, resolved, unresolved, src, srcVer, replacing>>
  BY DEF FeedInv, parserVars, emitVars, symbolVars, accountVars
<1>2. FeedTyped'
  <2>1. ParserTypeOK'
    BY <1>1, TypedForms, ParserTypes
  <2>2. channel' \in Seq(Frame)
    BY <1>1, EmptySeq DEF FeedTyped
  <2>3. QED
    BY <1>1, <2>1, <2>2 DEF FeedTyped, FeedTypeOK
<1>3. ChannelOK'
  <2>1. CASE channel' = channel
    BY <1>1, <2>1 DEF ChannelOK, FrameOK, InOrder
  <2>2. CASE channel' = <<>>
    <3>1. DOMAIN channel' = {}
      BY <2>2
    <3>2. QED
      BY <3>1 DEF ChannelOK
  <2>3. QED
    BY <2>1, <2>2
<1>4. NewsOK'
  <2>1. \A leg : (EmittedIn(leg)' <=> EmittedIn(leg)) /\ (Linked(leg)' <=> Linked(leg))
    BY <1>1 DEF EmittedIn, Linked
  <2>2. \A i \in DOMAIN news : \A leg \in LegsIn(news[i]) : EmittedIn(leg)'
    BY <1>1, <2>1 DEF NewsOK
  <2>3. QED
    BY <1>1, <2>1, <2>2 DEF NewsOK
<1>5. QED
  BY <1>2, <1>3, <1>4 DEF FeedInv

LEMMA FeedInit ==
    ASSUME PushInit
    PROVE  FeedInv
<1>1. /\ known = {} /\ emittedNew = {} /\ closed = {} /\ placed = {} /\ armed = {}
      /\ expects = {} /\ news = <<>> /\ channel = <<>> /\ replacing = {}
      /\ version = [leg \in Leg |-> 0] /\ told = [leg \in Leg |-> 0]
      /\ legs = [b \in Bracket |-> <<>>]
      /\ src = [leg \in Leg |-> "none"] /\ srcVer = [leg \in Leg |-> 0]
      /\ resolved = FALSE /\ unresolved = 0 /\ gap = FALSE
  BY DEF PushInit, ParserInit
<1>2. MaxVer \in Nat /\ MaxUnresolved \in Nat /\ Delays \in Nat \ {0} /\ MaxTroubles \in Nat
  BY ParserAssumption, ObserverAssumption
<1>3. ObserverTypeOK
  <2>1. conn = "top" /\ connected = FALSE /\ mute = FALSE /\ attempt = 0 /\ troubles = 0
    BY DEF PushInit, ObserverInit
  <2>2. 0 \in 0 .. Delays - 1 /\ 0 \in 0 .. MaxTroubles
    BY <1>2
  <2>3. connected = (conn = "synced")
    BY <2>1
  <2>4. QED
    BY <2>1, <2>2, <2>3 DEF ObserverTypeOK
<1>4. DOMAIN (<<>>) = {} /\ \A S : <<>> \in Seq(S)
  BY EmptySeq
<1>5. ParserTypeOK
  <2>1. \A b \in Bracket : IsInjective(legs[b]) /\ ToSet(legs[b]) \subseteq LegsOf(b)
    BY <1>1, <1>4 DEF IsInjective, ToSet
  <2>2. 0 \in 0 .. MaxVer + 1 /\ 0 \in 0 .. MaxUnresolved
    BY <1>2
  <2>3. /\ version \in [Leg -> 0 .. MaxVer + 1] /\ told \in [Leg -> 0 .. MaxVer + 1]
        /\ DOMAIN legs = Bracket /\ DOMAIN news = {}
    BY <1>1, <1>4, <2>2
  <2>4. resolved \in BOOLEAN /\ unresolved \in 0 .. MaxUnresolved
    BY <1>1, <2>2
  <2>5. /\ known \cup emittedNew \cup closed \subseteq Leg
        /\ expects \cup armed \cup placed \subseteq Bracket
    BY <1>1
  <2>6. QED
    BY <2>1, <2>3, <2>4, <2>5 DEF ParserTypeOK
<1>6. FeedTyped
  <2>1. 0 \in 0 .. MaxVer + 1
    BY <1>2
  <2>2. /\ src \in [Leg -> {"none", "suspended", "working", "Filled", "Canceled"}]
        /\ srcVer \in [Leg -> 0 .. MaxVer + 1] /\ replacing \subseteq Leg
        /\ gap \in BOOLEAN /\ legs \in [Bracket -> Seq(Leg)]
        /\ \A leg \in Leg : src[leg] = "none" <=> srcVer[leg] = 0
    BY <1>1, <1>4, <2>1
  <2>3. channel \in Seq(Frame) /\ news \in Seq(Leg \X SUBSET Leg) /\ replacing = {}
    BY <1>1, <1>4
  <2>4. QED
    BY <1>3, <1>5, <2>2, <2>3 DEF FeedTyped, FeedTypeOK
<1>7. ChannelOK
  BY <1>1, <1>4 DEF ChannelOK
<1>8. NewsOK
  BY <1>1, <1>4 DEF NewsOK
<1>9. QED
  BY <1>6, <1>7, <1>8 DEF FeedInv

LEMMA FeedStep ==
    ASSUME FeedInv, [PushNext]_pushVars
    PROVE  FeedInv'
<1>1. FeedTyped /\ ObserverTypeOK /\ gap \in BOOLEAN
  BY DEF FeedInv, FeedTyped, FeedTypeOK
<1>2. CASE AccountMoves
  BY <1>1, <1>2, AccountSends, AccountKeepsFeed
<1>3. CASE Deliver
  BY <1>3, DeliverKeepsFeed
<1>4. CASE Proceed
  BY <1>1, <1>4, ObserverTypes, RestKeepsFeed DEF Proceed
<1>5. CASE Lose
  BY <1>1, <1>5, ObserverTypes, RestKeepsFeed DEF Lose
<1>6. CASE UNCHANGED pushVars
  <2>1. UNCHANGED <<parserVars, accountVars, channel, gap, observerVars>>
    BY <1>6 DEF pushVars
  <2>2. ObserverTypeOK'
    BY <1>1, <2>1 DEF ObserverTypeOK, observerVars, Open
  <2>3. QED
    BY <1>1, <2>1, <2>2, RestKeepsFeed
<1>7. QED
  BY <1>2, <1>3, <1>4, <1>5, <1>6 DEF PushNext

LEMMA PushInvariant == PushSpec => []FeedInv
BY FeedInit, FeedStep, PTL DEF PushSpec

(* Whatever frames a lost connection swallowed, the parser, the listener and
   the account keep to their types. *)
THEOREM FeedTypeCorrect == PushSpec => []FeedTypeOK
<1>1. FeedInv => FeedTypeOK
  BY DEF FeedInv, FeedTyped
<1>2. QED
  BY <1>1, PushInvariant, PTL

-----------------------------------------------------------------------------
(* The parser is an order feed.                                            *)

LEMMA CountOnce ==
    ASSUME NEW q, NEW leg,
           \A i, j \in DOMAIN q : LegsIn(q[i]) \cap LegsIn(q[j]) # {} => i = j
    PROVE  LET n == Cardinality({i \in DOMAIN q : leg \in LegsIn(q[i])})
           IN  /\ (\A i \in DOMAIN q : leg \notin LegsIn(q[i])) => n = 0
               /\ (\E i \in DOMAIN q : leg \in LegsIn(q[i])) => n = 1
<1> DEFINE at == {i \in DOMAIN q : leg \in LegsIn(q[i])}
<1>1. CASE \A i \in DOMAIN q : leg \notin LegsIn(q[i])
  <2>1. at = {}
    BY <1>1
  <2>2. Cardinality({}) = 0
    BY FS_EmptySet
  <2>3. QED
    BY <1>1, <2>1, <2>2
<1>2. CASE \E i \in DOMAIN q : leg \in LegsIn(q[i])
  <2>1. PICK i \in DOMAIN q : leg \in LegsIn(q[i])
    BY <1>2
  <2>2. \A j \in at : j = i
    BY <2>1
  <2>3. at = {i}
    BY <2>1, <2>2
  <2>4. Cardinality({i}) = 1
    BY FS_Singleton
  <2>5. QED
    BY <1>2, <2>3, <2>4
<1>3. QED
  BY <1>1, <1>2

LEMMA AnnouncedOf ==
    ASSUME NewsOK, NEW leg
    PROVE  /\ (\A i \in DOMAIN news : leg \notin LegsIn(news[i])) => Announced(leg) = 0
           /\ (\E i \in DOMAIN news : leg \in LegsIn(news[i])) => Announced(leg) = 1
BY CountOnce DEF NewsOK, Announced

LEMMA FeedStarts ==
    ASSUME PushInit
    PROVE  Feed!FeedInit
<1>1. news = <<>> /\ told = [leg \in Leg |-> 0]
  BY DEF PushInit, ParserInit
<1>2. \A leg \in Leg : Announced(leg) = 0
  BY <1>1, FeedInit, AnnouncedOf DEF FeedInv
<1>3. QED
  BY <1>1, <1>2 DEF Feed!FeedInit

LEMMA FeedMoves ==
    ASSUME FeedInv, FeedInv', [PushNext]_pushVars
    PROVE  [Feed!FeedNext]_(Feed!feedVars)
<1>1. FeedTyped /\ NewsOK /\ NewsOK' /\ FeedTyped'
  BY DEF FeedInv
<1>2. /\ told \in [Leg -> 0 .. MaxVer + 1] /\ version \in [Leg -> 0 .. MaxVer + 1]
      /\ told' \in [Leg -> 0 .. MaxVer + 1]
      /\ version' \in [Leg -> 0 .. MaxVer + 1]
      /\ \A leg \in Leg : /\ told[leg] \in Int /\ version[leg] \in Int
                          /\ told'[leg] \in Int /\ version'[leg] \in Int
  BY <1>1, TypedForms, ParserAssumption DEF FeedTyped, FeedTypeOK, ParserTypeOK
<1>3. CASE UNCHANGED <<told, news>>
  <2>1. \A leg \in Leg : Announced(leg)' = Announced(leg)
    BY <1>3 DEF Announced
  <2>2. QED
    BY <1>3, <2>1 DEF Feed!feedVars
<1>4. CASE Deliver
  <2> DEFINE f == channel[1]
  <2>1. /\ f \in Frame /\ FrameOK(f) /\ Handle(f)
    <3>1. channel \in Seq(Frame) /\ channel # <<>> /\ ChannelOK
      BY <1>1, <1>4 DEF FeedTyped, FeedInv, Deliver
    <3>2. Head(channel) = f /\ 1 \in DOMAIN channel /\ DOMAIN channel = 1 .. Len(channel)
      BY <3>1, TailForms
    <3>3. QED
      BY <1>4, <3>1, <3>2, ElementOfSeq DEF ChannelOK, Deliver
  <2>2. Parses(f)
    BY <2>1, HandleParses
  <2>3. \A leg \in Leg : version[leg] <= version'[leg] /\ told[leg] <= version[leg]
    <3>1. f[1] = "orderVersion" => f[2] \in Leg /\ version[f[2]] <= f[3]
      BY <2>1, FrameForms DEF FrameOK
    <3>2. version' = IF f[1] = "orderVersion" THEN [version EXCEPT ![f[2]] = f[3]]
                     ELSE version
      BY <2>2 DEF Parses, Stores, Emits
    <3> HIDE DEF f
    <3>3. \A leg \in Leg : version[leg] <= version'[leg]
      <4>1. CASE f[1] = "orderVersion"
        BY <1>2, <3>1, <3>2, <4>1
      <4>2. CASE f[1] # "orderVersion"
        BY <1>2, <3>2, <4>2
      <4>3. QED
        BY <4>1, <4>2
    <3>4. QED
      BY <1>1, <3>3 DEF NewsOK
  <2>4. CASE /\ news' = news
             /\ \A leg \in Leg : told'[leg] \in {told[leg], version'[leg]}
    <3>1. \A leg \in Leg : Announced(leg)' = Announced(leg)
      BY <2>4 DEF Announced
    <3>2. \A leg \in Leg : told'[leg] >= told[leg]
      BY <1>2, <2>3, <2>4
    <3>3. Feed!Amend
      BY <1>2, <3>1, <3>2 DEF Feed!Amend, Feed!Forward
    <3>4. QED
      BY <3>3 DEF Feed!FeedNext
  <2>5. CASE \E new \in Leg \X SUBSET Leg :
                /\ Announces(new)
                /\ \A leg \in LegsIn(new) : ~EmittedIn(leg) /\ EmittedIn(leg)'
    <3>1. PICK new \in Leg \X SUBSET Leg :
                /\ Announces(new)
                /\ \A leg \in LegsIn(new) : ~EmittedIn(leg) /\ EmittedIn(leg)'
      BY <2>5
    <3> DEFINE S == LegsIn(new)
    <3>2. /\ S \subseteq Leg
          /\ DOMAIN news' = 1 .. Len(news) + 1
          /\ DOMAIN news = 1 .. Len(news) /\ Len(news) \in Nat
          /\ news'[Len(news) + 1] = new
          /\ \A i \in DOMAIN news : news'[i] = news[i]
      BY <1>1, <1>2, <3>1, AnnouncesForms
    <3>3. /\ told' = [leg \in Leg |-> IF leg \in S THEN version'[leg] ELSE told[leg]]
          /\ \A leg \in Leg : told'[leg] >= told[leg]
      BY <1>2, <2>3, <3>1 DEF Announces
    <3>4. \A leg \in S : Announced(leg) = 0
      <4>1. \A leg \in S : \A i \in DOMAIN news : leg \notin LegsIn(news[i])
        BY <1>1, <3>1 DEF NewsOK
      <4>2. QED
        BY <1>1, <4>1, AnnouncedOf
    <3>5. \A leg \in S : Announced(leg)' = 1
      <4> SUFFICES ASSUME NEW leg \in S PROVE Announced(leg)' = 1
        OBVIOUS
      <4>1. \A i, j \in DOMAIN news' : LegsIn(news'[i]) \cap LegsIn(news'[j]) # {} => i = j
        BY <1>1 DEF NewsOK, LegsIn
      <4>2. \E i \in DOMAIN news' : leg \in LegsIn(news'[i])
        BY <3>2
      <4>3. Cardinality({i \in DOMAIN news' : leg \in LegsIn(news'[i])}) = 1
        BY <4>1, <4>2, CountOnce
      <4>4. QED
        BY <4>3 DEF Announced, LegsIn
    <3>6. \A leg \in Leg \ S : Announced(leg)' = Announced(leg)
      <4> SUFFICES ASSUME NEW leg \in Leg \ S PROVE Announced(leg)' = Announced(leg)
        OBVIOUS
      <4>1. {i \in DOMAIN news' : leg \in LegsIn(news'[i])}
              = {i \in DOMAIN news : leg \in LegsIn(news[i])}
        BY <3>2
      <4>2. QED
        BY <4>1 DEF Announced, LegsIn
    <3> HIDE DEF S
    <3>7. Feed!Announce(S)
      BY <1>2, <3>2, <3>3, <3>4, <3>5, <3>6 DEF Feed!Announce, Feed!Forward
    <3>8. QED
      BY <3>2, <3>7 DEF Feed!FeedNext
  <2>6. QED
    BY <2>2, <2>4, <2>5 DEF Parses, Emits
<1>5. CASE AccountMoves \/ Proceed \/ Lose \/ UNCHANGED pushVars
  <2>1. CASE AccountMoves
    <3>1. \E fs \in Seq(Frame) : SendFrames(fs)
      BY <1>1, <2>1, AccountSends
    <3>2. UNCHANGED parserVars
      BY <3>1 DEF SendFrames
    <3>3. QED
      BY <1>3, <3>2 DEF parserVars, emitVars
  <2>2. QED
    BY <1>3, <1>5, <2>1 DEF Proceed, Lose, pushVars, parserVars, emitVars
<1>6. QED
  BY <1>4, <1>5 DEF PushNext

(* Whatever frames a lost connection swallowed, no order is announced twice
   and no order's details go back: the parser implements OrderFeed. *)
THEOREM FeedIsAnOrderFeed == PushSpec => FeedImplemented
<1>1. PushInit => Feed!FeedInit
  BY FeedStarts
<1>2. FeedInv /\ FeedInv' /\ [PushNext]_pushVars => [Feed!FeedNext]_(Feed!feedVars)
  BY FeedMoves
<1>3. QED
  BY <1>1, <1>2, PushInvariant, PTL DEF PushSpec, FeedImplemented, Feed!FeedSpec

-----------------------------------------------------------------------------
(* The channel as frames are read from it and sent on it.                  *)

LEMMA Delivered ==
    ASSUME FeedInv, Deliver
    PROVE  /\ channel[1] \in Frame /\ FrameOK(channel[1]) /\ Handle(channel[1])
           /\ Parses(channel[1]) /\ 1 \in DOMAIN channel
           /\ UNCHANGED <<src, srcVer, replacing, gap>>
           /\ \A k \in DOMAIN channel' : /\ k \in Nat /\ k >= 1 /\ k + 1 \in DOMAIN channel
                                         /\ channel'[k] = channel[k + 1]
           /\ \A k \in DOMAIN channel :
                 /\ k \in Nat /\ k >= 1 /\ channel[k] \in Frame /\ FrameOK(channel[k])
                 /\ 1 < k => InOrder(channel[1], channel[k])
                 /\ k = 1 \/ (k - 1 \in DOMAIN channel' /\ channel'[k - 1] = channel[k])
           /\ \A g : Waiting(g) => g = channel[1] \/ Waiting(g)'
<1>1. /\ channel \in Seq(Frame) /\ channel # <<>> /\ ChannelOK
      /\ channel' = Tail(channel) /\ UNCHANGED <<src, srcVer, replacing, gap>>
  BY DEF FeedInv, FeedTyped, Deliver, accountVars
<1>2. /\ Head(channel) = channel[1] /\ 1 \in DOMAIN channel
      /\ DOMAIN channel = 1 .. Len(channel) /\ Len(channel) \in Nat
      /\ DOMAIN Tail(channel) = 1 .. Len(channel) - 1
      /\ \A k \in DOMAIN Tail(channel) :
            k + 1 \in DOMAIN channel /\ Tail(channel)[k] = channel[k + 1]
      /\ \A k \in DOMAIN channel : \/ k = 1
                                   \/ /\ k - 1 \in DOMAIN Tail(channel)
                                      /\ Tail(channel)[k - 1] = channel[k]
  BY <1>1, TailForms
<1>3. \A k \in DOMAIN channel :
                 /\ k \in Nat /\ k >= 1 /\ channel[k] \in Frame /\ FrameOK(channel[k])
                 /\ 1 < k => InOrder(channel[1], channel[k])
  BY <1>1, <1>2, ElementOfSeq DEF ChannelOK
<1>4. Handle(channel[1])
  BY <1>2 DEF Deliver
<1>5. Parses(channel[1])
  BY <1>2, <1>3, <1>4, HandleParses
<1>6. \A k \in DOMAIN channel' : /\ k \in Nat /\ k >= 1 /\ k + 1 \in DOMAIN channel
                                 /\ channel'[k] = channel[k + 1]
  BY <1>1, <1>2
<1>7. \A g : Waiting(g) => g = channel[1] \/ Waiting(g)'
  <2> SUFFICES ASSUME NEW g, Waiting(g), g # channel[1] PROVE Waiting(g)'
    OBVIOUS
  <2>1. PICK k \in DOMAIN channel : channel[k] = g
    BY DEF Waiting
  <2>2. k - 1 \in DOMAIN channel' /\ channel'[k - 1] = g
    BY <1>1, <1>2, <2>1
  <2>3. QED
    BY <2>2 DEF Waiting
<1>8. QED
  BY <1>1, <1>2, <1>3, <1>4, <1>5, <1>6, <1>7

LEMMA Sends ==
    ASSUME FeedInv, NEW fs \in Seq(Frame), SendFrames(fs), ~gap'
    PROVE  /\ ~gap
           /\ UNCHANGED <<known, version, legs, expects, armed, placed, emittedNew,
                          told, news, unresolved>>
           /\ \A k \in DOMAIN channel : k \in DOMAIN channel' /\ channel'[k] = channel[k]
           /\ \A k \in DOMAIN channel : k \in Nat /\ k >= 1 /\ channel[k] \in Frame
                                        /\ FrameOK(channel[k]) /\ k <= Len(channel)
           /\ Len(channel) \in Nat
           /\ \A k \in DOMAIN fs : /\ k \in Nat /\ k >= 1 /\ fs[k] \in Frame
                                   /\ Len(channel) + k \in DOMAIN channel'
                                   /\ channel'[Len(channel) + k] = fs[k]
           /\ \A k \in DOMAIN channel' :
                 /\ k \in Nat
                 /\ \/ k \in DOMAIN channel /\ channel'[k] = channel[k]
                    \/ /\ k - Len(channel) \in DOMAIN fs
                       /\ channel'[k] = fs[k - Len(channel)]
           /\ \A g : Waiting(g) \/ Sent(fs, g) => Waiting(g)'
<1>1. /\ ~gap /\ channel' = channel \o fs /\ channel \in Seq(Frame) /\ ChannelOK
      /\ UNCHANGED <<known, version, legs, expects, armed, placed, emittedNew, told,
                     news, unresolved>>
  BY DEF SendFrames, FeedInv, FeedTyped, FeedTypeOK, parserVars, emitVars, symbolVars
<1>2. /\ DOMAIN channel = 1 .. Len(channel) /\ Len(channel) \in Nat
      /\ DOMAIN fs = 1 .. Len(fs) /\ Len(fs) \in Nat
      /\ DOMAIN channel' = 1 .. Len(channel) + Len(fs)
      /\ \A k \in DOMAIN channel : k \in DOMAIN channel' /\ channel'[k] = channel[k]
      /\ \A k \in DOMAIN fs : /\ Len(channel) + k \in DOMAIN channel'
                              /\ channel'[Len(channel) + k] = fs[k]
      /\ \A k \in DOMAIN channel' :
                    \/ k \in DOMAIN channel /\ channel'[k] = channel[k]
                    \/ /\ k - Len(channel) \in DOMAIN fs
                       /\ channel'[k] = fs[k - Len(channel)]
  BY <1>1, ConcatForms
<1>3. \A k \in DOMAIN channel : k \in Nat /\ k >= 1 /\ channel[k] \in Frame
                                /\ FrameOK(channel[k]) /\ k <= Len(channel)
  BY <1>1, <1>2, ElementOfSeq DEF ChannelOK
<1>4. /\ \A k \in DOMAIN fs : k \in Nat /\ k >= 1 /\ fs[k] \in Frame
      /\ \A k \in DOMAIN channel' : k \in Nat
  BY <1>2, ElementOfSeq
<1>5. \A g : Waiting(g) \/ Sent(fs, g) => Waiting(g)'
  BY <1>2 DEF Waiting, Sent
<1>6. QED
  BY <1>1, <1>2, <1>3, <1>4, <1>5

(* While no frame is lost, the channel only changes by these. *)
LEMMA QuietSteps ==
    ASSUME FeedInv, Proceed \/ Lose \/ UNCHANGED pushVars, ~gap'
    PROVE  /\ ~gap /\ channel' = channel /\ UNCHANGED <<parserVars, accountVars>>
<1>1. gap \in BOOLEAN
  BY DEF FeedInv, FeedTyped, FeedTypeOK
<1>2. CASE Proceed \/ UNCHANGED pushVars
  BY <1>2 DEF Proceed, pushVars
<1>3. CASE Lose
  <2>1. CASE UNCHANGED <<channel, gap>>
    BY <1>3, <2>1 DEF Lose
  <2>2. CASE channel' = <<>> /\ gap' = (gap \/ channel # <<>>)
    <3>1. ~gap /\ channel = <<>>
      BY <2>2
    <3>2. QED
      BY <1>3, <2>2, <3>1 DEF Lose
  <2>3. QED
    BY <1>3, <2>1, <2>2 DEF Lose
<1>4. QED
  BY <1>2, <1>3
-----------------------------------------------------------------------------
(* With no frame lost, a bracket is announced as a bracket.                *)

LEMMA AccountKeepsWhole ==
    ASSUME FeedInv, WholeInv, NEW fs \in Seq(Frame), Accounts(fs), SendFrames(fs), ~gap'
    PROVE  WholeInv'
<1>1. /\ UNCHANGED <<known, version, legs, expects, armed, placed, emittedNew, told, news>>
      /\ \A k \in DOMAIN channel : k \in Nat /\ channel[k] \in Frame
                                   /\ FrameOK(channel[k]) /\ k <= Len(channel)
      /\ Len(channel) \in Nat
      /\ \A k \in DOMAIN fs : k \in Nat /\ k >= 1 /\ fs[k] \in Frame
      /\ \A k \in DOMAIN channel' :
            /\ k \in Nat
            /\ \/ k \in DOMAIN channel /\ channel'[k] = channel[k]
               \/ /\ k - Len(channel) \in DOMAIN fs
                  /\ channel'[k] = fs[k - Len(channel)]
      /\ \A g : Waiting(g) \/ Sent(fs, g) => Waiting(g)'
  BY Sends
<1>2. /\ \A leg \in Leg : src[leg] # "none" => src'[leg] # "none"
      /\ \A leg \in Leg : src[leg] = "none" /\ src'[leg] # "none" =>
            /\ src'[EntryOf(leg)] # "none"
            /\ leg \in BracketLeg => Sent(fs, LinkFrame(leg))
            /\ leg = EntryOf(leg) /\ leg \in BracketLeg => Sent(fs, StrategyFrame(leg[1]))
  BY DEF Accounts
<1>3. \A leg \in Leg : EntryOf(leg) \in Leg
  BY LegForms
<1>4. EntriesFirst'
  BY <1>2, <1>3 DEF WholeInv, EntriesFirst, EntryOf, Entry
<1>5. ParamsTold'
  <2> SUFFICES ASSUME NEW b \in Bracket, src'[Entry(b)] # "none"
               PROVE  b \in expects' \/ Waiting(StrategyFrame(b))'
    BY DEF ParamsTold, Entry
  <2>1. /\ Entry(b) \in Leg /\ Entry(b) \in BracketLeg /\ EntryOf(Entry(b)) = Entry(b)
        /\ Entry(b)[1] = b
    BY LegForms DEF EntryOf, Order
  <2>2. CASE src[Entry(b)] # "none"
    BY <1>1, <2>2 DEF WholeInv, ParamsTold
  <2>3. CASE src[Entry(b)] = "none"
    <3>1. Sent(fs, StrategyFrame(b))
      BY <1>2, <2>1, <2>3
    <3>2. QED
      BY <1>1, <3>1
  <2>4. QED
    BY <2>2, <2>3
<1>6. LinksTold'
  <2> SUFFICES ASSUME NEW leg \in BracketLeg, src'[leg] # "none"
               PROVE  Linked(leg)' \/ Waiting(LinkFrame(leg))'
    BY DEF LinksTold
  <2>1. leg \in Leg /\ (Linked(leg)' <=> Linked(leg))
    BY <1>1, LegForms DEF Linked
  <2>2. QED
    BY <1>1, <1>2, <2>1 DEF WholeInv, LinksTold
<1>7. ParamsFirst'
  <2>1. \A leg \in BracketLeg : Linked(leg)' => leg[1] \in expects'
    BY <1>1 DEF WholeInv, ParamsFirst, Linked
  <2>2. SUFFICES ASSUME NEW j \in DOMAIN channel', NEW k \in DOMAIN channel', j < k,
                        channel'[k][1] = "orderStrategy",
                        channel'[j][1] = "orderStrategyLink",
                        channel'[j][2][1] = channel'[k][2]
                 PROVE  FALSE
    BY <2>1 DEF ParamsFirst
  <2>3. CASE /\ j \in DOMAIN channel /\ channel'[j] = channel[j]
             /\ k \in DOMAIN channel /\ channel'[k] = channel[k]
    BY <2>2, <2>3 DEF WholeInv, ParamsFirst
  <2>4. CASE /\ j \in DOMAIN channel /\ channel'[j] = channel[j]
             /\ k - Len(channel) \in DOMAIN fs /\ channel'[k] = fs[k - Len(channel)]
    <3> DEFINE leg == channel[j][2]
    <3>1. src[leg] # "none" /\ leg \in Leg
      BY <1>1, <2>2, <2>4, FrameForms, LegForms DEF FrameOK
    <3>2. src[Entry(leg[1])] # "none"
      BY <3>1 DEF WholeInv, EntriesFirst, EntryOf
    <3>3. src[Entry(channel'[k][2])] = "none"
      BY <2>2, <2>4 DEF Accounts
    <3>4. QED
      BY <2>2, <2>4, <3>2, <3>3
  <2>5. CASE /\ j - Len(channel) \in DOMAIN fs /\ channel'[j] = fs[j - Len(channel)]
             /\ k - Len(channel) \in DOMAIN fs /\ channel'[k] = fs[k - Len(channel)]
    <3>1. j - Len(channel) < k - Len(channel)
      BY <1>1, <2>2
    <3>2. QED
      BY <2>2, <2>5, <3>1 DEF Accounts
  <2>6. CASE j - Len(channel) \in DOMAIN fs /\ k \in DOMAIN channel
    BY <1>1, <2>2, <2>6
  <2>7. QED
    BY <1>1, <2>3, <2>4, <2>5, <2>6
<1>8. QED
  BY <1>1, <1>4, <1>5, <1>6, <1>7 DEF WholeInv, Whole, LegsIn

LEMMA DeliverKeepsWhole ==
    ASSUME FeedInv, WholeInv, Deliver
    PROVE  WholeInv'
<1> DEFINE f == channel[1]
<1>1. /\ f \in Frame /\ FrameOK(f) /\ 1 \in DOMAIN channel
      /\ UNCHANGED <<src, srcVer, replacing>>
      /\ \A k \in DOMAIN channel' : /\ k \in Nat /\ k >= 1 /\ k + 1 \in DOMAIN channel
                                    /\ channel'[k] = channel[k + 1]
      /\ \A k \in DOMAIN channel :
            /\ k \in Nat /\ k >= 1 /\ channel[k] \in Frame
            /\ 1 < k => InOrder(f, channel[k])
      /\ \A g : Waiting(g) => g = f \/ Waiting(g)'
  BY Delivered
<1>2. Stores(f) /\ Emits(f)
  BY Delivered DEF Parses
<1>3. /\ \A leg \in Leg : Linked(leg)' <=> Linked(leg) \/ f = LinkFrame(leg)
      /\ expects \subseteq expects'
      /\ \A x \in Bracket : f = StrategyFrame(x) => x \in expects'
  BY <1>2 DEF Stores
<1>4. EntriesFirst'
  BY <1>1 DEF WholeInv, EntriesFirst, EntryOf, Entry
<1>5. ParamsTold'
  BY <1>1, <1>3 DEF WholeInv, ParamsTold, Entry
<1>6. LinksTold'
  BY <1>1, <1>3, LegForms DEF WholeInv, LinksTold
<1>7. \A leg \in BracketLeg : f = LinkFrame(leg) => leg[1] \in expects
  <2> SUFFICES ASSUME NEW leg \in BracketLeg, f = LinkFrame(leg) PROVE leg[1] \in expects
    OBVIOUS
  <2>1. leg[1] \in Bracket /\ leg \in Leg /\ f[1] = "orderStrategyLink" /\ f[2] = leg
    BY LegForms DEF LinkFrame
  <2>2. src[Entry(leg[1])] # "none"
    BY <1>1, <2>1 DEF FrameOK, WholeInv, EntriesFirst, EntryOf
  <2> SUFFICES ASSUME Waiting(StrategyFrame(leg[1])) PROVE FALSE
    BY <2>1, <2>2 DEF WholeInv, ParamsTold
  <2>3. PICK k \in DOMAIN channel : channel[k] = StrategyFrame(leg[1])
    BY DEF Waiting
  <2>4. /\ channel[k][1] = "orderStrategy" /\ channel[k][2] = leg[1] /\ k # 1
    BY <2>1, <2>3 DEF StrategyFrame
  <2>5. 1 < k
    BY <1>1, <2>4
  <2>6. QED
    BY <1>1, <2>1, <2>4, <2>5 DEF WholeInv, ParamsFirst
<1>8. ParamsFirst'
  <2>1. \A leg \in BracketLeg : Linked(leg)' => leg[1] \in expects'
    BY <1>3, <1>7, LegForms DEF WholeInv, ParamsFirst
  <2>2. SUFFICES ASSUME NEW j \in DOMAIN channel', NEW k \in DOMAIN channel', j < k,
                        channel'[k][1] = "orderStrategy",
                        channel'[j][1] = "orderStrategyLink",
                        channel'[j][2][1] = channel'[k][2]
                 PROVE  FALSE
    BY <2>1 DEF ParamsFirst
  <2>3. /\ j + 1 \in DOMAIN channel /\ channel'[j] = channel[j + 1]
        /\ k + 1 \in DOMAIN channel /\ channel'[k] = channel[k + 1] /\ j + 1 < k + 1
    BY <1>1, <2>2
  <2>4. QED
    BY <2>2, <2>3 DEF WholeInv, ParamsFirst
<1>9. \A leg \in emittedNew' : leg[1] \in Single
  <2> SUFFICES ASSUME NEW leg \in emittedNew', leg \notin emittedNew PROVE leg[1] \in Single
    BY DEF WholeInv
  <2>1. f = Report(leg, "New") /\ ~Linked(leg)
    BY <1>2 DEF Emits
  <2>2. f[1] = "executionReport" /\ f[2] = leg
    BY <2>1 DEF Report
  <2>3. leg \in Leg /\ src[leg] # "none"
    BY <1>1, <2>2, FrameForms DEF FrameOK
  <2> SUFFICES ASSUME leg \in BracketLeg PROVE FALSE
    BY <2>3, LegForms DEF Order
  <2>4. PICK k \in DOMAIN channel : channel[k] = LinkFrame(leg)
    BY <2>1, <2>3 DEF WholeInv, LinksTold, Waiting
  <2>5. /\ channel[k][1] = "orderStrategyLink" /\ channel[k][2] = leg /\ k # 1
    BY <2>2, <2>4 DEF LinkFrame
  <2>6. InOrder(f, channel[k])
    BY <1>1, <2>5
  <2>7. QED
    BY <2>1, <2>5, <2>6 DEF InOrder
<1>10. \A i \in DOMAIN news' : Whole(news'[i])
  <2>1. CASE news' = news
    BY <2>1 DEF WholeInv
  <2>2. CASE \E new \in Leg \X SUBSET Leg :
             /\ Announces(new)
             /\ \/ \E leg \in Leg : new = <<leg, {}>> /\ emittedNew' = emittedNew \cup {leg}
                \/ \E x \in Bracket :
                      /\ LegsIn(new) = ToSet(legs'[x]) /\ Len(legs'[x]) >= 2
                      /\ x \in expects' => Whole(new)
    <3>1. PICK new \in Leg \X SUBSET Leg :
             /\ Announces(new)
             /\ \/ \E leg \in Leg : new = <<leg, {}>> /\ emittedNew' = emittedNew \cup {leg}
                \/ \E x \in Bracket :
                      /\ LegsIn(new) = ToSet(legs'[x]) /\ Len(legs'[x]) >= 2
                      /\ x \in expects' => Whole(new)
      BY <2>2
    <3>2. ASSUME \E leg \in Leg : new = <<leg, {}>> /\ emittedNew' = emittedNew \cup {leg}
          PROVE  Whole(new)
      <4>1. PICK leg \in Leg : new = <<leg, {}>> /\ leg[1] \in Single
        BY <1>9, <3>2
      <4>2. leg = Entry(leg[1]) /\ LegsOf(leg[1]) = {leg}
        BY <4>1, LegForms, LegsOfForms, LegAssumption DEF Order
      <4>3. new[1] = leg /\ LegsIn(new) = {leg}
        BY <4>1 DEF LegsIn
      <4>4. QED
        BY <4>2, <4>3 DEF Whole
    <3>3. ASSUME \E x \in Bracket :
                      /\ LegsIn(new) = ToSet(legs'[x]) /\ Len(legs'[x]) >= 2
                      /\ x \in expects' => Whole(new)
          PROVE  Whole(new)
      <4>1. PICK x \in Bracket :
                      /\ LegsIn(new) = ToSet(legs'[x]) /\ Len(legs'[x]) >= 2
                      /\ x \in expects' => Whole(new)
        BY <3>3
      <4>2. legs'[x] \in Seq(Leg) /\ ToSet(legs'[x]) \subseteq LegsOf(x)
        BY <1>2 DEF Stores
      <4>3. 1 \in DOMAIN legs'[x]
        BY <4>1, <4>2, LenProperties
      <4> DEFINE leg == legs'[x][1]
      <4>4. leg \in ToSet(legs'[x])
        BY <4>3 DEF ToSet
      <4>5. leg \in BracketLeg /\ leg[1] = x
        BY <4>2, <4>4, LegsOfForms, LegForms DEF Order
      <4> HIDE DEF leg
      <4>6. leg \in ToSet(legs'[leg[1]]) /\ leg[1] \in Bracket
        BY <4>4, <4>5
      <4>7. \A l \in BracketLeg : l[1] \in Bracket /\ l \in ToSet(legs'[l[1]])
                => l[1] \in expects'
        BY <1>8 DEF ParamsFirst, Linked
      <4>8. QED
        BY <4>1, <4>5, <4>6, <4>7
    <3>4. Whole(new)
      BY <3>1, <3>2, <3>3
    <3>5. FeedTyped /\ version' \in [Leg -> 0 .. MaxVer + 1]
      BY <1>2 DEF FeedInv, Stores
    <3>6. \A i \in DOMAIN news' : \/ i \in DOMAIN news /\ news'[i] = news[i]
                                  \/ news'[i] = new
      <4>1. /\ DOMAIN news' = 1 .. Len(news) + 1
            /\ DOMAIN news = 1 .. Len(news) /\ Len(news) \in Nat
            /\ news'[Len(news) + 1] = new
            /\ \A i \in DOMAIN news : news'[i] = news[i]
        BY <3>1, <3>5, AnnouncesForms
      <4>2. QED
        BY <4>1
    <3>7. QED
      BY <3>4, <3>6 DEF WholeInv
  <2>3. QED
    BY <1>2, <2>1, <2>2 DEF Emits
<1>11. QED
  BY <1>4, <1>5, <1>6, <1>8, <1>9, <1>10 DEF WholeInv, Whole, LegsIn

LEMMA QuietKeepsWhole ==
    ASSUME WholeInv, channel' = channel, UNCHANGED <<parserVars, accountVars>>
    PROVE  WholeInv'
<1>1. UNCHANGED <<known, version, legs, expects, armed, placed, emittedNew, told, news,
                  src, srcVer, replacing, channel>>
  BY DEF parserVars, emitVars, symbolVars, accountVars
<1>2. EntriesFirst' /\ ParamsTold' /\ LinksTold' /\ ParamsFirst'
  BY <1>1 DEF WholeInv, EntriesFirst, ParamsTold, LinksTold, ParamsFirst, Waiting, Linked,
              Entry, EntryOf
<1>3. QED
  BY <1>1, <1>2 DEF WholeInv, Whole, LegsIn

LEMMA WholeStart ==
    ASSUME PushInit
    PROVE  WholeInv
<1>1. /\ \A leg \in Leg : src[leg] = "none"
      /\ emittedNew = {} /\ news = <<>> /\ channel = <<>>
      /\ \A b \in Bracket : legs[b] = <<>>
  BY DEF PushInit, ParserInit
<1>2. DOMAIN channel = {} /\ DOMAIN news = {} /\ \A b \in Bracket : ToSet(legs[b]) = {}
  BY <1>1 DEF ToSet
<1>3. \A leg : ~Linked(leg)
  BY <1>2 DEF Linked
<1>4. \A b \in Bracket : Entry(b) \in Leg
  BY LegForms DEF Order
<1>5. QED
  BY <1>1, <1>2, <1>3, <1>4, LegForms
     DEF WholeInv, EntriesFirst, ParamsTold, LinksTold, ParamsFirst

LEMMA WholeStep ==
    ASSUME FeedInv, GapInv, [PushNext]_pushVars
    PROVE  GapInv'
<1> SUFFICES ASSUME ~gap' PROVE WholeInv'
  BY DEF GapInv
<1>1. CASE AccountMoves
  <2>1. PICK fs \in Seq(Frame) : Accounts(fs) /\ SendFrames(fs)
    BY <1>1, AccountSends DEF FeedInv
  <2>2. ~gap
    BY <2>1, Sends
  <2>3. QED
    BY <2>1, <2>2, AccountKeepsWhole DEF GapInv
<1>2. CASE Deliver
  <2>1. ~gap
    BY <1>2, Delivered
  <2>2. QED
    BY <1>2, <2>1, DeliverKeepsWhole DEF GapInv
<1>3. CASE Proceed \/ Lose \/ UNCHANGED pushVars
  <2>1. ~gap /\ channel' = channel /\ UNCHANGED <<parserVars, accountVars>>
    BY <1>3, QuietSteps
  <2>2. QED
    BY <2>1, QuietKeepsWhole DEF GapInv
<1>4. QED
  BY <1>1, <1>2, <1>3 DEF PushNext

LEMMA WholeInvariant == PushSpec => []GapInv
<1>1. PushInit => GapInv
  BY WholeStart DEF GapInv
<1>2. FeedInv /\ GapInv /\ [PushNext]_pushVars => GapInv'
  BY WholeStep
<1>3. QED
  BY <1>1, <1>2, PushInvariant, PTL DEF PushSpec

(* With no frame lost every NEW event of a bracket has its entry in the lead
   and both exits with it. *)
THEOREM BracketsComeWhole == PushSpec => []BracketWhole
<1>1. GapInv => BracketWhole
  BY DEF GapInv, WholeInv, BracketWhole
<1>2. QED
  BY <1>1, WholeInvariant, PTL

-----------------------------------------------------------------------------
(* With no frame lost and every contract resolved, the events lead where the
   account is. *)

\* every leg of a bracket that was announced is in its news
LEMMA PlacedLinked ==
    ASSUME FeedInv, WholeInv, NewsKept, NEW b \in placed, NEW leg \in LegsOf(b)
    PROVE  /\ Linked(leg) /\ EmittedIn(leg)
           /\ \E i \in DOMAIN news : leg \in LegsIn(news[i])
<1>1. PICK i \in DOMAIN news : news[i][1] = Entry(b)
  BY DEF NewsKept
<1>2. b \in Bracket /\ b \in Order /\ Entry(b)[1] = b
  BY LegForms, TypedForms DEF FeedInv, Order
<1>3. LegsIn(news[i]) = LegsOf(b)
  BY <1>1, <1>2 DEF WholeInv, Whole
<1>4. EmittedIn(leg) /\ leg \in Leg /\ leg[1] = b
  BY <1>2, <1>3, LegsOfForms DEF FeedInv, NewsOK
<1>5. leg \notin emittedNew
  BY <1>2, <1>4, LegAssumption DEF WholeInv
<1>6. QED
  BY <1>3, <1>4, <1>5 DEF EmittedIn

LEMMA AccountKeepsFollow ==
    ASSUME FeedInv, WholeInv, FollowInv, NEW fs \in Seq(Frame), Accounts(fs),
           SendFrames(fs), ~gap'
    PROVE  FollowInv'
<1> DEFINE n == Len(channel)
<1>1. /\ UNCHANGED <<known, version, legs, expects, armed, placed, emittedNew, told, news>>
      /\ \A k \in DOMAIN channel : k \in DOMAIN channel' /\ channel'[k] = channel[k]
      /\ \A k \in DOMAIN channel : k \in Nat /\ k >= 1 /\ k <= n
      /\ n \in Nat
      /\ \A k \in DOMAIN fs : /\ k \in Nat /\ k >= 1 /\ fs[k] \in Frame
                              /\ n + k \in DOMAIN channel' /\ channel'[n + k] = fs[k]
      /\ \A k \in DOMAIN channel' :
            /\ k \in Nat
            /\ \/ k \in DOMAIN channel /\ channel'[k] = channel[k]
               \/ k - n \in DOMAIN fs /\ channel'[k] = fs[k - n]
      /\ \A g : Waiting(g) \/ Sent(fs, g) => Waiting(g)'
  BY Sends
<1> HIDE DEF n
<1>2. /\ \A leg \in Leg : src[leg] # "none" => src'[leg] # "none"
      /\ \A leg \in Leg : src[leg] = "none" /\ src'[leg] # "none" =>
            /\ Sent(fs, OrderFrame(leg)) /\ srcVer'[leg] = 1
            /\ leg = EntryOf(leg) => Sent(fs, Report(leg, "New"))
      /\ \A leg \in Leg : \/ srcVer'[leg] = srcVer[leg]
                          \/ Sent(fs, VersionFrame(leg, srcVer'[leg]))
      /\ \A k \in DOMAIN fs : \A leg \in Leg :
          fs[k] \in {LinkFrame(leg), Report(leg, "New")} =>
             \/ src[leg] # "none"
             \/ /\ \E j \in 1 .. k - 1 : fs[j] = OrderFrame(leg)
                /\ \E j \in 1 .. k - 1 : IsVersion(fs[j], leg)
      /\ \A leg \in Leg : src'[leg] \in {"suspended", "working"} =>
          \/ src[leg] = "none" \/ leg \in replacing'
          \/ /\ Alive(leg) /\ srcVer'[leg] = srcVer[leg]
             /\ leg \in replacing =>
                  \E k \in DOMAIN fs : /\ fs[k][1] = "executionReport"
                                       /\ fs[k][3] = "Replaced"
                                       /\ fs[k][2][1] = leg[1]
  BY DEF Accounts
<1>3. /\ version \in [Leg -> 0 .. MaxVer + 1] /\ srcVer \in [Leg -> 0 .. MaxVer + 1]
      /\ \A leg \in Leg : src[leg] = "none" <=> srcVer[leg] = 0
      /\ \A leg \in Leg : version[leg] \in Int /\ srcVer[leg] \in Int /\ srcVer[leg] >= 0
      /\ \A leg \in Leg : version[leg] <= srcVer[leg]
      /\ emittedNew \subseteq Leg /\ placed \subseteq Bracket
  BY TypedForms, ParserAssumption DEF FeedInv, FeedTyped, FeedTypeOK, NewsOK
<1>4. \A leg : /\ Linked(leg)' <=> Linked(leg)
               /\ EmittedIn(leg)' <=> EmittedIn(leg)
               /\ Shown(leg)' = Shown(leg)
  BY <1>1 DEF Linked, EmittedIn, Shown
<1>5. DetailsTold'
  <2> SUFFICES ASSUME NEW leg \in Leg, src'[leg] # "none"
               PROVE  /\ leg \in known' \/ Waiting(OrderFrame(leg))'
                      /\ version'[leg] = srcVer'[leg] \/ Waiting(Latest(leg))'
    BY DEF DetailsTold
  <2>1. leg \in known' \/ Waiting(OrderFrame(leg))'
    BY <1>1, <1>2 DEF FollowInv, DetailsTold
  <2>2. CASE Sent(fs, VersionFrame(leg, srcVer'[leg]))
    <3>1. PICK k \in DOMAIN fs : fs[k] = VersionFrame(leg, srcVer'[leg])
      BY <2>2 DEF Sent
    <3>2. \E i \in DOMAIN channel' : channel'[i] = VersionFrame(leg, srcVer'[leg])
      BY <1>1, <3>1
    <3>3. QED
      BY <2>1, <3>2 DEF Waiting, Latest, VersionFrame
  <2>3. CASE srcVer'[leg] = srcVer[leg]
    <3>1. src[leg] # "none" \/ Sent(fs, VersionFrame(leg, srcVer'[leg]))
      <4>1. CASE src[leg] = "none"
        BY <1>2, <1>3, <2>3, <4>1
      <4>2. QED
        BY <4>1
    <3>2. CASE src[leg] # "none"
      <4>1. version[leg] = srcVer[leg] \/ Waiting(Latest(leg))
        BY <3>2 DEF FollowInv, DetailsTold
      <4>2. CASE version[leg] = srcVer[leg]
        BY <1>1, <2>1, <2>3, <4>2
      <4>3. CASE Waiting(Latest(leg))
        <5>1. \E i \in DOMAIN channel : channel[i] = VersionFrame(leg, srcVer[leg])
          BY <4>3 DEF Waiting, Latest
        <5>2. \E i \in DOMAIN channel' : channel'[i] = VersionFrame(leg, srcVer'[leg])
          BY <1>1, <2>3, <5>1
        <5>3. QED
          BY <2>1, <5>2 DEF Waiting, Latest, VersionFrame
      <4>4. QED
        BY <4>1, <4>2, <4>3
    <3>3. QED
      BY <2>2, <3>1, <3>2
  <2>4. QED
    BY <1>2, <2>2, <2>3
<1>6. DetailsFirst'
  <2>1. \A leg \in Leg : Linked(leg)' => Ready(leg)'
    BY <1>1, <1>4 DEF FollowInv, DetailsFirst, Ready
  <2> SUFFICES ASSUME NEW k \in DOMAIN channel', NEW leg \in Leg,
                      channel'[k] \in {LinkFrame(leg), Report(leg, "New")}
               PROVE  /\ leg \in known \/ \E j \in 1 .. k - 1 : channel'[j] = OrderFrame(leg)
                      /\ version[leg] > 0 \/ \E j \in 1 .. k - 1 : IsVersion(channel'[j], leg)
    BY <1>1, <2>1 DEF DetailsFirst, Detailed, IsVersion, LinkFrame, Report, OrderFrame
  <2>2. CASE k \in DOMAIN channel /\ channel'[k] = channel[k]
    <3>1. Detailed(leg, k)
      BY <2>2 DEF FollowInv, DetailsFirst
    <3>2. \A j \in 1 .. k - 1 : channel'[j] = channel[j]
      <4>1. DOMAIN channel = 1 .. n
        BY LenProperties DEF FeedInv, FeedTyped, n
      <4>2. QED
        BY <1>1, <2>2, <4>1
    <3>3. QED
      BY <3>1, <3>2 DEF Detailed
  <2>3. CASE /\ k - n \in DOMAIN fs /\ channel'[k] = fs[k - n]
             /\ src[leg] # "none"
    <3>1. \A i \in DOMAIN channel : i \in 1 .. k - 1
      BY <1>1, <2>3
    <3>2. leg \in known \/ \E j \in 1 .. k - 1 : channel'[j] = OrderFrame(leg)
      BY <1>1, <2>3, <3>1 DEF FollowInv, DetailsTold, Waiting
    <3>3. version[leg] > 0 \/ \E j \in 1 .. k - 1 : IsVersion(channel'[j], leg)
      <4>1. CASE version[leg] = srcVer[leg]
        BY <1>3, <2>3, <4>1
      <4>2. CASE Waiting(Latest(leg))
        <5>1. PICK i \in DOMAIN channel : channel[i] = VersionFrame(leg, srcVer[leg])
          BY <4>2 DEF Waiting, Latest
        <5>2. i \in 1 .. k - 1 /\ channel'[i] = VersionFrame(leg, srcVer[leg])
          BY <1>1, <3>1, <5>1
        <5>3. QED
          BY <5>2 DEF VersionFrame, IsVersion
      <4>3. QED
        BY <2>3, <4>1, <4>2 DEF FollowInv, DetailsTold
    <3>4. QED
      BY <3>2, <3>3
  <2>4. CASE /\ k - n \in DOMAIN fs /\ channel'[k] = fs[k - n]
             /\ src[leg] = "none"
    <3>1. PICK j \in 1 .. (k - n) - 1 : fs[j] = OrderFrame(leg)
      BY <1>2, <2>4
    <3>2. PICK i \in 1 .. (k - n) - 1 : IsVersion(fs[i], leg)
      BY <1>2, <2>4
    <3>3. DOMAIN fs = 1 .. Len(fs) /\ Len(fs) \in Nat
      BY LenProperties
    <3>4. j \in DOMAIN fs /\ i \in DOMAIN fs /\ n + j \in 1 .. k - 1 /\ n + i \in 1 .. k - 1
      BY <1>1, <2>4, <3>3
    <3>5. channel'[n + j] = fs[j] /\ channel'[n + i] = fs[i]
      BY <1>1, <3>4
    <3>6. QED
      BY <3>1, <3>2, <3>4, <3>5
  <2>5. QED
    BY <1>1, <2>2, <2>3, <2>4
<1>7. AllAnnounced'
  <2>1. \A o \in Order : Entry(o) \in Leg /\ EntryOf(Entry(o)) = Entry(o)
    BY LegForms DEF EntryOf
  <2>2. \A o \in Order : src'[Entry(o)] # "none" =>
           src[Entry(o)] # "none" \/ Sent(fs, Report(Entry(o), "New"))
    BY <1>2, <2>1
  <2>3. \A b \in Bracket : src'[Entry(b)] # "none" =>
          b \in armed' \/ Waiting(Report(Entry(b), "New"))'
    BY <1>1, <2>2 DEF FollowInv, AllAnnounced, Order
  <2>4. \A o \in Single : src'[Entry(o)] # "none" =>
          Entry(o) \in emittedNew' \/ Waiting(Report(Entry(o), "New"))'
    BY <1>1, <2>2 DEF FollowInv, AllAnnounced, Order
  <2>5. \A b \in Bracket : Complete(b)' => b \in placed'
    <3>1. \A b \in Bracket : Complete(b)' => Complete(b)
      BY <1>1 DEF Complete, Ready
    <3>2. QED
      BY <1>1, <3>1 DEF FollowInv, AllAnnounced
  <2>6. QED
    BY <2>3, <2>4, <2>5 DEF AllAnnounced, Entry, Report
<1>8. NewsKept'
  BY <1>1, <1>4 DEF FollowInv, NewsKept, LegsIn, Entry
<1>9. \A leg \in Leg : Alive(leg)' => Followed(leg)'
  <2> SUFFICES ASSUME NEW leg \in Leg, src'[leg] \in {"suspended", "working"},
                      leg \notin replacing', srcVer'[leg] # 1,
                      Shown(leg) # srcVer'[leg]
               PROVE  \E k \in DOMAIN channel' :
                        /\ Reports(k, leg)'
                        /\ version[leg] = srcVer'[leg]
                           \/ \E j \in 1 .. k - 1 : channel'[j] = Latest(leg)'
    BY <1>1, <1>4 DEF Followed, Alive
  <2>1. src[leg] # "none"
    BY <1>2
  <2>2. Alive(leg) /\ srcVer'[leg] = srcVer[leg] /\ Latest(leg)' = Latest(leg)
    BY <1>2, <2>1 DEF Latest, VersionFrame
  <2>3. DOMAIN channel = 1 .. n
    BY LenProperties DEF FeedInv, FeedTyped, n
  <2>4. CASE leg \in replacing
    <3>1. PICK k \in DOMAIN fs : /\ fs[k][1] = "executionReport"
                                 /\ fs[k][3] = "Replaced" /\ fs[k][2][1] = leg[1]
      BY <1>2, <2>1, <2>4
    <3>2. n + k \in DOMAIN channel' /\ channel'[n + k] = fs[k] /\ k >= 1 /\ k \in Nat
      BY <1>1
    <3>3. \A m : m = n + k => Reports(m, leg)'
      BY <3>1, <3>2 DEF Reports
    <3>4. version[leg] = srcVer[leg] \/ Waiting(Latest(leg))
      BY <2>1 DEF FollowInv, DetailsTold
    <3>5. \A j \in DOMAIN channel : j \in 1 .. (n + k) - 1 /\ channel'[j] = channel[j]
      BY <1>1, <3>2
    <3>6. version[leg] = srcVer'[leg]
             \/ \E j \in 1 .. (n + k) - 1 : channel'[j] = Latest(leg)'
      BY <2>2, <3>4, <3>5 DEF Waiting
    <3>7. QED
      BY <3>2, <3>3, <3>6
  <2>5. CASE leg \notin replacing
    <3>1. PICK k \in DOMAIN channel :
             /\ Reports(k, leg)
             /\ version[leg] = srcVer[leg] \/ \E j \in 1 .. k - 1 : channel[j] = Latest(leg)
      BY <2>2, <2>5 DEF FollowInv, Followed
    <3>2. k \in DOMAIN channel' /\ channel'[k] = channel[k]
          /\ \A j \in 1 .. k - 1 : channel'[j] = channel[j]
      BY <1>1, <2>3
    <3>3. Reports(k, leg)'
      BY <3>1, <3>2 DEF Reports
    <3>4. QED
      BY <2>2, <3>1, <3>2, <3>3
  <2>6. QED
    BY <2>4, <2>5
<1>10. QED
  BY <1>5, <1>6, <1>7, <1>8, <1>9 DEF FollowInv

(* The parser takes up a report. *)
LEMMA ReportsTaken ==
    ASSUME NEW leg \in Leg, NEW how \in {"New", "Replaced", "Canceled", "Filled"},
           Handle(Report(leg, how))
    PROVE  /\ UNCHANGED <<known, version, legs, expects>>
           /\ how = "New" => OnNew(leg)
           /\ how = "Replaced" => OnReplaced(leg)
BY DEF Handle, Report, OnExecutionReport

LEMMA SinglesEmitted ==
    ASSUME FeedTyped, NEW leg \in Leg, ~Linked(leg), Ready(leg), OnNew(leg),
           unresolved' = 0
    PROVE  leg \in emittedNew'
<1>1. EmitSingle(leg)
  BY DEF OnNew
<1>2. leg \in known
  BY DEF Ready
<1>3. CASE leg \in emittedNew
  BY <1>1, <1>3 DEF EmitSingle
<1>4. CASE leg \notin emittedNew
  <2>1. PICK found \in BOOLEAN :
              /\ ResolveSymbol(found)
              /\ found => emittedNew' = emittedNew \cup {leg}
    BY <1>1, <1>2, <1>4 DEF EmitSingle
  <2>2. found
    <3>1. ResolveSymbol(FALSE) => unresolved' # 0
      BY <2>1, LooksUp
    <3>2. QED
      BY <2>1, <3>1
  <2>3. QED
    BY <2>1, <2>2
<1>5. QED
  BY <1>3, <1>4

LEMMA DeliverKeepsFollow ==
    ASSUME FeedInv, FeedInv', WholeInv, WholeInv', FollowInv, Deliver, unresolved' = 0
    PROVE  FollowInv'
<1> DEFINE f == channel[1]
<1>1. /\ f \in Frame /\ FrameOK(f) /\ Handle(f) /\ 1 \in DOMAIN channel
      /\ UNCHANGED <<src, srcVer, replacing>>
      /\ \A k \in DOMAIN channel' : /\ k \in Nat /\ k >= 1 /\ k + 1 \in DOMAIN channel
                                    /\ channel'[k] = channel[k + 1]
      /\ \A k \in DOMAIN channel :
            /\ k \in Nat /\ k >= 1 /\ channel[k] \in Frame /\ FrameOK(channel[k])
            /\ 1 < k => InOrder(f, channel[k])
            /\ k = 1 \/ (k - 1 \in DOMAIN channel' /\ channel'[k - 1] = channel[k])
      /\ \A g : Waiting(g) => g = f \/ Waiting(g)'
  BY Delivered
<1>2. Stores(f) /\ Emits(f)
  BY Delivered DEF Parses
<1>3. /\ known \subseteq known'
      /\ \A leg \in Leg : f = OrderFrame(leg) => leg \in known'
      /\ version' \in [Leg -> 0 .. MaxVer + 1]
      /\ version' = IF f[1] = "orderVersion" THEN [version EXCEPT ![f[2]] = f[3]]
                    ELSE version
      /\ \A leg \in Leg : Linked(leg)' <=> Linked(leg) \/ f = LinkFrame(leg)
      /\ armed \subseteq armed'
      /\ \A leg \in Leg : f = Report(leg, "New") /\ Linked(leg) => leg[1] \in armed'
      /\ placed \subseteq placed' /\ emittedNew \subseteq emittedNew'
  BY <1>2 DEF Stores, Emits
<1>4. /\ version \in [Leg -> 0 .. MaxVer + 1] /\ srcVer \in [Leg -> 0 .. MaxVer + 1]
      /\ told \in [Leg -> 0 .. MaxVer + 1] /\ told' \in [Leg -> 0 .. MaxVer + 1]
      /\ \A leg \in Leg : /\ version[leg] \in Nat /\ srcVer[leg] \in Nat
                          /\ told[leg] \in Nat /\ version'[leg] \in Nat
                          /\ told'[leg] \in Nat
      /\ \A leg \in Leg : /\ told[leg] <= version[leg] /\ version[leg] <= srcVer[leg]
                          /\ told'[leg] <= version'[leg] /\ version'[leg] <= srcVer[leg]
      /\ emittedNew \subseteq Leg /\ placed \subseteq Bracket
      /\ \A leg \in Leg : src[leg] = "none" <=> srcVer[leg] = 0
  <2>1. told' \in [Leg -> 0 .. MaxVer + 1] /\ NewsOK /\ NewsOK'
    BY <1>2 DEF Emits, ParserTypeOK, FeedInv
  <2>2. /\ version \in [Leg -> 0 .. MaxVer + 1] /\ srcVer \in [Leg -> 0 .. MaxVer + 1]
        /\ told \in [Leg -> 0 .. MaxVer + 1]
        /\ emittedNew \subseteq Leg /\ placed \subseteq Bracket
        /\ \A leg \in Leg : src[leg] = "none" <=> srcVer[leg] = 0
    BY TypedForms DEF FeedInv, FeedTyped, FeedTypeOK
  <2>3. \A v \in 0 .. MaxVer + 1 : v \in Nat
    BY ParserAssumption
  <2>4. \A leg \in Leg : /\ version[leg] \in Nat /\ srcVer[leg] \in Nat
                          /\ told[leg] \in Nat /\ version'[leg] \in Nat
                          /\ told'[leg] \in Nat
    BY <1>3, <2>1, <2>2, <2>3
  <2>5. \A leg \in Leg : /\ told[leg] <= version[leg] /\ version[leg] <= srcVer[leg]
                          /\ told'[leg] <= version'[leg] /\ version'[leg] <= srcVer[leg]
    BY <1>1, <2>1 DEF NewsOK
  <2>6. QED
    BY <2>1, <2>2, <2>4, <2>5
<1>5. /\ f[1] = "orderVersion" =>
           f[2] \in Leg /\ f[3] \in Nat /\ f[3] >= 1 /\ version[f[2]] <= f[3]
      /\ \A leg \in Leg : version[leg] <= version'[leg]
      /\ \A leg \in Leg : IsVersion(f, leg) => version'[leg] > 0
      /\ \A leg \in Leg : f = Latest(leg) => version'[leg] = srcVer[leg]
      /\ \A leg \in Leg : version[leg] = srcVer[leg] => version'[leg] = srcVer[leg]
  <2>1. f[1] = "orderVersion" =>
           f[2] \in Leg /\ f[3] \in Nat /\ f[3] >= 1 /\ version[f[2]] <= f[3]
    BY <1>1, FrameForms, ParserAssumption DEF FrameOK, Versions
  <2> HIDE DEF f
  <2>2. \A leg \in Leg : version[leg] <= version'[leg]
    <3>1. CASE f[1] = "orderVersion"
      BY <1>3, <1>4, <2>1, <3>1
    <3>2. CASE f[1] # "orderVersion"
      BY <1>3, <1>4, <3>2
    <3>3. QED
      BY <3>1, <3>2
  <2>3. \A leg \in Leg : IsVersion(f, leg) => version'[leg] > 0
    BY <1>3, <1>4, <2>1 DEF IsVersion
  <2>4. \A leg \in Leg : f = Latest(leg) => version'[leg] = srcVer[leg]
    BY <1>3, <1>4 DEF Latest, VersionFrame
  <2>5. \A leg \in Leg : version[leg] = srcVer[leg] => version'[leg] = srcVer[leg]
    BY <1>4, <2>2
  <2>6. QED
    BY <2>1, <2>2, <2>3, <2>4, <2>5
<1> HIDE DEF f
<1>6. DetailsTold'
  <2> SUFFICES ASSUME NEW leg \in Leg, src[leg] # "none"
               PROVE  /\ leg \in known' \/ Waiting(OrderFrame(leg))'
                      /\ version'[leg] = srcVer[leg] \/ Waiting(Latest(leg))'
    BY <1>1 DEF DetailsTold
  <2>1. leg \in known' \/ Waiting(OrderFrame(leg))'
    BY <1>1, <1>3 DEF FollowInv, DetailsTold
  <2>2. CASE Waiting(Latest(leg)) /\ f # Latest(leg)
    <3>1. PICK k \in DOMAIN channel : channel[k] = Latest(leg)
      BY <2>2 DEF Waiting
    <3>2. k - 1 \in DOMAIN channel' /\ channel'[k - 1] = Latest(leg)
      BY <1>1, <2>2, <3>1 DEF f
    <3>3. QED
      BY <1>1, <2>1, <3>2 DEF Waiting, Latest, VersionFrame
  <2>3. QED
    BY <1>5, <2>1, <2>2 DEF FollowInv, DetailsTold
<1>7. \A leg \in Leg : Ready(leg) => Ready(leg)'
  BY <1>3, <1>4, <1>5 DEF Ready
<1>8. \A leg \in Leg : Detailed(leg, 1) => Ready(leg)
  BY <1>4 DEF Detailed, Ready
<1>9. \A leg \in Leg : f \in {LinkFrame(leg), Report(leg, "New")} => Ready(leg)
  BY <1>1, <1>8 DEF FollowInv, DetailsFirst, f
<1>10. DetailsFirst'
  <2>1. \A leg \in Leg : Linked(leg)' => Ready(leg)'
    BY <1>3, <1>7, <1>9 DEF FollowInv, DetailsFirst
  <2> SUFFICES ASSUME NEW k \in DOMAIN channel', NEW leg \in Leg,
                      channel'[k] \in {LinkFrame(leg), Report(leg, "New")}
               PROVE  /\ leg \in known' \/ \E j \in 1 .. k - 1 : channel'[j] = OrderFrame(leg)
                      /\ version'[leg] > 0
                            \/ \E j \in 1 .. k - 1 : IsVersion(channel'[j], leg)
    BY <2>1 DEF DetailsFirst, Detailed, IsVersion, LinkFrame, Report, OrderFrame
  <2>2. k + 1 \in DOMAIN channel /\ channel'[k] = channel[k + 1] /\ k \in Nat
    BY <1>1
  <2>3. Detailed(leg, k + 1)
    BY <2>2 DEF FollowInv, DetailsFirst
  <2>4. \A j \in 1 .. k : j = 1 \/ (j - 1 \in 1 .. k - 1 /\ channel'[j - 1] = channel[j])
    <3>1. channel \in Seq(Frame)
      BY DEF FeedInv, FeedTyped
    <3>2. DOMAIN channel = 1 .. Len(channel) /\ Len(channel) \in Nat
      BY <3>1, LenProperties
    <3>3. SUFFICES ASSUME NEW j \in 1 .. k, j # 1
                   PROVE  j - 1 \in 1 .. k - 1 /\ channel'[j - 1] = channel[j]
      OBVIOUS
    <3>4. j \in DOMAIN channel /\ j - 1 \in 1 .. k - 1
      BY <2>2, <3>2, <3>3
    <3>5. QED
      BY <1>1, <3>3, <3>4
  <2>5. (k + 1) - 1 = k
    BY <2>2
  <2>6. leg \in known' \/ \E j \in 1 .. k - 1 : channel'[j] = OrderFrame(leg)
    <3>1. CASE leg \in known
      BY <1>3, <3>1
    <3>2. CASE \E j \in 1 .. k : channel[j] = OrderFrame(leg)
      <4>1. PICK j \in 1 .. k : channel[j] = OrderFrame(leg)
        BY <3>2
      <4>2. CASE j = 1
        BY <1>3, <4>1, <4>2 DEF f
      <4>3. QED
        BY <2>4, <4>1, <4>2
    <3>3. QED
      BY <2>3, <2>5, <3>1, <3>2 DEF Detailed
  <2>7. version'[leg] > 0 \/ \E j \in 1 .. k - 1 : IsVersion(channel'[j], leg)
    <3>1. CASE version[leg] > 0
      BY <1>4, <1>5, <3>1
    <3>2. CASE \E j \in 1 .. k : IsVersion(channel[j], leg)
      <4>1. PICK j \in 1 .. k : IsVersion(channel[j], leg)
        BY <3>2
      <4>2. CASE j = 1
        BY <1>5, <4>1, <4>2 DEF f
      <4>3. QED
        BY <2>4, <4>1, <4>2
    <3>3. QED
      BY <2>3, <2>5, <3>1, <3>2 DEF Detailed
  <2>8. QED
    BY <2>6, <2>7
<1>11. AllAnnounced'
  <2>1. \A o \in Order : Entry(o) \in Leg /\ Entry(o)[1] = o
    BY LegForms
  <2>2. ASSUME NEW b \in Bracket, src'[Entry(b)] # "none"
        PROVE  b \in armed' \/ Waiting(Report(Entry(b), "New"))'
    <3> DEFINE e == Entry(b)
    <3>1. e \in BracketLeg /\ e \in Leg /\ e[1] = b /\ src[e] # "none"
      BY <1>1, <2>2, LegForms DEF Order
    <3>2. b \in armed \/ Waiting(Report(e, "New"))
      BY <3>1 DEF FollowInv, AllAnnounced
    <3>3. CASE f = Report(e, "New")
      <4>1. Linked(e)
        <5> SUFFICES ASSUME Waiting(LinkFrame(e)) PROVE FALSE
          BY <3>1 DEF WholeInv, LinksTold
        <5>1. PICK k \in DOMAIN channel : channel[k] = LinkFrame(e)
          BY DEF Waiting
        <5>2. k # 1 /\ channel[k][1] = "orderStrategyLink" /\ channel[k][2] = e
          BY <3>3, <5>1 DEF f, Report, LinkFrame
        <5>3. InOrder(f, channel[k])
          BY <1>1, <5>2
        <5>4. QED
          BY <3>3, <5>2, <5>3 DEF InOrder
      <4>2. QED
        BY <1>3, <3>1, <3>3, <4>1
    <3>4. QED
      BY <1>1, <1>3, <3>2, <3>3
  <2>3. ASSUME NEW o \in Single, src'[Entry(o)] # "none"
        PROVE  Entry(o) \in emittedNew' \/ Waiting(Report(Entry(o), "New"))'
    <3> DEFINE e == Entry(o)
    <3>1. e \in Leg /\ e[1] = o /\ src[e] # "none" /\ ~Linked(e)
      BY <1>1, <2>1, <2>3, LegAssumption DEF Order, Linked
    <3>2. e \in emittedNew \/ Waiting(Report(e, "New"))
      BY <3>1 DEF FollowInv, AllAnnounced
    <3>3. CASE f = Report(e, "New")
      <4>1. OnNew(e)
        BY <1>1, <3>1, <3>3, ReportsTaken
      <4>2. e \in emittedNew'
        BY <1>9, <3>1, <3>3, <4>1, SinglesEmitted DEF FeedInv
      <4>3. QED
        BY <4>2
    <3>4. QED
      BY <1>1, <1>3, <3>2, <3>3
  <2>4. ASSUME NEW b \in Bracket, Complete(b)'
        PROVE  b \in placed'
    <3> SUFFICES ASSUME Rests(b) PROVE b \in placed
      BY <1>2, <2>4 DEF Emits
    <3>1. /\ b \in armed /\ Len(legs[b]) >= 2
          /\ b \in expects => Len(legs[b]) >= Cardinality(LegsOf(b))
      BY <2>4 DEF Complete, Rests
    <3>2. \A leg \in ToSet(legs[b]) : leg \in Leg /\ Linked(leg)
      <4>1. ToSet(legs[b]) \subseteq LegsOf(b)
        BY TypedForms DEF FeedInv
      <4>2. \A leg \in LegsOf(b) : leg \in Leg /\ leg[1] = b
        BY LegsOfForms DEF Order
      <4>3. QED
        BY <4>1, <4>2 DEF Linked
    <3>3. Complete(b)
      BY <3>1, <3>2 DEF Complete, FollowInv, DetailsFirst
    <3>4. QED
      BY <3>3 DEF FollowInv, AllAnnounced
  <2>5. QED
    BY <2>2, <2>3, <2>4 DEF AllAnnounced, Entry, Report
<1>12. /\ \A b \in placed' : \E i \in DOMAIN news' : news'[i][1] = Entry(b)
       /\ \A leg \in emittedNew' : \E i \in DOMAIN news' : leg \in LegsIn(news'[i])
       /\ \A leg \in Leg : EmittedIn(leg)' =>
             EmittedIn(leg) \/ (told'[leg] = version'[leg] /\ version'[leg] > 0)
  <2>1. \A leg \in Leg : Linked(leg)' => version'[leg] > 0
    BY <1>10 DEF DetailsFirst, Ready
  <2>2. ASSUME NEW leg \in Leg, Linked(leg)', leg[1] \in placed
        PROVE  EmittedIn(leg)
    <3>1. leg \in LegsOf(leg[1])
      BY LegsOfForms, LegForms
    <3>2. QED
      BY <2>2, <3>1, PlacedLinked DEF FollowInv
  <2>3. CASE news' = news /\ placed' = placed /\ emittedNew' = emittedNew
    <3>1. \A leg \in Leg : EmittedIn(leg)' => EmittedIn(leg)
      BY <2>2, <2>3 DEF EmittedIn
    <3>2. NewsKept
      BY DEF FollowInv
    <3>3. QED
      BY <2>3, <3>1, <3>2 DEF NewsKept
  <2>4. CASE \E new \in Leg \X SUBSET Leg :
             /\ Announces(new)
             /\ \/ \E leg \in Leg : /\ new = <<leg, {}>> /\ placed' = placed
                                    /\ leg \notin emittedNew
                                    /\ emittedNew' = emittedNew \cup {leg}
                \/ \E x \in Bracket :
                      /\ LegsIn(new) = ToSet(legs'[x]) /\ Len(legs'[x]) >= 2
                      /\ x \in expects' => Whole(new) /\ new[1] = Entry(x)
                      /\ placed' = placed \cup {x} /\ emittedNew' = emittedNew
    <3>1. PICK new \in Leg \X SUBSET Leg :
             /\ Announces(new)
             /\ \/ \E leg \in Leg : /\ new = <<leg, {}>> /\ placed' = placed
                                    /\ leg \notin emittedNew
                                    /\ emittedNew' = emittedNew \cup {leg}
                \/ \E x \in Bracket :
                      /\ LegsIn(new) = ToSet(legs'[x]) /\ Len(legs'[x]) >= 2
                      /\ x \in expects' => Whole(new) /\ new[1] = Entry(x)
                      /\ placed' = placed \cup {x} /\ emittedNew' = emittedNew
      BY <2>4
    <3>2. FeedTyped
      BY DEF FeedInv
    <3>3. /\ DOMAIN news' = 1 .. Len(news) + 1
          /\ DOMAIN news = 1 .. Len(news) /\ Len(news) \in Nat
          /\ news'[Len(news) + 1] = new
          /\ \A i \in DOMAIN news : news'[i] = news[i]
      BY <1>3, <3>1, <3>2, AnnouncesForms
    <3>4. /\ \A i \in DOMAIN news : i \in DOMAIN news' /\ news'[i] = news[i]
          /\ \E i \in DOMAIN news' : news'[i] = new
      BY <3>3
    <3>5. /\ \A b \in placed : \E i \in DOMAIN news' : news'[i][1] = Entry(b)
          /\ \A leg \in emittedNew : \E i \in DOMAIN news' : leg \in LegsIn(news'[i])
      BY <3>4 DEF FollowInv, NewsKept
    <3>6. \A leg \in LegsIn(new) \cap Leg : told'[leg] = version'[leg]
      BY <3>1 DEF Announces
    <3>7. CASE \E leg \in Leg : /\ new = <<leg, {}>> /\ placed' = placed
                                /\ leg \notin emittedNew
                                /\ emittedNew' = emittedNew \cup {leg}
      <4>1. PICK leg \in Leg : /\ new = <<leg, {}>> /\ placed' = placed
                               /\ leg \notin emittedNew
                               /\ emittedNew' = emittedNew \cup {leg}
        BY <3>7
      <4>2. leg \in LegsIn(new)
        BY <4>1 DEF LegsIn
      <4>3. f = Report(leg, "New")
        BY <1>2, <4>1 DEF Emits
      <4>4. version'[leg] > 0
        BY <1>7, <1>9, <4>3 DEF Ready
      <4>5. \A k \in Leg : EmittedIn(k)' => EmittedIn(k) \/ k = leg
        BY <2>2, <4>1 DEF EmittedIn
      <4>6. \A k \in emittedNew' : k = leg \/ k \in emittedNew
        BY <4>1
      <4>7. \E i \in DOMAIN news' : leg \in LegsIn(news'[i])
        BY <3>4, <4>2
      <4>8. QED
        BY <3>5, <3>6, <4>1, <4>2, <4>4, <4>5, <4>6, <4>7
    <3>8. CASE \E x \in Bracket :
                      /\ LegsIn(new) = ToSet(legs'[x]) /\ Len(legs'[x]) >= 2
                      /\ x \in expects' => Whole(new) /\ new[1] = Entry(x)
                      /\ placed' = placed \cup {x} /\ emittedNew' = emittedNew
      <4>1. PICK x \in Bracket :
                      /\ LegsIn(new) = ToSet(legs'[x]) /\ Len(legs'[x]) >= 2
                      /\ x \in expects' => Whole(new) /\ new[1] = Entry(x)
                      /\ placed' = placed \cup {x} /\ emittedNew' = emittedNew
        BY <3>8
      <4>2. legs'[x] \in Seq(Leg) /\ ToSet(legs'[x]) \subseteq LegsOf(x)
        BY <1>2 DEF Stores
      <4>3. 1 \in DOMAIN legs'[x]
        BY <4>1, <4>2, LenProperties
      <4>4. PICK leg \in Leg : leg \in ToSet(legs'[x]) /\ leg \in BracketLeg /\ leg[1] = x
        BY <4>2, <4>3, LegsOfForms, LegForms DEF Order, ToSet
      <4>5. x \in expects'
        BY <4>4 DEF WholeInv, ParamsFirst, Linked
      <4>6. \E i \in DOMAIN news' : news'[i][1] = Entry(x)
        BY <3>4, <4>1, <4>5
      <4>7. \A k \in Leg : EmittedIn(k)' => EmittedIn(k) \/ (Linked(k)' /\ k[1] = x)
        BY <2>2, <4>1 DEF EmittedIn
      <4>8. \A k \in Leg : Linked(k)' /\ k[1] = x => k \in LegsIn(new)
        BY <4>1 DEF Linked
      <4>9. QED
        BY <2>1, <3>5, <3>6, <4>1, <4>6, <4>7, <4>8
    <3>9. QED
      BY <3>1, <3>7, <3>8
  <2>5. QED
    BY <1>2, <2>3, <2>4 DEF Emits
<1>13. \A leg \in Leg : told'[leg] \in {told[leg], version'[leg]}
  <2>1. CASE news' = news
             /\ \A leg \in Leg : told'[leg] \in {told[leg], version'[leg]}
    BY <2>1
  <2>2. CASE \E new \in Leg \X SUBSET Leg : Announces(new)
    BY <2>2 DEF Announces
  <2>3. QED
    BY <1>2, <2>1, <2>2 DEF Emits
<1>14. NewsKept'
  <2>1. \A leg \in Leg : EmittedIn(leg)' => told'[leg] > 0
    <3> SUFFICES ASSUME NEW leg \in Leg, EmittedIn(leg) PROVE told'[leg] > 0
      BY <1>12
    <3>1. told[leg] > 0
      BY DEF FollowInv, NewsKept
    <3>2. QED
      BY <1>4, <1>5, <1>13, <3>1
  <2>2. QED
    BY <1>12, <2>1 DEF NewsKept, LegsIn, Entry
<1>15. \A leg \in Leg : Alive(leg)' => Followed(leg)'
  <2> SUFFICES ASSUME NEW leg \in Leg, Alive(leg), leg \notin replacing, srcVer[leg] # 1,
                      Shown(leg)' # srcVer[leg]
               PROVE  \E k \in DOMAIN channel' :
                        /\ Reports(k, leg)'
                        /\ version'[leg] = srcVer[leg]
                           \/ \E j \in 1 .. k - 1 : channel'[j] = Latest(leg)
    BY <1>1 DEF Followed, Alive, Latest, VersionFrame
  <2>1. EmittedIn(leg) => EmittedIn(leg)'
    BY <1>3 DEF EmittedIn
  <2>2. Shown(leg) # srcVer[leg]
    <3> SUFFICES ASSUME Shown(leg) = srcVer[leg] PROVE FALSE
      OBVIOUS
    <3>1. CASE EmittedIn(leg)
      <4>1. told[leg] = srcVer[leg]
        BY <3>1 DEF Shown
      <4>2. told'[leg] = srcVer[leg]
        BY <1>4, <1>5, <1>13, <4>1
      <4>3. QED
        BY <2>1, <3>1, <4>2 DEF Shown
    <3>2. CASE ~EmittedIn(leg)
      <4>1. version[leg] = srcVer[leg]
        BY <3>2 DEF Shown
      <4>2. version'[leg] = srcVer[leg]
        BY <1>5, <4>1
      <4>3. EmittedIn(leg)' => told'[leg] = version'[leg]
        BY <1>12, <3>2
      <4>4. QED
        BY <4>2, <4>3 DEF Shown
    <3>3. QED
      BY <3>1, <3>2
  <2>3. PICK k \in DOMAIN channel :
             /\ Reports(k, leg)
             /\ version[leg] = srcVer[leg] \/ \E j \in 1 .. k - 1 : channel[j] = Latest(leg)
    BY <2>2 DEF FollowInv, Followed
  <2>4. k # 1
    <3> SUFFICES ASSUME k = 1 PROVE FALSE
      OBVIOUS
    <3>1. version[leg] = srcVer[leg] /\ version'[leg] = srcVer[leg]
      BY <1>5, <2>3
    <3>2. /\ f[1] = "executionReport" /\ f[3] = "Replaced" /\ f[2][1] = leg[1]
          /\ f[2] \in Leg /\ f = Report(f[2], "Replaced")
      BY <1>1, <2>3, FrameForms DEF Reports, f
    <3> DEFINE r == f[2]
    <3>3. OnReplaced(r) /\ version' = version
      BY <1>1, <3>2, ReportsTaken
    <3>4. EmittedIn(leg)
      BY <2>2, <3>1 DEF Shown
    <3>5. told'[leg] = version[leg]
      <4>1. CASE leg[1] \in Bracket
        <5>1. leg \notin emittedNew
          BY <4>1, LegAssumption DEF WholeInv
        <5>2. Linked(leg) /\ leg[1] \in placed
          BY <3>4, <5>1 DEF EmittedIn
        <5>3. r \in LegsOf(leg[1])
          BY <3>2, <4>1, LegsOfForms DEF Order
        <5>4. Linked(r)
          BY <5>2, <5>3, PlacedLinked DEF FollowInv
        <5>5. told' = [l \in Leg |->
                 IF l \in {i \in ToSet(legs[r[1]]) : version[i] # told[i]}
                 THEN version[l] ELSE told[l]]
          BY <3>2, <3>3, <5>2, <5>4 DEF OnReplaced
        <5>6. leg \in ToSet(legs[r[1]])
          BY <3>2, <5>2 DEF Linked
        <5>7. QED
          BY <5>5, <5>6
      <4>2. CASE leg[1] \notin Bracket
        <5>1. r = leg /\ ~Linked(r)
          BY <3>2, <4>2, LegForms DEF Linked
        <5>2. told' = [l \in Leg |-> IF l \in {i \in {r} : version[i] > 0}
                                     THEN version[l] ELSE told[l]]
          BY <3>3, <5>1 DEF OnReplaced
        <5>3. version[leg] > 0
          <6>1. told[leg] > 0
            BY <3>4 DEF FollowInv, NewsKept
          <6>2. QED
            BY <1>4, <6>1
        <5>4. QED
          BY <5>1, <5>2, <5>3
      <4>3. QED
        BY <4>1, <4>2
    <3>6. QED
      BY <2>1, <3>1, <3>4, <3>5 DEF Shown
  <2>5. /\ k - 1 \in DOMAIN channel' /\ channel'[k - 1] = channel[k]
        /\ k \in Nat
    BY <1>1, <2>4
  <2>6. \A m : m = k - 1 => Reports(m, leg)'
    BY <2>3, <2>5 DEF Reports
  <2>7. version'[leg] = srcVer[leg]
           \/ \E j \in 1 .. (k - 1) - 1 : channel'[j] = Latest(leg)
    <3>1. CASE version[leg] = srcVer[leg]
      BY <1>5, <3>1
    <3>2. CASE \E j \in 1 .. k - 1 : channel[j] = Latest(leg)
      <4>1. PICK j \in 1 .. k - 1 : channel[j] = Latest(leg)
        BY <3>2
      <4>2. CASE j = 1
        BY <1>5, <4>1, <4>2 DEF f
      <4>3. CASE j # 1
        <5>1. DOMAIN channel = 1 .. Len(channel) /\ Len(channel) \in Nat
          BY LenProperties DEF FeedInv, FeedTyped
        <5>2. j \in DOMAIN channel /\ j - 1 \in 1 .. (k - 1) - 1
          BY <2>5, <4>3, <5>1
        <5>3. channel'[j - 1] = channel[j]
          BY <1>1, <4>3, <5>2
        <5>4. QED
          BY <4>1, <5>2, <5>3
      <4>4. QED
        BY <4>2, <4>3
    <3>3. QED
      BY <2>3, <3>1, <3>2
  <2>8. QED
    BY <2>5, <2>6, <2>7
<1>16. QED
  BY <1>6, <1>10, <1>11, <1>14, <1>15 DEF FollowInv

LEMMA QuietKeepsFollow ==
    ASSUME FollowInv, channel' = channel, UNCHANGED <<parserVars, accountVars>>
    PROVE  FollowInv'
<1>1. UNCHANGED <<known, version, legs, expects, armed, placed, emittedNew, told, news,
                  src, srcVer, replacing, channel>>
  BY DEF parserVars, emitVars, symbolVars, accountVars
<1>2. /\ \A leg : /\ Linked(leg)' <=> Linked(leg)
                  /\ Ready(leg)' <=> Ready(leg)
                  /\ EmittedIn(leg)' <=> EmittedIn(leg)
                  /\ Alive(leg)' <=> Alive(leg)
                  /\ Shown(leg)' = Shown(leg) /\ Latest(leg)' = Latest(leg)
      /\ \A f : Waiting(f)' <=> Waiting(f)
  BY <1>1 DEF Linked, Ready, EmittedIn, Alive, Shown, Latest, VersionFrame, Waiting
<1>3. DetailsFirst' /\ DetailsTold'
  <2>1. \A k, leg : Detailed(leg, k)' <=> Detailed(leg, k)
    BY <1>1 DEF Detailed, IsVersion, OrderFrame
  <2>2. DetailsFirst'
    BY <1>1, <1>2, <2>1 DEF FollowInv, DetailsFirst, LinkFrame, Report
  <2>3. DetailsTold'
    BY <1>1 DEF FollowInv, DetailsTold, Waiting, OrderFrame, Latest, VersionFrame
  <2>4. QED
    BY <2>2, <2>3
<1>4. AllAnnounced'
  <2>1. \A b : Complete(b)' <=> Complete(b)
    BY <1>1 DEF Complete, Ready
  <2>2. QED
    BY <1>1, <2>1 DEF FollowInv, AllAnnounced, Waiting, Report, Entry
<1>5. NewsKept'
  BY <1>1, <1>2 DEF FollowInv, NewsKept, LegsIn, Entry
<1>6. \A leg : Followed(leg)' <=> Followed(leg)
  <2>1. \A k, leg : Reports(k, leg)' <=> Reports(k, leg)
    BY <1>1 DEF Reports
  <2>2. QED
    BY <1>1, <1>2, <2>1 DEF Followed
<1>7. QED
  BY <1>2, <1>3, <1>4, <1>5, <1>6 DEF FollowInv

LEMMA FollowStart ==
    ASSUME PushInit
    PROVE  FollowInv
<1>1. /\ \A leg \in Leg : src[leg] = "none"
      /\ emittedNew = {} /\ placed = {} /\ armed = {} /\ channel = <<>>
      /\ \A b \in Bracket : legs[b] = <<>>
  BY DEF PushInit, ParserInit
<1>2. DOMAIN channel = {} /\ \A b \in Bracket : ToSet(legs[b]) = {}
  BY <1>1 DEF ToSet
<1>3. \A leg : ~Linked(leg) /\ ~EmittedIn(leg)
  BY <1>1, <1>2 DEF Linked, EmittedIn
<1>4. \A o \in Order : Entry(o) \in Leg
  BY LegForms
<1>5. \A leg \in Leg : ~Alive(leg)
  BY <1>1 DEF Alive
<1>6. AllAnnounced
  BY <1>1, <1>4 DEF AllAnnounced, Complete, Order
<1>7. DetailsFirst /\ DetailsTold /\ NewsKept
  BY <1>1, <1>2, <1>3 DEF DetailsFirst, DetailsTold, NewsKept
<1>8. QED
  BY <1>5, <1>6, <1>7 DEF FollowInv

LEMMA FollowStep ==
    ASSUME FeedInv, FeedInv', GapInv, GapInv', ResolvedInv, [PushNext]_pushVars
    PROVE  ResolvedInv'
<1> SUFFICES ASSUME ~gap', unresolved' = 0 PROVE FollowInv'
  BY DEF ResolvedInv
<1>1. unresolved \in Nat
  BY TypedForms, ParserAssumption DEF FeedInv
<1>2. WholeInv'
  BY DEF GapInv
<1>3. CASE AccountMoves
  <2>1. PICK fs \in Seq(Frame) : Accounts(fs) /\ SendFrames(fs)
    BY <1>3, AccountSends DEF FeedInv
  <2>2. ~gap /\ unresolved = 0
    BY <2>1, Sends
  <2>3. QED
    BY <2>1, <2>2, AccountKeepsFollow DEF GapInv, ResolvedInv
<1>4. CASE Deliver
  <2>1. ~gap /\ unresolved <= unresolved'
    BY <1>4, Delivered DEF Parses, Emits
  <2>2. unresolved = 0
    BY <1>1, <2>1
  <2>3. QED
    BY <1>2, <1>4, <2>1, <2>2, DeliverKeepsFollow DEF GapInv, ResolvedInv
<1>5. CASE Proceed \/ Lose \/ UNCHANGED pushVars
  <2>1. ~gap /\ channel' = channel /\ UNCHANGED <<parserVars, accountVars>>
    BY <1>5, QuietSteps
  <2>2. unresolved = 0
    BY <2>1 DEF parserVars, symbolVars
  <2>3. QED
    BY <2>1, <2>2, QuietKeepsFollow DEF ResolvedInv
<1>6. QED
  BY <1>3, <1>4, <1>5 DEF PushNext

LEMMA ResolvedInvariant == PushSpec => []ResolvedInv
<1>1. PushInit => ResolvedInv
  BY FollowStart DEF ResolvedInv
<1>2. /\ FeedInv /\ FeedInv' /\ GapInv /\ GapInv' /\ ResolvedInv /\ [PushNext]_pushVars
      => ResolvedInv'
  BY FollowStep
<1>3. QED
  BY <1>1, <1>2, PushInvariant, WholeInvariant, PTL DEF PushSpec

\* a list in which all the legs of a bracket are has their number
LEMMA AllLinked ==
    ASSUME FeedTyped, NEW b \in Bracket, \A k \in LegsOf(b) : Linked(k)
    PROVE  Len(legs[b]) >= 3
<1> DEFINE q == legs[b]
<1>1. /\ Entry(b) \in LegsOf(b) /\ <<b, "LMT">> \in LegsOf(b) /\ <<b, "STP">> \in LegsOf(b)
      /\ \A k \in LegsOf(b) : k[1] = b
  BY LegForms, LegsOfForms DEF Order
<1>2. \A k \in LegsOf(b) : \E i \in DOMAIN q : q[i] = k
  BY <1>1 DEF Linked, ToSet
<1>3. DOMAIN q = 1 .. Len(q) /\ Len(q) \in Nat
  BY TypedForms, LenProperties
<1> HIDE DEF q
<1>4. PICK i \in DOMAIN q : q[i] = Entry(b)
  BY <1>1, <1>2
<1>5. PICK j \in DOMAIN q : q[j] = <<b, "LMT">>
  BY <1>1, <1>2
<1>6. PICK k \in DOMAIN q : q[k] = <<b, "STP">>
  BY <1>1, <1>2
<1>7. i # j /\ i # k /\ j # k
  BY <1>4, <1>5, <1>6 DEF Entry
<1>8. Len(q) >= 3
  BY <1>3, <1>7
<1>9. QED
  BY <1>8 DEF q

LEMMA AccountFollowed ==
    ASSUME FeedInv, WholeInv, FollowInv, channel = <<>>, NEW leg \in Leg, Alive(leg),
           leg[1] \in Bracket => \A k \in Exits(leg[1]) : src[k] # "none"
    PROVE  /\ Announced(leg) = 1
           /\ leg \notin replacing => told[leg] = srcVer[leg]
<1> DEFINE o == leg[1]
<1>1. /\ DOMAIN channel = {} /\ \A f : ~Waiting(f)
      /\ o \in Order /\ leg \in LegsOf(o) /\ EntryOf(leg) = Entry(o)
  BY LegForms, LegsOfForms DEF Waiting, EntryOf
<1>2. src[leg] # "none" /\ src[Entry(o)] # "none"
  BY <1>1 DEF Alive, WholeInv, EntriesFirst
<1>3. EmittedIn(leg) /\ \E i \in DOMAIN news : leg \in LegsIn(news[i])
  <2>1. CASE o \in Single
    <3>1. leg = Entry(o)
      BY <1>1, <2>1, LegsOfForms, LegAssumption
    <3>2. leg \in emittedNew
      BY <1>1, <1>2, <2>1, <3>1 DEF FollowInv, AllAnnounced
    <3>3. QED
      BY <3>2 DEF EmittedIn, FollowInv, NewsKept
  <2>2. CASE o \in Bracket
    <3>1. \A k \in LegsOf(o) : k \in BracketLeg /\ k \in Leg /\ k[1] = o
      BY <1>1, <2>2, LegForms, LegsOfForms
    <3>2. \A k \in LegsOf(o) : src[k] # "none"
      BY <1>2, <2>2 DEF LegsOf
    <3>3. \A k \in LegsOf(o) : Linked(k)
      BY <1>1, <3>1, <3>2 DEF WholeInv, LinksTold
    <3>4. o \in armed
      BY <1>1, <1>2, <2>2 DEF FollowInv, AllAnnounced
    <3>5. \A k \in ToSet(legs[o]) : Ready(k)
      <4>1. ToSet(legs[o]) \subseteq LegsOf(o)
        BY <2>2, TypedForms DEF FeedInv
      <4>2. QED
        BY <3>1, <3>3, <4>1 DEF FollowInv, DetailsFirst
    <3>6. Len(legs[o]) >= 3 /\ Len(legs[o]) \in Nat
      BY <2>2, <3>3, AllLinked, TypedForms, LenProperties DEF FeedInv
    <3>7. Len(legs[o]) >= 2 /\ Len(legs[o]) >= Cardinality(LegsOf(o))
      BY <2>2, <3>6, BracketSize
    <3>8. Complete(o)
      BY <3>4, <3>5, <3>7 DEF Complete
    <3>9. o \in placed
      BY <2>2, <3>8 DEF FollowInv, AllAnnounced
    <3>10. QED
      BY <1>1, <3>9, PlacedLinked DEF FollowInv
  <2>3. QED
    BY <1>1, <2>1, <2>2 DEF Order
<1>4. Announced(leg) = 1
  BY <1>3, AnnouncedOf DEF FeedInv
<1>5. ASSUME leg \notin replacing PROVE told[leg] = srcVer[leg]
  <2>1. Followed(leg)
    BY DEF FollowInv
  <2>2. CASE srcVer[leg] = 1
    <3>1. told[leg] > 0 /\ told[leg] <= version[leg] /\ version[leg] <= srcVer[leg]
      BY <1>3 DEF FollowInv, NewsKept, FeedInv, NewsOK
    <3>2. told[leg] \in 0 .. MaxVer + 1 /\ version[leg] \in 0 .. MaxVer + 1
      BY TypedForms DEF FeedInv
    <3>3. QED
      BY <2>2, <3>1, <3>2, ParserAssumption
  <2>3. CASE Shown(leg) = srcVer[leg]
    BY <1>3, <2>3 DEF Shown
  <2>4. QED
    BY <1>1, <1>5, <2>1, <2>2, <2>3 DEF Followed
<1>6. QED
  BY <1>4, <1>5

(* With no frame lost and every contract resolved, the events lead where the
   account is: each leg is announced once, with the details it has. *)
THEOREM EventsFollowTheAccount == PushSpec => []FollowsAccount
<1>1. FeedInv /\ GapInv /\ ResolvedInv => FollowsAccount
  BY AccountFollowed DEF GapInv, ResolvedInv, FollowsAccount
<1>2. QED
  BY <1>1, PushInvariant, WholeInvariant, ResolvedInvariant, PTL

=============================================================================
