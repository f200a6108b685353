-------------------------- MODULE TradovateSession --------------------------
(***************************************************************************)
(* brokers/tradovate.py: one TradovateClient used by several threads at a  *)
(* time (the proxy's request threads, the WebSocket listener, the          *)
(* reconciler's timer). Its lock covers the contract caches only: tokens,  *)
(* expiry and account are read and written as the threads interleave.      *)
(* A token is known by the ticks it still has to live.                     *)
(***************************************************************************)
EXTENDS Integers, Sequences

CONSTANTS
    Thread,     \* the callers
    Does,       \* thread -> its operations: "connect" the start-up and the
                \* WebSocket listener, the others who places, reads, cancels
    Lifetime,   \* ticks a new token lives
    Leeway,     \* _TOKEN_REFRESH_LEEWAY_SECS, in ticks
    MaxCall,    \* ticks one HTTP exchange takes at most (its timeout)
    Account,    \* the internal ids of the accounts the user sees
    NameOf,     \* id -> the name Tradovate's page shows for it
    Own,        \* the accounts whose userId is the user's
    Pins,       \* TRADOVATE_ACCOUNT_ID: an id, a name, neither, or None
    Lists,      \* the orders in which /account/list may answer
    None,       \* no value
    MaxFaults   \* bound on exchanges that fail or answer without an expiry

ASSUME ThreadAssumption ==
    Does \in [Thread -> SUBSET {"connect", "use", "list", "place"}]
ASSUME AccountAssumption == None \notin Account /\ Own \subseteq Account
ASSUME NoneAssumption == None \notin Nat /\ None # "999999"
ASSUME TimeAssumption ==
    /\ Lifetime \in Nat /\ Leeway \in Nat /\ MaxCall \in Nat
    /\ MaxFaults \in Nat
    /\ Leeway >= 3 * MaxCall
    /\ Lifetime > Leeway + MaxCall
ASSUME ListAssumption == \A list \in Lists : list \in Seq(Account) /\ list # <<>>

VARIABLES
    shadow,      \* _shadow_mode, fixed by the credentials
    pin,         \* _pinned_account_id
    token,       \* _access_token, as the ticks it has left
    expiration,  \* _expiration, as the ticks the client thinks are left
    account,     \* _account_id
    cached,      \* whether the contract's id is in _contract_id_cache
    pc,          \* thread -> where it is
    op,          \* thread -> the operation it performs
    depth,       \* thread -> logins under way that still list the accounts
    grant,       \* thread -> the token just received, not yet stored
    wire,        \* thread -> what its request carries
    left,        \* thread -> ticks its exchange may still take
    failed,      \* threads whose last operation raised
    faults,
    blind        \* history: a token came without an expiry

client  == <<token, expiration, account, cached>>
threads == <<pc, op, depth, grant, wire, left, failed>>
fixed   == <<shadow, pin>>
vars    == <<fixed, client, threads, faults, blind>>

NoWire == [life |-> Lifetime, account |-> None]
NoGrant == [life |-> 0, dated |-> TRUE]

Init ==
    /\ shadow \in BOOLEAN
    /\ pin \in Pins
    /\ token = None /\ expiration = None /\ account = None
    /\ cached = FALSE
    /\ pc = [t \in Thread |-> "idle"]
    /\ op = [t \in Thread |-> "none"]
    /\ depth = [t \in Thread |-> 0]
    /\ grant = [t \in Thread |-> NoGrant]
    /\ wire = [t \in Thread |-> NoWire]
    /\ left = [t \in Thread |-> 0]
    /\ failed = {}
    /\ faults = 0
    /\ blind = FALSE

Connected == token # None /\ account # None

Fault == faults < MaxFaults /\ faults' = faults + 1

Goto(t, place) == pc' = [pc EXCEPT ![t] = place]

\* an HTTP exchange starts
Exchange(t, place) ==
    /\ Goto(t, place)
    /\ left' = [left EXCEPT ![t] = MaxCall]

Ends(t) ==
    /\ Goto(t, "idle")
    /\ op' = [op EXCEPT ![t] = "none"]
    /\ depth' = [depth EXCEPT ![t] = 0]
    /\ wire' = [wire EXCEPT ![t] = NoWire]
    /\ left' = [left EXCEPT ![t] = 0]
    /\ UNCHANGED grant

Returns(t) == Ends(t) /\ failed' = failed \ {t}

Raises(t) == Ends(t) /\ failed' = failed \cup {t}

-----------------------------------------------------------------------------
(* The operations, up to the token check.                                  *)

\* What every order operation (cancel, modify, status, positions, and the
\* placement after its lookup) does first. No login ever takes the token or
\* the account away.
Guarded(t, o) ==
    IF ~Connected THEN Raises(t)
    ELSE /\ op' = [op EXCEPT ![t] = o]
         /\ Goto(t, "fresh")
         /\ wire' = [wire EXCEPT ![t] = NoWire]
         /\ left' = [left EXCEPT ![t] = 0]
         /\ failed' = failed \ {t}
         /\ UNCHANGED <<depth, grant>>

Use(t) ==
    /\ pc[t] = "idle"
    /\ IF Connected /\ shadow THEN Returns(t) ELSE Guarded(t, "use")
    /\ UNCHANGED <<fixed, client, faults, blind>>

\* list_accounts has no guard
ListAccounts(t) ==
    /\ pc[t] = "idle"
    /\ IF shadow THEN Returns(t)
       ELSE /\ op' = [op EXCEPT ![t] = "use"]
            /\ Goto(t, "fresh")
            /\ failed' = failed \ {t}
            /\ UNCHANGED <<depth, grant, wire, left>>
    /\ UNCHANGED <<fixed, client, faults, blind>>

\* TradovateEndpoint.place_order and place_bracket: get_contract_id, then the
\* client's placement
Place(t) ==
    /\ pc[t] = "idle"
    /\ IF cached \/ shadow
       THEN /\ cached' = TRUE
            /\ Guarded(t, "place")
       ELSE /\ op' = [op EXCEPT ![t] = "lookup"]
            /\ Goto(t, "fresh")
            /\ failed' = failed \ {t}
            /\ UNCHANGED <<cached, depth, grant, wire, left>>
    /\ UNCHANGED <<fixed, token, expiration, account, faults, blind>>

-----------------------------------------------------------------------------
(* connect()                                                               *)

\* a is what the list gives: the first of the user's own, else the first
FirstOwn(list, a) ==
    \/ \E i \in DOMAIN list :
          /\ a = list[i] /\ a \in Own
          /\ \A j \in 1 .. i - 1 : list[j] \notin Own
    \/ a = list[1] /\ \A i \in DOMAIN list : list[i] \notin Own

\* an account with the pinned id, else the last one with that name
ResolvePinned(list, a) ==
    \/ a = pin /\ \E i \in DOMAIN list : list[i] = pin
    \/ /\ \A i \in DOMAIN list : list[i] # pin
       /\ \/ \E i \in DOMAIN list :
                /\ a = list[i] /\ NameOf[a] = pin
                /\ \A j \in i + 1 .. Len(list) : NameOf[list[j]] # pin
          \/ a = None /\ \A i \in DOMAIN list : NameOf[list[i]] # pin

Login(t) ==
    /\ Exchange(t, "auth")
    /\ depth' = [depth EXCEPT ![t] = @ + 1]

Connect(t) ==
    /\ pc[t] = "idle"
    /\ failed' = failed \ {t}
    /\ IF shadow
       THEN /\ token' = Lifetime /\ expiration' = Lifetime
            /\ account' = IF pin = None THEN "999999" ELSE pin
            /\ UNCHANGED <<pc, op, left, depth>>
       ELSE /\ Login(t)
            /\ op' = [op EXCEPT ![t] = "connect"]
            /\ UNCHANGED <<token, expiration, account>>
    /\ UNCHANGED <<fixed, cached, grant, wire, faults, blind>>

\* The server's answer; its expirationTime may not parse.
Granted(t, next) ==
    /\ Goto(t, next)
    /\ \/ /\ grant' = [grant EXCEPT ![t] = [life |-> Lifetime, dated |-> TRUE]]
          /\ UNCHANGED <<faults, blind>>
       \/ /\ Fault
          /\ grant' = [grant EXCEPT ![t] = [life |-> Lifetime, dated |-> FALSE]]
          /\ blind' = TRUE
    /\ wire' = [wire EXCEPT ![t] = NoWire]
    /\ UNCHANGED <<fixed, client, op, depth, left, failed>>

AuthAnswers(t) == pc[t] = "auth" /\ Granted(t, "authed")

AuthFails(t) ==
    /\ pc[t] = "auth"
    /\ Fault
    /\ Raises(t)
    /\ UNCHANGED <<fixed, client, blind>>

\* Faulty: a login forgets the account until it has listed them again
StoreTokenOnly(t) ==
    /\ pc[t] \in {"authed", "renewed"}
    /\ token' = grant[t].life
    /\ account' = IF pc[t] = "authed" THEN None ELSE account
    /\ Goto(t, IF pc[t] = "authed" THEN "auth_dating" ELSE "renew_dating")
    /\ UNCHANGED <<fixed, expiration, cached, op, depth, grant, wire,
                   left, failed, faults, blind>>

\* connect() and the renewal store the token, then the expiry
StoreToken(t) ==
    /\ pc[t] \in {"authed", "renewed"}
    /\ token' = grant[t].life
    /\ Goto(t, IF pc[t] = "authed" THEN "auth_dating" ELSE "renew_dating")
    /\ UNCHANGED <<fixed, expiration, account, cached, op, depth, grant, wire,
                   left, failed, faults, blind>>

\* where _ensure_fresh_token returns to: the account list of a login, or the
\* operation's own request
Resume(t) ==
    IF depth[t] > 0
    THEN Exchange(t, "listing") /\ wire' = [wire EXCEPT ![t].life = token]
    ELSE /\ Goto(t, "ready")
         /\ left' = [left EXCEPT ![t] = 0]
         /\ UNCHANGED wire

\* Faulty: an expiry that cannot be read leaves the one before
StoreReadableExpiration(t) ==
    /\ expiration' = IF grant[t].dated THEN grant[t].life ELSE expiration
    /\ grant' = [grant EXCEPT ![t] = NoGrant]
    /\ \/ /\ pc[t] = "auth_dating"
          /\ Goto(t, "fresh")
          /\ left' = [left EXCEPT ![t] = 0]
          /\ UNCHANGED wire
       \/ /\ pc[t] = "renew_dating"
          /\ Resume(t)
    /\ UNCHANGED <<fixed, token, account, cached, op, depth, failed, faults,
                   blind>>

StoreExpiration(t) ==
    /\ expiration' = IF grant[t].dated THEN grant[t].life ELSE None
    /\ grant' = [grant EXCEPT ![t] = NoGrant]
    /\ \/ /\ pc[t] = "auth_dating"
          /\ Goto(t, "fresh")
          /\ left' = [left EXCEPT ![t] = 0]
          /\ UNCHANGED wire
       \/ /\ pc[t] = "renew_dating"
          /\ Resume(t)
    /\ UNCHANGED <<fixed, token, account, cached, op, depth, failed, faults,
                   blind>>

\* A login inside another login's check returns to the outer one's request.
LoginEnds(t) ==
    /\ depth' = [depth EXCEPT ![t] = @ - 1]
    /\ CASE depth[t] > 1 ->
               /\ Exchange(t, "listing")
               /\ wire' = [wire EXCEPT ![t].life = token]
               /\ UNCHANGED <<op, grant, failed>>
         [] depth[t] = 1 /\ op[t] = "connect" -> Returns(t)
         [] OTHER ->
               /\ Goto(t, "ready")
               /\ wire' = [wire EXCEPT ![t] = NoWire]
               /\ left' = [left EXCEPT ![t] = 0]
               /\ UNCHANGED <<op, grant, failed>>

ListAnswers(t, list) ==
    /\ pc[t] = "listing"
    /\ wire[t].life > 0
    /\ \E found \in Account \cup {None} :
          /\ IF pin = None THEN FirstOwn(list, found)
                           ELSE ResolvePinned(list, found)
          /\ IF found = None THEN Raises(t) /\ UNCHANGED account
             ELSE account' = found /\ LoginEnds(t)
    /\ UNCHANGED <<fixed, token, expiration, cached, faults, blind>>

-----------------------------------------------------------------------------
(* _ensure_fresh_token                                                     *)

\* Faulty: as long as it has not expired
NotExpired(life) == life > 0

IsFresh(life) == life > Leeway

CheckFresh(t) ==
    /\ pc[t] = "fresh"
    /\ CASE expiration = None \/ token = None -> Raises(t)
         [] expiration # None /\ token # None /\ IsFresh(expiration) ->
                Resume(t) /\ UNCHANGED <<op, depth, grant, failed>>
         [] OTHER -> /\ Exchange(t, "renewing")
                     /\ wire' = [wire EXCEPT ![t].life = token]
                     /\ UNCHANGED <<op, depth, grant, failed>>
    /\ UNCHANGED <<fixed, client, faults, blind>>

RenewAnswers(t) ==
    /\ pc[t] = "renewing"
    /\ wire[t].life > 0
    /\ Granted(t, "renewed")

\* Faulty: only a renewal that was lost ends in a login
RefusedRenewalRaises(t) ==
    /\ pc[t] = "renewing"
    /\ IF wire[t].life = 0
       THEN Raises(t) /\ UNCHANGED faults
       ELSE /\ Fault
            /\ Login(t)
            /\ wire' = [wire EXCEPT ![t] = NoWire]
            /\ UNCHANGED <<op, grant, failed>>
    /\ UNCHANGED <<fixed, client, blind>>

\* A renewal that fails, as that of an expired token does, ends in a login.
RenewFails(t) ==
    /\ pc[t] = "renewing"
    /\ IF wire[t].life = 0 THEN UNCHANGED faults ELSE Fault
    /\ Login(t)
    /\ wire' = [wire EXCEPT ![t] = NoWire]
    /\ UNCHANGED <<fixed, client, op, grant, failed, blind>>

-----------------------------------------------------------------------------
(* The operation's own request.                                            *)

\* the payload names the account, the header the token
Send(t) ==
    /\ pc[t] = "ready"
    /\ IF shadow
       THEN Returns(t)
       ELSE /\ Exchange(t, "sent")
            /\ wire' = [wire EXCEPT ![t] = [life |-> token, account |-> account]]
            /\ UNCHANGED <<op, depth, grant, failed>>
    /\ UNCHANGED <<fixed, client, faults, blind>>

Answers(t) ==
    /\ pc[t] = "sent"
    /\ wire[t].life > 0
    /\ IF op[t] = "lookup"
       THEN cached' = TRUE /\ Guarded(t, "place")
       ELSE Returns(t) /\ UNCHANGED cached
    /\ UNCHANGED <<fixed, token, expiration, account, faults, blind>>

\* a request, or the account list, that fails or carries an expired token
RequestFails(t) ==
    /\ pc[t] \in {"sent", "listing"}
    /\ IF wire[t].life = 0 THEN UNCHANGED faults ELSE Fault
    /\ Raises(t)
    /\ UNCHANGED <<fixed, client, blind>>

-----------------------------------------------------------------------------
(* Time.                                                                   *)

Exchanging == {"auth", "authed", "auth_dating", "renewing", "renewed",
               "renew_dating", "listing", "sent"}

Older(life) == IF life = None \/ life = 0 THEN life ELSE life - 1

\* Computing takes no time, an exchange takes at most MaxCall ticks; the
\* year a shadow session is given does not pass.
Tick ==
    /\ token # None /\ ~shadow
    /\ \A t \in Thread : pc[t] \in Exchanging \cup {"idle"}
    /\ \A t \in Thread : pc[t] \in Exchanging => left[t] > 0
    /\ token' = Older(token)
    /\ expiration' = Older(expiration)
    /\ grant' = [t \in Thread |-> [grant[t] EXCEPT !.life = Older(@)]]
    /\ wire' = [t \in Thread |-> IF pc[t] \in Exchanging
                                 THEN [wire[t] EXCEPT !.life = Older(@)]
                                 ELSE wire[t]]
    /\ left' = [t \in Thread |-> IF pc[t] \in Exchanging THEN left[t] - 1
                                 ELSE left[t]]
    /\ UNCHANGED <<fixed, account, cached, pc, op, depth, failed, faults,
                   blind>>

Step(t) ==
    \/ AuthAnswers(t) \/ AuthFails(t)
    \/ StoreToken(t) \/ StoreExpiration(t)
    \/ \E list \in Lists : ListAnswers(t, list)
    \/ CheckFresh(t) \/ RenewAnswers(t) \/ RenewFails(t)
    \/ Send(t) \/ Answers(t) \/ RequestFails(t)

Next ==
    \/ \E t \in Thread :
        \/ "connect" \in Does[t] /\ Connect(t)
        \/ "use" \in Does[t] /\ Use(t)
        \/ "list" \in Does[t] /\ ListAccounts(t)
        \/ "place" \in Does[t] /\ Place(t)
        \/ Step(t)
    \/ Tick

Spec == Init /\ [][Next]_vars

\* every thread is scheduled, every exchange ends in its timeout
FairSpec == Spec /\ \A t \in Thread : WF_vars(Step(t))

-----------------------------------------------------------------------------
Life == 0 .. Lifetime

Renewing == {"renewing", "renewed", "renew_dating"}

(* Types. A login lists the accounts through _ensure_fresh_token, which    *)
(* finds the token it has just stored: it neither renews inside the login  *)
(* nor logs in again, whatever tokens other threads store meanwhile.       *)
TypeOK ==
    /\ shadow \in BOOLEAN /\ pin \in Pins
    /\ token \in Life \cup {None} /\ expiration \in Life \cup {None}
    /\ cached \in BOOLEAN /\ blind \in BOOLEAN
    /\ pc \in [Thread -> Exchanging \cup {"idle", "fresh", "ready"}]
    /\ op \in [Thread -> {"none", "connect", "lookup", "place", "use"}]
    /\ depth \in [Thread -> 0 .. 1]
    /\ \A t \in Thread : pc[t] \in Renewing => depth[t] = 0
    /\ ~shadow => account \in Account \cup {None}
    /\ left \in [Thread -> 0 .. MaxCall]
    /\ grant \in [Thread -> [life : Life, dated : BOOLEAN]]
    /\ wire \in [Thread -> [life : Life \cup {None},
                            account : Account \cup {None}]]
    /\ failed \subseteq Thread
    /\ faults \in 0 .. MaxFaults

(* No request but a renewal ever travels with an expired token, whatever   *)
(* renewals and logins other threads have under way: the leeway covers the *)
(* exchange, and a new expiry is never seen before its token.              *)
NoExpiredToken ==
    \A t \in Thread : pc[t] \in {"sent", "listing"} => wire[t].life > 0

(* An order carries the account that was asked for, while other threads    *)
(* log in again: the one the pin is the id of, else the one it names, and  *)
(* without a pin one of the user's own.                                    *)
OrdersOnAccount ==
    \A t \in Thread : pc[t] = "sent" /\ op[t] = "place" =>
        LET a == wire[t].account
        IN  IF pin = None THEN a \in Own
            ELSE a = pin \/ (a # None /\ pin \notin Account /\ NameOf[a] = pin)

(* Once exchanges succeed again and every token came with its expiry, an   *)
(* operation that has begun gets through, however old the token: a dead    *)
(* one is replaced by a login.                                             *)
SessionRecovers ==
    \A t \in Thread :
        (pc[t] = "fresh" /\ Connected /\ faults = MaxFaults /\ ~blind)
            ~> ((pc[t] = "idle" /\ t \notin failed) \/ blind)

=============================================================================
