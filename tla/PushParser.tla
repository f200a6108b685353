----------------------------- MODULE PushParser -----------------------------
(***************************************************************************)
(* brokers/tradovate_push_parser.py: the order information Tradovate       *)
(* splits over several kinds of frames, put together again.  One action    *)
(* per kind of frame handle() takes; what it returns goes to news (NEW),   *)
(* told (NEW and MODIFY) and closed (CANCEL and FILL).                     *)
(***************************************************************************)
EXTENDS Legs, SequencesExt

CONSTANTS
    MaxVer,         \* modifications of one leg
    MaxUnresolved   \* bound on contract lookups that raise

ASSUME ParserAssumption == MaxVer \in Nat /\ MaxUnresolved \in Nat

VARIABLES
    known,       \* legs whose order frame gave account, contract, action
    version,     \* leg -> number of its last orderVersion, 0 before one
    legs,        \* bracket -> its linked legs (_strategies)
    expects,     \* brackets whose params were read (_strategy_expected_legs)
    armed,       \* _strategy_armed
    placed,      \* _bracket_emitted
    emittedNew,  \* single orders emitted
    told,        \* leg -> emitted_fingerprint
    news,        \* the NEW events emitted, as <<entry, its children>>
    closed,      \* the legs a CANCEL or FILL was emitted for
    resolved,    \* the contract's name is in the client's cache
    unresolved   \* contract lookups that raised

symbolVars == <<resolved, unresolved>>
emitVars   == <<placed, emittedNew, told, news, closed>>
parserVars == <<known, version, legs, expects, armed, emitVars, symbolVars>>

ParserInit ==
    /\ known = {}
    /\ version = [leg \in Leg |-> 0]
    /\ legs = [b \in Bracket |-> <<>>]
    /\ expects = {} /\ armed = {} /\ placed = {} /\ emittedNew = {}
    /\ told = [leg \in Leg |-> 0]
    /\ news = <<>>
    /\ closed = {}
    /\ resolved = FALSE
    /\ unresolved = 0

Linked(leg) == leg[1] \in Bracket /\ leg \in ToSet(legs[leg[1]])

\* to_spec finds a side, a type and a quantity
Ready(leg) == leg \in known /\ version[leg] > 0

\* get_contract_name, whose answers the client caches
ResolveSymbol(found) ==
    \/ found /\ resolved' = TRUE /\ UNCHANGED unresolved
    \/ /\ ~found /\ ~resolved
       /\ unresolved < MaxUnresolved
       /\ unresolved' = unresolved + 1 /\ UNCHANGED resolved

-----------------------------------------------------------------------------
(* Brackets.                                                               *)

Side(leg) == IF leg \in ExitLeg THEN "exit" ELSE "entry"

\* the first leg of the minority side; a tie goes to the first leg
PickEntry(ls) ==
    LET ofSide(i) == {j \in DOMAIN ls : Side(ls[j]) = Side(ls[i])}
        minority  == {i \in DOMAIN ls :
                        \A j \in DOMAIN ls :
                            Cardinality(ofSide(i)) <= Cardinality(ofSide(j))}
    IN  ls[CHOOSE i \in minority : \A j \in minority : i <= j]

\* Faulty: the legs the strategy's params announce are not waited for
CompleteOfTwo(b) ==
    /\ b \in armed
    /\ Len(legs[b]) >= 2
    /\ \A leg \in ToSet(legs[b]) : Ready(leg)

Complete(b) ==
    /\ b \in armed
    /\ Len(legs[b]) >= 2
    /\ \A leg \in ToSet(legs[b]) : Ready(leg)
    /\ b \in expects => Len(legs[b]) >= Cardinality(LegsOf(b))

\* Faulty: a bracket that was emitted is emitted again
MaybeEmitBracketAgain(b) ==
    /\ LET ls    == legs'[b]
           entry == PickEntry(ls)
       IN  IF Complete(b)'
           THEN /\ ResolveSymbol(TRUE)
                /\ placed' = placed \cup {b}
                /\ told' = [leg \in Leg |-> IF leg \in ToSet(ls)
                                            THEN version'[leg] ELSE told[leg]]
                /\ news' = Append(news, <<entry, ToSet(ls) \ {entry}>>)
           ELSE UNCHANGED <<placed, told, news, symbolVars>>
    /\ UNCHANGED <<emittedNew, closed>>

\* called once the frame is stored, hence the primes
MaybeEmitBracket(b) ==
    /\ LET ls    == legs'[b]
           entry == PickEntry(ls)
       IN  \/ /\ b \notin placed /\ Complete(b)'
              /\ ResolveSymbol(TRUE)
              /\ placed' = placed \cup {b}
              /\ told' = [leg \in Leg |-> IF leg \in ToSet(ls)
                                          THEN version'[leg] ELSE told[leg]]
              /\ news' = Append(news, <<entry, ToSet(ls) \ {entry}>>)
           \/ /\ b \notin placed /\ Complete(b)'
              /\ ResolveSymbol(FALSE)
              /\ UNCHANGED <<placed, told, news>>
           \/ /\ b \in placed \/ ~Complete(b)'
              /\ UNCHANGED <<placed, told, news, symbolVars>>
    /\ UNCHANGED <<emittedNew, closed>>

NothingEmitted == UNCHANGED <<emitVars, symbolVars>>

-----------------------------------------------------------------------------
(* The frames.                                                             *)

OnOrder(leg) ==
    /\ known' = known \cup {leg}
    /\ UNCHANGED <<version, legs, expects, armed>>
    /\ NothingEmitted

OnOrderVersion(leg, v) ==
    /\ version' = [version EXCEPT ![leg] = v]
    /\ UNCHANGED <<known, legs, expects, armed>>
    /\ IF Linked(leg) THEN MaybeEmitBracket(leg[1]) ELSE NothingEmitted

OnStrategyLink(leg) ==
    /\ legs' = IF Linked(leg) THEN legs
               ELSE [legs EXCEPT ![leg[1]] = Append(@, leg)]
    /\ UNCHANGED <<known, version, expects, armed>>
    /\ MaybeEmitBracket(leg[1])

OnOrderStrategy(b) ==
    /\ expects' = expects \cup {b}
    /\ UNCHANGED <<known, version, legs, armed>>
    /\ MaybeEmitBracket(b)

\* _emit_new of an order outside a bracket: dropped for good when its
\* details or its symbol are missing; the symbol is looked up first
EmitSingle(leg) ==
    /\ IF leg \in emittedNew \/ leg \notin known
       THEN UNCHANGED <<emittedNew, told, news, symbolVars>>
       ELSE \E found \in BOOLEAN :
              /\ ResolveSymbol(found)
              /\ IF found /\ Ready(leg)
                 THEN /\ emittedNew' = emittedNew \cup {leg}
                      /\ told' = [told EXCEPT ![leg] = version[leg]]
                      /\ news' = Append(news, <<leg, {}>>)
                 ELSE UNCHANGED <<emittedNew, told, news>>
    /\ UNCHANGED <<armed, placed, closed>>

OnNew(leg) ==
    IF Linked(leg)
    THEN armed' = armed \cup {leg[1]} /\ MaybeEmitBracket(leg[1])
    ELSE EmitSingle(leg)

\* Faulty: a Replaced report is taken to be about the leg it names
OnReplacedNamed(leg) ==
    /\ told' = IF version[leg] > 0
               THEN [told EXCEPT ![leg] = version[leg]] ELSE told
    /\ UNCHANGED <<armed, placed, emittedNew, news, closed, symbolVars>>

\* a report names the entry whichever leg of an emitted bracket changed
OnReplaced(leg) ==
    LET changed == IF Linked(leg) /\ leg[1] \in placed
                   THEN {k \in ToSet(legs[leg[1]]) : version[k] # told[k]}
                   ELSE {k \in {leg} : version[k] > 0}
    IN  /\ told' = [k \in Leg |-> IF k \in changed THEN version[k] ELSE told[k]]
        /\ UNCHANGED <<armed, placed, emittedNew, news, closed, symbolVars>>

OnClosed(leg) ==
    /\ closed' = closed \cup {leg}
    /\ UNCHANGED <<armed, placed, emittedNew, told, news, symbolVars>>

\* reports of the account that is observed; _belongs drops the others
OnExecutionReport(leg, execType) ==
    /\ UNCHANGED <<known, version, legs, expects>>
    /\ CASE execType = "New"      -> OnNew(leg)
         [] execType = "Replaced" -> OnReplaced(leg)
         [] OTHER                 -> OnClosed(leg)

\* handle(): a frame is <<entity type, leg or bracket, version or execType>>
Handle(frame) ==
    CASE frame[1] = "order"           -> OnOrder(frame[2])
      [] frame[1] = "orderVersion"    -> OnOrderVersion(frame[2], frame[3])
      [] frame[1] = "orderStrategyLink" -> OnStrategyLink(frame[2])
      [] frame[1] = "orderStrategy"   -> OnOrderStrategy(frame[2])
      [] frame[1] = "executionReport" -> OnExecutionReport(frame[2], frame[3])

ParserTypeOK ==
    /\ known \cup emittedNew \cup closed \subseteq Leg
    /\ version \in [Leg -> 0 .. MaxVer + 1]
    /\ told \in [Leg -> 0 .. MaxVer + 1]
    /\ DOMAIN legs = Bracket
    /\ \A b \in Bracket : IsInjective(legs[b]) /\ ToSet(legs[b]) \subseteq LegsOf(b)
    /\ expects \cup armed \cup placed \subseteq Bracket
    /\ \A i \in DOMAIN news :
          news[i][1] \in Leg /\ news[i][2] \subseteq Leg
    /\ resolved \in BOOLEAN
    /\ unresolved \in 0 .. MaxUnresolved

=============================================================================
