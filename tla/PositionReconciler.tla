------------------------- MODULE PositionReconciler -------------------------
(***************************************************************************)
(* position_reconciler.py: per pair a timer thread that reads the source's *)
(* position, then the follower's, and compares; while orders execute at    *)
(* both accounts, replicas are lost and reads fail.                        *)
(***************************************************************************)
EXTENDS IbkrPositions, Scaling

CONSTANTS
    Ratios,     \* the ratios a pair may have, as <<numerator, denominator>>
    Tolerance,  \* allowed deviation in contracts
    Sizes,      \* sizes of the source's trades, negative for sales
    Carried,    \* positions held when the engine starts
    MaxTrades,  \* bound on the trades of a pair
    MaxFaults   \* bound on lost replicas, failed reads, timeouts

\* A ratio is a positive fraction; wiring.py leaves the tolerance at 1.0.
ASSUME ReconcilerAssumption ==
    /\ IsFiniteSet(Pair)
    /\ Ratios \subseteq (Nat \ {0}) \X (Nat \ {0})
    /\ Tolerance \in Nat \ {0}
    /\ Sizes \subseteq Int /\ Carried \subseteq Int
    /\ MaxTrades \in Nat /\ MaxFaults \in Nat

VARIABLES
    ratio,     \* pair -> its ratio
    srcPos,    \* pair -> what its source account holds
    unfilled,  \* pair -> trades still to execute, at the source and follower
    trades,    \* pair -> orders placed, those held at the start included
    named,     \* pairs whose contract the client resolved since it started
    seen,      \* pair -> the source position the pass has read
    last,      \* pair -> outcome of _last
    running,   \* pairs whose reconciler was not stopped
    faults,
    meant,     \* history: what the follower would hold in step with the source
    parted,    \* history: pairs out of step at some time in this pass
    quiet,     \* history: pairs without an execution in this pass
    excused    \* history: pairs whose pass had a timeout or a blind lookup

marketVars  == <<ratio, srcPos, unfilled, trades, named, meant>>
historyVars == <<parted, quiet, excused>>
passVars    == <<seen, last, running>>
vars == <<folPos, stage, readerVars, marketVars, passVars, faults, historyVars>>

Init ==
    /\ ReadersInit
    /\ ratio \in [Pair -> Ratios]
    /\ srcPos \in [Pair -> Carried]
    /\ folPos = [p \in Pair |-> Scaled(srcPos[p], ratio[p])]
    /\ meant = folPos
    /\ unfilled = [p \in Pair |-> [source |-> <<>>, follower |-> <<>>]]
    /\ trades = [p \in Pair |-> IF srcPos[p] = 0 THEN 0 ELSE 1]
    /\ named = {}
    /\ seen = [p \in Pair |-> 0]
    /\ last = [p \in Pair |-> "none"]
    /\ running = Pair
    /\ faults = 0
    /\ parted = {} /\ quiet = Pair /\ excused = {}

Fault == faults < MaxFaults /\ faults' = faults + 1

-----------------------------------------------------------------------------
(* The accounts.                                                           *)

InStep(p) == folPos[p] = meant[p]

\* what an execution during a pass does to the history
Executed(p) ==
    /\ quiet' = IF stage[p] = "idle" THEN quiet ELSE quiet \ {p}
    /\ parted' = IF stage[p] = "idle" \/ folPos'[p] = meant'[p]
                 THEN parted ELSE parted \cup {p}
    /\ UNCHANGED excused

\* The replica resolves the contract; it may be lost.
Place(p, q) ==
    /\ trades[p] < MaxTrades
    /\ trades' = [trades EXCEPT ![p] = @ + 1]
    /\ \/ /\ unfilled' = [unfilled EXCEPT ![p].source = Append(@, q),
                                          ![p].follower = Append(@, q)]
          /\ named' = named \cup {p}
          /\ UNCHANGED faults
       \/ /\ Fault
          /\ unfilled' = [unfilled EXCEPT ![p].source = Append(@, q)]
          /\ UNCHANGED named
    /\ UNCHANGED <<folPos, stage, readerVars, ratio, srcPos, meant, passVars,
                   historyVars>>

SourceExecutes(p) ==
    LET orders == unfilled[p].source
    IN  /\ orders # <<>>
        /\ srcPos' = [srcPos EXCEPT ![p] = @ + Head(orders)]
        /\ meant' = [meant EXCEPT ![p] = @ + Scaled(Head(orders), ratio[p])]
        /\ unfilled' = [unfilled EXCEPT ![p].source = Tail(@)]
        /\ UNCHANGED <<folPos, stage, readerVars, ratio, trades, named,
                       passVars, faults>>
        /\ Executed(p)

FollowerExecutes(p) ==
    LET orders == unfilled[p].follower
    IN  /\ orders # <<>>
        /\ Moves(p, Scaled(Head(orders), ratio[p]))
        /\ unfilled' = [unfilled EXCEPT ![p].follower = Tail(@)]
        /\ UNCHANGED <<ratio, srcPos, trades, named, meant, passVars, faults>>
        /\ Executed(p)

-----------------------------------------------------------------------------
(* A pass, check_once.                                                     *)

\* An answer that came too late for one pass is in before the next begins:
\* the interval is six times the timeout.
Begin(p) ==
    /\ stage[p] = "idle" /\ p \in running
    /\ \A i \in DOMAIN stream : stream[i].asker # p
    /\ stage' = [stage EXCEPT ![p] = "source"]
    /\ quiet' = quiet \cup {p}
    /\ parted' = IF InStep(p) THEN parted \ {p} ELSE parted \cup {p}
    /\ excused' = excused \ {p}
    /\ UNCHANGED <<folPos, readerVars, marketVars, passVars, faults>>

ReadSource(p) ==
    /\ stage[p] = "source"
    /\ stage' = [stage EXCEPT ![p] = "follower"]
    /\ seen' = [seen EXCEPT ![p] = srcPos[p]]
    /\ UNCHANGED <<folPos, readerVars, marketVars, last, running, faults,
                   historyVars>>

\* Faulty: the exception ends the thread
ReadFailsForGood(p) ==
    /\ stage[p] \in {"source", "follower"}
    /\ Fault
    /\ stage' = [stage EXCEPT ![p] = "ended"]
    /\ last' = [last EXCEPT ![p] = "inconclusive"]
    /\ UNCHANGED <<folPos, readerVars, marketVars, seen, running, historyVars>>

\* either read raises
ReadFails(p) ==
    /\ stage[p] \in {"source", "follower"}
    /\ Fault
    /\ stage' = [stage EXCEPT ![p] = "idle"]
    /\ last' = [last EXCEPT ![p] = "inconclusive"]
    /\ UNCHANGED <<folPos, readerVars, marketVars, seen, running, historyVars>>

ReadFollower(p) ==
    /\ ResetAccum(p) \/ Request(p) \/ (event /\ Woken(p))
    /\ UNCHANGED <<folPos, marketVars, passVars, faults, historyVars>>

TimesOut(p) ==
    /\ Fault
    /\ Woken(p)
    /\ excused' = excused \cup {p}
    /\ UNCHANGED <<folPos, marketVars, passVars, parted, quiet>>

Positive(x) == x > 0
Negative(x) == x < 0
Near(s, f, r) ==
    LET off == f * r[2] - s * r[1]
    IN  off <= Tolerance * r[2] /\ -off <= Tolerance * r[2]

\* Faulty: the sides are not compared
IsAlignedAnySide(s, f, r) == IF r[1] = r[2] THEN s = f ELSE Near(s, f, r)

IsAligned(s, f, r) ==
    IF r[1] = r[2] THEN s = f
    ELSE /\ Positive(s) = Positive(f)
         /\ Negative(s) = Negative(f)
         /\ Near(s, f, r)

\* A position whose symbol is not found stands alone, as unknown.
Agree(s, f, r, known) ==
    IF known THEN IsAligned(s, f, r)
    ELSE IsAligned(s, 0, r) /\ IsAligned(0, f, r)

\* The source's lookup may raise; the follower's knows what was resolved.
Compare(p) ==
    /\ stage[p] = "woken"
    /\ stage' = [stage EXCEPT ![p] = "idle"]
    /\ CancelSubscription
    /\ \E found \in IF seen[p] = 0 THEN {TRUE} ELSE BOOLEAN :
          LET known == found /\ (accum[p] = 0 \/ p \in named)
          IN  /\ IF found THEN UNCHANGED faults ELSE Fault
              /\ last' = [last EXCEPT ![p] =
                            IF Agree(seen[p], accum[p], ratio[p], known)
                            THEN "aligned" ELSE "mismatch"]
              /\ excused' = IF known THEN excused ELSE excused \cup {p}
    /\ UNCHANGED <<folPos, marketVars, seen, running, parted, quiet>>

Stop(p) ==
    /\ p \in running
    /\ running' = running \ {p}
    /\ UNCHANGED <<folPos, stage, readerVars, marketVars, seen, last, faults,
                   historyVars>>

Pass(p) == Begin(p) \/ ReadSource(p) \/ ReadFollower(p) \/ Compare(p)

Reader == Callback /\ UNCHANGED <<folPos, marketVars, passVars, faults, historyVars>>

Next ==
    \/ \E p \in Pair :
          \/ \E q \in Sizes : Place(p, q)
          \/ SourceExecutes(p) \/ FollowerExecutes(p)
          \/ Pass(p) \/ ReadFails(p) \/ TimesOut(p) \/ Stop(p)
    \/ Reader

Spec == Init /\ [][Next]_vars

FairSpec == Spec /\ WF_vars(Reader) /\ \A p \in Pair : WF_vars(Pass(p))

-----------------------------------------------------------------------------
Stages == {"idle", "source", "follower", "reset", "asked", "woken"}

(* Every variable keeps its type; the Gateway streams changes only while a
   read is under way. *)
TypeOK ==
    /\ stage \in [Pair -> Stages]
    /\ folPos \in [Pair -> Int] /\ srcPos \in [Pair -> Int]
    /\ accum \in [Pair -> Int] /\ seen \in [Pair -> Int]
    /\ event \in BOOLEAN
    /\ subscribed => \E p \in Pair : stage[p] \in {"asked", "woken"}
    /\ last \in [Pair -> {"none", "aligned", "mismatch", "inconclusive"}]
    /\ running \cup named \subseteq Pair
    /\ faults \in 0 .. MaxFaults

Compared(p) == stage[p] = "woken" /\ stage'[p] = "idle"

Exact(p) == ratio[p][1] = ratio[p][2]

(* An alarm is never about nothing, although the two accounts are read one
   after the other while they trade: the follower was out of step at some
   time in the pass that raised it.  Excused are a read that timed out, a
   symbol that was not found and, at a ratio other than one, roundings that
   added up over several orders. *)
AlarmIsReal ==
    [][\A p \in Pair :
          Compared(p) /\ last'[p] = "mismatch" =>
              \/ p \in parted \/ p \in excused'
              \/ ~Exact(p) /\ trades[p] > 1]_vars

Side(x) == IF x > 0 THEN "long" ELSE IF x < 0 THEN "short" ELSE "flat"

(* A pass during which nothing executed does not overlook a position on the
   wrong side, one left open or one never opened; at ratio one it
   overlooks nothing. *)
NothingOverlooked ==
    [][\A p \in Pair :
          Compared(p) /\ last'[p] = "aligned" /\ p \in quiet \ excused' =>
              /\ Side(srcPos[p]) = Side(folPos[p])
              /\ Exact(p) => srcPos[p] = folPos[p]]_vars

(* A divergence that stays is reported in the end, and then by every pass,
   whatever reads failed before. *)
DivergenceReported ==
    \A p \in Pair :
        <>[](Side(srcPos[p]) # Side(folPos[p])) =>
            <>[](p \notin running \/ last[p] = "mismatch")

=============================================================================
