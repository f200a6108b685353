------------------------------ MODULE PushFeed ------------------------------
(***************************************************************************)
(* A Tradovate account observed through its user-data channel: the orders  *)
(* of the account, the frames Tradovate sends about them in the order of   *)
(* captures/tradovate_frames_2026-06-14.json, the connection that carries  *)
(* or loses them (WsObserver), and the parser that makes events of them.   *)
(***************************************************************************)
EXTENDS PushParser, WsObserver

CONSTANTS
    Modifiable,   \* the legs the trader may modify
    Executable,   \* the orders the market may execute
    MaxUnread     \* frames left unread when the account moves on

VARIABLES
    src,       \* leg -> its state at Tradovate
    srcVer,    \* leg -> number of its details
    replacing, \* legs modified, whose Replaced report is still to come
    channel,   \* frames sent and not yet read
    gap        \* history: frames were lost

accountVars == <<src, srcVer, replacing>>
pushVars == <<parserVars, observerVars, accountVars, channel, gap>>

PushInit ==
    /\ ParserInit
    /\ ObserverInit
    /\ src = [leg \in Leg |-> "none"]
    /\ srcVer = [leg \in Leg |-> 0]
    /\ replacing = {}
    /\ channel = <<>>
    /\ gap = FALSE

-----------------------------------------------------------------------------
(* The account and its frames.                                             *)

Alive(leg) == src[leg] \in {"suspended", "working"}

\* Frames reach the socket while the channel is up, and are lost otherwise.
SendFrames(frames) ==
    /\ Len(channel) <= MaxUnread
    /\ IF Listening THEN channel' = channel \o frames /\ UNCHANGED gap
       ELSE gap' = TRUE /\ UNCHANGED channel
    /\ UNCHANGED <<parserVars, observerVars>>

\* a frame that is sent on a condition
Due(sent, frame) == IF sent THEN << frame >> ELSE <<>>

OrderFrame(leg)         == <<"order", leg>>
VersionFrame(leg, v)    == <<"orderVersion", leg, v>>
LinkFrame(leg)          == <<"orderStrategyLink", leg>>
StrategyFrame(b)        == <<"orderStrategy", b>>
Report(leg, execType)   == <<"executionReport", leg, execType>>

PlaceEntry(o) ==
    LET entry == Entry(o)
    IN  /\ src[entry] = "none"
        /\ src' = [src EXCEPT ![entry] = "working"]
        /\ srcVer' = [srcVer EXCEPT ![entry] = 1]
        /\ UNCHANGED replacing
        /\ SendFrames(
              IF o \in Bracket
              THEN << StrategyFrame(o), OrderFrame(entry), VersionFrame(entry, 1),
                      LinkFrame(entry), Report(entry, "New") >>
              ELSE << OrderFrame(entry), VersionFrame(entry, 1), Report(entry, "New") >>)

\* Tradovate adds the exits once the entry is accepted; an exit is
\* suspended, without reports, until the entry fills
AddExits(b) ==
    LET filled   == src[Entry(b)] = "Filled"
        state    == IF filled THEN "working" ELSE "suspended"
        frames(leg) == << OrderFrame(leg), VersionFrame(leg, 1), LinkFrame(leg) >>
                         \o Due(filled, Report(leg, "New"))
    IN  /\ src[Entry(b)] \in {"working", "Filled"}
        /\ \A leg \in Exits(b) : src[leg] = "none"
        /\ src' = [leg \in Leg |-> IF leg \in Exits(b) THEN state ELSE src[leg]]
        /\ srcVer' = [leg \in Leg |-> IF leg \in Exits(b) THEN 1 ELSE srcVer[leg]]
        /\ UNCHANGED replacing
        /\ SendFrames(frames(<<b, "LMT">>) \o frames(<<b, "STP">>))

\* The entry's details are sent again with those of a leg that changed.
Modify(leg) ==
    LET entry == EntryOf(leg)
        again == Due(leg # entry /\ Alive(entry), VersionFrame(entry, srcVer[entry]))
    IN  /\ leg \in Modifiable /\ Alive(leg) /\ srcVer[leg] <= MaxVer
        /\ srcVer' = [srcVer EXCEPT ![leg] = @ + 1]
        /\ replacing' = replacing \cup {leg}
        /\ UNCHANGED src
        /\ SendFrames(again \o << VersionFrame(leg, srcVer[leg] + 1) >>)

\* The report names the entry as long as there is one.
Replaced(leg) ==
    /\ leg \in replacing
    /\ replacing' = replacing \ {leg}
    /\ UNCHANGED <<src, srcVer>>
    /\ SendFrames(<< Report(IF Alive(EntryOf(leg)) THEN EntryOf(leg) ELSE leg,
                            "Replaced") >>)

\* leg ends by state how, and the legs its strategy holds with it.
End(leg, how) ==
    LET dragged == IF leg[1] \notin Bracket THEN {}
                   ELSE {k \in LegsOf(leg[1]) \ {leg} :
                           Alive(k) /\ (leg \in ExitLeg \/ how = "Canceled")}
        \* only an order at the exchange is reported cancelled
        report(k) == Due(k \in dragged /\ src[k] = "working", Report(k, "Canceled"))
    IN  /\ src' = [k \in Leg |-> IF k = leg \/ k \in dragged THEN how ELSE src[k]]
        /\ replacing' = replacing \ ({leg} \cup dragged)
        /\ UNCHANGED srcVer
        /\ SendFrames(<< Report(leg, how) >> \o report(<<leg[1], "ENTRY">>)
                      \o report(<<leg[1], "LMT">>) \o report(<<leg[1], "STP">>))

Cancel(leg) == src[leg] = "working" /\ End(leg, "Canceled")

FillExit(leg) == leg \in ExitLeg /\ src[leg] = "working" /\ End(leg, "Filled")

\* The exits go to the exchange when the entry fills.
FillEntry(o) ==
    LET entry   == Entry(o)
        exits   == {k \in LegsOf(o) : src[k] = "suspended"}
        report(k) == Due(k \in exits, Report(k, "New"))
    IN  /\ o \in Executable /\ src[entry] = "working"
        /\ src' = [k \in Leg |-> IF k = entry THEN "Filled"
                                 ELSE IF k \in exits THEN "working"
                                 ELSE src[k]]
        /\ replacing' = replacing \ {entry}
        /\ UNCHANGED srcVer
        /\ SendFrames(<< Report(entry, "Filled") >>
                      \o report(<<o, "LMT">>) \o report(<<o, "STP">>))

-----------------------------------------------------------------------------
(* The listener thread.                                                    *)

Deliver ==
    /\ conn = "synced" /\ channel # <<>>
    /\ \E frame \in {Head(channel)} : Handle(frame)
    /\ channel' = Tail(channel)
    /\ UNCHANGED <<observerVars, accountVars, gap>>

\* Frames that came before the silence are still read.
Proceed ==
    /\ Proceeds
    /\ mute => channel = <<>>
    /\ UNCHANGED <<parserVars, accountVars, channel, gap>>

Lose ==
    /\ Loses
    /\ IF GoesMute THEN UNCHANGED <<channel, gap>>
       ELSE channel' = <<>> /\ gap' = (gap \/ channel # <<>>)
    /\ UNCHANGED <<parserVars, accountVars>>

AccountMoves ==
    \/ \E o \in Order : PlaceEntry(o) \/ FillEntry(o)
    \/ \E b \in Bracket : AddExits(b)
    \/ \E leg \in Leg : Modify(leg) \/ Replaced(leg) \/ Cancel(leg) \/ FillExit(leg)

\* What the account does once nobody observes it is of no interest.
PushNext ==
    \/ conn # "stopped" /\ AccountMoves
    \/ Deliver \/ Proceed \/ Lose

PushSpec == PushInit /\ [][PushNext]_pushVars

PushFairSpec == PushSpec /\ WF_pushVars(Proceed) /\ WF_pushVars(Deliver)

-----------------------------------------------------------------------------
(* Every variable keeps its type; the status light is on exactly while a
   connection is synced. *)
FeedTypeOK ==
    /\ ParserTypeOK
    /\ ObserverTypeOK
    /\ src \in [Leg -> {"none", "suspended", "working", "Filled", "Canceled"}]
    /\ srcVer \in [Leg -> 0 .. MaxVer + 1]
    /\ replacing \subseteq Leg
    /\ gap \in BOOLEAN

LegsIn(new) == {new[1]} \cup new[2]

Announced(leg) == Cardinality({i \in DOMAIN news : leg \in LegsIn(news[i])})

\* What was emitted, as the abstract feed sees it.
Feed == INSTANCE OrderFeed WITH
    Watched   <- Leg,
    Version   <- 0 .. MaxVer + 1,
    announced <- [leg \in Leg |-> Announced(leg)],
    carried   <- told

(* The parser is an order feed, whatever frames a lost connection swallowed:
   no leg is announced twice and no leg's details go back. *)
FeedImplemented == Feed!FeedSpec

Whole(new) ==
    LET o == new[1][1]
    IN  new[1] = Entry(o) /\ LegsIn(new) = LegsOf(o)

(* With no frame lost a bracket is announced as a bracket: its entry in the
   lead and both exits with it, however the exits' frames, modifications and
   the entry's execution interleave. *)
BracketWhole == ~gap => \A i \in DOMAIN news : Whole(news[i])

(* With no frame lost and every contract resolved the events lead where the
   account is: each leg is announced, with the details it has, and the
   attribution of Replaced reports has found the leg that changed. *)
FollowsAccount ==
    channel = <<>> /\ ~gap /\ unresolved = 0 =>
        \A leg \in Leg : Alive(leg) =>
            LET exitsKnown == leg[1] \in Bracket =>
                                \A k \in Exits(leg[1]) : src[k] # "none"
            IN  exitsKnown =>
                  /\ Announced(leg) = 1
                  /\ leg \notin replacing => told[leg] = srcVer[leg]

(* The observer comes back: once the troubles end it is listening for good,
   though a broken channel may still have its socket open. *)
Recovers == <>[](Listening \/ conn = "stopped")

=============================================================================
