----------------------------- MODULE WsObserver -----------------------------
(***************************************************************************)
(* brokers/tradovate_ws_observer.py: the listener thread's supervisor,     *)
(* _run_with_reconnect, and the stages of one connection.                  *)
(***************************************************************************)
EXTENDS Naturals

CONSTANTS
    Delays,       \* length of _BACKOFF_SCHEDULE
    MaxTroubles   \* bound on connections that fail or break

ASSUME ObserverAssumption == Delays \in Nat \ {0} /\ MaxTroubles \in Nat

VARIABLES
    conn,      \* where the listener thread is
    connected, \* _connected, the status light
    mute,      \* the socket is open and no frame will come on it
    attempt,   \* index of the next delay; the code counts on and caps it
    troubles

observerVars == <<conn, connected, mute, attempt, troubles>>

ObserverInit ==
    /\ conn = "top"
    /\ connected = FALSE
    /\ mute = FALSE
    /\ attempt = 0
    /\ troubles = 0

Trouble == troubles < MaxTroubles /\ troubles' = troubles + 1

Open      == conn \in {"open", "syncing", "synced"}
Listening == conn = "synced" /\ ~mute

\* Faulty: the index runs past the schedule
BackoffUncapped(from) ==
    /\ conn' = "backoff"
    /\ connected' = FALSE
    /\ mute' = FALSE
    /\ attempt' = from + 1

\* _sleep_backoff(attempt), attempt += 1
Backoff(from) ==
    /\ conn' = "backoff"
    /\ connected' = FALSE
    /\ mute' = FALSE
    /\ attempt' = IF from < Delays - 1 THEN from + 1 ELSE from

\* client.connect(), the socket, the upgrade; authorize is sent by itself
OpenSocket ==
    /\ conn = "top" /\ conn' = "open"
    /\ UNCHANGED <<connected, mute, attempt, troubles>>

ConnectFails == conn = "top" /\ Trouble /\ Backoff(attempt)

\* no token, an upgrade refused with 401 or 403, a response with status 401:
\* the last two are answers, which a mute socket does not bring
AuthExpired ==
    /\ conn \in {"top", "open", "syncing"} /\ ~mute
    /\ Trouble
    /\ conn' = "refresh"
    /\ connected' = FALSE
    /\ UNCHANGED <<mute, attempt>>

\* a refreshed token is tried at once, without a delay
Refresh ==
    /\ conn = "refresh" /\ conn' = "top"
    /\ UNCHANGED <<connected, mute, attempt, troubles>>

RefreshFails == conn = "refresh" /\ Backoff(attempt) /\ UNCHANGED troubles

\* the first array frame answers authorize; user/syncrequest goes out
Authorized ==
    /\ conn = "open" /\ ~mute /\ conn' = "syncing"
    /\ UNCHANGED <<connected, mute, attempt, troubles>>

\* _ingest_snapshot: its orders' ids are recorded and not used again
Snapshot ==
    /\ conn = "syncing" /\ ~mute /\ conn' = "synced"
    /\ connected' = TRUE
    /\ UNCHANGED <<mute, attempt, troubles>>

\* recv fails
Breaks == Open /\ Trouble /\ Backoff(attempt)

\* the server closes the socket: a clean return resets the delays
ServerCloses == Open /\ Trouble /\ Backoff(0)

\* another session of the user takes the channel over
GoesMute ==
    /\ Open /\ ~mute /\ Trouble
    /\ mute' = TRUE
    /\ UNCHANGED <<conn, connected, attempt>>

\* Faulty: the watchdog runs before the snapshot only
WatchdogUnsynced ==
    /\ conn \in {"open", "syncing"} /\ mute
    /\ Backoff(attempt)
    /\ UNCHANGED troubles

\* nothing, not even a heartbeat, for _STALE_AFTER_SECS
Watchdog ==
    /\ Open /\ mute
    /\ Backoff(attempt)
    /\ UNCHANGED troubles

Wake ==
    /\ conn = "backoff" /\ conn' = "top"
    /\ UNCHANGED <<connected, mute, attempt, troubles>>

StopObserving ==
    /\ conn # "stopped" /\ conn' = "stopped"
    /\ connected' = FALSE
    /\ mute' = FALSE
    /\ UNCHANGED <<attempt, troubles>>

\* the steps that break a connection, and lose what is in flight on it
Loses ==
    \/ ConnectFails \/ AuthExpired \/ RefreshFails
    \/ Breaks \/ ServerCloses \/ GoesMute \/ StopObserving

\* the thread's own progress
Proceeds ==
    OpenSocket \/ Refresh \/ Authorized \/ Snapshot \/ Watchdog \/ Wake

ObserverTypeOK ==
    /\ conn \in {"top", "open", "syncing", "synced", "refresh", "backoff",
                 "stopped"}
    /\ connected = (conn = "synced")
    /\ mute \in BOOLEAN /\ (mute => Open)
    /\ attempt \in 0 .. Delays - 1
    /\ troubles \in 0 .. MaxTroubles

=============================================================================
