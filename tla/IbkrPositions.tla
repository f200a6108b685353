---------------------------- MODULE IbkrPositions ----------------------------
(***************************************************************************)
(* brokers/ibkr_api_client.py, get_positions: several pairs whose          *)
(* followers are accounts of one Gateway login share the client, its       *)
(* accumulator and its event.  The Gateway streams the positions of every  *)
(* account to whoever asks; the reader thread files them.                  *)
(***************************************************************************)
EXTENDS Integers, Sequences, FiniteSetsExt, SequencesExt

CONSTANT Pair

VARIABLES
    folPos,     \* pair -> what its follower account holds
    stage,      \* pair -> where its reconciler's thread is
    accum,      \* _positions_accum: account -> position, 0 without a row
    event,      \* _positions_event
    stream,     \* callbacks the Gateway sent and the reader has not made
    subscribed  \* the Gateway streams changes

readerVars == <<accum, event, stream, subscribed>>

ReadersInit ==
    /\ stage = [p \in Pair |-> "idle"]
    /\ accum = [p \in Pair |-> 0]
    /\ event = FALSE
    /\ stream = <<>>
    /\ subscribed = FALSE

Row(p, held, asker) == [asker |-> asker, account |-> p, held |-> held]
End(asker) == [asker |-> asker]

\* A position that is flat has no row.
Answer(asker) ==
    LET held == SetToSeq({p \in Pair : folPos[p] # 0})
    IN  [i \in DOMAIN held |-> Row(held[i], folPos[held[i]], asker)]
          \o <<End(asker)>>

\* get_positions, up to the request
ResetAccumNot(p) ==
    /\ stage[p] = "follower"
    /\ stage' = [stage EXCEPT ![p] = "reset"]
    /\ UNCHANGED readerVars

ResetAccum(p) ==
    /\ stage[p] = "follower"
    /\ stage' = [stage EXCEPT ![p] = "reset"]
    /\ accum' = [q \in Pair |-> 0]
    /\ UNCHANGED <<event, stream, subscribed>>

Request(p) ==
    /\ stage[p] = "reset"
    /\ stage' = [stage EXCEPT ![p] = "asked"]
    /\ event' = FALSE
    /\ stream' = stream \o Answer(p)
    /\ subscribed' = TRUE
    /\ UNCHANGED accum

\* the wait ends, by positionEnd or by its timeout
Woken(p) ==
    /\ stage[p] = "asked"
    /\ stage' = [stage EXCEPT ![p] = "woken"]
    /\ UNCHANGED readerVars

\* Faulty: the subscription is left on
CancelSubscriptionNot == UNCHANGED readerVars

CancelSubscription ==
    /\ subscribed' = FALSE
    /\ UNCHANGED <<accum, event, stream>>

\* _on_position and _on_position_end, on the reader thread
Callback ==
    /\ stream # <<>>
    /\ LET message == Head(stream)
       IN  IF "account" \in DOMAIN message
           THEN /\ accum' = [accum EXCEPT ![message.account] = message.held]
                /\ UNCHANGED event
           ELSE event' = TRUE /\ UNCHANGED accum
    /\ stream' = Tail(stream)
    /\ UNCHANGED <<stage, subscribed>>

\* An account's position changes by q; subscribers are told.
Moves(p, q) ==
    /\ folPos' = [folPos EXCEPT ![p] = @ + q]
    /\ stream' = IF subscribed THEN Append(stream, Row(p, folPos'[p], p))
                 ELSE stream
    /\ UNCHANGED <<stage, accum, event, subscribed>>

=============================================================================
