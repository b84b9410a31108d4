-------------------------------- MODULE Webhooks --------------------------------
(***************************************************************************)
(* Lifecycle webhooks (internal/webhooks, persistWebhookOutcomes of both   *)
(* binaries, internal/db/webhook_*.go, internal/handlers/webhook_replays.go): *)
(* an event is sent to every URL in turn, every outcome is recorded, every *)
(* failure queued for a replay that people and agents ask for, one by one  *)
(* or in bulk.  One step per request to a target and per statement.        *)
(* A target and its network are outside the program.                       *)
(*                                                                         *)
(* An event is sent to a target once and has at most one replay row there, *)
(* which is named by the two.  Of next_attempt_at only whether it is set   *)
(* is kept, because no statement of the program compares it.  The rows a   *)
(* replay refuses (a payload that is no JSON, a target that is no URL) are *)
(* never written by the program.                                           *)
(***************************************************************************)
EXTENDS Integers, FiniteSets, Sequences

CONSTANTS
    Null,
    EventIds,    \* the ids of events
    Urls,        \* APP_WEBHOOK_URLS, in order
    Emitters,    \* processes and requests that publish
    Replayers,   \* replay requests that can be in progress at the same time
    Backoffs,    \* length of webhookReplayBackoff
    MaxReplays,  \* bound: replay and cancel requests
    MaxFaults    \* bound: failing statements and crashes

Targets == {Urls[i] : i \in DOMAIN Urls}
Keys == EventIds \X Targets

ASSUME WebhooksAssumption ==
    /\ EventIds \subseteq Nat \ {0}
    /\ Null \notin EventIds
    /\ Urls \in Seq(Targets)
    /\ Urls # <<>>
    /\ \A i, j \in DOMAIN Urls : Urls[i] = Urls[j] => i = j
    /\ IsFiniteSet(Replayers)
    /\ Backoffs \in Nat
    /\ MaxReplays \in Nat
    /\ MaxFaults \in Nat

VARIABLES
    lastEvent,   \* the last event id handed out
    deliveries,  \* table webhook_deliveries: the rows of each event and target
    replays,     \* table webhook_replays: a row, or Null
    emitters,    \* the local variables of Emit and persistWebhookOutcomes
    replayers,   \* the local variables of each replay request
    begun,       \* replay and cancel requests so far
    faults,      \* faults so far
    received,    \* history: what arrived, by event and target
    spoiled      \* history: where a statement has failed or a process stopped

tables == <<deliveries, replays>>
bounds == <<begun, faults>>
vars == <<lastEvent, tables, emitters, replayers, bounds, received, spoiled>>

ReplayStatus == {"queued", "delivered", "failed", "cancelled"}
Payload == {"event", "empty"}

Row == [status : ReplayStatus, count : Nat, next : BOOLEAN, payload : Payload]
ASSUME NoRowAssumption == Null \notin Row /\ Null \notin Keys

\* What becomes of a request to a target: it answers 2xx; it refuses or is not
\* reached; or it takes the event and its answer is lost (4 seconds pass).
Outcomes == {"ok", "refused", "lost"}

Emitter ==
    [pc        : {"idle", "deliver", "record", "queue"},
     event     : EventIds \cup {Null},
     at        : DOMAIN Urls,             \* the outcome in hand
     delivered : SUBSET DOMAIN Urls]      \* the URLs that answered 2xx
NoEmitter == [pc |-> "idle", event |-> Null, at |-> 1, delivered |-> {}]

Replayer ==
    [pc   : {"idle", "next", "get", "deliver", "record", "update"},
     todo : SUBSET Keys,                  \* what a bulk replay has still to do
     key  : Keys \cup {Null},
     row  : Row \cup {Null},              \* the row as it was read
     ok   : BOOLEAN]                      \* the target answered 2xx
NoReplayer == [pc |-> "idle", todo |-> {}, key |-> Null, row |-> Null, ok |-> FALSE]

TypeOK ==
    /\ lastEvent \in Nat
    /\ deliveries \in [Keys -> Nat]
    /\ replays \in [Keys -> Row \cup {Null}]
    /\ emitters \in [Emitters -> Emitter]
    /\ replayers \in [Replayers -> Replayer]
    /\ begun \in Nat
    /\ faults \in Nat
    /\ received \in [Keys -> SUBSET Payload]
    /\ spoiled \subseteq Keys

Init ==
    /\ lastEvent = 0
    /\ deliveries = [k \in Keys |-> 0]
    /\ replays = [k \in Keys |-> Null]
    /\ emitters = [w \in Emitters |-> NoEmitter]
    /\ replayers = [h \in Replayers |-> NoReplayer]
    /\ begun = 0
    /\ faults = 0
    /\ received = [k \in Keys |-> {}]
    /\ spoiled = {}

-------------------------------------------------------------------------------
(***************************************************************************)
(* Statements and requests.                                                *)
(***************************************************************************)
InsertWebhookDelivery(k) == deliveries' = [deliveries EXCEPT ![k] = deliveries[k] + 1]

\* Mutant: a status that is not one of a replay's.
InsertWebhookReplayPending(k, payload) ==
    replays' = [replays EXCEPT
        ![k] = [status |-> "pending", count |-> 0, next |-> FALSE, payload |-> payload]]

InsertWebhookReplay(k, payload) ==
    replays' = [replays EXCEPT
        ![k] = [status |-> "queued", count |-> 0, next |-> FALSE, payload |-> payload]]

\* Mutant: the attempts are counted by the program, from the row it has read.
UpdateWebhookReplayCounted(k, row, status, next) ==
    replays' = [replays EXCEPT
        ![k] = [replays[k] EXCEPT !.status = status,
                                  !.count = row.count + 1,
                                  !.next = next]]

\* UpdateWebhookReplayAfterAttempt, which counts in the statement and has no use
\* for the row as it was read.
UpdateWebhookReplayAfterAttempt(k, row, status, next) ==
    replays' = [replays EXCEPT
        ![k] = [replays[k] EXCEPT !.status = status,
                                  !.count = replays[k].count + 1,
                                  !.next = next]]

\* UpdateWebhookReplayStatus as CancelWebhookReplay calls it.
UpdateWebhookReplayStatus(k, status) ==
    replays' = [replays EXCEPT ![k] = [replays[k] EXCEPT !.status = status,
                                                         !.next = FALSE]]

\* buildWebhookDeadLetterQuery, which lists and alerts count.
IsDeadLetter(k, minAttempts) ==
    /\ replays[k] # Null
    /\ replays[k].status = "failed"
    /\ ~replays[k].next
    /\ replays[k].count >= minAttempts

\* Mutant: one backoff less.
NextAttemptShort(count) == count + 1 < Backoffs

\* computeWebhookReplayNextAttempt: whether there is one.
NextAttempt(count) == count < Backoffs

\* deliver, up to the network: what the target gets.
Arrives(k, payload, outcome) ==
    received' = IF outcome = "refused" THEN received
                ELSE [received EXCEPT ![k] = received[k] \cup {payload}]

-------------------------------------------------------------------------------
(***************************************************************************)
(* Emit and persistWebhookOutcomes.                                        *)
(***************************************************************************)
KeyOf(e, i) == <<e.event, Urls[i]>>

\* The next outcome, or the end of the loop.
NextOutcome(e) ==
    IF e.at = Len(Urls) THEN NoEmitter
    ELSE [e EXCEPT !.pc = "record", !.at = e.at + 1]

Goes(w, e) == emitters' = [emitters EXCEPT ![w] = e]

\* Emit makes the id of the event.
Emit(w) ==
    /\ emitters[w].pc = "idle"
    /\ lastEvent + 1 \in EventIds
    /\ lastEvent' = lastEvent + 1
    /\ Goes(w, [NoEmitter EXCEPT !.pc = "deliver", !.event = lastEvent + 1])
    /\ UNCHANGED <<tables, replayers, bounds, received, spoiled>>

\* One URL of its loop.
Deliver(w) ==
    LET e == emitters[w]
    IN /\ e.pc = "deliver"
       /\ \E outcome \in Outcomes :
             LET delivered == e.delivered \cup {i \in {e.at} : outcome = "ok"}
             IN /\ Arrives(KeyOf(e, e.at), "event", outcome)
                /\ Goes(w, IF e.at < Len(Urls)
                           THEN [e EXCEPT !.at = e.at + 1, !.delivered = delivered]
                           ELSE [e EXCEPT !.pc = "record", !.at = 1,
                                          !.delivered = delivered])
       /\ UNCHANGED <<lastEvent, tables, replayers, bounds, spoiled>>

\* The first half of the body of persistWebhookOutcomes.
Record(w) ==
    LET e == emitters[w]
    IN /\ e.pc = "record"
       /\ InsertWebhookDelivery(KeyOf(e, e.at))
       /\ Goes(w, IF e.at \in e.delivered THEN NextOutcome(e)
                                          ELSE [e EXCEPT !.pc = "queue"])
       /\ UNCHANGED <<lastEvent, replays, replayers, bounds, received, spoiled>>

\* The payload of the replay: Emit leaves DeliveryOutcome.Payload unset, which
\* persistWebhookOutcomes stores as {}.
OutcomePayload == "empty"

\* The second half.
Queue(w) ==
    LET e == emitters[w]
    IN /\ e.pc = "queue"
       /\ InsertWebhookReplay(KeyOf(e, e.at), OutcomePayload)
       /\ Goes(w, NextOutcome(e))
       /\ UNCHANGED <<lastEvent, deliveries, replayers, bounds, received, spoiled>>

\* A statement fails: the outcome is logged and passed over, stored or not (both
\* functions read the row back that they have inserted).
OutcomeFails(w) ==
    LET e == emitters[w]
        k == KeyOf(e, e.at)
    IN /\ e.pc \in {"record", "queue"}
       /\ faults < MaxFaults
       /\ faults' = faults + 1
       /\ spoiled' = spoiled \cup {k}
       /\ \/ UNCHANGED tables
          \/ e.pc = "record" /\ InsertWebhookDelivery(k) /\ UNCHANGED replays
          \/ e.pc = "queue" /\ InsertWebhookReplay(k, OutcomePayload) /\ UNCHANGED deliveries
       /\ Goes(w, NextOutcome(e))
       /\ UNCHANGED <<lastEvent, replayers, begun, received>>

\* The process stops, or the request it serves is cancelled.
EmitterStops(w) ==
    LET e == emitters[w]
    IN /\ e.pc # "idle"
       /\ faults < MaxFaults
       /\ faults' = faults + 1
       /\ spoiled' = spoiled \cup
             {KeyOf(e, i) : i \in {j \in DOMAIN Urls : e.pc = "deliver" \/ j >= e.at}}
       /\ Goes(w, NoEmitter)
       /\ UNCHANGED <<lastEvent, tables, replayers, begun, received>>

-------------------------------------------------------------------------------
(***************************************************************************)
(* Replays.                                                                *)
(***************************************************************************)
Replays(h, s) == replayers' = [replayers EXCEPT ![h] = s]

\* The next replay of a bulk request, or the end.
NextReplay(s) ==
    IF s.todo = {} THEN NoReplayer
    ELSE [NoReplayer EXCEPT !.pc = "next", !.todo = s.todo]

\* APIReplayWebhook and ReplayWebhook.
ReplayWebhook(h, k) ==
    /\ replayers[h].pc = "idle"
    /\ begun < MaxReplays
    /\ replays[k] # Null
    /\ begun' = begun + 1
    /\ Replays(h, [NoReplayer EXCEPT !.pc = "get", !.key = k])
    /\ UNCHANGED <<lastEvent, tables, emitters, faults, received, spoiled>>

\* APIReplayFailedWebhooks and ReplayFailedWebhooks: ListWebhookReplays finds the
\* failed rows the filter and the limit leave, all at once.
ReplayFailedWebhooks(h) ==
    /\ replayers[h].pc = "idle"
    /\ begun < MaxReplays
    /\ begun' = begun + 1
    /\ \E todo \in SUBSET {k \in Keys : replays[k] # Null /\ replays[k].status = "failed"} :
          /\ todo # {}
          /\ Replays(h, [NoReplayer EXCEPT !.pc = "next", !.todo = todo])
    /\ UNCHANGED <<lastEvent, tables, emitters, faults, received, spoiled>>

\* One turn of their loop.
PickReplay(h) ==
    LET s == replayers[h]
    IN /\ s.pc = "next"
       /\ \E k \in s.todo :
             Replays(h, [NoReplayer EXCEPT !.pc = "get", !.todo = s.todo \ {k}, !.key = k])
       /\ UNCHANGED <<lastEvent, tables, emitters, bounds, received, spoiled>>

\* Mutant: the row is replayed whatever it says.
GetAnyWebhookReplay(h) ==
    LET s == replayers[h]
    IN /\ s.pc = "get"
       /\ Replays(h, [s EXCEPT !.pc = "deliver", !.row = replays[s.key]])
       /\ UNCHANGED <<lastEvent, tables, emitters, bounds, received, spoiled>>

\* The head of replayWebhookByID: a cancelled replay is refused.
GetWebhookReplay(h) ==
    LET s == replayers[h]
    IN /\ s.pc = "get"
       /\ Replays(h, IF replays[s.key].status = "cancelled" THEN NextReplay(s)
                     ELSE [s EXCEPT !.pc = "deliver", !.row = replays[s.key]])
       /\ UNCHANGED <<lastEvent, tables, emitters, bounds, received, spoiled>>

\* Its Emit to one URL, with the payload that was stored.
Redeliver(h) ==
    LET s == replayers[h]
    IN /\ s.pc = "deliver"
       /\ \E outcome \in Outcomes :
             /\ Arrives(s.key, s.row.payload, outcome)
             /\ Replays(h, [s EXCEPT !.pc = "record", !.ok = (outcome = "ok")])
       /\ UNCHANGED <<lastEvent, tables, emitters, bounds, spoiled>>

RecordReplay(h) ==
    LET s == replayers[h]
    IN /\ s.pc = "record"
       /\ InsertWebhookDelivery(s.key)
       /\ Replays(h, [s EXCEPT !.pc = "update"])
       /\ UNCHANGED <<lastEvent, replays, emitters, bounds, received, spoiled>>

\* Mutant: a replay whose delivery could be recorded is taken for delivered.
StatusAlwaysDelivered(s) == "delivered"

StatusAfter(s) == IF s.ok THEN "delivered" ELSE "failed"

\* What is written at its end; the next attempt comes from the count that was read
\* at its head.
WriteResult(s) ==
    UpdateWebhookReplayAfterAttempt(s.key, s.row, StatusAfter(s),
                                    ~s.ok /\ NextAttempt(s.row.count))

UpdateReplay(h) ==
    LET s == replayers[h]
    IN /\ s.pc = "update"
       /\ WriteResult(s)
       /\ Replays(h, NextReplay(s))
       /\ UNCHANGED <<lastEvent, deliveries, emitters, bounds, received, spoiled>>

\* A statement fails, stored or not: the replay goes on when it was the delivery's,
\* and ends with an error otherwise.
ReplayFails(h) ==
    LET s == replayers[h]
    IN /\ s.pc \in {"get", "record", "update"}
       /\ faults < MaxFaults
       /\ faults' = faults + 1
       /\ spoiled' = spoiled \cup {s.key}
       /\ \/ UNCHANGED tables
          \/ s.pc = "record" /\ InsertWebhookDelivery(s.key) /\ UNCHANGED replays
          \/ s.pc = "update" /\ WriteResult(s) /\ UNCHANGED deliveries
       /\ Replays(h, IF s.pc = "record" THEN [s EXCEPT !.pc = "update"] ELSE NextReplay(s))
       /\ UNCHANGED <<lastEvent, emitters, begun, received>>

\* The server stops, or the client goes away.
ReplayerStops(h) ==
    LET s == replayers[h]
    IN /\ s.pc # "idle"
       /\ faults < MaxFaults
       /\ faults' = faults + 1
       /\ spoiled' = spoiled \cup (Keys \cap {s.key})
       /\ Replays(h, NoReplayer)
       /\ UNCHANGED <<lastEvent, tables, emitters, begun, received>>

\* APICancelWebhookReplay and CancelWebhookReplay, whatever the row says.
CancelWebhookReplay(k) ==
    /\ begun < MaxReplays
    /\ replays[k] # Null
    /\ begun' = begun + 1
    /\ UpdateWebhookReplayStatus(k, "cancelled")
    /\ UNCHANGED <<lastEvent, deliveries, emitters, replayers, faults, received, spoiled>>

-------------------------------------------------------------------------------
Next ==
    \/ \E w \in Emitters :
          \/ Emit(w)
          \/ Deliver(w)
          \/ Record(w)
          \/ Queue(w)
          \/ OutcomeFails(w)
          \/ EmitterStops(w)
    \/ \E h \in Replayers :
          \/ \E k \in Keys : ReplayWebhook(h, k)
          \/ ReplayFailedWebhooks(h)
          \/ PickReplay(h)
          \/ GetWebhookReplay(h)
          \/ Redeliver(h)
          \/ RecordReplay(h)
          \/ UpdateReplay(h)
          \/ ReplayFails(h)
          \/ ReplayerStops(h)
    \/ \E k \in Keys : CancelWebhookReplay(k)

Spec == Init /\ [][Next]_vars

-------------------------------------------------------------------------------
(***************************************************************************)
(* Properties.                                                             *)
(***************************************************************************)
\* Emit and persistWebhookOutcomes are through with the event.
IsDealtWith(event) ==
    event <= lastEvent /\ \A w \in Emitters : emitters[w].event # event

\* No event gets lost between its delivery and the replay queue, nor in a replay:
\* every target has got something of it, be it a replay without the payload, or has
\* a replay that is not marked delivered, whatever replays and cancels overlap.
\* Where a statement has failed or a process has stopped nothing is said: an outcome
\* that is not stored is lost.
NothingLost ==
    \A k \in Keys \ spoiled :
        IsDealtWith(k[1]) =>
            received[k] # {} \/ (replays[k] # Null /\ replays[k].status # "delivered")

\* The two tables agree however replays of one row overlap: every recorded
\* delivery but the first is a counted attempt, and the other way round, unless a
\* statement failed; a replay that has recorded its delivery has yet to count it.
\* (The deliveries of a row are those that its replays have made.  The tables do not
\* say which: Emit gives a replay an event id of its own, and only the local
\* variables of replayWebhookByID have both.)
AttemptsAgree ==
    \A k \in Keys \ spoiled :
        replays[k] # Null =>
            deliveries[k] = 1 + replays[k].count
                + Cardinality({h \in Replayers : /\ replayers[h].key = k
                                                 /\ replayers[h].pc = "update"})

\* Whatever minimum the list of dead letters is asked for, it holds no row that was
\* not tried once more than there are backoffs, although the decision to give up is
\* made from a count that may be old.
DeadLettersWereTried ==
    \A k \in Keys : IsDeadLetter(k, 1) => replays[k].count > Backoffs

\* The row of k is left alone, or gets the result of a replay that had read it
\* before it was cancelled.
RestsOrWasInFlight(k) ==
    \/ replays'[k] = replays[k]
    \/ \E h \in Replayers : /\ replayers[h].key = k
                            /\ replayers[h].pc = "update"
                            /\ replayers[h].row.status # "cancelled"
                            /\ replayers'[h] # replayers[h]

\* A cancelled replay stays cancelled, but for the one whose request was already
\* at its target when it was cancelled: that one's result is written over it.
CancelHolds ==
    [][\A k \in Keys :
          replays[k] # Null /\ replays[k].status = "cancelled" => RestsOrWasInFlight(k)]_vars

\* What a target gets, at first or from a replay, is the payload of the event.
PayloadArrives == \A k \in Keys : received[k] \subseteq {"event"}
================================================================================
