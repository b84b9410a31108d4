----------------------------- MODULE WebhooksProofs -----------------------------
(***************************************************************************)
(* Webhooks for any number of events, targets, emitters and overlapping    *)
(* replays: that no event is lost between delivery and replay queue, that  *)
(* deliveries and attempts agree, and when a replay is a dead letter.      *)
(***************************************************************************)
EXTENDS Webhooks, FiniteSetTheorems, TLAPS

\* A target has the event, or a replay can bring it there.
Settled(k) == received[k] # {} \/ (replays[k] # Null /\ replays[k].status # "delivered")

\* The i-th outcome has not been stored yet.
Open(e, i) == e.pc = "deliver" \/ i >= e.at

OutcomeOK(e, i) ==
    LET k == KeyOf(e, i)
    IN /\ i \in e.delivered => received[k] # {}
       /\ ~Open(e, i) => Settled(k) \/ k \in spoiled
       /\ Open(e, i) => replays[k] = Null
       /\ Open(e, i) /\ k \notin spoiled =>
             deliveries[k] = IF e.pc = "queue" /\ i = e.at THEN 1 ELSE 0

\* What a process that emits an event can rely on.
EmitterOK(e) ==
    /\ e.pc = "idle" => e.event = Null
    /\ e.pc # "idle" => /\ e.event \in EventIds
                        /\ e.event <= lastEvent
                        /\ \A i \in DOMAIN Urls : OutcomeOK(e, i)

\* What a replay request can rely on: its rows stay, and count upwards.
ReplayerOK(s) ==
    /\ \A k \in s.todo : replays[k] # Null
    /\ s.pc \notin {"idle", "next"} => s.key \in Keys /\ replays[s.key] # Null
    /\ s.pc \in {"deliver", "record", "update"} =>
          /\ s.row \in Row
          /\ s.row.status # "cancelled"
          /\ s.row.count <= replays[s.key].count
    /\ s.pc \in {"record", "update"} /\ s.ok => received[s.key] # {}

EmittersOK == \A w \in Emitters : EmitterOK(emitters[w])
ReplayersOK == \A h \in Replayers : ReplayerOK(replayers[h])

\* No two processes emit the same event.
EventsApart ==
    \A v, w \in Emitters :
        v # w /\ emitters[v].pc # "idle" => emitters[v].event # emitters[w].event

FutureUntouched ==
    \A k \in Keys : k[1] > lastEvent => replays[k] = Null /\ deliveries[k] = 0

CancelledRests ==
    \A k \in Keys : replays[k] # Null /\ replays[k].status = "cancelled" => ~replays[k].next

\* The replays of k that have recorded their delivery and not counted it.
Counting(k) == {h \in Replayers : replayers[h].key = k /\ replayers[h].pc = "update"}

IInv ==
    /\ TypeOK
    /\ EmittersOK
    /\ ReplayersOK
    /\ EventsApart
    /\ FutureUntouched
    /\ CancelledRests
    /\ NothingLost
    /\ AttemptsAgree
    /\ DeadLettersWereTried

-------------------------------------------------------------------------------
(***************************************************************************)
(* Keys, and what survives a step.                                         *)
(***************************************************************************)
LEMMA UrlsFacts ==
    /\ Len(Urls) \in Nat
    /\ DOMAIN Urls = 1 .. Len(Urls)
    /\ 1 \in DOMAIN Urls
  BY WebhooksAssumption

LEMMA KeysOfEvents ==
    ASSUME NEW e, e.event \in EventIds
    PROVE  /\ \A i \in DOMAIN Urls : KeyOf(e, i) \in Keys /\ KeyOf(e, i)[1] = e.event
           /\ \A i, j \in DOMAIN Urls : KeyOf(e, i) = KeyOf(e, j) => i = j
           /\ \A k \in Keys : k[1] = e.event => \E i \in DOMAIN Urls : k = KeyOf(e, i)
  BY WebhooksAssumption DEF KeyOf, Keys, Targets

\* Rows of the replay table do not vanish, count upwards and never unsettle.
Forward ==
    /\ \A k \in Keys : received[k] \subseteq received'[k]
    /\ spoiled \subseteq spoiled'
    /\ \A k \in Keys : Settled(k) => Settled(k)'
    /\ \A k \in Keys : replays[k] # Null =>
          replays'[k] # Null /\ replays[k].count <= replays'[k].count

LEMMA EmitterStillOK ==
    ASSUME NEW e \in Emitter, EmitterOK(e), Forward, lastEvent \in Nat, lastEvent' \in Nat,
           lastEvent <= lastEvent',
           \A k \in Keys : (k[1] = e.event /\ replays[k] = Null) =>
              replays'[k] = Null /\ deliveries'[k] = deliveries[k]
    PROVE  EmitterOK(e)'
  <1>1. CASE e.pc = "idle"
    BY <1>1 DEF EmitterOK
  <1>2. CASE e.pc # "idle"
    <2>1. e.event \in EventIds /\ e.event <= lastEvent
      BY <1>2 DEF EmitterOK
    <2>2. e.event <= lastEvent'
      <3>1. e.event \in Nat
        BY <2>1, WebhooksAssumption
      <3> QED BY <2>1, <3>1
    <2>3. ASSUME NEW i \in DOMAIN Urls PROVE OutcomeOK(e, i)'
      <3>1. PICK k \in Keys : k = KeyOf(e, i) /\ k[1] = e.event
        BY <2>1, KeysOfEvents
      <3>2. OutcomeOK(e, i)
        BY <1>2 DEF EmitterOK
      <3>3. /\ i \in e.delivered => received'[k] # {}
            /\ ~Open(e, i) => Settled(k)' \/ k \in spoiled'
            /\ Open(e, i) => replays'[k] = Null
            /\ Open(e, i) /\ k \notin spoiled' =>
                  deliveries'[k] = IF e.pc = "queue" /\ i = e.at THEN 1 ELSE 0
        BY <3>1, <3>2 DEF OutcomeOK, Forward
      <3> QED BY <3>1, <3>3 DEF OutcomeOK, Open, KeyOf, Settled
    <2> QED BY <1>2, <2>1, <2>2, <2>3 DEF EmitterOK
  <1> QED BY <1>1, <1>2

LEMMA ReplayerStillOK ==
    ASSUME NEW s \in Replayer, ReplayerOK(s), Forward,
           replays \in [Keys -> Row \cup {Null}], replays' \in [Keys -> Row \cup {Null}]
    PROVE  ReplayerOK(s)'
  <1>1. \A k \in s.todo : replays'[k] # Null
    BY DEF Replayer, ReplayerOK, Forward
  <1>2. s.pc \notin {"idle", "next"} =>
           s.key \in Keys /\ replays[s.key] # Null /\ replays'[s.key] # Null
    BY DEF ReplayerOK, Forward
  <1>3. s.pc \in {"deliver", "record", "update"} => s.row.count <= replays'[s.key].count
    <2> SUFFICES ASSUME s.pc \in {"deliver", "record", "update"}
                 PROVE  s.row.count <= replays'[s.key].count
      OBVIOUS
    <2>1. /\ s.row.count \in Nat
          /\ replays[s.key].count \in Nat
          /\ replays'[s.key].count \in Nat
      BY <1>2 DEF ReplayerOK, Row
    <2>2. s.row.count <= replays[s.key].count /\ replays[s.key].count <= replays'[s.key].count
      BY <1>2 DEF ReplayerOK, Forward
    <2> QED BY <2>1, <2>2
  <1>4. s.pc \in {"record", "update"} /\ s.ok => received'[s.key] # {}
    BY <1>2 DEF ReplayerOK, Forward
  <1> QED BY <1>1, <1>2, <1>3, <1>4 DEF ReplayerOK

-------------------------------------------------------------------------------
(***************************************************************************)
(* Steps by what they write.                                               *)
(***************************************************************************)
\* An emitter goes on: it writes rows of its own event alone, and no replay row
\* that is there.
LEMMA EmitterStep ==
    ASSUME IInv, NEW w \in Emitters, NEW f \in Emitter, EmitterOK(f)',
           emitters' = [emitters EXCEPT ![w] = f],
           UNCHANGED replayers,
           lastEvent' \in Nat, lastEvent <= lastEvent',
           deliveries' \in [Keys -> Nat],
           replays' \in [Keys -> Row \cup {Null}],
           begun' \in Nat, faults' \in Nat,
           received' \in [Keys -> SUBSET Payload],
           \A k \in Keys : received[k] \subseteq received'[k],
           spoiled' \subseteq Keys, spoiled \subseteq spoiled',
           \A k \in Keys : k[1] # emitters[w].event \/ replays[k] # Null =>
              replays'[k] = replays[k] /\ deliveries'[k] = deliveries[k],
           \A k \in Keys :
              \/ replays'[k] = replays[k]
              \/ /\ replays'[k] \in Row
                 /\ replays'[k].status = "queued"
                 /\ replays'[k].count = 0
                 /\ k \notin spoiled' => deliveries'[k] = 1,
           f.pc # "idle" => \A v \in Emitters \ {w} : emitters[v].event # f.event,
           \A k \in Keys \ spoiled' : IsDealtWith(k[1])' => IsDealtWith(k[1]) \/ Settled(k)'
    PROVE  IInv'
  <1>1. TypeOK'
    BY DEF IInv, TypeOK
  <1>2. Forward
    <2>1. ASSUME NEW k \in Keys, replays[k] # Null PROVE replays'[k] = replays[k]
      BY <2>1
    <2>2. ASSUME NEW k \in Keys, replays[k] # Null PROVE replays[k].count \in Nat
      BY <2>2 DEF IInv, TypeOK, Row
    <2>3. ASSUME NEW k \in Keys, Settled(k) PROVE Settled(k)'
      BY <2>1, <2>3 DEF Settled
    <2> QED BY <2>1, <2>2, <2>3 DEF Forward
  <1>3. EmittersOK'
    <2>1. ASSUME NEW v \in Emitters PROVE EmitterOK(emitters[v])'
      <3>1. CASE v = w
        <4>1. emitters'[v] = f
          BY <3>1 DEF IInv, TypeOK
        <4> QED BY <4>1 DEF EmitterOK, OutcomeOK, Open, KeyOf, Settled
      <3>2. CASE v # w
        <4>1. PICK e : e = emitters[v]
          OBVIOUS
        <4>2. e \in Emitter /\ EmitterOK(e) /\ emitters'[v] = e
          BY <3>2, <4>1 DEF IInv, TypeOK, EmittersOK
        <4>3. e.pc # "idle" => e.event # emitters[w].event
          BY <3>2, <4>1 DEF IInv, EventsApart
        <4>4. e.pc # "idle" => EmitterOK(e)'
          <5> SUFFICES ASSUME e.pc # "idle" PROVE EmitterOK(e)'
            OBVIOUS
          <5>1. \A k \in Keys : (k[1] = e.event /\ replays[k] = Null) =>
                   replays'[k] = Null /\ deliveries'[k] = deliveries[k]
            BY <4>3
          <5> QED BY <1>2, <4>2, <5>1, EmitterStillOK DEF IInv, TypeOK
        <4>5. e.pc = "idle" => EmitterOK(e)'
          BY <4>2 DEF EmitterOK
        <4>6. EmitterOK(e)'
          BY <4>4, <4>5
        <4> QED BY <4>2, <4>6 DEF EmitterOK, OutcomeOK, Open, KeyOf, Settled
      <3> QED BY <3>1, <3>2
    <2>2. \A v \in Emitters : EmitterOK(emitters[v])'
      BY <2>1
    <2> QED BY <2>2 DEF EmittersOK
  <1>4. ReplayersOK'
    <2>1. ASSUME NEW h \in Replayers PROVE ReplayerOK(replayers[h])'
      <3>1. PICK s : s = replayers[h]
        OBVIOUS
      <3>2. s \in Replayer /\ ReplayerOK(s) /\ replayers'[h] = s
        BY <3>1 DEF IInv, TypeOK, ReplayersOK
      <3>3. ReplayerOK(s)'
        BY <1>2, <3>2, ReplayerStillOK DEF IInv, TypeOK
      <3> QED BY <3>2, <3>3 DEF ReplayerOK
    <2>2. \A h \in Replayers : ReplayerOK(replayers[h])'
      BY <2>1
    <2> QED BY <2>2 DEF ReplayersOK
  <1>5. EventsApart'
    <2>1. emitters \in [Emitters -> Emitter]
      BY DEF IInv, TypeOK
    <2>2. ASSUME NEW v \in Emitters, NEW u \in Emitters, v # u, emitters'[v].pc # "idle"
          PROVE  emitters'[v].event # emitters'[u].event
      <3>1. CASE v = w
        BY <2>1, <2>2, <3>1
      <3>2. CASE v # w /\ u = w
        <4>1. emitters'[v] = emitters[v] /\ emitters'[u] = f
          BY <2>1, <3>2
        <4>2. CASE f.pc # "idle"
          BY <2>2, <3>2, <4>1, <4>2
        <4>3. CASE f.pc = "idle"
          <5>1. f.event = Null
            BY <4>3 DEF EmitterOK
          <5>2. emitters[v].event \in EventIds
            BY <2>2, <4>1 DEF IInv, EmittersOK, EmitterOK
          <5> QED BY <4>1, <5>1, <5>2, WebhooksAssumption
        <4> QED BY <4>2, <4>3
      <3>3. CASE v # w /\ u # w
        BY <2>1, <2>2, <3>3 DEF IInv, EventsApart
      <3> QED BY <3>1, <3>2, <3>3
    <2> QED BY <2>2 DEF EventsApart
  <1>6. FutureUntouched'
    <2>1. ASSUME NEW k \in Keys, k[1] > lastEvent'
          PROVE  replays'[k] = Null /\ deliveries'[k] = 0
      <3>1. k[1] \in Nat
        BY WebhooksAssumption DEF Keys
      <3>2. k[1] > lastEvent
        BY <2>1, <3>1 DEF IInv, TypeOK
      <3>3. replays[k] = Null /\ deliveries[k] = 0
        BY <3>2 DEF IInv, FutureUntouched
      <3>4. k[1] # emitters[w].event
        <4>1. k[1] # Null
          BY WebhooksAssumption DEF Keys
        <4>2. emitters[w].pc # "idle" => emitters[w].event <= lastEvent
          BY DEF IInv, EmittersOK, EmitterOK
        <4>3. emitters[w].pc = "idle" => emitters[w].event = Null
          BY DEF IInv, EmittersOK, EmitterOK
        <4>4. ~(k[1] <= lastEvent)
          BY <3>1, <3>2 DEF IInv, TypeOK
        <4> QED BY <4>1, <4>2, <4>3, <4>4
      <3> QED BY <3>3, <3>4
    <2> QED BY <2>1 DEF FutureUntouched
  <1>7. CancelledRests'
    BY DEF IInv, CancelledRests
  <1>8. NothingLost'
    <2>1. ASSUME NEW k \in Keys \ spoiled', IsDealtWith(k[1])' PROVE Settled(k)'
      BY <1>2, <2>1 DEF IInv, NothingLost, Settled, Forward
    <2> QED BY <2>1 DEF NothingLost, Settled
  <1>9. AttemptsAgree'
    <2>1. ASSUME NEW k \in Keys \ spoiled', replays'[k] # Null
          PROVE  deliveries'[k] = 1 + replays'[k].count + Cardinality(Counting(k))
      <3>1. CASE replays[k] # Null
        BY <2>1, <3>1 DEF IInv, AttemptsAgree, Counting
      <3>2. CASE replays[k] = Null
        <4>1. deliveries'[k] = 1 /\ replays'[k].count = 0
          BY <2>1, <3>2
        <4>2. Counting(k) = {}
          BY <3>2 DEF Counting, IInv, ReplayersOK, ReplayerOK
        <4> QED BY <4>1, <4>2, FS_EmptySet
      <3> QED BY <3>1, <3>2
    <2> QED BY <2>1 DEF AttemptsAgree, Counting
  <1>10. DeadLettersWereTried'
    BY DEF IInv, DeadLettersWereTried, IsDeadLetter
  <1> QED BY <1>1, <1>3, <1>4, <1>5, <1>6, <1>7, <1>8, <1>9, <1>10 DEF IInv

\* A replay request goes on: no row of the replay table is written, and a delivery
\* row only where a statement has failed.
LEMMA ReplayerStep ==
    ASSUME IInv, NEW h \in Replayers, NEW f \in Replayer, ReplayerOK(f)',
           replayers' = [replayers EXCEPT ![h] = f],
           UNCHANGED <<lastEvent, replays, emitters>>,
           deliveries' \in [Keys -> Nat],
           \A k \in Keys : (k \in spoiled' /\ replays[k] # Null) \/ deliveries'[k] = deliveries[k],
           begun' \in Nat, faults' \in Nat,
           received' \in [Keys -> SUBSET Payload],
           \A k \in Keys : received[k] \subseteq received'[k],
           spoiled' \subseteq Keys, spoiled \subseteq spoiled',
           \A k \in Keys \ spoiled' :
              (replayers[h].key = k /\ replayers[h].pc = "update") <=>
                 (f.key = k /\ f.pc = "update")
    PROVE  IInv'
  <1>1. TypeOK'
    BY DEF IInv, TypeOK
  <1>2. Forward
    <2>1. ASSUME NEW k \in Keys, replays[k] # Null PROVE replays[k].count \in Nat
      BY <2>1 DEF IInv, TypeOK, Row
    <2> QED BY <2>1 DEF Forward, Settled
  <1>3. EmittersOK'
    <2>1. ASSUME NEW v \in Emitters PROVE EmitterOK(emitters[v])'
      <3>1. PICK e : e = emitters[v]
        OBVIOUS
      <3>2. e \in Emitter /\ EmitterOK(e) /\ emitters'[v] = e
        BY <3>1 DEF IInv, TypeOK, EmittersOK
      <3>3. \A k \in Keys : (k[1] = e.event /\ replays[k] = Null) =>
               replays'[k] = Null /\ deliveries'[k] = deliveries[k]
        OBVIOUS
      <3>4. EmitterOK(e)'
        BY <1>2, <3>2, <3>3, EmitterStillOK DEF IInv, TypeOK
      <3> QED BY <3>2, <3>4 DEF EmitterOK, OutcomeOK, Open, KeyOf, Settled
    <2>2. \A v \in Emitters : EmitterOK(emitters[v])'
      BY <2>1
    <2> QED BY <2>2 DEF EmittersOK
  <1>4. ReplayersOK'
    <2>1. ASSUME NEW g \in Replayers PROVE ReplayerOK(replayers[g])'
      <3>1. CASE g = h
        <4>1. replayers'[g] = f
          BY <3>1 DEF IInv, TypeOK
        <4> QED BY <4>1 DEF ReplayerOK
      <3>2. CASE g # h
        <4>1. PICK s : s = replayers[g]
          OBVIOUS
        <4>2. s \in Replayer /\ ReplayerOK(s) /\ replayers'[g] = s
          BY <3>2, <4>1 DEF IInv, TypeOK, ReplayersOK
        <4>3. ReplayerOK(s)'
          BY <1>2, <4>2, ReplayerStillOK DEF IInv, TypeOK
        <4> QED BY <4>2, <4>3 DEF ReplayerOK
      <3> QED BY <3>1, <3>2
    <2>2. \A g \in Replayers : ReplayerOK(replayers[g])'
      BY <2>1
    <2> QED BY <2>2 DEF ReplayersOK
  <1>5. EventsApart' /\ CancelledRests' /\ DeadLettersWereTried'
    BY DEF IInv, EventsApart, CancelledRests, DeadLettersWereTried, IsDeadLetter
  <1>6. FutureUntouched'
    BY DEF IInv, FutureUntouched
  <1>7. NothingLost'
    <2>1. ASSUME NEW k \in Keys \ spoiled', IsDealtWith(k[1])' PROVE Settled(k)'
      <3>1. IsDealtWith(k[1])
        BY <2>1 DEF IsDealtWith
      <3> QED BY <1>2, <2>1, <3>1 DEF IInv, NothingLost, Settled, Forward
    <2> QED BY <2>1 DEF NothingLost, Settled
  <1>8. AttemptsAgree'
    <2>1. ASSUME NEW k \in Keys \ spoiled', replays'[k] # Null
          PROVE  deliveries'[k] = 1 + replays'[k].count + Cardinality(Counting(k)')
      <3>1. Counting(k)' = Counting(k)
        BY <2>1 DEF Counting, IInv, TypeOK
      <3> QED BY <2>1, <3>1 DEF IInv, AttemptsAgree, Counting
    <2> QED BY <2>1 DEF AttemptsAgree, Counting
  <1> QED BY <1>1, <1>3, <1>4, <1>5, <1>6, <1>7, <1>8 DEF IInv

-------------------------------------------------------------------------------
(***************************************************************************)
(* Initial states, and emitters.                                           *)
(***************************************************************************)
LEMMA InitOK == Init => IInv
  <1> SUFFICES ASSUME Init PROVE IInv
    OBVIOUS
  <1>1. NoEmitter \in Emitter /\ NoReplayer \in Replayer
    BY UrlsFacts DEF NoEmitter, Emitter, NoReplayer, Replayer
  <1>2. TypeOK
    BY <1>1 DEF Init, TypeOK
  <1>3. EmittersOK /\ ReplayersOK /\ EventsApart
    BY DEF Init, EmittersOK, EmitterOK, NoEmitter, ReplayersOK, ReplayerOK, NoReplayer, EventsApart
  <1>4. FutureUntouched /\ CancelledRests /\ AttemptsAgree /\ DeadLettersWereTried
    BY DEF Init, FutureUntouched, CancelledRests, AttemptsAgree, DeadLettersWereTried,
           IsDeadLetter
  <1>5. NothingLost
    <2>1. \A k \in Keys : k[1] \in Nat \ {0}
      BY WebhooksAssumption DEF Keys
    <2> QED BY <2>1 DEF Init, NothingLost, IsDealtWith
  <1> QED BY <1>2, <1>3, <1>4, <1>5 DEF IInv

\* An emitter that keeps its event stays apart from the others, and no event is
\* dealt with by it.
LEMMA GoesOnFacts ==
    ASSUME IInv, NEW w \in Emitters, NEW f \in Emitter, emitters[w].pc # "idle",
           f.event = emitters[w].event, lastEvent' = lastEvent,
           emitters' = [emitters EXCEPT ![w] = f]
    PROVE  /\ \A v \in Emitters \ {w} : emitters[v].event # f.event
           /\ \A k \in Keys : IsDealtWith(k[1])' => IsDealtWith(k[1])
  <1>1. \A v \in Emitters \ {w} : emitters[v].event # f.event
    BY DEF IInv, EventsApart
  <1>2. \A v \in Emitters : emitters'[v].event = emitters[v].event
    BY DEF IInv, TypeOK
  <1> QED BY <1>1, <1>2 DEF IsDealtWith

\* One that ends has dealt with its event.
LEMMA EndsFacts ==
    ASSUME IInv, NEW w \in Emitters, NEW e \in Emitter, e = emitters[w], e.pc # "idle",
           lastEvent' = lastEvent,
           emitters' = [emitters EXCEPT ![w] = NoEmitter],
           \A i \in DOMAIN Urls : Settled(KeyOf(e, i))' \/ KeyOf(e, i) \in spoiled'
    PROVE  \A k \in Keys \ spoiled' : IsDealtWith(k[1])' => IsDealtWith(k[1]) \/ Settled(k)'
  <1> SUFFICES ASSUME NEW k \in Keys \ spoiled', IsDealtWith(k[1])', ~IsDealtWith(k[1])
               PROVE  Settled(k)'
    OBVIOUS
  <1>1. PICK v \in Emitters : emitters[v].event = k[1]
    BY DEF IsDealtWith
  <1>2. emitters'[v].event # k[1]
    BY DEF IsDealtWith
  <1>3. v = w
    BY <1>1, <1>2 DEF IInv, TypeOK
  <1>4. e.event \in EventIds /\ k[1] = e.event
    BY <1>1, <1>3 DEF IInv, EmittersOK, EmitterOK
  <1>5. PICK i \in DOMAIN Urls : k = KeyOf(e, i)
    BY <1>4, KeysOfEvents
  <1> QED BY <1>5 DEF Settled, KeyOf

LEMMA EmitStep ==
    ASSUME IInv, NEW w \in Emitters, Emit(w)
    PROVE  IInv'
  <1>1. PICK f : f = [NoEmitter EXCEPT !.pc = "deliver", !.event = lastEvent + 1]
    OBVIOUS
  <1>2. /\ emitters[w].pc = "idle"
        /\ lastEvent + 1 \in EventIds
        /\ lastEvent' = lastEvent + 1
        /\ emitters' = [emitters EXCEPT ![w] = f]
        /\ UNCHANGED <<deliveries, replays, replayers, begun, faults, received, spoiled>>
    BY <1>1 DEF Emit, Goes, tables, bounds
  <1>3. /\ f \in Emitter
        /\ f.pc = "deliver"
        /\ f.event = lastEvent + 1
        /\ f.delivered = {}
    BY <1>1, <1>2, UrlsFacts DEF NoEmitter, Emitter
  <1>4. lastEvent \in Nat /\ emitters[w].event = Null
    BY <1>2 DEF IInv, TypeOK, EmittersOK, EmitterOK
  <1>5. EmitterOK(f)'
    <2>1. ASSUME NEW i \in DOMAIN Urls PROVE OutcomeOK(f, i)'
      <3>1. PICK k \in Keys : k = KeyOf(f, i) /\ k[1] = lastEvent + 1
        BY <1>2, <1>3, KeysOfEvents
      <3>2. replays[k] = Null /\ deliveries[k] = 0
        BY <1>4, <3>1 DEF IInv, FutureUntouched
      <3>3. replays'[k] = Null /\ deliveries'[k] = 0
        BY <1>2, <3>2
      <3>4. k = KeyOf(f, i)'
        BY <3>1 DEF KeyOf
      <3> QED BY <1>3, <3>3, <3>4 DEF OutcomeOK, Open
    <2>2. \A i \in DOMAIN Urls : OutcomeOK(f, i)'
      BY <2>1
    <2>3. f.event \in EventIds /\ f.event <= lastEvent'
      BY <1>2, <1>3, <1>4
    <2> QED BY <1>3, <2>2, <2>3 DEF EmitterOK
  <1>6. \A v \in Emitters \ {w} : emitters[v].event # f.event
    <2> SUFFICES ASSUME NEW v \in Emitters \ {w}, emitters[v].event = f.event PROVE FALSE
      OBVIOUS
    <2>1. CASE emitters[v].pc = "idle"
      <3>1. emitters[v].event = Null
        BY <2>1 DEF IInv, EmittersOK, EmitterOK
      <3> QED BY <1>2, <1>3, <3>1, WebhooksAssumption
    <2>2. CASE emitters[v].pc # "idle"
      <3>1. emitters[v].event <= lastEvent
        BY <2>2 DEF IInv, EmittersOK, EmitterOK
      <3> QED BY <1>3, <1>4, <3>1
    <2> QED BY <2>1, <2>2
  <1>7. ASSUME NEW k \in Keys, IsDealtWith(k[1])' PROVE IsDealtWith(k[1])
    <2>1. k[1] \in Nat /\ k[1] # Null
      BY WebhooksAssumption DEF Keys
    <2>2. k[1] # lastEvent + 1
      <3>1. emitters'[w] = f
        BY <1>2 DEF IInv, TypeOK
      <3> QED BY <1>3, <1>7, <3>1 DEF IsDealtWith
    <2>3. k[1] <= lastEvent
      BY <1>2, <1>4, <1>7, <2>1, <2>2 DEF IsDealtWith
    <2>4. ASSUME NEW v \in Emitters PROVE emitters[v].event # k[1]
      <3>1. CASE v = w
        BY <1>4, <2>1, <3>1
      <3>2. CASE v # w
        BY <1>2, <1>7, <3>2 DEF IsDealtWith, IInv, TypeOK
      <3> QED BY <3>1, <3>2
    <2> QED BY <2>3, <2>4 DEF IsDealtWith
  <1>8. /\ deliveries' \in [Keys -> Nat]
        /\ replays' \in [Keys -> Row \cup {Null}]
        /\ begun' \in Nat /\ faults' \in Nat
        /\ received' \in [Keys -> SUBSET Payload]
        /\ spoiled' \subseteq Keys
        /\ lastEvent' \in Nat /\ lastEvent <= lastEvent'
    BY <1>2, <1>4 DEF IInv, TypeOK
  <1> QED BY <1>2, <1>3, <1>5, <1>6, <1>7, <1>8, EmitterStep

LEMMA ArrivesGrows ==
    ASSUME received \in [Keys -> SUBSET Payload], NEW k \in Keys, NEW payload \in Payload,
           NEW outcome, Arrives(k, payload, outcome)
    PROVE  /\ received' \in [Keys -> SUBSET Payload]
           /\ \A l \in Keys : received[l] \subseteq received'[l]
           /\ outcome # "refused" => received'[k] # {}
  BY DEF Arrives

LEMMA DeliverStep ==
    ASSUME IInv, NEW w \in Emitters, Deliver(w)
    PROVE  IInv'
  <1>1. PICK e : e = emitters[w]
    OBVIOUS
  <1>2. e \in Emitter /\ e.pc = "deliver" /\ EmitterOK(e)
    BY <1>1 DEF Deliver, IInv, TypeOK, EmittersOK
  <1>3. /\ e.event \in EventIds
        /\ e.event <= lastEvent
        /\ e.at \in DOMAIN Urls
        /\ e.delivered \subseteq DOMAIN Urls
        /\ \A i \in DOMAIN Urls : OutcomeOK(e, i)
    BY <1>2 DEF EmitterOK, Emitter
  <1>4. UNCHANGED <<lastEvent, deliveries, replays, replayers, begun, faults, spoiled>>
    BY DEF Deliver, tables, bounds
  <1>5. PICK outcome \in Outcomes :
           LET delivered == e.delivered \cup {i \in {e.at} : outcome = "ok"}
           IN /\ Arrives(KeyOf(e, e.at), "event", outcome)
              /\ Goes(w, IF e.at < Len(Urls)
                         THEN [e EXCEPT !.at = e.at + 1, !.delivered = delivered]
                         ELSE [e EXCEPT !.pc = "record", !.at = 1,
                                        !.delivered = delivered])
    BY <1>1 DEF Deliver
  <1>6. PICK delivered : delivered = e.delivered \cup {i \in {e.at} : outcome = "ok"}
    OBVIOUS
  <1>7. PICK f : f = IF e.at < Len(Urls)
                     THEN [e EXCEPT !.at = e.at + 1, !.delivered = delivered]
                     ELSE [e EXCEPT !.pc = "record", !.at = 1, !.delivered = delivered]
    OBVIOUS
  <1>8. /\ f \in Emitter
        /\ f.pc = "deliver" \/ (f.pc = "record" /\ f.at = 1)
        /\ f.event = e.event
        /\ f.delivered = delivered
    <2>1. delivered \subseteq DOMAIN Urls
      BY <1>3, <1>6
    <2>2. CASE e.at < Len(Urls)
      <3>1. e.at + 1 \in DOMAIN Urls
        BY <1>3, <2>2, UrlsFacts
      <3> QED BY <1>2, <1>7, <2>1, <2>2, <3>1 DEF Emitter
    <2>3. CASE ~(e.at < Len(Urls))
      BY <1>2, <1>7, <2>1, <2>3, UrlsFacts DEF Emitter
    <2> QED BY <2>2, <2>3
  <1>9. emitters' = [emitters EXCEPT ![w] = f]
    BY <1>5, <1>6, <1>7 DEF Goes
  <1>10. /\ received' \in [Keys -> SUBSET Payload]
         /\ \A k \in Keys : received[k] \subseteq received'[k]
         /\ outcome # "refused" => received'[KeyOf(e, e.at)] # {}
    <2>1. KeyOf(e, e.at) \in Keys
      BY <1>3, KeysOfEvents
    <2>2. PICK k : k = KeyOf(e, e.at)
      OBVIOUS
    <2>3. Arrives(k, "event", outcome)
      BY <1>5, <2>2
    <2> QED BY <2>1, <2>2, <2>3, ArrivesGrows DEF IInv, TypeOK, Payload
  <1>11. EmitterOK(f)'
    <2>1. ASSUME NEW i \in DOMAIN Urls PROVE OutcomeOK(f, i)'
      <3>1. PICK k \in Keys : k = KeyOf(e, i)
        BY <1>3, KeysOfEvents
      <3>2. k = KeyOf(f, i)'
        BY <1>8, <3>1 DEF KeyOf
      <3>3. OutcomeOK(e, i) /\ Open(e, i)
        BY <1>2, <1>3 DEF Open
      <3>4. Open(f, i) /\ ~(f.pc = "queue")
        BY <1>8, UrlsFacts DEF Open
      <3>5. i \in f.delivered => received'[k] # {}
        <4>1. CASE i \in e.delivered
          BY <1>10, <3>1, <3>3, <4>1 DEF OutcomeOK
        <4>2. CASE i = e.at /\ outcome = "ok"
          BY <1>10, <3>1, <4>2
        <4> QED BY <1>6, <1>8, <4>1, <4>2
      <3>6. replays'[k] = Null /\ (k \notin spoiled' => deliveries'[k] = 0)
        BY <1>2, <1>4, <3>1, <3>3 DEF OutcomeOK
      <3> QED BY <3>2, <3>4, <3>5, <3>6 DEF OutcomeOK, Open
    <2>2. \A i \in DOMAIN Urls : OutcomeOK(f, i)'
      BY <2>1
    <2>3. f.event \in EventIds /\ f.event <= lastEvent'
      BY <1>3, <1>4, <1>8
    <2> QED BY <1>8, <2>2, <2>3 DEF EmitterOK
  <1>12. /\ \A v \in Emitters \ {w} : emitters[v].event # f.event
         /\ \A k \in Keys : IsDealtWith(k[1])' => IsDealtWith(k[1])
    BY <1>1, <1>2, <1>4, <1>8, <1>9, GoesOnFacts
  <1>13. /\ deliveries' \in [Keys -> Nat]
         /\ replays' \in [Keys -> Row \cup {Null}]
         /\ begun' \in Nat /\ faults' \in Nat
         /\ spoiled' \subseteq Keys
         /\ lastEvent' \in Nat /\ lastEvent <= lastEvent'
    BY <1>4 DEF IInv, TypeOK
  <1> QED BY <1>4, <1>8, <1>9, <1>10, <1>11, <1>12, <1>13, EmitterStep

\* The outcome in hand is done with: it is stored, or was passed over.
LEMMA OutcomeDone ==
    ASSUME IInv, NEW w \in Emitters, NEW e \in Emitter, e = emitters[w],
           e.pc \in {"record", "queue"}, NEW k \in Keys, k = KeyOf(e, e.at),
           emitters' = [emitters EXCEPT ![w] = NextOutcome(e)],
           UNCHANGED <<lastEvent, replayers, received, begun>>,
           faults' \in Nat, spoiled' \subseteq Keys, spoiled \subseteq spoiled',
           deliveries' \in [Keys -> Nat],
           \A l \in Keys \ {k} : deliveries'[l] = deliveries[l] /\ replays'[l] = replays[l],
           replays' \in [Keys -> Row \cup {Null}],
           \/ replays'[k] = replays[k]
           \/ /\ replays'[k] \in Row
              /\ replays'[k].status = "queued"
              /\ replays'[k].count = 0
              /\ k \notin spoiled' => deliveries'[k] = 1,
           Settled(k)' \/ k \in spoiled'
    PROVE  IInv'
  <1>1. /\ e.event \in EventIds
        /\ e.event <= lastEvent
        /\ e.at \in DOMAIN Urls
        /\ \A i \in DOMAIN Urls : OutcomeOK(e, i)
    BY DEF IInv, EmittersOK, EmitterOK, Emitter
  <1>2. replays[k] = Null
    BY <1>1, UrlsFacts DEF OutcomeOK, Open
  <1>3. k[1] = e.event
    BY <1>1, KeysOfEvents
  <1>4. PICK f : f = NextOutcome(e)
    OBVIOUS
  <1>5. ASSUME NEW i \in DOMAIN Urls, i < e.at \/ i = e.at
        PROVE  Settled(KeyOf(e, i))' \/ KeyOf(e, i) \in spoiled'
    <2>1. PICK l \in Keys : l = KeyOf(e, i)
      BY <1>1, KeysOfEvents
    <2>2. CASE i = e.at
      BY <2>1, <2>2 DEF Settled, KeyOf
    <2>3. CASE i < e.at
      <3>1. l # k
        BY <1>1, <2>1, <2>3, KeysOfEvents, UrlsFacts
      <3>2. Settled(l) \/ l \in spoiled
        BY <1>1, <2>1, <2>3, UrlsFacts DEF OutcomeOK, Open
      <3>3. Settled(l)' \/ l \in spoiled'
        BY <3>1, <3>2 DEF Settled
      <3> QED BY <2>1, <3>3 DEF Settled, KeyOf
    <2> QED BY <1>5, <2>2, <2>3
  <1>6. \A l \in Keys : l[1] # e.event \/ replays[l] # Null =>
           replays'[l] = replays[l] /\ deliveries'[l] = deliveries[l]
    BY <1>2, <1>3
  <1>7. \A l \in Keys :
           \/ replays'[l] = replays[l]
           \/ /\ replays'[l] \in Row
              /\ replays'[l].status = "queued"
              /\ replays'[l].count = 0
              /\ l \notin spoiled' => deliveries'[l] = 1
    OBVIOUS
  <1>8. /\ lastEvent' \in Nat /\ lastEvent <= lastEvent'
        /\ begun' \in Nat
        /\ received' \in [Keys -> SUBSET Payload]
        /\ \A l \in Keys : received[l] \subseteq received'[l]
    BY DEF IInv, TypeOK
  <1>9. CASE e.at = Len(Urls)
    <2>1. f = NoEmitter
      BY <1>4, <1>9 DEF NextOutcome
    <2>2. f \in Emitter /\ EmitterOK(f)' /\ f.pc = "idle"
      BY <2>1, UrlsFacts DEF NoEmitter, Emitter, EmitterOK
    <2>3. \A i \in DOMAIN Urls : Settled(KeyOf(e, i))' \/ KeyOf(e, i) \in spoiled'
      BY <1>5, <1>9, UrlsFacts
    <2>4. emitters' = [emitters EXCEPT ![w] = f]
      BY <1>4
    <2>5. \A l \in Keys \ spoiled' : IsDealtWith(l[1])' => IsDealtWith(l[1]) \/ Settled(l)'
      BY <2>1, <2>3, <2>4, EndsFacts
    <2> QED BY <1>6, <1>7, <1>8, <2>2, <2>4, <2>5, EmitterStep
  <1>10. CASE e.at # Len(Urls)
    <2>1. f = [e EXCEPT !.pc = "record", !.at = e.at + 1]
      BY <1>4, <1>10 DEF NextOutcome
    <2>2. e.at + 1 \in DOMAIN Urls
      BY <1>1, <1>10, UrlsFacts
    <2>3. /\ f \in Emitter
          /\ f.pc = "record"
          /\ f.at = e.at + 1
          /\ f.event = e.event
          /\ f.delivered = e.delivered
      BY <2>1, <2>2 DEF Emitter
    <2>4. emitters' = [emitters EXCEPT ![w] = f]
      BY <1>4
    <2>5. ASSUME NEW i \in DOMAIN Urls PROVE OutcomeOK(f, i)'
      <3>1. PICK l \in Keys : l = KeyOf(e, i)
        BY <1>1, KeysOfEvents
      <3>2. l = KeyOf(f, i)'
        BY <2>3, <3>1 DEF KeyOf
      <3>3. OutcomeOK(e, i)
        BY <1>1
      <3>4. i \in f.delivered => received'[l] # {}
        BY <2>3, <3>1, <3>3 DEF OutcomeOK
      <3>5. CASE i <= e.at
        <4>1. ~Open(f, i)
          BY <1>1, <2>3, <3>5, UrlsFacts DEF Open
        <4>2. Settled(KeyOf(e, i))' \/ KeyOf(e, i) \in spoiled'
          BY <1>1, <1>5, <3>5, UrlsFacts
        <4>3. Settled(l)' \/ l \in spoiled'
          BY <3>1, <4>2 DEF Settled, KeyOf
        <4> QED BY <3>2, <3>4, <4>1, <4>3 DEF OutcomeOK, Open, Settled
      <3>6. CASE ~(i <= e.at)
        <4>1. Open(e, i) /\ i # e.at
          BY <1>1, <3>6, UrlsFacts DEF Open
        <4>2. l # k
          BY <1>1, <3>1, <4>1, KeysOfEvents
        <4>3. replays[l] = Null /\ (l \notin spoiled => deliveries[l] = 0)
          BY <3>1, <3>3, <4>1 DEF OutcomeOK
        <4>4. replays'[l] = Null /\ (l \notin spoiled' => deliveries'[l] = 0)
          BY <4>2, <4>3
        <4>5. Open(f, i)
          BY <1>1, <2>3, <3>6, UrlsFacts DEF Open
        <4> QED BY <2>3, <3>2, <3>4, <4>4, <4>5 DEF OutcomeOK, Open
      <3> QED BY <3>5, <3>6
    <2>6. \A i \in DOMAIN Urls : OutcomeOK(f, i)'
      BY <2>5
    <2>7. EmitterOK(f)'
      BY <1>1, <1>8, <2>3, <2>6 DEF EmitterOK
    <2>8. /\ \A v \in Emitters \ {w} : emitters[v].event # f.event
          /\ \A l \in Keys : IsDealtWith(l[1])' => IsDealtWith(l[1])
      BY <2>3, <2>4, GoesOnFacts
    <2> QED BY <1>6, <1>7, <1>8, <2>3, <2>4, <2>7, <2>8, EmitterStep
  <1> QED BY <1>9, <1>10

\* The outcome in hand of a process that stores outcomes.
LEMMA InHand ==
    ASSUME IInv, NEW w \in Emitters, NEW e, e = emitters[w], e.pc \in {"record", "queue"}
    PROVE  /\ e \in Emitter
           /\ e.event \in EventIds
           /\ e.event <= lastEvent
           /\ e.at \in DOMAIN Urls
           /\ \A i \in DOMAIN Urls : OutcomeOK(e, i)
           /\ KeyOf(e, e.at) \in Keys
           /\ Open(e, e.at)
  <1>1. e \in Emitter /\ EmitterOK(e)
    BY DEF IInv, TypeOK, EmittersOK
  <1>2. e.event \in EventIds /\ e.at \in DOMAIN Urls
    BY <1>1 DEF Emitter, EmitterOK
  <1> QED BY <1>1, <1>2, KeysOfEvents, UrlsFacts DEF EmitterOK, Open

LEMMA RecordStep ==
    ASSUME IInv, NEW w \in Emitters, Record(w)
    PROVE  IInv'
  <1>1. PICK e : e = emitters[w]
    OBVIOUS
  <1>2. e.pc = "record"
    BY <1>1 DEF Record
  <1>3. /\ e \in Emitter
        /\ e.event \in EventIds
        /\ e.event <= lastEvent
        /\ e.at \in DOMAIN Urls
        /\ \A i \in DOMAIN Urls : OutcomeOK(e, i)
        /\ KeyOf(e, e.at) \in Keys
        /\ Open(e, e.at)
    BY <1>1, <1>2, InHand
  <1>4. PICK k \in Keys : k = KeyOf(e, e.at)
    BY <1>3
  <1>5. /\ deliveries' = [deliveries EXCEPT ![k] = deliveries[k] + 1]
        /\ UNCHANGED <<lastEvent, replays, replayers, begun, faults, received, spoiled>>
    BY <1>1, <1>4 DEF Record, InsertWebhookDelivery, bounds
  <1>6. /\ deliveries' \in [Keys -> Nat]
        /\ \A l \in Keys \ {k} : deliveries'[l] = deliveries[l] /\ replays'[l] = replays[l]
        /\ replays' \in [Keys -> Row \cup {Null}]
        /\ begun' \in Nat /\ faults' \in Nat
        /\ spoiled' \subseteq Keys
        /\ lastEvent' \in Nat /\ lastEvent <= lastEvent'
        /\ received' \in [Keys -> SUBSET Payload]
    BY <1>5 DEF IInv, TypeOK
  <1>7. CASE e.at \in e.delivered
    <2>1. emitters' = [emitters EXCEPT ![w] = NextOutcome(e)]
      BY <1>1, <1>7 DEF Record, Goes
    <2>2. received[k] # {}
      BY <1>3, <1>4, <1>7 DEF OutcomeOK
    <2>3. Settled(k)'
      BY <1>5, <2>2 DEF Settled
    <2>4. replays'[k] = replays[k] /\ begun' = begun /\ spoiled \subseteq spoiled'
      BY <1>5
    <2> QED BY <1>1, <1>2, <1>3, <1>4, <1>5, <1>6, <2>1, <2>3, <2>4, OutcomeDone
  <1>8. CASE e.at \notin e.delivered
    <2>1. PICK f : f = [e EXCEPT !.pc = "queue"]
      OBVIOUS
    <2>2. emitters' = [emitters EXCEPT ![w] = f]
      BY <1>1, <1>8, <2>1 DEF Record, Goes
    <2>3. /\ f \in Emitter
          /\ f.pc = "queue"
          /\ f.at = e.at
          /\ f.event = e.event
          /\ f.delivered = e.delivered
      BY <1>3, <2>1 DEF Emitter
    <2>4. ASSUME NEW i \in DOMAIN Urls PROVE OutcomeOK(f, i)'
      <3>1. PICK l \in Keys : l = KeyOf(e, i) /\ (l = k <=> i = e.at)
        BY <1>3, <1>4, KeysOfEvents
      <3>2. l = KeyOf(f, i)'
        BY <2>3, <3>1 DEF KeyOf
      <3>3. OutcomeOK(e, i)
        BY <1>3
      <3>4. Open(f, i) <=> Open(e, i)
        BY <1>2, <2>3 DEF Open
      <3>5. /\ i \in f.delivered => received'[l] # {}
            /\ ~Open(e, i) => Settled(l)' \/ l \in spoiled'
            /\ Open(e, i) => replays'[l] = Null
        BY <1>5, <2>3, <3>1, <3>3 DEF OutcomeOK, Settled
      <3>6. Open(e, i) /\ l \notin spoiled' => deliveries'[l] = IF i = e.at THEN 1 ELSE 0
        <4>1. Open(e, i) /\ l \notin spoiled => deliveries[l] = 0
          BY <1>2, <3>1, <3>3 DEF OutcomeOK
        <4> QED BY <1>4, <1>5, <3>1, <4>1 DEF IInv, TypeOK
      <3> QED BY <2>3, <3>2, <3>4, <3>5, <3>6 DEF OutcomeOK, Open, Settled
    <2>5. \A i \in DOMAIN Urls : OutcomeOK(f, i)'
      BY <2>4
    <2>6. EmitterOK(f)'
      BY <1>3, <1>5, <2>3, <2>5 DEF EmitterOK
    <2>7. /\ \A v \in Emitters \ {w} : emitters[v].event # f.event
          /\ \A l \in Keys : IsDealtWith(l[1])' => IsDealtWith(l[1])
      BY <1>1, <1>2, <1>5, <2>2, <2>3, GoesOnFacts
    <2>8. \A l \in Keys : l[1] # e.event \/ replays[l] # Null =>
             replays'[l] = replays[l] /\ deliveries'[l] = deliveries[l]
      <3>1. k[1] = e.event /\ replays[k] = Null
        BY <1>3, <1>4, KeysOfEvents DEF OutcomeOK
      <3> QED BY <1>5, <1>6, <3>1
    <2> QED BY <1>1, <1>5, <1>6, <2>2, <2>3, <2>6, <2>7, <2>8, EmitterStep
  <1> QED BY <1>7, <1>8

LEMMA QueueStep ==
    ASSUME IInv, NEW w \in Emitters, Queue(w)
    PROVE  IInv'
  <1>1. PICK e : e = emitters[w]
    OBVIOUS
  <1>2. e.pc = "queue"
    BY <1>1 DEF Queue
  <1>3. /\ e \in Emitter
        /\ e.at \in DOMAIN Urls
        /\ \A i \in DOMAIN Urls : OutcomeOK(e, i)
        /\ KeyOf(e, e.at) \in Keys
        /\ Open(e, e.at)
    BY <1>1, <1>2, InHand
  <1>4. PICK k \in Keys : k = KeyOf(e, e.at)
    BY <1>3
  <1>5. PICK row : row = [status |-> "queued", count |-> 0, next |-> FALSE,
                          payload |-> OutcomePayload]
    OBVIOUS
  <1>6. row \in Row /\ row # Null
    <2>1. row \in Row
      BY <1>5 DEF Row, ReplayStatus, Payload, OutcomePayload
    <2> QED BY <2>1, NoRowAssumption
  <1>7. /\ replays' = [replays EXCEPT ![k] = row]
        /\ emitters' = [emitters EXCEPT ![w] = NextOutcome(e)]
        /\ UNCHANGED <<lastEvent, deliveries, replayers, begun, faults, received, spoiled>>
    BY <1>1, <1>4, <1>5 DEF Queue, InsertWebhookReplay, Goes, bounds
  <1>8. replays'[k] = row /\ replays' \in [Keys -> Row \cup {Null}]
    BY <1>6, <1>7 DEF IInv, TypeOK
  <1>9. k \notin spoiled' => deliveries'[k] = 1
    BY <1>2, <1>3, <1>4, <1>7 DEF OutcomeOK
  <1>10. Settled(k)'
    BY <1>5, <1>6, <1>8 DEF Settled
  <1>11. /\ deliveries' \in [Keys -> Nat]
         /\ \A l \in Keys \ {k} : deliveries'[l] = deliveries[l] /\ replays'[l] = replays[l]
         /\ faults' \in Nat
         /\ spoiled' \subseteq Keys /\ spoiled \subseteq spoiled'
    BY <1>7 DEF IInv, TypeOK
  <1>12. row.status = "queued" /\ row.count = 0
    BY <1>5
  <1> QED BY <1>1, <1>2, <1>3, <1>4, <1>6, <1>7, <1>8, <1>9, <1>10, <1>11, <1>12, OutcomeDone

LEMMA OutcomeFailsStep ==
    ASSUME IInv, NEW w \in Emitters, OutcomeFails(w)
    PROVE  IInv'
  <1>1. PICK e : e = emitters[w]
    OBVIOUS
  <1>2. e.pc \in {"record", "queue"}
    BY <1>1 DEF OutcomeFails
  <1>3. e \in Emitter /\ KeyOf(e, e.at) \in Keys
    BY <1>1, <1>2, InHand
  <1>4. PICK k \in Keys : k = KeyOf(e, e.at)
    BY <1>3
  <1>5. PICK row : row = [status |-> "queued", count |-> 0, next |-> FALSE,
                          payload |-> OutcomePayload]
    OBVIOUS
  <1>6. row \in Row /\ row.status = "queued" /\ row.count = 0
    BY <1>5 DEF Row, ReplayStatus, Payload, OutcomePayload
  <1>7. /\ spoiled' = spoiled \cup {k}
        /\ faults' = faults + 1
        /\ \/ UNCHANGED <<deliveries, replays>>
           \/ deliveries' = [deliveries EXCEPT ![k] = deliveries[k] + 1] /\ UNCHANGED replays
           \/ replays' = [replays EXCEPT ![k] = row] /\ UNCHANGED deliveries
        /\ emitters' = [emitters EXCEPT ![w] = NextOutcome(e)]
        /\ UNCHANGED <<lastEvent, replayers, begun, received>>
    BY <1>1, <1>4, <1>5 DEF OutcomeFails, InsertWebhookDelivery, InsertWebhookReplay, Goes, tables
  <1>8. /\ deliveries' \in [Keys -> Nat]
        /\ \A l \in Keys \ {k} : deliveries'[l] = deliveries[l] /\ replays'[l] = replays[l]
        /\ replays' \in [Keys -> Row \cup {Null}]
        /\ replays'[k] = replays[k] \/ replays'[k] = row
    <2>0. /\ deliveries \in [Keys -> Nat]
          /\ replays \in [Keys -> Row \cup {Null}]
          /\ faults \in Nat /\ spoiled \subseteq Keys
      BY DEF IInv, TypeOK
    <2>1. CASE UNCHANGED <<deliveries, replays>>
      BY <2>0, <2>1
    <2>2. CASE deliveries' = [deliveries EXCEPT ![k] = deliveries[k] + 1] /\ UNCHANGED replays
      BY <2>0, <2>2
    <2>3. CASE replays' = [replays EXCEPT ![k] = row] /\ UNCHANGED deliveries
      BY <1>6, <2>0, <2>3
    <2> QED BY <1>7, <2>1, <2>2, <2>3
  <1>9. faults' \in Nat /\ spoiled' \subseteq Keys /\ spoiled \subseteq spoiled' /\ k \in spoiled'
    <2>1. spoiled \subseteq Keys /\ faults \in Nat
      BY DEF IInv, TypeOK
    <2>2. spoiled' = spoiled \cup {k} /\ faults' = faults + 1
      BY <1>7
    <2> QED BY <2>1, <2>2
  <1>10. /\ emitters' = [emitters EXCEPT ![w] = NextOutcome(e)]
         /\ UNCHANGED <<lastEvent, replayers, received, begun>>
    BY <1>7
  <1>11. /\ deliveries' \in [Keys -> Nat]
         /\ \A l \in Keys \ {k} : deliveries'[l] = deliveries[l] /\ replays'[l] = replays[l]
         /\ replays' \in [Keys -> Row \cup {Null}]
    BY <1>8
  <1>12. \/ replays'[k] = replays[k]
         \/ /\ replays'[k] \in Row
            /\ replays'[k].status = "queued"
            /\ replays'[k].count = 0
            /\ k \notin spoiled' => deliveries'[k] = 1
    BY <1>6, <1>8, <1>9
  <1> QED BY <1>1, <1>2, <1>3, <1>4, <1>9, <1>10, <1>11, <1>12, OutcomeDone

LEMMA EmitterStopsStep ==
    ASSUME IInv, NEW w \in Emitters, EmitterStops(w)
    PROVE  IInv'
  <1>1. PICK e : e = emitters[w]
    OBVIOUS
  <1>2. e \in Emitter /\ e.pc # "idle" /\ EmitterOK(e)
    BY <1>1 DEF EmitterStops, IInv, TypeOK, EmittersOK
  <1>3. e.event \in EventIds /\ e.at \in DOMAIN Urls /\ \A i \in DOMAIN Urls : OutcomeOK(e, i)
    BY <1>2 DEF EmitterOK, Emitter
  <1>4. /\ faults' = faults + 1
        /\ spoiled' = spoiled \cup
              {KeyOf(e, i) : i \in {j \in DOMAIN Urls : e.pc = "deliver" \/ j >= e.at}}
        /\ emitters' = [emitters EXCEPT ![w] = NoEmitter]
        /\ UNCHANGED <<lastEvent, deliveries, replays, replayers, begun, received>>
    BY <1>1 DEF EmitterStops, Goes, tables
  <1>5. /\ NoEmitter \in Emitter
        /\ EmitterOK(NoEmitter)'
        /\ NoEmitter.pc = "idle"
    BY UrlsFacts DEF NoEmitter, Emitter, EmitterOK
  <1>6. ASSUME NEW i \in DOMAIN Urls
        PROVE  Settled(KeyOf(e, i))' \/ KeyOf(e, i) \in spoiled'
    <2>1. PICK l \in Keys : l = KeyOf(e, i)
      BY <1>3, KeysOfEvents
    <2>2. CASE Open(e, i)
      BY <1>4, <2>2 DEF Open
    <2>3. CASE ~Open(e, i)
      <3>1. Settled(l) \/ l \in spoiled
        BY <1>3, <2>1, <2>3 DEF OutcomeOK
      <3>2. Settled(l)' \/ l \in spoiled'
        BY <1>4, <3>1 DEF Settled
      <3> QED BY <2>1, <3>2 DEF Settled, KeyOf
    <2> QED BY <2>2, <2>3
  <1>7. \A l \in Keys \ spoiled' : IsDealtWith(l[1])' => IsDealtWith(l[1]) \/ Settled(l)'
    BY <1>1, <1>2, <1>4, <1>6, EndsFacts
  <1>8. spoiled' \subseteq Keys /\ spoiled \subseteq spoiled'
    BY <1>3, <1>4, KeysOfEvents DEF IInv, TypeOK
  <1>9. /\ deliveries' \in [Keys -> Nat]
        /\ replays' \in [Keys -> Row \cup {Null}]
        /\ begun' \in Nat /\ faults' \in Nat
        /\ received' \in [Keys -> SUBSET Payload]
        /\ lastEvent' \in Nat /\ lastEvent <= lastEvent'
    BY <1>4 DEF IInv, TypeOK
  <1> QED BY <1>4, <1>5, <1>7, <1>8, <1>9, EmitterStep

-------------------------------------------------------------------------------
(***************************************************************************)
(* Replays.                                                                *)
(***************************************************************************)
LEMMA NoReplayerOK == NoReplayer \in Replayer /\ ReplayerOK(NoReplayer)'
  BY DEF NoReplayer, Replayer, ReplayerOK

LEMMA NextReplayOK ==
    ASSUME NEW s \in Replayer, \A k \in s.todo : replays'[k] # Null
    PROVE  /\ NextReplay(s) \in Replayer
           /\ ReplayerOK(NextReplay(s))'
           /\ NextReplay(s).pc # "update"
  <1>1. CASE s.todo = {}
    BY <1>1, NoReplayerOK DEF NextReplay, NoReplayer, ReplayerOK
  <1>2. CASE s.todo # {}
    <2>1. PICK f : f = NextReplay(s)
      OBVIOUS
    <2>2. f = [NoReplayer EXCEPT !.pc = "next", !.todo = s.todo]
      BY <1>2, <2>1 DEF NextReplay
    <2>3. f \in Replayer /\ f.pc = "next" /\ f.todo = s.todo
      BY <2>2 DEF NoReplayer, Replayer
    <2> QED BY <2>1, <2>3 DEF ReplayerOK
  <1> QED BY <1>1, <1>2

\* A step of a replay request that changes its local variables alone.
LEMMA ReplayerLocal ==
    ASSUME IInv, NEW h \in Replayers, NEW f \in Replayer, ReplayerOK(f)',
           replayers' = [replayers EXCEPT ![h] = f],
           UNCHANGED <<lastEvent, deliveries, replays, emitters, faults, received, spoiled>>,
           begun' \in Nat, replayers[h].pc # "update", f.pc # "update"
    PROVE  IInv'
  <1>1. /\ deliveries' \in [Keys -> Nat]
        /\ faults' \in Nat
        /\ received' \in [Keys -> SUBSET Payload]
        /\ spoiled' \subseteq Keys
    BY DEF IInv, TypeOK
  <1> QED BY <1>1, ReplayerStep

LEMMA ReplayBegins ==
    ASSUME IInv, NEW h \in Replayers, NEW k \in Keys, ReplayWebhook(h, k)
    PROVE  IInv'
  <1>1. PICK f : f = [NoReplayer EXCEPT !.pc = "get", !.key = k]
    OBVIOUS
  <1>2. f \in Replayer /\ f.pc = "get" /\ f.key = k /\ f.todo = {}
    BY <1>1 DEF NoReplayer, Replayer
  <1>3. /\ replayers' = [replayers EXCEPT ![h] = f]
        /\ replayers[h].pc = "idle"
        /\ replays[k] # Null
        /\ begun' = begun + 1
        /\ UNCHANGED <<lastEvent, deliveries, replays, emitters, faults, received, spoiled>>
    BY <1>1 DEF ReplayWebhook, Replays, tables
  <1>4. ReplayerOK(f)' /\ begun' \in Nat
    BY <1>2, <1>3 DEF ReplayerOK, IInv, TypeOK
  <1> QED BY <1>2, <1>3, <1>4, ReplayerLocal

LEMMA BulkBegins ==
    ASSUME IInv, NEW h \in Replayers, ReplayFailedWebhooks(h)
    PROVE  IInv'
  <1>1. PICK todo \in SUBSET {k \in Keys : replays[k] # Null /\ replays[k].status = "failed"} :
           replayers' = [replayers EXCEPT ![h] = [NoReplayer EXCEPT !.pc = "next", !.todo = todo]]
    BY DEF ReplayFailedWebhooks, Replays
  <1>2. PICK f : f = [NoReplayer EXCEPT !.pc = "next", !.todo = todo]
    OBVIOUS
  <1>3. f \in Replayer /\ f.pc = "next" /\ f.todo = todo
    BY <1>2 DEF NoReplayer, Replayer
  <1>4. /\ replayers[h].pc = "idle"
        /\ begun' = begun + 1
        /\ UNCHANGED <<lastEvent, deliveries, replays, emitters, faults, received, spoiled>>
    BY DEF ReplayFailedWebhooks, tables
  <1>5. ReplayerOK(f)' /\ begun' \in Nat
    BY <1>3, <1>4 DEF ReplayerOK, IInv, TypeOK
  <1> QED BY <1>1, <1>2, <1>3, <1>4, <1>5, ReplayerLocal

LEMMA PickStep ==
    ASSUME IInv, NEW h \in Replayers, PickReplay(h)
    PROVE  IInv'
  <1>1. PICK s : s = replayers[h]
    OBVIOUS
  <1>2. s \in Replayer /\ s.pc = "next" /\ ReplayerOK(s)
    BY <1>1 DEF PickReplay, IInv, TypeOK, ReplayersOK
  <1>3. PICK k \in s.todo :
           replayers' = [replayers EXCEPT
              ![h] = [NoReplayer EXCEPT !.pc = "get", !.todo = s.todo \ {k}, !.key = k]]
    BY <1>1 DEF PickReplay, Replays
  <1>4. PICK f : f = [NoReplayer EXCEPT !.pc = "get", !.todo = s.todo \ {k}, !.key = k]
    OBVIOUS
  <1>5. k \in Keys /\ s.todo \in SUBSET Keys
    BY <1>2 DEF Replayer
  <1>6. f \in Replayer /\ f.pc = "get" /\ f.key = k /\ f.todo = s.todo \ {k}
    BY <1>4, <1>5 DEF NoReplayer, Replayer
  <1>7. UNCHANGED <<lastEvent, deliveries, replays, emitters, begun, faults, received, spoiled>>
    BY DEF PickReplay, tables, bounds
  <1>8. ReplayerOK(f)' /\ begun' \in Nat
    BY <1>2, <1>5, <1>6, <1>7 DEF ReplayerOK, IInv, TypeOK
  <1> QED BY <1>1, <1>2, <1>3, <1>4, <1>6, <1>7, <1>8, ReplayerLocal

LEMMA GetStep ==
    ASSUME IInv, NEW h \in Replayers, GetWebhookReplay(h)
    PROVE  IInv'
  <1>1. PICK s : s = replayers[h]
    OBVIOUS
  <1>2. s \in Replayer /\ s.pc = "get" /\ ReplayerOK(s)
    BY <1>1 DEF GetWebhookReplay, IInv, TypeOK, ReplayersOK
  <1>3. s.key \in Keys /\ replays[s.key] \in Row /\ replays[s.key] # Null
    BY <1>2 DEF ReplayerOK, IInv, TypeOK
  <1>4. UNCHANGED <<lastEvent, deliveries, replays, emitters, begun, faults, received, spoiled>>
    BY DEF GetWebhookReplay, tables, bounds
  <1>5. \A k \in s.todo : replays'[k] # Null
    BY <1>2, <1>4 DEF ReplayerOK
  <1>6. begun' \in Nat
    BY <1>4 DEF IInv, TypeOK
  <1>7. CASE replays[s.key].status = "cancelled"
    <2>1. replayers' = [replayers EXCEPT ![h] = NextReplay(s)]
      BY <1>1, <1>7 DEF GetWebhookReplay, Replays
    <2>2. /\ NextReplay(s) \in Replayer
          /\ ReplayerOK(NextReplay(s))'
          /\ NextReplay(s).pc # "update"
      BY <1>2, <1>5, NextReplayOK
    <2> QED BY <1>1, <1>2, <1>4, <1>6, <2>1, <2>2, ReplayerLocal
  <1>8. CASE replays[s.key].status # "cancelled"
    <2>1. PICK row \in Row : row = replays[s.key]
      BY <1>3
    <2>2. PICK f : f = [s EXCEPT !.pc = "deliver", !.row = row]
      OBVIOUS
    <2>3. /\ f \in Replayer
          /\ f.pc = "deliver"
          /\ f.row = row
          /\ f.key = s.key
          /\ f.todo = s.todo
      BY <1>2, <2>1, <2>2 DEF Replayer
    <2>4. replayers' = [replayers EXCEPT ![h] = f]
      BY <1>1, <1>8, <2>1, <2>2 DEF GetWebhookReplay, Replays
    <2>5. ReplayerOK(f)'
      <3>1. row.count \in Nat
        BY DEF Row
      <3>2. replays'[s.key] = row /\ row # Null /\ row.status # "cancelled"
        BY <1>3, <1>4, <1>8, <2>1
      <3> QED BY <1>3, <1>5, <2>3, <3>1, <3>2 DEF ReplayerOK
    <2> QED BY <1>1, <1>2, <1>4, <1>6, <2>3, <2>4, <2>5, ReplayerLocal
  <1> QED BY <1>7, <1>8

LEMMA RedeliverStep ==
    ASSUME IInv, NEW h \in Replayers, Redeliver(h)
    PROVE  IInv'
  <1>1. PICK s : s = replayers[h]
    OBVIOUS
  <1>2. s \in Replayer /\ s.pc = "deliver" /\ ReplayerOK(s)
    BY <1>1 DEF Redeliver, IInv, TypeOK, ReplayersOK
  <1>3. s.key \in Keys /\ replays[s.key] # Null /\ s.row \in Row
    BY <1>2 DEF ReplayerOK
  <1>4. PICK outcome \in Outcomes :
           /\ Arrives(s.key, s.row.payload, outcome)
           /\ replayers' = [replayers EXCEPT ![h] = [s EXCEPT !.pc = "record",
                                                              !.ok = (outcome = "ok")]]
    BY <1>1 DEF Redeliver, Replays
  <1>5. UNCHANGED <<lastEvent, deliveries, replays, emitters, begun, faults, spoiled>>
    BY DEF Redeliver, tables, bounds
  <1>6. /\ received' \in [Keys -> SUBSET Payload]
        /\ \A k \in Keys : received[k] \subseteq received'[k]
        /\ outcome # "refused" => received'[s.key] # {}
    BY <1>3, <1>4, ArrivesGrows DEF IInv, TypeOK, Row
  <1>7. PICK ok \in BOOLEAN : ok = (outcome = "ok")
    OBVIOUS
  <1>8. PICK f : f = [s EXCEPT !.pc = "record", !.ok = ok]
    OBVIOUS
  <1>9. /\ f \in Replayer
        /\ f.pc = "record"
        /\ f.ok = ok
        /\ f.key = s.key
        /\ f.row = s.row
        /\ f.todo = s.todo
    BY <1>2, <1>8 DEF Replayer
  <1>10. ReplayerOK(f)'
    <2>1. ok => received'[s.key] # {}
      BY <1>6, <1>7
    <2> QED BY <1>2, <1>3, <1>5, <1>9, <2>1 DEF ReplayerOK
  <1>11. replayers' = [replayers EXCEPT ![h] = f]
    BY <1>4, <1>7, <1>8
  <1>12. /\ deliveries' \in [Keys -> Nat]
         /\ begun' \in Nat /\ faults' \in Nat
         /\ spoiled' \subseteq Keys
    BY <1>5 DEF IInv, TypeOK
  <1> QED BY <1>1, <1>2, <1>5, <1>6, <1>9, <1>10, <1>11, <1>12, ReplayerStep

LEMMA ReplayerStopsStep ==
    ASSUME IInv, NEW h \in Replayers, ReplayerStops(h)
    PROVE  IInv'
  <1>1. PICK s : s = replayers[h]
    OBVIOUS
  <1>2. /\ faults' = faults + 1
        /\ spoiled' = spoiled \cup (Keys \cap {s.key})
        /\ replayers' = [replayers EXCEPT ![h] = NoReplayer]
        /\ UNCHANGED <<lastEvent, deliveries, replays, emitters, begun, received>>
    BY <1>1 DEF ReplayerStops, Replays, tables
  <1>3. /\ deliveries' \in [Keys -> Nat]
        /\ begun' \in Nat /\ faults' \in Nat
        /\ received' \in [Keys -> SUBSET Payload]
        /\ spoiled' \subseteq Keys /\ spoiled \subseteq spoiled'
    BY <1>2 DEF IInv, TypeOK
  <1>4. \A l \in Keys \ spoiled' :
           (s.key = l /\ s.pc = "update") <=> (NoReplayer.key = l /\ NoReplayer.pc = "update")
    BY <1>2 DEF NoReplayer
  <1> QED BY <1>1, <1>2, <1>3, <1>4, NoReplayerOK, ReplayerStep

\* A step that writes rows of k, which has a replay: what is left to show of k.
LEMMA KeyStep ==
    ASSUME IInv, NEW k \in Keys, replays[k] # Null,
           UNCHANGED <<lastEvent, emitters, received>>,
           spoiled \subseteq spoiled', spoiled' \subseteq Keys,
           begun' \in Nat, faults' \in Nat,
           deliveries' \in [Keys -> Nat],
           replays' \in [Keys -> Row \cup {Null}],
           \A l \in Keys \ {k} : deliveries'[l] = deliveries[l] /\ replays'[l] = replays[l],
           replays'[k] \in Row,
           replays[k].count <= replays'[k].count,
           Settled(k) => Settled(k)',
           replays'[k].status = "cancelled" => ~replays'[k].next,
           IsDeadLetter(k, 1)' => replays'[k].count > Backoffs,
           replayers' \in [Replayers -> Replayer],
           \A g \in Replayers : replayers'[g] = replayers[g] \/ ReplayerOK(replayers[g])',
           \A l \in Keys \ {k} : Counting(l)' = Counting(l),
           k \notin spoiled' =>
              deliveries'[k] = 1 + replays'[k].count + Cardinality(Counting(k)')
    PROVE  IInv'
  <1>1. TypeOK'
    BY DEF IInv, TypeOK
  <1>2. replays'[k] # Null
    BY NoRowAssumption
  <1>3. Forward
    <2>1. ASSUME NEW l \in Keys, replays[l] # Null
          PROVE  replays'[l] # Null /\ replays[l].count <= replays'[l].count
      <3>1. CASE l = k
        BY <1>2, <3>1
      <3>2. CASE l # k
        <4>1. replays[l].count \in Nat
          BY <2>1 DEF IInv, TypeOK, Row
        <4> QED BY <2>1, <3>2, <4>1
      <3> QED BY <3>1, <3>2
    <2>2. ASSUME NEW l \in Keys, Settled(l) PROVE Settled(l)'
      <3>1. CASE l = k
        BY <2>2, <3>1 DEF Settled
      <3>2. CASE l # k
        BY <2>2, <3>2 DEF Settled
      <3> QED BY <3>1, <3>2
    <2> QED BY <2>1, <2>2 DEF Forward
  <1>4. EmittersOK'
    <2>1. ASSUME NEW v \in Emitters PROVE EmitterOK(emitters[v])'
      <3>1. PICK e : e = emitters[v]
        OBVIOUS
      <3>2. e \in Emitter /\ EmitterOK(e) /\ emitters'[v] = e
        BY <3>1 DEF IInv, TypeOK, EmittersOK
      <3>3. \A l \in Keys : (l[1] = e.event /\ replays[l] = Null) =>
               replays'[l] = Null /\ deliveries'[l] = deliveries[l]
        OBVIOUS
      <3>4. EmitterOK(e)'
        BY <1>3, <3>2, <3>3, EmitterStillOK DEF IInv, TypeOK
      <3> QED BY <3>2, <3>4 DEF EmitterOK, OutcomeOK, Open, KeyOf, Settled
    <2>2. \A v \in Emitters : EmitterOK(emitters[v])'
      BY <2>1
    <2> QED BY <2>2 DEF EmittersOK
  <1>5. ReplayersOK'
    <2>1. ASSUME NEW g \in Replayers, replayers'[g] = replayers[g]
          PROVE  ReplayerOK(replayers[g])'
      <3>1. PICK s : s = replayers[g]
        OBVIOUS
      <3>2. s \in Replayer /\ ReplayerOK(s)
        BY <3>1 DEF IInv, TypeOK, ReplayersOK
      <3>3. ReplayerOK(s)'
        BY <1>3, <3>2, ReplayerStillOK DEF IInv, TypeOK
      <3> QED BY <2>1, <3>1, <3>3 DEF ReplayerOK
    <2>2. \A g \in Replayers : ReplayerOK(replayers[g])'
      BY <2>1
    <2> QED BY <2>2 DEF ReplayersOK
  <1>6. EventsApart'
    BY DEF IInv, EventsApart
  <1>7. FutureUntouched'
    <2>1. ASSUME NEW l \in Keys, l[1] > lastEvent'
          PROVE  replays'[l] = Null /\ deliveries'[l] = 0
      BY <2>1 DEF IInv, FutureUntouched
    <2> QED BY <2>1 DEF FutureUntouched
  <1>8. CancelledRests'
    BY DEF IInv, CancelledRests
  <1>9. NothingLost'
    <2>1. ASSUME NEW l \in Keys \ spoiled', IsDealtWith(l[1])' PROVE Settled(l)'
      <3>1. IsDealtWith(l[1])
        BY <2>1 DEF IsDealtWith
      <3> QED BY <1>3, <2>1, <3>1 DEF IInv, NothingLost, Settled, Forward
    <2> QED BY <2>1 DEF NothingLost, Settled
  <1>10. AttemptsAgree'
    <2>1. ASSUME NEW l \in Keys \ spoiled', replays'[l] # Null
          PROVE  deliveries'[l] = 1 + replays'[l].count + Cardinality(Counting(l)')
      <3>1. CASE l = k
        BY <2>1, <3>1 DEF Counting
      <3>2. CASE l # k
        <4>1. deliveries[l] = 1 + replays[l].count + Cardinality(Counting(l))
          BY <2>1, <3>2 DEF IInv, AttemptsAgree, Counting
        <4>2. PICK counting : counting = Counting(l) /\ counting = Counting(l)'
          BY <3>2
        <4> QED BY <3>2, <4>1, <4>2
      <3> QED BY <3>1, <3>2
    <2> QED BY <2>1 DEF AttemptsAgree, Counting
  <1>11. DeadLettersWereTried'
    <2>1. ASSUME NEW l \in Keys, IsDeadLetter(l, 1)' PROVE replays'[l].count > Backoffs
      <3>1. CASE l = k
        BY <2>1, <3>1 DEF IsDeadLetter
      <3>2. CASE l # k
        BY <2>1, <3>2 DEF IInv, DeadLettersWereTried, IsDeadLetter
      <3> QED BY <3>1, <3>2
    <2> QED BY <2>1 DEF DeadLettersWereTried
  <1> QED BY <1>1, <1>4, <1>5, <1>6, <1>7, <1>8, <1>9, <1>10, <1>11 DEF IInv

LEMMA CountingFinite ==
    ASSUME NEW k
    PROVE  IsFiniteSet(Counting(k)) /\ Cardinality(Counting(k)) \in Nat
  <1>1. Counting(k) \subseteq Replayers
    BY DEF Counting
  <1> QED BY <1>1, FS_Subset, FS_CardinalityType, WebhooksAssumption

LEMMA RecordReplayStep ==
    ASSUME IInv, NEW h \in Replayers, RecordReplay(h)
    PROVE  IInv'
  <1>1. PICK s : s = replayers[h]
    OBVIOUS
  <1>2. s \in Replayer /\ s.pc = "record" /\ ReplayerOK(s)
    BY <1>1 DEF RecordReplay, IInv, TypeOK, ReplayersOK
  <1>3. PICK k \in Keys : k = s.key /\ replays[k] # Null
    BY <1>2 DEF ReplayerOK
  <1>4. PICK f : f = [s EXCEPT !.pc = "update"]
    OBVIOUS
  <1>5. /\ f \in Replayer
        /\ f.pc = "update"
        /\ f.ok = s.ok
        /\ f.key = k
        /\ f.row = s.row
        /\ f.todo = s.todo
    BY <1>2, <1>3, <1>4 DEF Replayer
  <1>6. /\ deliveries' = [deliveries EXCEPT ![k] = deliveries[k] + 1]
        /\ replayers' = [replayers EXCEPT ![h] = f]
        /\ UNCHANGED <<lastEvent, replays, emitters, begun, faults, received, spoiled>>
    BY <1>1, <1>3, <1>4 DEF RecordReplay, InsertWebhookDelivery, Replays, bounds
  <1>7. /\ deliveries' \in [Keys -> Nat]
        /\ deliveries'[k] = deliveries[k] + 1
        /\ \A l \in Keys \ {k} : deliveries'[l] = deliveries[l]
        /\ replays' \in [Keys -> Row \cup {Null}]
        /\ begun' \in Nat /\ faults' \in Nat
        /\ replayers' \in [Replayers -> Replayer]
    BY <1>5, <1>6 DEF IInv, TypeOK
  <1>8. replays[k] \in Row /\ replays[k].count \in Nat
    BY <1>3 DEF IInv, TypeOK, Row
  <1>9. ReplayerOK(f)'
    BY <1>2, <1>3, <1>5, <1>6 DEF ReplayerOK
  <1>10. \A g \in Replayers : replayers'[g] = replayers[g] \/ ReplayerOK(replayers[g])'
    <2>1. ASSUME NEW g \in Replayers, g = h PROVE ReplayerOK(replayers[g])'
      <3>1. replayers'[g] = f
        BY <1>6, <2>1 DEF IInv, TypeOK
      <3> QED BY <1>9, <3>1 DEF ReplayerOK
    <2>2. ASSUME NEW g \in Replayers, g # h PROVE replayers'[g] = replayers[g]
      BY <1>6, <2>2 DEF IInv, TypeOK
    <2> QED BY <2>1, <2>2
  <1>11. \A l \in Keys \ {k} : Counting(l)' = Counting(l)
    BY <1>1, <1>2, <1>5, <1>6 DEF Counting, IInv, TypeOK
  <1>12. Cardinality(Counting(k)') = Cardinality(Counting(k)) + 1
    <2>1. Counting(k)' = Counting(k) \cup {h} /\ h \notin Counting(k)
      BY <1>1, <1>2, <1>5, <1>6 DEF Counting, IInv, TypeOK
    <2>2. Cardinality(Counting(k) \cup {h}) = Cardinality(Counting(k)) + 1
      BY <2>1, CountingFinite, FS_AddElement
    <2> QED BY <2>1, <2>2
  <1>13. k \notin spoiled =>
            deliveries'[k] = 1 + replays'[k].count + Cardinality(Counting(k)')
    <2> SUFFICES ASSUME k \notin spoiled
                 PROVE  deliveries'[k] = 1 + replays'[k].count + Cardinality(Counting(k)')
      OBVIOUS
    <2>1. deliveries[k] = 1 + replays[k].count + Cardinality(Counting(k))
      BY <1>3 DEF IInv, AttemptsAgree, Counting
    <2>2. Cardinality(Counting(k)) \in Nat
      BY CountingFinite
    <2>3. replays'[k].count = replays[k].count
      BY <1>6
    <2> QED BY <1>7, <1>8, <1>12, <2>1, <2>2, <2>3
  <1>14. /\ Settled(k) => Settled(k)'
         /\ replays'[k].status = "cancelled" => ~replays'[k].next
         /\ IsDeadLetter(k, 1)' => replays'[k].count > Backoffs
    BY <1>3, <1>6 DEF Settled, IsDeadLetter, IInv, CancelledRests, DeadLettersWereTried
  <1>15. replays'[k] \in Row /\ replays[k].count <= replays'[k].count
    BY <1>6, <1>8
  <1> QED BY <1>3, <1>6, <1>7, <1>10, <1>11, <1>13, <1>14, <1>15, KeyStep DEF IInv, TypeOK

\* The result of a replay is written, whether the statement reports it or not.
Writes(h) ==
    LET s == replayers[h]
    IN /\ s.pc = "update"
       /\ WriteResult(s)
       /\ Replays(h, NextReplay(s))
       /\ UNCHANGED <<lastEvent, deliveries, emitters, begun, received>>

LEMMA WritesStep ==
    ASSUME IInv, NEW h \in Replayers, Writes(h), faults' \in Nat,
           spoiled \subseteq spoiled', spoiled' \subseteq Keys
    PROVE  IInv'
  <1>1. PICK s : s = replayers[h]
    OBVIOUS
  <1>2. s \in Replayer /\ s.pc = "update" /\ ReplayerOK(s)
    BY <1>1 DEF Writes, IInv, TypeOK, ReplayersOK
  <1>3. PICK k \in Keys : k = s.key /\ replays[k] # Null
    BY <1>2 DEF ReplayerOK
  <1>4. /\ replays[k] \in Row
        /\ replays[k].count \in Nat
        /\ s.row \in Row
        /\ s.row.count \in Nat
        /\ s.row.count <= replays[k].count
    BY <1>2, <1>3 DEF ReplayerOK, IInv, TypeOK, Row
  <1>5. PICK status : status = StatusAfter(s)
    OBVIOUS
  <1>6. PICK next \in BOOLEAN : next = (~s.ok /\ NextAttempt(s.row.count))
    OBVIOUS
  <1>7. PICK row : row = [replays[k] EXCEPT !.status = status,
                                            !.count = replays[k].count + 1,
                                            !.next = next]
    OBVIOUS
  <1>8. status \in {"delivered", "failed"} /\ (status = "delivered" <=> s.ok)
    BY <1>2, <1>5 DEF StatusAfter, Replayer
  <1>9. /\ row \in Row
        /\ row.status = status
        /\ row.count = replays[k].count + 1
        /\ row.next = next
    <2>1. PICK old \in Row : old = replays[k] /\ old.count \in Nat
      BY <1>4
    <2>2. status \in ReplayStatus
      BY <1>8 DEF ReplayStatus
    <2>3. PICK count \in Nat : count = old.count + 1
      BY <2>1
    <2>4. row = [old EXCEPT !.status = status, !.count = count, !.next = next]
      BY <1>7, <2>1, <2>3
    <2> QED BY <2>1, <2>2, <2>3, <2>4 DEF Row
  <1>10. row # Null
    BY <1>9, NoRowAssumption
  <1>11. PICK f : f = NextReplay(s)
    OBVIOUS
  <1>12. /\ replays' = [replays EXCEPT ![k] = row]
         /\ replayers' = [replayers EXCEPT ![h] = f]
         /\ UNCHANGED <<lastEvent, deliveries, emitters, begun, received>>
    BY <1>1, <1>3, <1>5, <1>6, <1>7, <1>11
       DEF Writes, WriteResult, UpdateWebhookReplayAfterAttempt, Replays
  <1>13. /\ replays' \in [Keys -> Row \cup {Null}]
         /\ replays'[k] = row
         /\ \A l \in Keys \ {k} : replays'[l] = replays[l]
    BY <1>9, <1>12 DEF IInv, TypeOK
  <1>14. /\ f \in Replayer
         /\ ReplayerOK(f)'
         /\ f.pc # "update"
    <2>1. \A l \in s.todo : replays'[l] # Null
      BY <1>2, <1>10, <1>13 DEF ReplayerOK, Replayer
    <2> QED BY <1>2, <1>11, <2>1, NextReplayOK DEF ReplayerOK
  <1>15. /\ deliveries' \in [Keys -> Nat]
         /\ \A l \in Keys \ {k} : deliveries'[l] = deliveries[l]
         /\ begun' \in Nat /\ faults' \in Nat
         /\ replayers' \in [Replayers -> Replayer]
    BY <1>12, <1>14 DEF IInv, TypeOK
  <1>16. \A g \in Replayers : replayers'[g] = replayers[g] \/ ReplayerOK(replayers[g])'
    <2>1. ASSUME NEW g \in Replayers, g = h PROVE ReplayerOK(replayers[g])'
      <3>1. replayers'[g] = f
        BY <1>12, <2>1 DEF IInv, TypeOK
      <3> QED BY <1>14, <3>1 DEF ReplayerOK
    <2>2. ASSUME NEW g \in Replayers, g # h PROVE replayers'[g] = replayers[g]
      BY <1>12, <2>2 DEF IInv, TypeOK
    <2> QED BY <2>1, <2>2
  <1>17. \A l \in Keys \ {k} : Counting(l)' = Counting(l)
    BY <1>1, <1>2, <1>3, <1>12, <1>14 DEF Counting, IInv, TypeOK
  <1>18. Cardinality(Counting(k)') = Cardinality(Counting(k)) - 1
    <2>1. Counting(k)' = Counting(k) \ {h} /\ h \in Counting(k)
      BY <1>1, <1>2, <1>3, <1>12, <1>14 DEF Counting, IInv, TypeOK
    <2>2. Cardinality(Counting(k) \ {h}) = Cardinality(Counting(k)) - 1
      BY <2>1, CountingFinite, FS_RemoveElement
    <2> QED BY <2>1, <2>2
  <1>19. k \notin spoiled' =>
            deliveries'[k] = 1 + replays'[k].count + Cardinality(Counting(k)')
    <2> SUFFICES ASSUME k \notin spoiled'
                 PROVE  deliveries'[k] = 1 + replays'[k].count + Cardinality(Counting(k)')
      OBVIOUS
    <2>1. deliveries[k] = 1 + replays[k].count + Cardinality(Counting(k))
      BY <1>3 DEF IInv, AttemptsAgree, Counting
    <2>2. Cardinality(Counting(k)) \in Nat
      BY CountingFinite
    <2>3. deliveries'[k] = deliveries[k] /\ replays'[k].count = replays[k].count + 1
      BY <1>9, <1>12, <1>13
    <2> QED BY <1>4, <1>18, <2>1, <2>2, <2>3
  <1>20. Settled(k) => Settled(k)'
    <2>1. CASE s.ok
      <3>1. received[k] # {}
        BY <1>2, <1>3, <2>1 DEF ReplayerOK
      <3> QED BY <1>12, <3>1 DEF Settled
    <2>2. CASE ~s.ok
      BY <1>8, <1>9, <1>10, <1>13, <2>2 DEF Settled
    <2> QED BY <2>1, <2>2
  <1>21. replays'[k].status = "cancelled" => ~replays'[k].next
    BY <1>8, <1>9, <1>13
  <1>22. IsDeadLetter(k, 1)' => replays'[k].count > Backoffs
    <2> SUFFICES ASSUME row.status = "failed", ~row.next PROVE row.count > Backoffs
      BY <1>13 DEF IsDeadLetter
    <2>1. ~s.ok
      BY <1>8, <1>9
    <2>2. ~NextAttempt(s.row.count)
      BY <1>6, <1>9, <2>1
    <2>3. ~(s.row.count < Backoffs)
      BY <2>2 DEF NextAttempt
    <2> QED BY <1>4, <1>9, <2>3, WebhooksAssumption
  <1>23. replays'[k] \in Row /\ replays[k].count <= replays'[k].count
    BY <1>4, <1>9, <1>13
  <1> QED BY <1>3, <1>12, <1>13, <1>15, <1>16, <1>17, <1>19, <1>20, <1>21, <1>22, <1>23, KeyStep

LEMMA UpdateReplayStep ==
    ASSUME IInv, NEW h \in Replayers, UpdateReplay(h)
    PROVE  IInv'
  <1>1. Writes(h) /\ UNCHANGED <<faults, spoiled>>
    BY DEF UpdateReplay, Writes, bounds
  <1> QED BY <1>1, WritesStep DEF IInv, TypeOK

\* A failing statement that stores no result.
LEMMA NothingWrittenStep ==
    ASSUME IInv, NEW h \in Replayers, ReplayFails(h), UNCHANGED replays
    PROVE  IInv'
  <1>1. PICK s : s = replayers[h]
    OBVIOUS
  <1>2. s \in Replayer /\ s.pc \in {"get", "record", "update"} /\ ReplayerOK(s)
    BY <1>1 DEF ReplayFails, IInv, TypeOK, ReplayersOK
  <1>3. PICK k \in Keys : k = s.key /\ replays[k] # Null
    BY <1>2 DEF ReplayerOK
  <1>4. /\ faults' = faults + 1
        /\ spoiled' = spoiled \cup {k}
        /\ \/ deliveries' = deliveries
           \/ deliveries' = [deliveries EXCEPT ![k] = deliveries[k] + 1]
        /\ UNCHANGED <<lastEvent, replays, emitters, begun, received>>
    BY <1>1, <1>3 DEF ReplayFails, InsertWebhookDelivery, tables
  <1>5. PICK f : f = IF s.pc = "record" THEN [s EXCEPT !.pc = "update"] ELSE NextReplay(s)
    OBVIOUS
  <1>6. replayers' = [replayers EXCEPT ![h] = f]
    BY <1>1, <1>5 DEF ReplayFails, Replays
  <1>7. f \in Replayer /\ ReplayerOK(f)' /\ (f.pc = "update" => f.key = k)
    <2>1. CASE s.pc = "record"
      <3>1. f = [s EXCEPT !.pc = "update"]
        BY <1>5, <2>1
      <3>2. /\ f \in Replayer
            /\ f.pc = "update"
            /\ f.ok = s.ok
            /\ f.key = s.key
            /\ f.row = s.row
            /\ f.todo = s.todo
        BY <1>2, <3>1 DEF Replayer
      <3> QED BY <1>2, <1>3, <1>4, <2>1, <3>2 DEF ReplayerOK
    <2>2. CASE s.pc # "record"
      <3>1. \A l \in s.todo : replays'[l] # Null
        BY <1>2, <1>4 DEF ReplayerOK
      <3> QED BY <1>2, <1>5, <2>2, <3>1, NextReplayOK DEF ReplayerOK
    <2> QED BY <2>1, <2>2
  <1>8. /\ deliveries' \in [Keys -> Nat]
        /\ \A l \in Keys : (l \in spoiled' /\ replays[l] # Null) \/ deliveries'[l] = deliveries[l]
        /\ begun' \in Nat /\ faults' \in Nat
        /\ received' \in [Keys -> SUBSET Payload]
        /\ \A l \in Keys : received[l] \subseteq received'[l]
        /\ spoiled' \subseteq Keys /\ spoiled \subseteq spoiled'
    BY <1>3, <1>4 DEF IInv, TypeOK
  <1>9. \A l \in Keys \ spoiled' :
           (s.key = l /\ s.pc = "update") <=> (f.key = l /\ f.pc = "update")
    BY <1>3, <1>4, <1>7
  <1> QED BY <1>1, <1>4, <1>6, <1>7, <1>8, <1>9, ReplayerStep

LEMMA FailsOrWrites ==
    ASSUME NEW h \in Replayers, ReplayFails(h)
    PROVE  UNCHANGED replays \/ Writes(h)
  BY DEF ReplayFails, Writes, tables

LEMMA ReplayFailsStep ==
    ASSUME IInv, NEW h \in Replayers, ReplayFails(h)
    PROVE  IInv'
  <1>1. CASE UNCHANGED replays
    BY <1>1, NothingWrittenStep
  <1>2. CASE Writes(h)
    <2>1. replayers[h].key \in Keys
      BY <1>2 DEF Writes, IInv, ReplayersOK, ReplayerOK
    <2>2. faults' \in Nat /\ spoiled \subseteq spoiled' /\ spoiled' \subseteq Keys
      BY <2>1 DEF ReplayFails, IInv, TypeOK
    <2> QED BY <1>2, <2>2, WritesStep
  <1> QED BY <1>1, <1>2, FailsOrWrites

LEMMA CancelStep ==
    ASSUME IInv, NEW k \in Keys, CancelWebhookReplay(k)
    PROVE  IInv'
  <1>1. replays[k] # Null /\ replays[k] \in Row /\ replays[k].count \in Nat
    BY DEF CancelWebhookReplay, IInv, TypeOK, Row
  <1>2. PICK row : row = [replays[k] EXCEPT !.status = "cancelled", !.next = FALSE]
    OBVIOUS
  <1>3. /\ row \in Row
        /\ row.status = "cancelled"
        /\ row.next = FALSE
        /\ row.count = replays[k].count
    BY <1>1, <1>2 DEF Row, ReplayStatus
  <1>4. row # Null
    BY <1>3, NoRowAssumption
  <1>5. /\ replays' = [replays EXCEPT ![k] = row]
        /\ begun' = begun + 1
        /\ UNCHANGED <<lastEvent, deliveries, emitters, replayers, faults, received, spoiled>>
    BY <1>2 DEF CancelWebhookReplay, UpdateWebhookReplayStatus
  <1>6. /\ replays' \in [Keys -> Row \cup {Null}]
        /\ replays'[k] = row
        /\ \A l \in Keys \ {k} : replays'[l] = replays[l]
        /\ begun' \in Nat /\ faults' \in Nat
        /\ deliveries' \in [Keys -> Nat]
        /\ replayers' \in [Replayers -> Replayer]
    BY <1>3, <1>5 DEF IInv, TypeOK
  <1>7. \A l \in Keys : Counting(l)' = Counting(l)
    BY <1>5 DEF Counting
  <1>8. k \notin spoiled =>
           deliveries'[k] = 1 + replays'[k].count + Cardinality(Counting(k)')
    <2>1. PICK counting : counting = Counting(k) /\ counting = Counting(k)'
      BY <1>7
    <2>2. k \notin spoiled => deliveries[k] = 1 + replays[k].count + Cardinality(Counting(k))
      BY <1>1 DEF IInv, AttemptsAgree, Counting
    <2> QED BY <1>3, <1>5, <1>6, <2>1, <2>2
  <1>9. /\ Settled(k)'
        /\ replays'[k].status = "cancelled" => ~replays'[k].next
        /\ ~IsDeadLetter(k, 1)'
    BY <1>3, <1>4, <1>6 DEF Settled, IsDeadLetter
  <1>10. replays'[k] \in Row /\ replays[k].count <= replays'[k].count
    BY <1>1, <1>3, <1>6
  <1> QED BY <1>1, <1>5, <1>6, <1>7, <1>8, <1>9, <1>10, KeyStep DEF IInv, TypeOK

-------------------------------------------------------------------------------
(***************************************************************************)
(* All steps.                                                              *)
(***************************************************************************)
LEMMA StutterStep == IInv /\ UNCHANGED vars => IInv'
  BY DEF IInv, TypeOK, EmittersOK, EmitterOK, OutcomeOK, Open, KeyOf, Settled, ReplayersOK,
         ReplayerOK, EventsApart, FutureUntouched, CancelledRests, NothingLost, IsDealtWith,
         AttemptsAgree, DeadLettersWereTried, IsDeadLetter, vars, tables, bounds

LEMMA NextStep == IInv /\ [Next]_vars => IInv'
  <1> SUFFICES ASSUME IInv, [Next]_vars PROVE IInv'
    OBVIOUS
  <1>1. ASSUME NEW w \in Emitters, Emit(w) PROVE IInv'
    BY <1>1, EmitStep
  <1>2. ASSUME NEW w \in Emitters, Deliver(w) PROVE IInv'
    BY <1>2, DeliverStep
  <1>3. ASSUME NEW w \in Emitters, Record(w) PROVE IInv'
    BY <1>3, RecordStep
  <1>4. ASSUME NEW w \in Emitters, Queue(w) PROVE IInv'
    BY <1>4, QueueStep
  <1>5. ASSUME NEW w \in Emitters, OutcomeFails(w) PROVE IInv'
    BY <1>5, OutcomeFailsStep
  <1>6. ASSUME NEW w \in Emitters, EmitterStops(w) PROVE IInv'
    BY <1>6, EmitterStopsStep
  <1>7. ASSUME NEW h \in Replayers, NEW k \in Keys, ReplayWebhook(h, k) PROVE IInv'
    BY <1>7, ReplayBegins
  <1>8. ASSUME NEW h \in Replayers, ReplayFailedWebhooks(h) PROVE IInv'
    BY <1>8, BulkBegins
  <1>9. ASSUME NEW h \in Replayers, PickReplay(h) PROVE IInv'
    BY <1>9, PickStep
  <1>10. ASSUME NEW h \in Replayers, GetWebhookReplay(h) PROVE IInv'
    BY <1>10, GetStep
  <1>11. ASSUME NEW h \in Replayers, Redeliver(h) PROVE IInv'
    BY <1>11, RedeliverStep
  <1>12. ASSUME NEW h \in Replayers, RecordReplay(h) PROVE IInv'
    BY <1>12, RecordReplayStep
  <1>13. ASSUME NEW h \in Replayers, UpdateReplay(h) PROVE IInv'
    BY <1>13, UpdateReplayStep
  <1>14. ASSUME NEW h \in Replayers, ReplayFails(h) \/ ReplayerStops(h) PROVE IInv'
    BY <1>14, ReplayFailsStep, ReplayerStopsStep
  <1>15. ASSUME NEW k \in Keys, CancelWebhookReplay(k) PROVE IInv'
    BY <1>15, CancelStep
  <1>16. CASE UNCHANGED vars
    BY <1>16, StutterStep
  <1> QED BY <1>1, <1>2, <1>3, <1>4, <1>5, <1>6, <1>7, <1>8, <1>9, <1>10, <1>11, <1>12,
             <1>13, <1>14, <1>15, <1>16 DEF Next

\* The invariant and its parts hold for any events, URLs, emitters and replays,
\* whatever overlaps, fails or stops.
THEOREM WebhooksCorrect == Spec => []IInv
  BY InitOK, NextStep, PTL DEF Spec

\* Every reachable state of Webhooks is a state of its tables and requests.
THEOREM WebhooksTypeCorrect == Spec => []TypeOK
  <1>1. IInv => TypeOK
    BY DEF IInv
  <1> QED BY <1>1, WebhooksCorrect, PTL

\* Unless a statement fails or a process stops, a target gets an event or a replay
\* that can bring it there is left.
THEOREM NothingLostCorrect == Spec => []NothingLost
  <1>1. IInv => NothingLost
    BY DEF IInv
  <1> QED BY <1>1, WebhooksCorrect, PTL

\* Recorded deliveries and counted attempts agree, however replays overlap.
THEOREM AttemptsAgreeCorrect == Spec => []AttemptsAgree
  <1>1. IInv => AttemptsAgree
    BY DEF IInv
  <1> QED BY <1>1, WebhooksCorrect, PTL

\* No replay is listed as a dead letter before every backoff has been used.
THEOREM DeadLettersCorrect == Spec => []DeadLettersWereTried
  <1>1. IInv => DeadLettersWereTried
    BY DEF IInv
  <1> QED BY <1>1, WebhooksCorrect, PTL

-------------------------------------------------------------------------------
(***************************************************************************)
(* Cancelled replays.                                                      *)
(***************************************************************************)
\* A failed delivery is put into the queue, whether the statement reports it or not.
Queues(w) ==
    /\ emitters[w].pc = "queue"
    /\ InsertWebhookReplay(KeyOf(emitters[w], emitters[w].at), OutcomePayload)

\* All that is written of replays.
LEMMA StepsOfReplays ==
    ASSUME [Next]_vars
    PROVE  \/ UNCHANGED replays
           \/ \E w \in Emitters : Queues(w)
           \/ \E h \in Replayers : Writes(h)
           \/ \E j \in Keys : CancelWebhookReplay(j)
  <1>1. ASSUME NEW w \in Emitters, OutcomeFails(w) PROVE UNCHANGED replays \/ Queues(w)
    BY <1>1 DEF OutcomeFails, Queues, tables
  <1>2. ASSUME NEW w \in Emitters, Queue(w) PROVE Queues(w)
    BY <1>2 DEF Queue, Queues
  <1>3. ASSUME NEW h \in Replayers, UpdateReplay(h) PROVE Writes(h)
    BY <1>3 DEF UpdateReplay, Writes, bounds
  <1>4. \/ UNCHANGED replays
        \/ \E w \in Emitters : Queue(w) \/ OutcomeFails(w)
        \/ \E h \in Replayers : UpdateReplay(h) \/ ReplayFails(h)
        \/ \E j \in Keys : CancelWebhookReplay(j)
    BY DEF Next, Emit, Deliver, Record, EmitterStops, ReplayWebhook, ReplayFailedWebhooks,
           PickReplay, GetWebhookReplay, Redeliver, RecordReplay, ReplayerStops, vars, tables
  <1> QED BY <1>1, <1>2, <1>3, <1>4, FailsOrWrites

LEMMA NextRests ==
    ASSUME IInv, [Next]_vars, NEW k \in Keys, replays[k] # Null,
           replays[k].status = "cancelled"
    PROVE  RestsOrWasInFlight(k)
  <1>1. CASE UNCHANGED replays
    BY <1>1 DEF RestsOrWasInFlight
  <1>2. ASSUME NEW w \in Emitters, Queues(w) PROVE RestsOrWasInFlight(k)
    <2>1. PICK e : e = emitters[w]
      OBVIOUS
    <2>2. /\ OutcomeOK(e, e.at)
          /\ Open(e, e.at)
          /\ KeyOf(e, e.at) \in Keys
      BY <1>2, <2>1, InHand DEF Queues
    <2>3. replays[KeyOf(e, e.at)] = Null
      BY <2>2 DEF OutcomeOK
    <2>4. replays'[k] = replays[k]
      BY <1>2, <2>1, <2>3 DEF Queues, InsertWebhookReplay, IInv, TypeOK
    <2> QED BY <2>4 DEF RestsOrWasInFlight
  <1>3. ASSUME NEW h \in Replayers, Writes(h) PROVE RestsOrWasInFlight(k)
    <2>1. PICK s : s = replayers[h]
      OBVIOUS
    <2>2. s \in Replayer /\ s.pc = "update" /\ ReplayerOK(s)
      BY <1>3, <2>1 DEF Writes, IInv, TypeOK, ReplayersOK
    <2>3. CASE s.key # k
      <3>1. replays'[k] = replays[k]
        BY <1>3, <2>1, <2>3 DEF Writes, WriteResult, UpdateWebhookReplayAfterAttempt, IInv, TypeOK
      <3> QED BY <3>1 DEF RestsOrWasInFlight
    <2>4. CASE s.key = k
      <3>1. s.row.status # "cancelled"
        BY <2>2 DEF ReplayerOK
      <3>2. NextReplay(s).pc # "update"
        BY DEF NextReplay, NoReplayer
      <3>3. replayers'[h] = NextReplay(s)
        BY <1>3, <2>1 DEF Writes, Replays, IInv, TypeOK
      <3>4. replayers'[h] # replayers[h]
        BY <2>1, <2>2, <3>2, <3>3
      <3> QED BY <2>1, <2>2, <2>4, <3>1, <3>4 DEF RestsOrWasInFlight
    <2> QED BY <2>3, <2>4
  <1>4. ASSUME NEW l \in Keys, CancelWebhookReplay(l) PROVE RestsOrWasInFlight(k)
    <2>1. CASE l # k
      <3>1. replays'[k] = replays[k]
        BY <1>4, <2>1 DEF CancelWebhookReplay, UpdateWebhookReplayStatus, IInv, TypeOK
      <3> QED BY <3>1 DEF RestsOrWasInFlight
    <2>2. CASE l = k
      <3>1. replays[k] \in Row /\ replays[k].next = FALSE
        BY DEF IInv, TypeOK, CancelledRests, Row
      <3>2. [replays[k] EXCEPT !.status = "cancelled", !.next = FALSE] = replays[k]
        BY <3>1 DEF Row
      <3>3. replays'[k] = replays[k]
        BY <1>4, <2>2, <3>2 DEF CancelWebhookReplay, UpdateWebhookReplayStatus, IInv, TypeOK
      <3> QED BY <3>3 DEF RestsOrWasInFlight
    <2> QED BY <2>1, <2>2
  <1>5. \/ UNCHANGED replays
        \/ \E w \in Emitters : Queues(w)
        \/ \E h \in Replayers : Writes(h)
        \/ \E l \in Keys : CancelWebhookReplay(l)
    BY StepsOfReplays
  <1> QED BY <1>1, <1>2, <1>3, <1>4, <1>5

\* Nothing but the result of a replay that was under way overrules a cancel.
THEOREM CancelCorrect == Spec => CancelHolds
  <1>1. IInv /\ [Next]_vars =>
           [\A k \in Keys : replays[k] # Null /\ replays[k].status = "cancelled" =>
                               RestsOrWasInFlight(k)]_vars
    BY NextRests
  <1> QED BY <1>1, WebhooksCorrect, PTL DEF Spec, CancelHolds

-------------------------------------------------------------------------------
(***************************************************************************)
(* What the targets get.                                                   *)
(***************************************************************************)
\* A target without a replay has heard from Emit only.
EmitInv == \A k \in Keys : replays[k] = Null => received[k] \subseteq {"event"}

\* A replay's row is never deleted.
LEMMA NextRowsStay ==
    ASSUME IInv, [Next]_vars, NEW k \in Keys, replays[k] # Null
    PROVE  replays'[k] # Null
  <1>0. replays \in [Keys -> Row \cup {Null}]
    BY DEF IInv, TypeOK
  <1>1. ASSUME NEW j, NEW row, replays' = [replays EXCEPT ![j] = row], row # Null
        PROVE  replays'[k] # Null
    BY <1>0, <1>1
  <1>2. ASSUME NEW w \in Emitters, Queues(w) PROVE replays'[k] # Null
    <2>1. PICK row : row = [status |-> "queued", count |-> 0, next |-> FALSE,
                            payload |-> OutcomePayload]
      OBVIOUS
    <2>2. row \in Row
      BY <2>1 DEF Row, ReplayStatus, Payload, OutcomePayload
    <2> QED BY <1>0, <1>2, <2>1, <2>2, NoRowAssumption DEF Queues, InsertWebhookReplay
  <1>3. ASSUME NEW h \in Replayers, Writes(h) PROVE replays'[k] # Null
    <2>1. PICK j, st, nx, row :
             /\ row = [replays[j] EXCEPT !.status = st, !.count = replays[j].count + 1,
                                         !.next = nx]
             /\ replays' = [replays EXCEPT ![j] = row]
             /\ j = replayers[h].key /\ st \in ReplayStatus /\ nx \in BOOLEAN
             /\ replayers[h].pc = "update"
      BY <1>3 DEF Writes, WriteResult, UpdateWebhookReplayAfterAttempt, StatusAfter, ReplayStatus,
                  NextAttempt
    <2>2. replays[j] \in Row
      BY <1>0, <2>1 DEF IInv, ReplayersOK, ReplayerOK
    <2>3. PICK n \in Nat : n = replays[j].count + 1
      BY <2>2 DEF Row
    <2>4. row = [replays[j] EXCEPT !.status = st, !.count = n, !.next = nx]
      BY <2>1, <2>3
    <2>5. row \in Row
      BY <2>1, <2>2, <2>3, <2>4 DEF Row
    <2> QED BY <1>1, <2>1, <2>5, NoRowAssumption
  <1>4. ASSUME NEW j \in Keys, CancelWebhookReplay(j) PROVE replays'[k] # Null
    <2>1. PICK row : /\ row = [replays[j] EXCEPT !.status = "cancelled", !.next = FALSE]
                     /\ replays' = [replays EXCEPT ![j] = row]
                     /\ replays[j] \in Row
      BY <1>0, <1>4 DEF CancelWebhookReplay, UpdateWebhookReplayStatus
    <2>2. row \in Row
      BY <2>1 DEF Row, ReplayStatus
    <2> QED BY <1>1, <2>1, <2>2, NoRowAssumption
  <1>5. \/ UNCHANGED replays
        \/ \E w \in Emitters : Queues(w)
        \/ \E h \in Replayers : Writes(h)
        \/ \E j \in Keys : CancelWebhookReplay(j)
    BY StepsOfReplays
  <1> QED BY <1>2, <1>3, <1>4, <1>5

\* Emit delivers the event, and only a stored replay delivers anything else.
LEMMA NextEmits == IInv /\ EmitInv /\ [Next]_vars => EmitInv'
  <1> SUFFICES ASSUME IInv, EmitInv, [Next]_vars, NEW k \in Keys, replays'[k] = Null
               PROVE  received'[k] \subseteq {"event"}
    BY DEF EmitInv
  <1>0. replays \in [Keys -> Row \cup {Null}] /\ received \in [Keys -> SUBSET Payload]
    BY DEF IInv, TypeOK
  <1>1. replays[k] = Null
    <2>1. \A j \in Keys : replays[j] # Null => replays'[j] # Null
      BY NextRowsStay
    <2> QED BY <2>1
  <1>2. received[k] \subseteq {"event"}
    BY <1>1 DEF EmitInv
  <1>3. ASSUME NEW w \in Emitters, Deliver(w) PROVE received'[k] \subseteq {"event"}
    BY <1>0, <1>2, <1>3 DEF Deliver, Arrives
  <1>4. ASSUME NEW h \in Replayers, Redeliver(h) PROVE received'[k] \subseteq {"event"}
    <2>1. replayers[h].key # k
      BY <1>1, <1>4 DEF Redeliver, IInv, ReplayersOK, ReplayerOK
    <2>2. received'[k] = received[k]
      BY <1>0, <1>4, <2>1 DEF Redeliver, Arrives
    <2> QED BY <1>2, <2>2
  <1>5. CASE UNCHANGED received
    BY <1>2, <1>5
  <1>6. \/ UNCHANGED received
        \/ \E w \in Emitters : Deliver(w)
        \/ \E h \in Replayers : Redeliver(h)
    BY DEF Next, Emit, Record, Queue, OutcomeFails, EmitterStops, ReplayWebhook,
           ReplayFailedWebhooks, PickReplay, GetWebhookReplay, RecordReplay, UpdateReplay,
           ReplayFails, ReplayerStops, CancelWebhookReplay, vars
  <1> QED BY <1>3, <1>4, <1>5, <1>6

\* Only replays spoil what arrives: as long as none has been stored, every target
\* that has heard anything has got the event itself.
THEOREM PayloadUntilReplay ==
    Spec => []((\A k \in Keys : replays[k] = Null) => PayloadArrives)
  <1>1. Init => EmitInv
    BY DEF Init, EmitInv
  <1>2. EmitInv => ((\A k \in Keys : replays[k] = Null) => PayloadArrives)
    BY DEF EmitInv, PayloadArrives
  <1> QED BY <1>1, <1>2, NextEmits, WebhooksCorrect, PTL DEF Spec
================================================================================
