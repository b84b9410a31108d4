----------------------------- MODULE ChannelsProofs -----------------------------
(***************************************************************************)
(* Channels for any channels, credentials, rules and overlapping requests: *)
(* what the status says of the credentials, what is left of a deleted      *)
(* channel, and that what is accepted for an active channel goes out.      *)
(***************************************************************************)
EXTENDS Channels, TLAPS

\* What a handler in the middle of a request can rely on.  A row that is fresh is
\* the row of the table; the result of a probe tells of the credentials it was
\* made with.
RequestOK(s, table, failed) ==
    /\ s.pc \notin {"idle", "next"} => s.channel \in ChannelIds
    /\ s.pc \in {"read", "write"} => s.input \in Input
    /\ s.pc \in {"write", "verdict", "probe", "result"} => s.row \in Row
    /\ s.fresh => /\ s.channel \in ChannelIds
                  /\ s.row \in Row
                  /\ table[s.channel] = s.row
    /\ s.pc = "result" => IF s.ok THEN Complete(s.row)
                          ELSE <<s.row.token, s.row.account>> \in failed[s.channel]

RequestsOK == \A h \in Handlers : RequestOK(requests[h], channels, failedProbes)

\* Ids are handed out in order.
IdsInOrder == \A c \in ChannelIds : Exists(c) => c <= lastId

IInv ==
    /\ TypeOK
    /\ IdsInOrder
    /\ RequestsOK
    /\ StatusFitsCredentials
    /\ NothingOutlivesItsChannel

\* The table may be said to fit at channel c.
Fits(row, failed) ==
    /\ row.status = "active" => Complete(row)
    /\ row.status = "error" => ~Complete(row) \/ <<row.token, row.account>> \in failed

-------------------------------------------------------------------------------
(***************************************************************************)
(* Rows and requests.                                                      *)
(***************************************************************************)
LEMMA StatusOfFits ==
    ASSUME NEW row \in Row, NEW failed
    PROVE  /\ StatusOf(row) \in Status
           /\ [row EXCEPT !.status = StatusOf(row)] \in Row
           /\ Fits([row EXCEPT !.status = StatusOf(row)], failed)
  BY DEF Row, Status, StatusOf, Fits, Complete, Configured

LEMMA AppliedRow ==
    ASSUME NEW row \in Row, NEW input \in Input, NEW failed
    PROVE  /\ Applied(row, input) \in Row
           /\ Fits(Applied(row, input), failed)
  <1>1. Edited(row, input) \in Row
    BY DEF Edited, Row, Input, SecretAction, SecretAfter, AccountAfter, MaybeToken, MaybeAccount
  <1> QED BY <1>1, StatusOfFits DEF Applied

LEMMA IdleRequest ==
    ASSUME NEW table, NEW failed
    PROVE  NoRequest \in Request /\ RequestOK(NoRequest, table, failed)
  BY DEF NoRequest, Request, RequestOK, Status

LEMMA FinishedRequest ==
    ASSUME NEW s \in Request, NEW table, NEW failed
    PROVE  /\ Finished(s) \in Request
           /\ RequestOK(Finished(s), table, failed)
           /\ Finished(s).pc \in {"idle", "next"}
  <1>1. CASE s.todo = {}
    BY <1>1, IdleRequest DEF Finished, NoRequest
  <1>2. CASE s.todo # {}
    <2>1. PICK r : r = Finished(s)
      OBVIOUS
    <2>2. r = [NoRequest EXCEPT !.pc = "next", !.todo = s.todo, !.target = s.target]
      BY <1>2, <2>1 DEF Finished
    <2>3. r \in Request /\ r.pc = "next" /\ r.fresh = FALSE
      BY <2>2 DEF NoRequest, Request, Status
    <2> QED BY <2>1, <2>3 DEF RequestOK
  <1> QED BY <1>1, <1>2

LEMMA TestRequest ==
    ASSUME NEW s \in Request, NEW c \in ChannelIds, NEW enables \in BOOLEAN,
           NEW table, NEW failed
    PROVE  /\ Test(s, c, enables) \in Request
           /\ RequestOK(Test(s, c, enables), table, failed)
           /\ Test(s, c, enables).pc = "get"
           /\ Test(s, c, enables).channel = c
           /\ Test(s, c, enables).enables = enables
  <1>1. PICK f : f = Finished(s)
    OBVIOUS
  <1>2. f \in Request /\ f.fresh = FALSE
    BY <1>1, FinishedRequest DEF Finished, NoRequest
  <1>3. PICK r : r = [f EXCEPT !.pc = "get", !.channel = c, !.enables = enables]
    OBVIOUS
  <1>4. r = Test(s, c, enables)
    BY <1>1, <1>3 DEF Test
  <1>5. r \in Request /\ r.pc = "get" /\ r.channel = c /\ r.enables = enables /\ r.fresh = FALSE
    BY <1>2, <1>3 DEF Request
  <1>6. RequestOK(r, table, failed)
    BY <1>5 DEF RequestOK
  <1> QED BY <1>4, <1>5, <1>6

LEMMA OutdatedRequests ==
    ASSUME TypeOK, NEW c \in ChannelIds
    PROVE  /\ Outdated(c) \in [Handlers -> Request]
           /\ \A g \in Handlers :
                 /\ Outdated(c)[g].pc = requests[g].pc
                 /\ Outdated(c)[g].channel = requests[g].channel
                 /\ Outdated(c)[g].enables = requests[g].enables
                 /\ Outdated(c)[g].input = requests[g].input
                 /\ Outdated(c)[g].row = requests[g].row
                 /\ Outdated(c)[g].ok = requests[g].ok
                 /\ Outdated(c)[g].fresh => requests[g].fresh /\ requests[g].channel # c
  <1>1. ASSUME NEW g \in Handlers
        PROVE  /\ Outdated(c)[g] \in Request
               /\ Outdated(c)[g].pc = requests[g].pc
               /\ Outdated(c)[g].channel = requests[g].channel
               /\ Outdated(c)[g].enables = requests[g].enables
               /\ Outdated(c)[g].input = requests[g].input
               /\ Outdated(c)[g].row = requests[g].row
               /\ Outdated(c)[g].ok = requests[g].ok
               /\ Outdated(c)[g].fresh => requests[g].fresh /\ requests[g].channel # c
    <2>1. requests[g] \in Request
      BY DEF TypeOK
    <2>2. CASE requests[g].channel = c
      <3>1. Outdated(c)[g] = [requests[g] EXCEPT !.fresh = FALSE]
        BY <2>2 DEF Outdated
      <3> QED BY <2>1, <3>1 DEF Request
    <2>3. CASE requests[g].channel # c
      <3>1. Outdated(c)[g] = requests[g]
        BY <2>3 DEF Outdated
      <3> QED BY <2>1, <2>3, <3>1
    <2> QED BY <2>2, <2>3
  <1>2. Outdated(c) = [g \in Handlers |-> Outdated(c)[g]]
    BY DEF Outdated
  <1> QED BY <1>1, <1>2

LEMMA OutdatedRequestOK ==
    ASSUME TypeOK, NEW c \in ChannelIds, NEW g \in Handlers, NEW table, NEW failed,
           RequestOK(requests[g], table, failed)
    PROVE  RequestOK(Outdated(c)[g], table, failed)
  <1>1. CASE requests[g].channel = c
    <2>1. PICK s : s = requests[g]
      OBVIOUS
    <2>2. PICK t : t = [s EXCEPT !.fresh = FALSE]
      OBVIOUS
    <2>3. t = Outdated(c)[g]
      BY <1>1, <2>1, <2>2 DEF Outdated
    <2>4. s \in Request
      BY <2>1 DEF TypeOK
    <2>5. /\ t.pc = s.pc
          /\ t.channel = s.channel
          /\ t.input = s.input
          /\ t.row = s.row
          /\ t.ok = s.ok
          /\ t.fresh = FALSE
      BY <2>2, <2>4 DEF Request
    <2>6. RequestOK(t, table, failed)
      BY <2>1, <2>5 DEF RequestOK
    <2> QED BY <2>3, <2>6
  <1>2. CASE requests[g].channel # c
    <2>1. Outdated(c)[g] = requests[g]
      BY <1>2 DEF Outdated
    <2> QED BY <2>1
  <1> QED BY <1>1, <1>2

-------------------------------------------------------------------------------
(***************************************************************************)
(* Steps by what they write.                                               *)
(***************************************************************************)
\* A handler is in the middle of enabling channel c.
Enables(s, c) == s.channel = c /\ s.enables /\ s.pc \in {"get", "verdict"}

FitsAt(c) ==
    Exists(c) /\ c \notin disturbed /\ ~Enabling(c) => Fits(channels[c], failedProbes[c])

LEMMA FitsEverywhere == StatusFitsCredentials <=> \A c \in ChannelIds : FitsAt(c)
  BY DEF StatusFitsCredentials, FitsAt, Fits

\* A channel whose row is not written fits as before, unless its enabling ends.
LEMMA FitsStill ==
    ASSUME NEW c \in ChannelIds, FitsAt(c), Exists(c)' => channels'[c] = channels[c],
           failedProbes[c] \subseteq failedProbes'[c], c \in disturbed => c \in disturbed',
           Enabling(c) => Enabling(c)' \/ c \in disturbed' \/ ~Exists(c)'
    PROVE  FitsAt(c)'
  BY DEF FitsAt, Fits, Exists

LEMMA RequestStillOK ==
    ASSUME NEW s \in Request, NEW table, NEW table2, NEW failed, NEW refused2,
           RequestOK(s, table, failed),
           \A c \in ChannelIds : failed[c] \subseteq refused2[c],
           s.fresh => table2[s.channel] = table[s.channel]
    PROVE  RequestOK(s, table2, refused2)
  BY DEF RequestOK

\* A handler goes on and writes no table.
LEMMA LocalStep ==
    ASSUME IInv, NEW h \in Handlers, NEW r \in Request, RequestOK(r, channels', failedProbes'),
           requests' = [requests EXCEPT ![h] = r],
           UNCHANGED tables,
           failedProbes' \in [ChannelIds -> SUBSET Credentials],
           \A c \in ChannelIds : failedProbes[c] \subseteq failedProbes'[c],
           disturbed \subseteq disturbed', disturbed' \subseteq ChannelIds,
           begun' \in Nat,
           \A c \in ChannelIds :
              Enables(requests[h], c) => Enables(r, c) \/ c \in disturbed' \/ ~Exists(c)
    PROVE  IInv'
  <1>1. TypeOK'
    BY DEF IInv, TypeOK, tables
  <1>2. IdsInOrder' /\ NothingOutlivesItsChannel'
    BY DEF IInv, IdsInOrder, NothingOutlivesItsChannel, Exists, tables
  <1>3. RequestsOK'
    <2>1. ASSUME NEW g \in Handlers PROVE RequestOK(requests'[g], channels', failedProbes')
      <3>1. CASE g = h
        BY <3>1 DEF IInv, TypeOK
      <3>2. CASE g # h
        <4>1. requests'[g] = requests[g] /\ requests[g] \in Request
          BY <3>2 DEF IInv, TypeOK
        <4>2. RequestOK(requests[g], channels, failedProbes)
          BY DEF IInv, RequestsOK
        <4> QED BY <4>1, <4>2, RequestStillOK DEF tables
      <3> QED BY <3>1, <3>2
    <2> QED BY <2>1 DEF RequestsOK
  <1>4. StatusFitsCredentials'
    <2>1. ASSUME NEW c \in ChannelIds PROVE FitsAt(c)'
      <3>1. Enabling(c) => Enabling(c)' \/ c \in disturbed' \/ ~Exists(c)'
        <4> SUFFICES ASSUME Enabling(c) PROVE Enabling(c)' \/ c \in disturbed' \/ ~Exists(c)'
          OBVIOUS
        <4>1. PICK g \in Handlers : Enables(requests[g], c)
          BY DEF Enabling, Enables
        <4>2. CASE g = h
          BY <4>1, <4>2 DEF IInv, TypeOK, Enabling, Enables, Exists, tables
        <4>3. CASE g # h
          BY <4>1, <4>3 DEF IInv, TypeOK, Enabling, Enables
        <4> QED BY <4>2, <4>3
      <3>2. FitsAt(c)
        BY FitsEverywhere DEF IInv
      <3> QED BY <3>1, <3>2, FitsStill DEF tables
    <2>2. \A c \in ChannelIds : FitsAt(c)'
      BY <2>1
    <2> QED BY <2>2 DEF StatusFitsCredentials, FitsAt, Fits
  <1> QED BY <1>1, <1>2, <1>3, <1>4 DEF IInv

\* A handler writes the row of channel c, which makes it old for the others.
LEMMA WriteStep ==
    ASSUME IInv, NEW h \in Handlers, NEW c \in ChannelIds, Exists(c),
           NEW row \in Row, NEW r \in Request, ~r.fresh, RequestOK(r, channels', failedProbes),
           channels' = [channels EXCEPT ![c] = row],
           requests' = [Outdated(c) EXCEPT ![h] = r],
           UNCHANGED <<rules, policied, lastId, failedProbes>>,
           audit' \in [ChannelIds -> Seq(Event)],
           \A d \in ChannelIds \ {c} : audit'[d] = audit[d],
           disturbed' \subseteq ChannelIds, disturbed \ {c} \subseteq disturbed',
           begun' \in Nat,
           \A d \in ChannelIds \ {c} : ~Enables(requests[h], d),
           FitsAt(c)'
    PROVE  IInv'
  <1>1. TypeOK'
    BY OutdatedRequests DEF IInv, TypeOK
  <1>2. IdsInOrder'
    BY DEF IInv, TypeOK, IdsInOrder, Exists
  <1>3. NothingOutlivesItsChannel'
    <2>1. row # Null
      BY NoRowAssumption
    <2> QED BY <2>1 DEF IInv, TypeOK, NothingOutlivesItsChannel, Exists
  <1>4. RequestsOK'
    <2>1. ASSUME NEW g \in Handlers PROVE RequestOK(requests'[g], channels', failedProbes')
      <3>1. CASE g = h
        <4>1. requests'[g] = r
          BY <3>1, OutdatedRequests DEF IInv
        <4> QED BY <4>1
      <3>2. CASE g # h
        <4>1. requests'[g] = Outdated(c)[g] /\ Outdated(c)[g] \in Request
          BY <3>2, OutdatedRequests DEF IInv
        <4>2. RequestOK(requests[g], channels, failedProbes)
          BY DEF IInv, RequestsOK
        <4>3. RequestOK(Outdated(c)[g], channels, failedProbes)
          BY <4>2, OutdatedRequestOK DEF IInv
        <4>4. Outdated(c)[g].fresh => channels'[Outdated(c)[g].channel] = channels[Outdated(c)[g].channel]
          <5>1. Outdated(c)[g].fresh => Outdated(c)[g].channel \in ChannelIds \ {c}
            <6>1. Outdated(c)[g].fresh => requests[g].channel # c
              BY OutdatedRequests DEF IInv
            <6>2. Outdated(c)[g].channel = requests[g].channel
              BY OutdatedRequests DEF IInv
            <6>3. Outdated(c)[g].fresh => Outdated(c)[g].channel \in ChannelIds
              BY <4>3 DEF RequestOK
            <6> QED BY <6>1, <6>2, <6>3
          <5>2. \A d \in ChannelIds \ {c} : channels'[d] = channels[d]
            BY DEF IInv, TypeOK
          <5>3. PICK d : d = Outdated(c)[g].channel
            OBVIOUS
          <5>4. CASE Outdated(c)[g].fresh
            BY <5>1, <5>2, <5>3, <5>4
          <5>5. CASE ~Outdated(c)[g].fresh
            BY <5>5
          <5> QED BY <5>4, <5>5
        <4>5. PICK s : s = Outdated(c)[g]
          OBVIOUS
        <4>6. PICK table : table = channels'
          OBVIOUS
        <4>7. RequestOK(s, table, failedProbes)
          <5>1. s \in Request /\ RequestOK(s, channels, failedProbes)
            BY <4>1, <4>3, <4>5
          <5>2. s.fresh => table[s.channel] = channels[s.channel]
            BY <4>4, <4>5, <4>6
          <5> QED BY <5>1, <5>2, RequestStillOK
        <4> QED BY <4>1, <4>5, <4>6, <4>7
      <3> QED BY <3>1, <3>2
    <2> QED BY <2>1 DEF RequestsOK
  <1>5. StatusFitsCredentials'
    <2>1. ASSUME NEW d \in ChannelIds, d # c PROVE FitsAt(d)'
      <3>1. Enabling(d) => Enabling(d)'
        <4> SUFFICES ASSUME Enabling(d) PROVE Enabling(d)'
          OBVIOUS
        <4>1. PICK g \in Handlers : Enables(requests[g], d)
          BY DEF Enabling, Enables
        <4>2. g # h
          BY <2>1, <4>1
        <4>3. requests'[g] = Outdated(c)[g]
          BY <4>2, OutdatedRequests DEF IInv
        <4>4. Enables(requests'[g], d)
          BY <4>1, <4>3, OutdatedRequests DEF IInv, Enables
        <4> QED BY <4>4 DEF Enabling, Enables
      <3>2. FitsAt(d)
        BY FitsEverywhere DEF IInv
      <3>3. channels'[d] = channels[d] /\ (d \in disturbed => d \in disturbed')
        BY <2>1 DEF IInv, TypeOK
      <3> QED BY <3>1, <3>2, <3>3, FitsStill
    <2>2. \A d \in ChannelIds : FitsAt(d)'
      BY <2>1
    <2> QED BY <2>2 DEF StatusFitsCredentials, FitsAt, Fits
  <1> QED BY <1>1, <1>2, <1>3, <1>4, <1>5 DEF IInv

-------------------------------------------------------------------------------
(***************************************************************************)
(* Initial states, and requests of a single statement.                     *)
(***************************************************************************)
LEMMA InitOK == Init => IInv
  <1> SUFFICES ASSUME Init PROVE IInv
    OBVIOUS
  <1>1. channels \in [ChannelIds -> Row \cup {Null}]
    BY DEF Init
  <1>2. lastId \in Nat
    BY ChannelsAssumption DEF Init
  <1>3. requests \in [Handlers -> Request]
    BY IdleRequest DEF Init
  <1>4. TypeOK
    BY <1>1, <1>2, <1>3 DEF Init, TypeOK
  <1>5. IdsInOrder /\ NothingOutlivesItsChannel
    BY DEF Init, IdsInOrder, NothingOutlivesItsChannel
  <1>6. RequestsOK
    <2>1. ASSUME NEW h \in Handlers PROVE RequestOK(requests[h], channels, failedProbes)
      BY IdleRequest DEF Init
    <2> QED BY <2>1 DEF RequestsOK
  <1>7. StatusFitsCredentials
    <2>1. ASSUME NEW c \in ChannelIds, Exists(c) PROVE Fits(channels[c], failedProbes[c])
      BY <2>1 DEF Init, Exists, StatusOf, Fits
    <2> QED BY <2>1 DEF StatusFitsCredentials, Fits
  <1> QED BY <1>4, <1>5, <1>6, <1>7 DEF IInv

\* A row that no handler has read yet comes into being.
LEMMA CreateStep ==
    ASSUME IInv, NEW type \in Types, NEW token \in MaybeToken, NEW account \in MaybeAccount,
           CreateChannel(type, token, account)
    PROVE  IInv'
  <1> DEFINE c == lastId + 1
             asked == [type |-> type, status |-> "active", token |-> token, account |-> account]
             row == [asked EXCEPT !.status = StatusOf(asked)]
  <1>1. asked \in Row
    BY DEF Row, Status
  <1>2. row \in Row /\ \A failed : Fits(row, failed)
    BY <1>1, StatusOfFits
  <1>3. /\ c \in ChannelIds
        /\ channels' = [channels EXCEPT ![c] = row]
        /\ lastId' = c
        /\ begun' \in Nat
        /\ UNCHANGED <<rules, policied, audit, requests, disturbed, failedProbes>>
    BY DEF CreateChannel, InsertChannel, IInv, TypeOK
  <1> HIDE DEF row
  <1>4. ~Exists(c)
    BY <1>3 DEF IInv, TypeOK, IdsInOrder
  <1>5. TypeOK'
    BY <1>2, <1>3 DEF IInv, TypeOK
  <1>6. IdsInOrder'
    BY <1>3, ChannelsAssumption DEF IInv, TypeOK, IdsInOrder, Exists
  <1>7. NothingOutlivesItsChannel'
    <2>1. row # Null
      BY <1>2, NoRowAssumption
    <2>2. \A d \in ChannelIds : Exists(d) => Exists(d)'
      BY <1>3, <2>1 DEF IInv, TypeOK, Exists
    <2> QED BY <1>3, <2>2 DEF IInv, NothingOutlivesItsChannel
  <1>8. RequestsOK'
    <2>1. ASSUME NEW h \in Handlers PROVE RequestOK(requests[h], channels', failedProbes)
      <3>1. RequestOK(requests[h], channels, failedProbes) /\ requests[h] \in Request
        BY DEF IInv, RequestsOK, TypeOK
      <3>2. CASE requests[h].channel # c
        <4>1. requests[h].fresh => channels'[requests[h].channel] = channels[requests[h].channel]
          BY <1>3, <3>1, <3>2 DEF RequestOK, IInv, TypeOK
        <4>2. PICK table : table = channels'
          OBVIOUS
        <4>3. RequestOK(requests[h], table, failedProbes)
          BY <3>1, <4>1, <4>2, RequestStillOK
        <4> QED BY <4>2, <4>3
      <3>3. CASE requests[h].channel = c
        <4>1. ~requests[h].fresh
          BY <1>4, <3>1, <3>3, NoRowAssumption DEF RequestOK, Exists
        <4>2. PICK table : table = channels'
          OBVIOUS
        <4>3. RequestOK(requests[h], table, failedProbes)
          BY <3>1, <4>1, <4>2, RequestStillOK
        <4> QED BY <4>2, <4>3
      <3> QED BY <3>2, <3>3
    <2> QED BY <1>3, <2>1 DEF RequestsOK
  <1>9. StatusFitsCredentials'
    <2>1. ASSUME NEW d \in ChannelIds PROVE FitsAt(d)'
      <3>1. CASE d = c
        BY <1>2, <1>3, <3>1 DEF FitsAt, IInv, TypeOK
      <3>2. CASE d # c
        <4>1. FitsAt(d)
          BY FitsEverywhere DEF IInv
        <4> QED BY <1>3, <3>2, <4>1, FitsStill DEF IInv, TypeOK, Enabling
      <3> QED BY <3>1, <3>2
    <2>2. \A d \in ChannelIds : FitsAt(d)'
      BY <2>1
    <2> QED BY <2>2 DEF StatusFitsCredentials, FitsAt, Fits
  <1> QED BY <1>5, <1>6, <1>7, <1>8, <1>9 DEF IInv

LEMMA DeleteStep ==
    ASSUME IInv, NEW c \in ChannelIds, DeleteChannel(c)
    PROVE  IInv'
  <1>1. /\ channels' = [channels EXCEPT ![c] = Null]
        /\ rules' = [rules EXCEPT ![c] = Null]
        /\ policied' = policied \ {c}
        /\ audit' = [audit EXCEPT ![c] = <<>>]
        /\ requests' = Outdated(c)
        /\ begun' = begun + 1
        /\ UNCHANGED <<lastId, disturbed, failedProbes>>
    BY DEF DeleteChannel, RemoveChannel
  <1>2. TypeOK'
    <2>1. audit' \in [ChannelIds -> Seq(Event)]
      BY <1>1 DEF IInv, TypeOK
    <2> QED BY <1>1, <2>1, OutdatedRequests DEF IInv, TypeOK
  <1>3. IdsInOrder' /\ NothingOutlivesItsChannel'
    BY <1>1 DEF IInv, TypeOK, IdsInOrder, NothingOutlivesItsChannel, Exists
  <1>4. RequestsOK'
    <2>1. ASSUME NEW g \in Handlers PROVE RequestOK(requests'[g], channels', failedProbes')
      <3>1. PICK s : s = requests'[g]
        OBVIOUS
      <3>2. /\ s = Outdated(c)[g]
            /\ s \in Request
            /\ s.channel = requests[g].channel
            /\ s.fresh => requests[g].channel # c
        BY <1>1, <3>1, OutdatedRequests DEF IInv
      <3>3. RequestOK(s, channels, failedProbes)
        BY <3>2, OutdatedRequestOK DEF IInv, RequestsOK
      <3>4. s.fresh => channels'[s.channel] = channels[s.channel]
        BY <1>1, <3>2, <3>3 DEF RequestOK, IInv, TypeOK
      <3>5. PICK table : table = channels'
        OBVIOUS
      <3>6. RequestOK(s, table, failedProbes)
        BY <3>2, <3>3, <3>4, <3>5, RequestStillOK
      <3> QED BY <1>1, <3>1, <3>5, <3>6
    <2> QED BY <2>1 DEF RequestsOK
  <1>5. StatusFitsCredentials'
    <2>1. ASSUME NEW d \in ChannelIds PROVE FitsAt(d)'
      <3>1. FitsAt(d)
        BY FitsEverywhere DEF IInv
      <3>2. Exists(d)' => channels'[d] = channels[d]
        BY <1>1 DEF IInv, TypeOK, Exists
      <3>3. Enabling(d) => Enabling(d)'
        <4> SUFFICES ASSUME Enabling(d) PROVE Enabling(d)'
          OBVIOUS
        <4>1. PICK g \in Handlers : Enables(requests[g], d)
          BY DEF Enabling, Enables
        <4>2. Enables(requests'[g], d)
          BY <1>1, <4>1, OutdatedRequests DEF IInv, Enables
        <4> QED BY <4>2 DEF Enabling, Enables
      <3> QED BY <1>1, <3>1, <3>2, <3>3, FitsStill
    <2>2. \A d \in ChannelIds : FitsAt(d)'
      BY <2>1
    <2> QED BY <2>2 DEF StatusFitsCredentials, FitsAt, Fits
  <1> QED BY <1>2, <1>3, <1>4, <1>5 DEF IInv

\* A step that writes neither channels nor requests.
LEMMA RulesAlone ==
    ASSUME IInv, UNCHANGED <<channels, audit, lastId, requests, disturbed, failedProbes>>,
           rules' \in [ChannelIds -> Rule \cup {Null}], policied' \subseteq ChannelIds,
           begun' \in Nat,
           \A c \in ChannelIds : ~Exists(c) =>
              /\ rules'[c] = Null \/ rules'[c] = rules[c]
              /\ c \in policied' => c \in policied
    PROVE  IInv'
  <1>1. TypeOK' /\ IdsInOrder'
    BY DEF IInv, TypeOK, IdsInOrder, Exists
  <1>2. RequestsOK' /\ StatusFitsCredentials'
    BY DEF IInv, RequestsOK, RequestOK, StatusFitsCredentials, Exists, Enabling
  <1>3. NothingOutlivesItsChannel'
    BY DEF IInv, NothingOutlivesItsChannel, Exists
  <1> QED BY <1>1, <1>2, <1>3 DEF IInv

LEMMA NormalizedRule ==
    ASSUME NEW input \in RuleInputs
    PROVE  normalizeChannelRuleInput(input) \in Rule
  <1>1. input \in RuleInput
    BY ContentAssumption
  <1> QED BY <1>1 DEF normalizeChannelRuleInput, RuleInput, Rule

LEMMA RulesStep ==
    ASSUME IInv, NEW c \in ChannelIds, UpdateChannelRules(c)
    PROVE  IInv'
  <1>1. PICK input \in RuleInputs : UpsertChannelRule(c, input)
    BY DEF UpdateChannelRules
  <1>2. /\ rules' \in [ChannelIds -> Rule \cup {Null}]
        /\ \A d \in ChannelIds : ~Exists(d) => rules'[d] = Null \/ rules'[d] = rules[d]
    BY <1>1, NormalizedRule DEF UpsertChannelRule, IInv, TypeOK
  <1> QED BY <1>2, RulesAlone DEF UpdateChannelRules, IInv, TypeOK

LEMMA PolicyStep ==
    ASSUME IInv, NEW c \in ChannelIds, APIUpdateChannelRetryPolicy(c)
    PROVE  IInv'
  BY RulesAlone DEF APIUpdateChannelRetryPolicy, UpsertChannelRetryPolicy, IInv, TypeOK

-------------------------------------------------------------------------------
(***************************************************************************)
(* Requests that begin.                                                    *)
(***************************************************************************)
LEMMA BeginStep ==
    ASSUME IInv, NEW h \in Handlers, NEW r \in Request, RequestOK(r, channels, failedProbes),
           Begin(h, r)
    PROVE  IInv'
  <1>1. \A c \in ChannelIds : ~Enables(requests[h], c)
    BY DEF Begin, Enables
  <1>2. RequestOK(r, channels', failedProbes')
    BY DEF Begin, tables
  <1>3. begun' \in Nat
    BY DEF Begin, IInv, TypeOK
  <1>4. /\ requests' = [requests EXCEPT ![h] = r]
        /\ UNCHANGED <<tables, disturbed, failedProbes>>
    BY DEF Begin
  <1>5. /\ failedProbes' \in [ChannelIds -> SUBSET Credentials]
        /\ \A c \in ChannelIds : failedProbes[c] \subseteq failedProbes'[c]
        /\ disturbed \subseteq disturbed' /\ disturbed' \subseteq ChannelIds
    BY <1>4 DEF IInv, TypeOK
  <1> QED BY <1>1, <1>2, <1>3, <1>4, <1>5, LocalStep

LEMMA TestBegins ==
    ASSUME IInv, NEW h \in Handlers, NEW c \in ChannelIds, TestChannel(h, c)
    PROVE  IInv'
  BY IdleRequest, TestRequest, BeginStep DEF TestChannel

LEMMA UpdateBegins ==
    ASSUME IInv, NEW h \in Handlers, NEW c \in ChannelIds, NEW input \in Input,
           NEW tests \in BOOLEAN, BeginUpdate(h, c, input, tests)
    PROVE  IInv'
  <1>1. PICK r : r = [NoRequest EXCEPT !.pc = "read", !.channel = c, !.input = input,
                                       !.tests = tests]
    OBVIOUS
  <1>2. r \in Request /\ r.pc = "read" /\ r.channel = c /\ r.input = input /\ ~r.fresh
    BY <1>1 DEF NoRequest, Request, Status
  <1>3. RequestOK(r, channels, failedProbes)
    BY <1>2 DEF RequestOK
  <1> QED BY <1>1, <1>2, <1>3, BeginStep DEF BeginUpdate

LEMMA BulkBegins ==
    ASSUME IInv, NEW h \in Handlers, NEW cs \in SUBSET ChannelIds,
           NEW status \in {"active", "disabled"}, BulkSetStatus(h, cs, status)
    PROVE  IInv'
  <1>1. PICK r : r = [NoRequest EXCEPT !.pc = "next", !.todo = cs, !.target = status]
    OBVIOUS
  <1>2. r \in Request /\ r.pc = "next" /\ ~r.fresh
    BY <1>1 DEF NoRequest, Request, Status
  <1>3. RequestOK(r, channels, failedProbes)
    BY <1>2 DEF RequestOK
  <1> QED BY <1>1, <1>2, <1>3, BeginStep DEF BulkSetStatus

-------------------------------------------------------------------------------
(***************************************************************************)
(* Requests that set a status or read a row.                               *)
(***************************************************************************)
\* SetChannelStatus: a disabled channel fits, an active one is being enabled.
LEMMA StatusStep ==
    ASSUME IInv, NEW h \in Handlers, NEW c \in ChannelIds, Exists(c),
           NEW status \in {"active", "disabled"}, NEW r \in Request,
           ~r.fresh, RequestOK(r, channels', failedProbes),
           SetChannelStatus(h, c, status, r),
           status # "disabled" => Enables(r, c),
           UNCHANGED <<rules, policied, audit, lastId, disturbed, failedProbes>>,
           begun' \in Nat,
           \A d \in ChannelIds \ {c} : ~Enables(requests[h], d)
    PROVE  IInv'
  <1>1. PICK row : row = [channels[c] EXCEPT !.status = status]
    OBVIOUS
  <1>2. row \in Row /\ row.status = status
    BY <1>1 DEF IInv, TypeOK, Exists, Row, Status
  <1>3. /\ channels' = [channels EXCEPT ![c] = row]
        /\ requests' = [Outdated(c) EXCEPT ![h] = r]
    BY <1>1 DEF SetChannelStatus, Outdate
  <1>4. FitsAt(c)'
    <2>1. CASE status = "disabled"
      <3>1. channels'[c].status = "disabled"
        BY <1>2, <1>3, <2>1 DEF IInv, TypeOK
      <3> QED BY <3>1 DEF FitsAt, Fits
    <2>2. CASE status # "disabled"
      <3>1. requests'[h] = r
        BY <1>3, OutdatedRequests DEF IInv
      <3> QED BY <2>2, <3>1 DEF FitsAt, Enabling, Enables
    <2> QED BY <2>1, <2>2
  <1>5. /\ audit' \in [ChannelIds -> Seq(Event)]
        /\ \A d \in ChannelIds \ {c} : audit'[d] = audit[d]
        /\ disturbed' \subseteq ChannelIds /\ disturbed \ {c} \subseteq disturbed'
    BY DEF IInv, TypeOK
  <1> QED BY <1>2, <1>3, <1>4, <1>5, WriteStep

LEMMA SetStatusStep ==
    ASSUME IInv, NEW h \in Handlers, NEW c \in ChannelIds,
           NEW status \in {"active", "disabled"}, SetStatus(h, c, status)
    PROVE  IInv'
  <1>1. \A d \in ChannelIds : ~Enables(requests[h], d)
    BY DEF SetStatus, Enables
  <1>2. /\ Exists(c)
        /\ begun' \in Nat
        /\ UNCHANGED <<rules, policied, audit, lastId, disturbed, failedProbes>>
    BY DEF SetStatus, IInv, TypeOK
  <1>3. PICK r : r = IF status = "active" THEN Test(NoRequest, c, TRUE) ELSE NoRequest
    OBVIOUS
  <1>4. SetChannelStatus(h, c, status, r)
    BY <1>3 DEF SetStatus
  <1>5. PICK table : table = channels'
    OBVIOUS
  <1>6. r \in Request /\ RequestOK(r, table, failedProbes) /\ (status # "disabled" => Enables(r, c))
    <2>1. CASE status = "active"
      BY <1>3, <2>1, IdleRequest, TestRequest DEF Enables
    <2>2. CASE status = "disabled"
      BY <1>3, <2>2, IdleRequest
    <2> QED BY <2>1, <2>2
  <1>7. ~r.fresh
    BY <1>3 DEF Test, Finished, NoRequest
  <1> QED BY <1>1, <1>2, <1>4, <1>5, <1>6, <1>7, StatusStep

LEMMA BulkNextStep ==
    ASSUME IInv, NEW h \in Handlers, BulkNext(h)
    PROVE  IInv'
  <1>1. PICK s : s = requests[h]
    OBVIOUS
  <1>2. s \in Request /\ s.pc = "next" /\ (\A d \in ChannelIds : ~Enables(s, d))
    BY <1>1 DEF BulkNext, IInv, TypeOK, Enables
  <1>3. UNCHANGED <<rules, policied, audit, lastId, begun, disturbed, failedProbes>>
    BY DEF BulkNext
  <1>4. PICK c \in s.todo, ok \in BOOLEAN :
           LET rest == [s EXCEPT !.todo = s.todo \ {c}]
           IN IF ok /\ Exists(c)
              THEN SetChannelStatus(h, c, s.target,
                      IF s.target = "active" THEN Test(rest, c, TRUE)
                                             ELSE Finished(rest))
              ELSE /\ requests' = [requests EXCEPT ![h] = Finished(rest)]
                   /\ UNCHANGED channels
    BY <1>1 DEF BulkNext
  <1>5. PICK rest : rest = [s EXCEPT !.todo = s.todo \ {c}]
    OBVIOUS
  <1>6. rest \in Request /\ c \in ChannelIds
    BY <1>2, <1>5 DEF Request
  <1>7. CASE ok /\ Exists(c)
    <2>1. PICK r : r = IF s.target = "active" THEN Test(rest, c, TRUE) ELSE Finished(rest)
      OBVIOUS
    <2>2. SetChannelStatus(h, c, s.target, r)
      BY <1>4, <1>5, <1>7, <2>1
    <2>3. PICK table : table = channels'
      OBVIOUS
    <2>4. CASE s.target = "active"
      <3>1. /\ r \in Request
            /\ RequestOK(r, table, failedProbes)
            /\ Enables(r, c)
        BY <1>6, <2>1, <2>4, TestRequest DEF Enables
      <3>2. ~r.fresh
        BY <2>1, <2>4 DEF Test, Finished, NoRequest
      <3> QED BY <1>1, <1>2, <1>3, <1>6, <1>7, <2>2, <2>3, <2>4, <3>1, <3>2, StatusStep
           DEF IInv, TypeOK
    <2>5. CASE s.target = "disabled"
      <3>1. r \in Request /\ RequestOK(r, table, failedProbes)
        BY <1>6, <2>1, <2>5, FinishedRequest
      <3>2. ~r.fresh
        BY <2>1, <2>5 DEF Finished, NoRequest
      <3> QED BY <1>1, <1>2, <1>3, <1>6, <1>7, <2>2, <2>3, <2>5, <3>1, <3>2, StatusStep
           DEF IInv, TypeOK
    <2> QED BY <1>2, <2>4, <2>5 DEF Request
  <1>8. CASE ~(ok /\ Exists(c))
    <2>1. PICK r : r = Finished(rest)
      OBVIOUS
    <2>2. PICK table : table = channels'
      OBVIOUS
    <2>3. r \in Request /\ RequestOK(r, table, failedProbes')
      BY <1>6, <2>1, FinishedRequest
    <2>4. requests' = [requests EXCEPT ![h] = r] /\ UNCHANGED tables
      BY <1>3, <1>4, <1>5, <1>8, <2>1 DEF tables
    <2>5. /\ failedProbes' \in [ChannelIds -> SUBSET Credentials]
          /\ \A d \in ChannelIds : failedProbes[d] \subseteq failedProbes'[d]
          /\ disturbed \subseteq disturbed' /\ disturbed' \subseteq ChannelIds
          /\ begun' \in Nat
      BY <1>3 DEF IInv, TypeOK
    <2> QED BY <1>1, <1>2, <2>2, <2>3, <2>4, <2>5, LocalStep
  <1> QED BY <1>7, <1>8

LEMMA GetStep ==
    ASSUME IInv, NEW h \in Handlers, GetChannel(h)
    PROVE  IInv'
  <1>1. PICK s : s = requests[h]
    OBVIOUS
  <1>2. s \in Request /\ s.pc \in {"read", "get", "reget"} /\ RequestOK(s, channels, failedProbes)
    BY <1>1 DEF GetChannel, IInv, TypeOK, RequestsOK
  <1>3. s.channel \in ChannelIds
    BY <1>2 DEF RequestOK
  <1>4. UNCHANGED <<tables, begun, disturbed, failedProbes>>
    BY DEF GetChannel
  <1>5. /\ failedProbes' \in [ChannelIds -> SUBSET Credentials]
        /\ \A d \in ChannelIds : failedProbes[d] \subseteq failedProbes'[d]
        /\ disturbed \subseteq disturbed' /\ disturbed' \subseteq ChannelIds
        /\ begun' \in Nat
    BY <1>4 DEF IInv, TypeOK
  <1>6. CASE Exists(s.channel) /\ (s.pc = "reget" => channels[s.channel].status = "active")
    <2>1. PICK then \in {"write", "verdict", "probe"} :
             /\ s.pc = "read" <=> then = "write"
             /\ s.pc = "get" <=> then = "verdict"
             /\ requests' = [requests EXCEPT ![h] =
                   [s EXCEPT !.pc = then, !.row = channels[s.channel], !.fresh = TRUE]]
      BY <1>1, <1>2, <1>6 DEF GetChannel
    <2>2. PICK r : r = [s EXCEPT !.pc = then, !.row = channels[s.channel], !.fresh = TRUE]
      OBVIOUS
    <2>3. channels[s.channel] \in Row
      BY <1>3, <1>6 DEF IInv, TypeOK, Exists
    <2>4. /\ r \in Request
          /\ r.pc = then
          /\ r.channel = s.channel
          /\ r.input = s.input
          /\ r.row = channels[s.channel]
          /\ r.enables = s.enables
      BY <1>2, <2>2, <2>3 DEF Request
    <2>5. RequestOK(r, channels, failedProbes)
      BY <1>2, <1>3, <2>1, <2>3, <2>4 DEF RequestOK
    <2>6. RequestOK(r, channels', failedProbes')
      BY <1>4, <2>5 DEF tables
    <2>7. \A c \in ChannelIds : Enables(s, c) => Enables(r, c)
      BY <1>2, <2>1, <2>4 DEF Enables
    <2> QED BY <1>1, <1>4, <1>5, <2>1, <2>2, <2>4, <2>6, <2>7, LocalStep
  <1>7. CASE ~(Exists(s.channel) /\ (s.pc = "reget" => channels[s.channel].status = "active"))
    <2>1. PICK r : r = Finished(s)
      OBVIOUS
    <2>2. requests' = [requests EXCEPT ![h] = r]
      BY <1>1, <1>7, <2>1 DEF GetChannel
    <2>3. PICK table : table = channels'
      OBVIOUS
    <2>4. r \in Request /\ RequestOK(r, table, failedProbes')
      BY <1>2, <2>1, FinishedRequest
    <2>5. \A c \in ChannelIds : Enables(s, c) => ~Exists(c)
      BY <1>7 DEF Enables
    <2> QED BY <1>1, <1>4, <1>5, <2>2, <2>3, <2>4, <2>5, LocalStep
  <1> QED BY <1>6, <1>7

-------------------------------------------------------------------------------
(***************************************************************************)
(* Writes of what was read earlier, and probes.                            *)
(***************************************************************************)
\* The channel of a request is gone, the request ends.
LEMMA GoneStep ==
    ASSUME IInv, NEW h \in Handlers, ~Exists(requests[h].channel),
           NEW r \in Request, \A table, failed : RequestOK(r, table, failed),
           requests' = [requests EXCEPT ![h] = r],
           UNCHANGED <<tables, begun, disturbed, failedProbes>>
    PROVE  IInv'
  <1>1. PICK table : table = channels'
    OBVIOUS
  <1>2. RequestOK(r, table, failedProbes')
    OBVIOUS
  <1>3. \A c \in ChannelIds : Enables(requests[h], c) => ~Exists(c)
    BY DEF Enables
  <1>4. /\ failedProbes' \in [ChannelIds -> SUBSET Credentials]
        /\ \A d \in ChannelIds : failedProbes[d] \subseteq failedProbes'[d]
        /\ disturbed \subseteq disturbed' /\ disturbed' \subseteq ChannelIds
        /\ begun' \in Nat
    BY DEF IInv, TypeOK
  <1> QED BY <1>1, <1>2, <1>3, <1>4, LocalStep

LEMMA ChangedFields ==
    ASSUME NEW row, NEW input
    PROVE  Changed(row, input) \in SUBSET Field
  BY DEF Changed, Field

LEMMA WriteUpdateStep ==
    ASSUME IInv, NEW h \in Handlers, WriteUpdate(h)
    PROVE  IInv'
  <1>1. PICK s : s = requests[h]
    OBVIOUS
  <1>2. s \in Request /\ s.pc = "write" /\ RequestOK(s, channels, failedProbes)
    BY <1>1 DEF WriteUpdate, IInv, TypeOK, RequestsOK
  <1>3. s.channel \in ChannelIds /\ s.row \in Row /\ s.input \in Input
    BY <1>2 DEF RequestOK
  <1>4. \A d \in ChannelIds : ~Enables(s, d)
    BY <1>2 DEF Enables
  <1>5. CASE Exists(s.channel)
    <2>1. PICK row : row = Applied(s.row, s.input)
      OBVIOUS
    <2>2. row \in Row /\ \A failed : Fits(row, failed)
      BY <1>3, <2>1, AppliedRow
    <2>3. PICK event : event = [changed |-> Changed(s.row, s.input),
                                before |-> s.row.status, after |-> row.status]
      OBVIOUS
    <2>4. event \in Event
      BY <1>3, <2>2, <2>3, ChangedFields DEF Event, Row
    <2>5. PICK r : r = IF s.tests THEN Test(NoRequest, s.channel, FALSE) ELSE NoRequest
      OBVIOUS
    <2>6. PICK table : table = channels'
      OBVIOUS
    <2>7. r \in Request /\ RequestOK(r, table, failedProbes)
      BY <1>3, <2>5, IdleRequest, TestRequest
    <2>8. ~r.fresh
      BY <2>5 DEF Test, Finished, NoRequest
    <2>9. /\ channels' = [channels EXCEPT ![s.channel] = row]
          /\ audit' = [audit EXCEPT ![s.channel] = Append(audit[s.channel], event)]
          /\ disturbed' = disturbed \ {s.channel}
          /\ requests' = [Outdated(s.channel) EXCEPT ![h] = r]
          /\ UNCHANGED <<rules, policied, lastId, begun, failedProbes>>
      BY <1>1, <1>5, <2>1, <2>3, <2>5 DEF WriteUpdate, Outdate
    <2>10. /\ audit' \in [ChannelIds -> Seq(Event)]
           /\ \A d \in ChannelIds \ {s.channel} : audit'[d] = audit[d]
      <3>1. Append(audit[s.channel], event) \in Seq(Event)
        BY <1>3, <2>4 DEF IInv, TypeOK
      <3> QED BY <2>9, <3>1 DEF IInv, TypeOK
    <2>11. FitsAt(s.channel)'
      <3>1. channels'[s.channel] = row
        BY <1>3, <2>9 DEF IInv, TypeOK
      <3> QED BY <2>2, <3>1 DEF FitsAt
    <2>12. disturbed' \subseteq ChannelIds /\ begun' \in Nat
      BY <2>9 DEF IInv, TypeOK
    <2> QED BY <1>1, <1>3, <1>4, <1>5, <2>2, <2>6, <2>7, <2>8, <2>9, <2>10, <2>11, <2>12, WriteStep
  <1>6. CASE ~Exists(s.channel)
    <2>1. /\ requests' = [requests EXCEPT ![h] = NoRequest]
          /\ UNCHANGED <<tables, begun, disturbed, failedProbes>>
      BY <1>1, <1>6 DEF WriteUpdate, tables
    <2> QED BY <1>1, <1>6, <2>1, IdleRequest, GoneStep
  <1> QED BY <1>5, <1>6

\* SetChannelTestResult, when the result fits the row that was tested.
LEMMA TestResultStep ==
    ASSUME IInv, NEW h \in Handlers, NEW status \in Status, NEW r \in Request,
           SetTestResult(h, status, r),
           requests[h].channel \in ChannelIds, ~r.fresh, RequestOK(r, channels', failedProbes),
           requests[h].fresh =>
              Fits([requests[h].row EXCEPT !.status = status], failedProbes[requests[h].channel])
    PROVE  IInv'
  <1>1. PICK s : s = requests[h]
    OBVIOUS
  <1>2. s \in Request /\ RequestOK(s, channels, failedProbes) /\ s.channel \in ChannelIds
    BY <1>1 DEF IInv, TypeOK, RequestsOK
  <1>3. UNCHANGED <<rules, policied, audit, lastId, begun, failedProbes>>
    BY DEF SetTestResult
  <1>4. CASE Exists(s.channel)
    <2>1. PICK row : row = [channels[s.channel] EXCEPT !.status = status]
      OBVIOUS
    <2>2. row \in Row
      BY <1>2, <1>4, <2>1 DEF IInv, TypeOK, Exists, Row
    <2>3. /\ channels' = [channels EXCEPT ![s.channel] = row]
          /\ requests' = [Outdated(s.channel) EXCEPT ![h] = r]
          /\ disturbed' = IF s.fresh THEN disturbed \ {s.channel}
                          ELSE disturbed \cup {s.channel}
      BY <1>1, <1>4, <2>1 DEF SetTestResult, Outdate, Judged
    <2>4. FitsAt(s.channel)'
      <3>1. CASE s.fresh
        <4>1. channels[s.channel] = s.row
          BY <1>2, <3>1 DEF RequestOK
        <4>2. Fits(row, failedProbes[s.channel])
          BY <1>1, <2>1, <3>1, <4>1
        <4>3. channels'[s.channel] = row
          BY <1>2, <2>3 DEF IInv, TypeOK
        <4> QED BY <1>3, <4>2, <4>3 DEF FitsAt
      <3>2. CASE ~s.fresh
        BY <2>3, <3>2 DEF FitsAt
      <3> QED BY <3>1, <3>2
    <2>5. /\ audit' \in [ChannelIds -> Seq(Event)]
          /\ \A d \in ChannelIds \ {s.channel} : audit'[d] = audit[d]
          /\ disturbed' \subseteq ChannelIds /\ disturbed \ {s.channel} \subseteq disturbed'
          /\ begun' \in Nat
      BY <1>2, <1>3, <2>3 DEF IInv, TypeOK
    <2>6. \A d \in ChannelIds \ {s.channel} : ~Enables(s, d)
      BY DEF Enables
    <2> QED BY <1>1, <1>2, <1>3, <1>4, <2>2, <2>3, <2>4, <2>5, <2>6, WriteStep
  <1>5. CASE ~Exists(s.channel)
    <2>1. PICK f : f = Finished(s)
      OBVIOUS
    <2>2. f \in Request /\ \A table, failed : RequestOK(f, table, failed)
      BY <1>2, <2>1, FinishedRequest
    <2>3. /\ requests' = [requests EXCEPT ![h] = f]
          /\ UNCHANGED <<tables, begun, disturbed, failedProbes>>
      BY <1>1, <1>5, <2>1 DEF SetTestResult, tables
    <2> QED BY <1>1, <1>5, <2>2, <2>3, GoneStep
  <1> QED BY <1>4, <1>5

LEMMA VerdictStep ==
    ASSUME IInv, NEW h \in Handlers, SetVerdict(h)
    PROVE  IInv'
  <1>1. PICK s : s = requests[h]
    OBVIOUS
  <1>2. s \in Request /\ s.pc = "verdict" /\ RequestOK(s, channels, failedProbes)
    BY <1>1 DEF SetVerdict, IInv, TypeOK, RequestsOK
  <1>3. s.channel \in ChannelIds /\ s.row \in Row
    BY <1>2 DEF RequestOK
  <1>4. PICK r : r = [s EXCEPT !.pc = "reget", !.row = Null, !.fresh = FALSE]
    OBVIOUS
  <1>5. r \in Request /\ r.pc = "reget" /\ r.channel = s.channel /\ r.fresh = FALSE
    BY <1>2, <1>4 DEF Request
  <1>6. PICK table : table = channels'
    OBVIOUS
  <1>7. RequestOK(r, table, failedProbes)
    BY <1>3, <1>5 DEF RequestOK
  <1>8. PICK status : status = StatusOf(s.row)
    OBVIOUS
  <1>9. status \in Status /\ \A failed : Fits([s.row EXCEPT !.status = status], failed)
    BY <1>3, <1>8, StatusOfFits
  <1>10. SetTestResult(h, status, r)
    BY <1>1, <1>4, <1>8 DEF SetVerdict
  <1> QED BY <1>1, <1>3, <1>5, <1>6, <1>7, <1>9, <1>10, TestResultStep

LEMMA ResultStep ==
    ASSUME IInv, NEW h \in Handlers, SetProbeResult(h)
    PROVE  IInv'
  <1>1. PICK s : s = requests[h]
    OBVIOUS
  <1>2. s \in Request /\ s.pc = "result" /\ RequestOK(s, channels, failedProbes)
    BY <1>1 DEF SetProbeResult, IInv, TypeOK, RequestsOK
  <1>3. s.channel \in ChannelIds /\ s.row \in Row
    BY <1>2 DEF RequestOK
  <1>4. PICK r : r = Finished(s)
    OBVIOUS
  <1>5. PICK table : table = channels'
    OBVIOUS
  <1>6. r \in Request /\ RequestOK(r, table, failedProbes)
    BY <1>2, <1>4, FinishedRequest
  <1>7. ~r.fresh
    BY <1>4 DEF Finished, NoRequest
  <1>8. PICK status : status = IF s.ok THEN "active" ELSE "error"
    OBVIOUS
  <1>9. PICK row : row = [s.row EXCEPT !.status = status]
    OBVIOUS
  <1>10. status \in Status /\ Fits(row, failedProbes[s.channel])
    <2>1. /\ row.status = status /\ row.token = s.row.token
          /\ row.account = s.row.account /\ row.type = s.row.type
      BY <1>3, <1>9 DEF Row
    <2>2. IF s.ok THEN Complete(s.row)
          ELSE <<s.row.token, s.row.account>> \in failedProbes[s.channel]
      BY <1>2 DEF RequestOK
    <2> QED BY <1>8, <2>1, <2>2 DEF Fits, Complete, Status
  <1>11. SetTestResult(h, status, r)
    BY <1>1, <1>4, <1>8 DEF SetProbeResult
  <1> QED BY <1>1, <1>3, <1>5, <1>6, <1>7, <1>9, <1>10, <1>11, TestResultStep

\* A platform takes only credentials that are complete.
LEMMA ProbeTakesComplete ==
    ASSUME NEW row \in Row, NEW reply, ProbeSucceeds(row.type, row.token, row.account, reply)
    PROVE  Complete(row)
  <1>1. row.type \in {"linkedin", "facebook-page", "instagram", "dry-run"}
    BY ChannelsAssumption DEF Row, ChannelTypes
  <1> QED BY <1>1 DEF ProbeSucceeds, ProbeLinkedIn, ProbeFacebook, ProbeInstagram,
                      Complete, Configured

LEMMA ProbeStep ==
    ASSUME IInv, NEW h \in Handlers, Probe(h)
    PROVE  IInv'
  <1>1. PICK s : s = requests[h]
    OBVIOUS
  <1>2. s \in Request /\ s.pc = "probe" /\ RequestOK(s, channels, failedProbes)
    BY <1>1 DEF Probe, IInv, TypeOK, RequestsOK
  <1>3. s.channel \in ChannelIds /\ s.row \in Row
    BY <1>2 DEF RequestOK
  <1>4. UNCHANGED <<tables, begun, disturbed>>
    BY DEF Probe
  <1>5. PICK reply :
           LET ok == ProbeSucceeds(s.row.type, s.row.token, s.row.account, reply)
           IN /\ requests' = [requests EXCEPT ![h] = [s EXCEPT !.pc = "result", !.ok = ok]]
              /\ failedProbes' = IF ok THEN failedProbes
                             ELSE [failedProbes EXCEPT ![s.channel] =
                                      @ \cup {<<s.row.token, s.row.account>>}]
    BY <1>1 DEF Probe
  <1>6. PICK ok \in BOOLEAN :
           /\ ok => Complete(s.row)
           /\ requests' = [requests EXCEPT ![h] = [s EXCEPT !.pc = "result", !.ok = ok]]
           /\ failedProbes' = IF ok THEN failedProbes
                          ELSE [failedProbes EXCEPT ![s.channel] =
                                   failedProbes[s.channel] \cup {<<s.row.token, s.row.account>>}]
    <2>1. CASE ProbeSucceeds(s.row.type, s.row.token, s.row.account, reply)
      <3>1. Complete(s.row)
        BY <1>3, <2>1, ProbeTakesComplete
      <3>2. ProbeSucceeds(s.row.type, s.row.token, s.row.account, reply) = TRUE
        BY <2>1, <1>3, ChannelsAssumption
           DEF ProbeSucceeds, ProbeLinkedIn, ProbeFacebook, ProbeInstagram, Row, ChannelTypes
      <3> QED BY <1>5, <3>1, <3>2
    <2>2. CASE ~ProbeSucceeds(s.row.type, s.row.token, s.row.account, reply)
      <3>1. ProbeSucceeds(s.row.type, s.row.token, s.row.account, reply) = FALSE
        BY <2>2, <1>3, ChannelsAssumption
           DEF ProbeSucceeds, ProbeLinkedIn, ProbeFacebook, ProbeInstagram, Row, ChannelTypes
      <3> QED BY <1>5, <3>1
    <2> QED BY <2>1, <2>2
  <1>7. PICK r : r = [s EXCEPT !.pc = "result", !.ok = ok]
    OBVIOUS
  <1>8. /\ r \in Request
        /\ r.pc = "result"
        /\ r.channel = s.channel
        /\ r.row = s.row
        /\ r.fresh = s.fresh
        /\ r.ok = ok
    BY <1>2, <1>7 DEF Request
  <1>9. <<s.row.token, s.row.account>> \in Credentials
    BY <1>3 DEF Row, Credentials
  <1>10. /\ failedProbes' \in [ChannelIds -> SUBSET Credentials]
         /\ \A c \in ChannelIds : failedProbes[c] \subseteq failedProbes'[c]
         /\ ~ok => <<s.row.token, s.row.account>> \in failedProbes'[s.channel]
    <2>1. CASE ok
      BY <1>6, <2>1 DEF IInv, TypeOK
    <2>2. CASE ~ok
      <3>1. failedProbes' = [failedProbes EXCEPT ![s.channel] =
                            failedProbes[s.channel] \cup {<<s.row.token, s.row.account>>}]
        BY <1>6, <2>2
      <3>2. failedProbes \in [ChannelIds -> SUBSET Credentials]
        BY DEF IInv, TypeOK
      <3> QED BY <1>3, <1>9, <2>2, <3>1, <3>2
    <2> QED BY <2>1, <2>2
  <1>11. RequestOK(r, channels, failedProbes')
    BY <1>2, <1>3, <1>6, <1>8, <1>10 DEF RequestOK
  <1>12. RequestOK(r, channels', failedProbes')
    BY <1>4, <1>11 DEF tables
  <1>13. \A c \in ChannelIds : ~Enables(s, c)
    BY <1>2 DEF Enables
  <1>14. disturbed \subseteq disturbed' /\ disturbed' \subseteq ChannelIds /\ begun' \in Nat
    BY <1>4 DEF IInv, TypeOK
  <1>15. requests' = [requests EXCEPT ![h] = r]
    BY <1>6, <1>7
  <1>16. UNCHANGED tables
    BY <1>4
  <1> QED BY <1>1, <1>8, <1>10, <1>12, <1>13, <1>14, <1>15, <1>16, LocalStep

LEMMA AbortStep ==
    ASSUME IInv, NEW h \in Handlers, Abort(h)
    PROVE  IInv'
  <1>1. PICK s : s = requests[h]
    OBVIOUS
  <1>2. s \in Request /\ s.pc # "idle" /\ RequestOK(s, channels, failedProbes)
    BY <1>1 DEF Abort, IInv, TypeOK, RequestsOK
  <1>3. PICK r \in {NoRequest, Finished(s)} : requests' = [requests EXCEPT ![h] = r]
    BY <1>1 DEF Abort
  <1>4. PICK table : table = channels'
    OBVIOUS
  <1>5. r \in Request /\ RequestOK(r, table, failedProbes')
    BY <1>2, <1>3, IdleRequest, FinishedRequest
  <1>6. UNCHANGED <<tables, begun, failedProbes>>
    BY DEF Abort
  <1>7. disturbed' = IF s.enables /\ s.pc \in {"get", "verdict"}
                     THEN disturbed \cup {s.channel} ELSE disturbed
    BY <1>1 DEF Abort
  <1>8. disturbed \subseteq disturbed' /\ disturbed' \subseteq ChannelIds
    BY <1>2, <1>7 DEF RequestOK, IInv, TypeOK
  <1>9. \A c \in ChannelIds : Enables(s, c) => c \in disturbed'
    BY <1>7 DEF Enables
  <1>10. /\ failedProbes' \in [ChannelIds -> SUBSET Credentials]
         /\ \A c \in ChannelIds : failedProbes[c] \subseteq failedProbes'[c]
         /\ begun' \in Nat
    BY <1>6 DEF IInv, TypeOK
  <1> QED BY <1>1, <1>3, <1>4, <1>5, <1>6, <1>8, <1>9, <1>10, LocalStep

-------------------------------------------------------------------------------
(***************************************************************************)
(* All steps.                                                              *)
(***************************************************************************)
LEMMA StutterStep == IInv /\ UNCHANGED vars => IInv'
  BY DEF IInv, TypeOK, IdsInOrder, RequestsOK, RequestOK, StatusFitsCredentials,
         NothingOutlivesItsChannel, Exists, Enabling, vars, tables

LEMMA NextStep == IInv /\ [Next]_vars => IInv'
  <1> SUFFICES ASSUME IInv, [Next]_vars PROVE IInv'
    OBVIOUS
  <1>1. CASE \E type \in Types, token \in MaybeToken, account \in MaybeAccount :
                CreateChannel(type, token, account)
    BY <1>1, CreateStep
  <1>2. ASSUME NEW c \in ChannelIds, UpdateChannelRules(c) PROVE IInv'
    BY <1>2, RulesStep
  <1>3. ASSUME NEW c \in ChannelIds, APIUpdateChannelRules(c) PROVE IInv'
    BY <1>3, RulesStep DEF APIUpdateChannelRules
  <1>4. ASSUME NEW c \in ChannelIds, APIUpdateChannelRetryPolicy(c) PROVE IInv'
    BY <1>4, PolicyStep
  <1>5. ASSUME NEW c \in ChannelIds, DeleteChannel(c) PROVE IInv'
    BY <1>5, DeleteStep
  <1>6. ASSUME NEW c \in ChannelIds, NEW h \in Handlers, NEW status \in {"active", "disabled"},
               SetStatus(h, c, status)
        PROVE  IInv'
    BY <1>6, SetStatusStep
  <1>7. ASSUME NEW c \in ChannelIds, NEW h \in Handlers, TestChannel(h, c) PROVE IInv'
    BY <1>7, TestBegins
  <1>8. ASSUME NEW c \in ChannelIds, NEW h \in Handlers,
               \/ UpdateChannel(h, c)
               \/ APIUpdateChannel(h, c)
               \/ APIRotateChannelCredentials(h, c)
        PROVE  IInv'
    <2>1. PICK input \in Input : \E tests \in BOOLEAN : BeginUpdate(h, c, input, tests)
      BY <1>8 DEF UpdateChannel, APIUpdateChannel, APIRotateChannelCredentials,
                  ParsedForm, ParsedPayload
    <2> QED BY <2>1, UpdateBegins
  <1>9. ASSUME NEW h \in Handlers, NEW cs \in SUBSET ChannelIds,
               NEW status \in {"active", "disabled"}, BulkSetStatus(h, cs, status)
        PROVE  IInv'
    BY <1>9, BulkBegins
  <1>10. ASSUME NEW h \in Handlers, Handle(h) PROVE IInv'
    BY <1>10, BulkNextStep, GetStep, WriteUpdateStep, VerdictStep, ProbeStep, ResultStep
       DEF Handle
  <1>11. ASSUME NEW h \in Handlers, Abort(h) PROVE IInv'
    BY <1>11, AbortStep
  <1>12. CASE UNCHANGED vars
    BY <1>12, StutterStep
  <1> QED BY <1>1, <1>2, <1>3, <1>4, <1>5, <1>6, <1>7, <1>8, <1>9, <1>10, <1>11, <1>12 DEF Next

\* The invariant and its parts hold for any channels, credentials and rules, any
\* number of requests, and wherever they overlap or are cut short.
THEOREM ChannelsCorrect == Spec => []IInv
  BY InitOK, NextStep, PTL DEF Spec

\* Every reachable state of Channels is a state of its tables and requests.
THEOREM ChannelsTypeCorrect == Spec => []TypeOK
  <1>1. IInv => TypeOK
    BY DEF IInv
  <1> QED BY <1>1, ChannelsCorrect, PTL

\* The status of a channel fits its credentials but where a test has overwritten
\* what it did not read, or an enabling was cut short.
THEOREM StatusFitsCorrect == Spec => []StatusFitsCredentials
  <1>1. IInv => StatusFitsCredentials
    BY DEF IInv
  <1> QED BY <1>1, ChannelsCorrect, PTL

\* Deleting a channel leaves nothing of it behind, whatever was in progress.
THEOREM NothingOutlivesCorrect == Spec => []NothingOutlivesItsChannel
  <1>1. IInv => NothingOutlivesItsChannel
    BY DEF IInv
  <1> QED BY <1>1, ChannelsCorrect, PTL

-------------------------------------------------------------------------------
(***************************************************************************)
(* What is accepted goes out.                                              *)
(***************************************************************************)
\* The two copies of the rule checks agree.
LEMMA RuleChecksAgree ==
    ASSUME NEW text \in Text, NEW rule \in Rule
    PROVE  KeepsRule(text, rule) <=> ~ViolatesRule(text, rule)
  <1>1. text.length \in Int /\ text.hashtags \in Int
    BY DEF Text
  <1>2. rule.maxTextLength # Null => rule.maxTextLength \in Int
    BY DEF Rule, Limit
  <1>3. rule.maxHashtags # Null => rule.maxHashtags \in Int
    BY DEF Rule, Limit
  <1> QED BY <1>1, <1>2, <1>3 DEF KeepsRule, ViolatesRule

\* A rule that is not enabled refuses nothing.
LEMMA DisabledRuleRefusesNothing ==
    ASSUME NEW text, NEW rule, ~Enabled(rule)
    PROVE  ~ViolatesRule(text, rule)
  BY DEF Enabled, ViolatesRule

\* Media that a channel is capable of are taken even without their type.
LEMMA CapableMediaAreTaken ==
    ASSUME NEW type \in ChannelTypes, NEW media \in Media, FitsCapabilities(type, media)
    PROVE  type = "instagram" => InstagramTakes(Scanned(WithType(media)))
  <1> SUFFICES ASSUME type = "instagram" PROVE InstagramTakes(Scanned(WithType(media)))
    OBVIOUS
  <1>1. media.url # Null
    BY DEF FitsCapabilities, ChannelCapabilitiesForType
  <1>2. PICK typed \in Media : typed = WithType(media) /\ typed.url = media.url
    <2>1. CASE media.type # Null
      BY <2>1 DEF WithType
    <2>2. CASE media.type = Null
      <3>1. InferMediaTypeFromURL(media) \in {Null, "image", "video", "link", "document"}
        BY DEF InferMediaTypeFromURL, Media
      <3>2. PICK typed : typed = [media EXCEPT !.type = InferMediaTypeFromURL(media)]
        OBVIOUS
      <3>3. typed \in Media /\ typed.url = media.url
        BY <3>1, <3>2 DEF Media
      <3> QED BY <2>2, <3>2, <3>3 DEF WithType
    <2> QED BY <2>1, <2>2
  <1>3. PICK scanned : scanned = [typed EXCEPT !.type = Null]
    OBVIOUS
  <1>4. scanned.url = media.url /\ scanned.type = Null
    BY <1>2, <1>3 DEF Media
  <1>5. InstagramTakes(scanned)
    BY <1>1, <1>4 DEF InstagramTakes, inferMediaType
  <1> QED BY <1>2, <1>3, <1>5 DEF Scanned

\* Neither the scheduler nor the publisher of an active channel refuses a post
\* whose text and media are accepted for it.
THEOREM AcceptedGoesOutCorrect == Spec => []AcceptedGoesOut
  <1>1. IInv => AcceptedGoesOut
    <2> SUFFICES ASSUME IInv, NEW c \in ChannelIds, Exists(c), channels[c].status = "active",
                        c \notin disturbed, ~Enabling(c),
                        NEW text \in Texts, NEW media \in Media, Accepts(c, text, media)
                 PROVE  GoesOut(c, text, media)
      BY DEF AcceptedGoesOut
    <2>1. PICK row : row = channels[c]
      OBVIOUS
    <2>2. row \in Row /\ Complete(row)
      BY <2>1 DEF IInv, TypeOK, StatusFitsCredentials, Exists
    <2>3. row.type \in ChannelTypes
      BY <2>2, ChannelsAssumption DEF Row
    <2>4. rules[c] # Null => ~ViolatesRule(text, rules[c])
      <3>1. text \in Text
        BY ContentAssumption
      <3>2. CASE rules[c] # Null /\ Enabled(rules[c])
        BY <3>1, <3>2, RuleChecksAgree DEF Accepts, IInv, TypeOK
      <3>3. CASE ~Enabled(rules[c])
        BY <3>3, DisabledRuleRefusesNothing
      <3> QED BY <3>2, <3>3
    <2>5. row.type = "instagram" => InstagramTakes(Scanned(WithType(media)))
      BY <2>1, <2>3, CapableMediaAreTaken DEF Accepts
    <2>6. Refusals(row.type, row.token, row.account, Scanned(WithType(media))) = {}
      BY <2>2, <2>5 DEF Refusals, Complete
    <2> QED BY <2>1, <2>4, <2>6 DEF GoesOut
  <1> QED BY <1>1, ChannelsCorrect, PTL

-------------------------------------------------------------------------------
(***************************************************************************)
(* Audit events.                                                           *)
(***************************************************************************)
\* A step that records nothing and edits no credentials.
LEMMA NothingEdited ==
    ASSUME IInv, NEW c \in ChannelIds, Exists(c), audit'[c] = audit[c],
           channels'[c].token = channels[c].token, channels'[c].account = channels[c].account
    PROVE  AuditNames(c)
  BY DEF AuditNames

LEMMA StatusAlone ==
    ASSUME IInv, NEW c \in ChannelIds, NEW d \in ChannelIds, Exists(c), Exists(d),
           NEW status, UNCHANGED audit,
           channels' = [channels EXCEPT ![d] = [channels[d] EXCEPT !.status = status]]
    PROVE  AuditNames(c)
  <1>1. channels[c] \in Row /\ channels[d] \in Row
    BY DEF IInv, TypeOK, Exists
  <1>2. PICK row : row = [channels[d] EXCEPT !.status = status]
    OBVIOUS
  <1>3. row.token = channels[d].token /\ row.account = channels[d].account
    BY <1>1, <1>2 DEF Row
  <1>4. channels'[c] = IF c = d THEN row ELSE channels[c]
    BY <1>2 DEF IInv, TypeOK
  <1> QED BY <1>3, <1>4, NothingEdited

LEMMA TestResultAlone ==
    ASSUME IInv, NEW h \in Handlers, NEW status, NEW r, SetTestResult(h, status, r),
           requests[h].pc \in {"verdict", "result"},
           NEW c \in ChannelIds, Exists(c)
    PROVE  AuditNames(c)
  <1>1. PICK d : d = requests[h].channel
    OBVIOUS
  <1>2. d \in ChannelIds
    BY <1>1 DEF IInv, RequestsOK, RequestOK
  <1>3. UNCHANGED audit
    BY DEF SetTestResult
  <1>4. CASE Exists(d)
    BY <1>1, <1>2, <1>3, <1>4, StatusAlone DEF SetTestResult
  <1>5. CASE ~Exists(d)
    BY <1>1, <1>3, <1>5, NothingEdited DEF SetTestResult
  <1> QED BY <1>4, <1>5

\* An edit of the row as it is names what it changes.
LEMMA FreshEdit ==
    ASSUME NEW row \in Row, NEW input \in Input
    PROVE  {f \in Field : row[f] # Applied(row, input)[f]} \subseteq Changed(row, input)
  <1>1. Edited(row, input) \in Row
    BY DEF Edited, Row, Input, SecretAction, SecretAfter, AccountAfter, MaybeToken, MaybeAccount
  <1>2. PICK e : e = Edited(row, input)
    OBVIOUS
  <1>3. PICK new : new = Applied(row, input)
    OBVIOUS
  <1>4. new.token = e.token
    BY <1>1, <1>2, <1>3 DEF Applied, Row
  <1>5. e.token = SecretAfter(row.token, input)
    BY <1>2 DEF Edited, Row
  <1>6. new.token # row.token => input.action # "keep"
    BY <1>4, <1>5 DEF SecretAfter
  <1>7. ASSUME NEW f \in Field, row[f] # new[f] PROVE f \in Changed(row, input)
    BY <1>3, <1>6, <1>7 DEF Field, Changed
  <1> QED BY <1>3, <1>7

LEMMA UpdateAudited ==
    ASSUME IInv, NEW h \in Handlers, WriteUpdate(h), NEW c \in ChannelIds, Exists(c)
    PROVE  AuditNames(c)
  <1>1. PICK s : s = requests[h]
    OBVIOUS
  <1>2. s \in Request /\ s.pc = "write" /\ RequestOK(s, channels, failedProbes)
    BY <1>1 DEF WriteUpdate, IInv, TypeOK, RequestsOK
  <1>3. s.channel \in ChannelIds /\ s.row \in Row /\ s.input \in Input
    BY <1>2 DEF RequestOK
  <1>4. CASE ~Exists(s.channel)
    BY <1>1, <1>4, NothingEdited DEF WriteUpdate
  <1>5. CASE Exists(s.channel)
    <2>1. PICK row : row = Applied(s.row, s.input)
      OBVIOUS
    <2>2. PICK event : event = [changed |-> Changed(s.row, s.input),
                                before |-> s.row.status, after |-> row.status]
      OBVIOUS
    <2>3. PICK r : r = IF s.tests THEN Test(NoRequest, s.channel, FALSE) ELSE NoRequest
      OBVIOUS
    <2>4. /\ channels' = [channels EXCEPT ![s.channel] = row]
          /\ audit' = [audit EXCEPT ![s.channel] = Append(audit[s.channel], event)]
          /\ requests' = [Outdated(s.channel) EXCEPT ![h] = r]
      BY <1>1, <1>5, <2>1, <2>2, <2>3 DEF WriteUpdate, Outdate
    <2>5. CASE c # s.channel
      BY <2>4, <2>5, NothingEdited DEF IInv, TypeOK
    <2>6. CASE c = s.channel
      <3>1. audit[c] \in Seq(Event) /\ audit'[c] = Append(audit[c], event)
        BY <2>4, <2>6 DEF IInv, TypeOK
      <3>2. /\ Len(audit'[c]) = Len(audit[c]) + 1
            /\ audit'[c][Len(audit'[c])] = event
        BY <3>1
      <3>3. channels'[c] = row
        BY <2>4, <2>6 DEF IInv, TypeOK
      <3>4. CASE s.fresh
        <4>1. channels[c] = s.row
          BY <1>2, <2>6, <3>4 DEF RequestOK
        <4>2. {f \in Field : s.row[f] # row[f]} \subseteq event.changed
          BY <1>3, <2>1, <2>2, FreshEdit
        <4>3. event.before = s.row.status /\ event.after = row.status
          BY <2>2
        <4> QED BY <3>2, <3>3, <4>1, <4>2, <4>3 DEF AuditNames
      <3>5. CASE ~s.fresh
        <4>1. requests'[h] = r
          BY <2>4, OutdatedRequests, <1>3 DEF IInv
        <4>2. r.pc # "write"
          BY <2>3 DEF Test, Finished, NoRequest
        <4>3. StaleUpdate(c)
          BY <1>1, <1>2, <2>6, <3>5, <4>1, <4>2 DEF StaleUpdate
        <4> QED BY <3>2, <4>3 DEF AuditNames
      <3> QED BY <3>4, <3>5
    <2> QED BY <2>5, <2>6
  <1> QED BY <1>4, <1>5

LEMMA NextAudited ==
    ASSUME IInv, [Next]_vars, NEW c \in ChannelIds, Exists(c), Exists(c)'
    PROVE  AuditNames(c)
  <1>1. CASE UNCHANGED <<channels, audit>>
    BY <1>1, NothingEdited
  <1>2. ASSUME NEW type, NEW token, NEW account, CreateChannel(type, token, account)
        PROVE  AuditNames(c)
    <2>1. c # lastId + 1
      BY <1>2 DEF CreateChannel, IInv, TypeOK, IdsInOrder
    <2>2. channels'[c] = channels[c] /\ audit' = audit
      BY <1>2, <2>1 DEF CreateChannel, InsertChannel, IInv, TypeOK
    <2> QED BY <2>2, NothingEdited
  <1>3. ASSUME NEW d \in ChannelIds, DeleteChannel(d)
        PROVE  AuditNames(c)
    <2>1. c # d
      BY <1>3 DEF DeleteChannel, RemoveChannel, Exists, IInv, TypeOK
    <2>2. channels'[c] = channels[c] /\ audit'[c] = audit[c]
      BY <1>3, <2>1 DEF DeleteChannel, RemoveChannel, IInv, TypeOK
    <2> QED BY <2>2, NothingEdited
  <1>4. ASSUME NEW d \in ChannelIds, NEW h \in Handlers, NEW status, SetStatus(h, d, status)
        PROVE  AuditNames(c)
    BY <1>4, StatusAlone DEF SetStatus, SetChannelStatus
  <1>5. ASSUME NEW h \in Handlers, BulkNext(h)
        PROVE  AuditNames(c)
    <2>1. UNCHANGED audit
      BY <1>5 DEF BulkNext
    <2>2. PICK d \in ChannelIds :
             \/ UNCHANGED channels
             \/ /\ Exists(d)
                /\ \E status : channels' = [channels EXCEPT ![d] =
                                              [channels[d] EXCEPT !.status = status]]
      <3>1. requests[h] \in Request
        BY DEF IInv, TypeOK
      <3>2. requests[h].todo \subseteq ChannelIds
        BY <3>1 DEF Request
      <3> QED BY <1>5, <3>2 DEF BulkNext, SetChannelStatus
    <2> QED BY <2>1, <2>2, StatusAlone, NothingEdited
  <1>6. ASSUME NEW h \in Handlers, SetVerdict(h)
        PROVE  AuditNames(c)
    BY <1>6, TestResultAlone DEF SetVerdict
  <1>7. ASSUME NEW h \in Handlers, SetProbeResult(h)
        PROVE  AuditNames(c)
    BY <1>7, TestResultAlone DEF SetProbeResult
  <1>8. ASSUME NEW h \in Handlers, WriteUpdate(h)
        PROVE  AuditNames(c)
    BY <1>8, UpdateAudited
  <1>9. \/ UNCHANGED <<channels, audit>>
        \/ \E type, token, account : CreateChannel(type, token, account)
        \/ \E d \in ChannelIds : DeleteChannel(d)
        \/ \E d \in ChannelIds, h \in Handlers : \E status : SetStatus(h, d, status)
        \/ \E h \in Handlers :
              BulkNext(h) \/ SetVerdict(h) \/ SetProbeResult(h) \/ WriteUpdate(h)
    BY DEF Next, Handle, UpdateChannelRules, APIUpdateChannelRules,
           APIUpdateChannelRetryPolicy, TestChannel, UpdateChannel, APIUpdateChannel,
           APIRotateChannelCredentials, BeginUpdate, BulkSetStatus, Begin, GetChannel,
           Probe, Abort, vars, tables
  <1> QED BY <1>1, <1>2, <1>3, <1>4, <1>5, <1>6, <1>7, <1>8, <1>9

\* Whatever overlaps, no edit of credentials goes without an event, and the event
\* names all that changes unless the row was written since it was read.
THEOREM AuditCorrect == Spec => AuditNamesEveryChange
  <1>1. IInv /\ [Next]_vars =>
           [\A c \in ChannelIds : Exists(c) /\ Exists(c)' => AuditNames(c)]_vars
    BY NextAudited
  <1> QED BY <1>1, ChannelsCorrect, PTL DEF Spec, AuditNamesEveryChange
================================================================================
