---------------------------- MODULE IdempotencyProofs ---------------------------
(***************************************************************************)
(* Idempotency implements AtMostOnce for any number of keys, requests and  *)
(* overlapping calls, whatever fails.                                      *)
(***************************************************************************)
EXTENDS Idempotency, TLAPS

\* The locals a call has set when it is at a step that uses them.
InHand(s) ==
    /\ s.pc # "idle" => s.key \in Keys /\ s.request \in Requests
    /\ s.pc = "complete" => s.answer \in Answers

TypeInv == TypeOK /\ \A c \in Calls : InHand(calls[c])

\* A call that got through and has not stored its answer yet.
Working(s) == s.pc \in {"run", "answer", "complete"}

\* What the row of a key says about its history.
KeyOK(k) ==
    /\ records[k] = Null => performed[k] = <<>>
    /\ records[k] # Null => performed[k] \in {<<>>, <<records[k].request>>}
    /\ performed[k] = <<>> => given[k] = {}
    /\ records[k] # Null /\ records[k].answer # Null =>
          /\ performed[k] # <<>>
          /\ given[k] \subseteq {<<records[k].request, records[k].answer>>}

\* What a call at work knows: the row is its own and without an answer, and it
\* is the only one to have done or answered anything.
CallOK(s) ==
    /\ s.pc = "get" => records[s.key] # Null
    /\ Working(s) => records[s.key] = [request |-> s.request, answer |-> Null]
    /\ s.pc = "run" => performed[s.key] = <<>>
    /\ s.pc \in {"answer", "complete"} => performed[s.key] = <<s.request>>
    /\ s.pc = "answer" => given[s.key] = {}
    /\ s.pc = "complete" => given[s.key] \subseteq {<<s.request, s.answer>>}

OneWorks ==
    \A c, d \in Calls :
        Working(calls[c]) /\ Working(calls[d]) /\ calls[c].key = calls[d].key => c = d

OnceInv ==
    /\ \A k \in Keys : KeyOK(k)
    /\ \A c \in Calls : CallOK(calls[c])
    /\ OneWorks

IInv == TypeInv /\ OnceInv

-------------------------------------------------------------------------------
(***************************************************************************)
(* Steps that leave most of the tables alone.                              *)
(***************************************************************************)
LEMMA NoCallType == NoCall \in Call /\ InHand(NoCall) /\ ~Working(NoCall)
  BY DEF NoCall, Call, InHand, Working

\* A call moves on or returns; tables and history stay, and it claims nothing.
LEMMA CallMoves ==
    ASSUME IInv, NEW c \in Calls, NEW t \in Call, InHand(t), CallOK(t),
           Working(t) => Working(calls[c]) /\ t.key = calls[c].key,
           calls' = [calls EXCEPT ![c] = t],
           UNCHANGED <<records, performed, given>>,
           begun' \in Nat, faults' \in Nat
    PROVE  IInv'
  <1>1. TypeInv'
    BY DEF IInv, TypeInv, TypeOK, InHand
  <1>2. \A d \in Calls : calls'[d] = IF d = c THEN t ELSE calls[d]
    BY DEF IInv, TypeInv, TypeOK
  <1>3. \A k \in Keys : KeyOK(k)'
    BY DEF IInv, OnceInv, KeyOK
  <1>4. \A d \in Calls : CallOK(calls[d])'
    BY <1>2 DEF IInv, OnceInv, CallOK, Working
  <1>5. OneWorks'
    BY <1>2 DEF IInv, OnceInv, OneWorks, Working
  <1> QED BY <1>1, <1>3, <1>4, <1>5 DEF IInv, OnceInv

LEMMA CallReturns ==
    ASSUME IInv, NEW c \in Calls, Return(c),
           UNCHANGED <<records, performed, given>>,
           begun' \in Nat, faults' \in Nat
    PROVE  IInv'
  <1>1. CallOK(NoCall)
    BY DEF CallOK, NoCall, Working
  <1> QED BY <1>1, NoCallType, CallMoves DEF Return

\* A call at step pc works for a key: the tables of that key change, and no
\* other call knows anything about them.
LEMMA KeyChanges ==
    ASSUME IInv, TypeOK', NEW c \in Calls, NEW k \in Keys, NEW t \in Call, InHand(t),
           calls' = [calls EXCEPT ![c] = t],
           KeyOK(k)', CallOK(t)',
           Working(t) => t.key = k,
           \A j \in Keys \ {k} : /\ records'[j] = records[j]
                                 /\ performed'[j] = performed[j]
                                 /\ given'[j] = given[j],
           records'[k] # Null,
           \A d \in Calls \ {c} : Working(calls[d]) => calls[d].key # k
    PROVE  IInv'
  <1>1. \A d \in Calls : calls'[d] = IF d = c THEN t ELSE calls[d]
    BY DEF IInv, TypeInv, TypeOK
  <1>2. TypeInv'
    BY <1>1 DEF IInv, TypeInv, InHand
  <1>3. ASSUME NEW j \in Keys PROVE KeyOK(j)'
    <2>1. CASE j = k
      BY <2>1
    <2>2. CASE j # k
      <3>1. KeyOK(j)
        BY DEF IInv, OnceInv
      <3> QED BY <2>2, <3>1 DEF KeyOK
    <2> QED BY <2>1, <2>2
  <1>4. ASSUME NEW d \in Calls PROVE CallOK(calls[d])'
    <2>1. CASE d = c
      BY <1>1, <2>1 DEF CallOK, Working
    <2>2. CASE d # c
      <3>1. CallOK(calls[d]) /\ InHand(calls[d]) /\ calls'[d] = calls[d]
        BY <1>1, <2>2 DEF IInv, OnceInv, TypeInv
      <3>2. CASE calls[d].pc = "get"
        BY <3>1, <3>2 DEF CallOK, Working, InHand
      <3>3. CASE Working(calls[d])
        <4>1. calls[d].key \in Keys \ {k}
          BY <2>2, <3>1, <3>3 DEF InHand, Working
        <4> QED BY <3>1, <3>3, <4>1 DEF CallOK, Working
      <3>4. CASE calls[d].pc # "get" /\ ~Working(calls[d])
        BY <3>1, <3>4 DEF CallOK, Working
      <3> QED BY <3>2, <3>3, <3>4
    <2> QED BY <2>1, <2>2
  <1>5. OneWorks'
    BY <1>1 DEF IInv, OnceInv, OneWorks, Working
  <1> QED BY <1>2, <1>3, <1>4, <1>5 DEF IInv, OnceInv

\* While a key has no row, or when its row has an answer, no call works for it.
LEMMA NobodyWorks ==
    ASSUME IInv, NEW k \in Keys, records[k] = Null \/ records[k].answer # Null
    PROVE  \A d \in Calls : Working(calls[d]) => calls[d].key # k
  <1>1. ASSUME NEW d \in Calls, Working(calls[d]), calls[d].key = k PROVE FALSE
    <2>1. records[k] = [request |-> calls[d].request, answer |-> Null]
      BY <1>1 DEF IInv, OnceInv, CallOK
    <2>2. calls[d].request \in Requests
      BY <1>1 DEF IInv, TypeInv, InHand, Working
    <2> QED BY <2>1, <2>2, NoRecordAssumption DEF Record
  <1> QED BY <1>1

-------------------------------------------------------------------------------
(***************************************************************************)
(* The steps of a call.                                                    *)
(***************************************************************************)
LEMMA ArriveStep ==
    ASSUME IInv, NEW c \in Calls, NEW k \in Keys, NEW r \in Requests, Arrive(c, k, r)
    PROVE  IInv'
  <1> DEFINE t == [NoCall EXCEPT !.pc = "reserve", !.key = k, !.request = r]
  <1>1. t \in Call /\ InHand(t) /\ CallOK(t) /\ ~Working(t)
    BY DEF NoCall, Call, InHand, CallOK, Working
  <1>2. calls' = [calls EXCEPT ![c] = t] /\ begun' \in Nat /\ faults' \in Nat
    BY DEF Arrive, IInv, TypeInv, TypeOK
  <1>3. UNCHANGED <<records, performed, given>>
    BY DEF Arrive
  <1> QED BY <1>1, <1>2, <1>3, CallMoves

\* The row of a new reservation, whether the call learns of it or not.
LEMMA Reserved ==
    ASSUME IInv, NEW c \in Calls, NEW t \in Call, InHand(t),
           LET k == calls[c].key
               row == [request |-> calls[c].request, answer |-> Null]
           IN /\ calls[c].pc = "reserve"
              /\ records[k] = Null
              /\ records' = [records EXCEPT ![k] = row]
              /\ t = NoCall \/ t = [calls[c] EXCEPT !.pc = "run"],
           calls' = [calls EXCEPT ![c] = t],
           UNCHANGED <<performed, given>>, begun' \in Nat, faults' \in Nat
    PROVE  IInv'
  <1>1. PICK k \in Keys, r \in Requests :
          /\ calls[c].key = k /\ calls[c].request = r /\ records[k] = Null
          /\ records' = [records EXCEPT ![k] = [request |-> r, answer |-> Null]]
    BY DEF IInv, TypeInv, InHand
  <1>2. records'[k] = [request |-> r, answer |-> Null] /\ records'[k] # Null
    BY <1>1, NoRecordAssumption DEF IInv, TypeInv, TypeOK, Record
  <1>3. TypeOK'
    BY <1>1 DEF IInv, TypeInv, TypeOK, Record
  <1>4. performed[k] = <<>> /\ given[k] = {}
    BY <1>1 DEF IInv, OnceInv, KeyOK
  <1>5. KeyOK(k)'
    BY <1>2, <1>4 DEF KeyOK
  <1>6. CallOK(t)' /\ (Working(t) => t.key = k)
    <2>1. CASE t = NoCall
      BY <2>1 DEF CallOK, NoCall, Working
    <2>2. CASE t = [calls[c] EXCEPT !.pc = "run"]
      <3>1. t.pc = "run" /\ t.key = k /\ t.request = r
        BY <1>1, <2>2 DEF IInv, TypeInv, TypeOK, Call
      <3> QED BY <1>2, <1>4, <3>1 DEF CallOK, Working
    <2> QED BY <2>1, <2>2
  <1>7. \A d \in Calls \ {c} : Working(calls[d]) => calls[d].key # k
    BY <1>1, NobodyWorks
  <1>8. \A j \in Keys \ {k} : records'[j] = records[j]
    BY <1>1 DEF IInv, TypeInv, TypeOK
  <1> QED BY <1>2, <1>3, <1>5, <1>6, <1>7, <1>8, KeyChanges

LEMMA ReserveStep ==
    ASSUME IInv, NEW c \in Calls, Reserve(c)
    PROVE  IInv'
  <1>1. /\ calls[c].pc = "reserve" /\ calls[c] \in Call /\ InHand(calls[c])
        /\ UNCHANGED <<performed, given>> /\ begun' \in Nat /\ faults' \in Nat
    BY DEF Reserve, IInv, TypeInv, TypeOK
  <1>2. CASE records[calls[c].key] = Null
    <2>1. PICK t : t = [calls[c] EXCEPT !.pc = "run"]
      OBVIOUS
    <2>2. t \in Call /\ InHand(t)
      BY <1>1, <2>1 DEF Call, InHand
    <2>3. calls' = [calls EXCEPT ![c] = t]
      BY <1>2, <2>1 DEF Reserve, Goto
    <2>4. records' = [records EXCEPT ![calls[c].key] =
                         [request |-> calls[c].request, answer |-> Null]]
      BY <1>2 DEF Reserve
    <2> QED BY <1>1, <1>2, <2>1, <2>2, <2>3, <2>4, Reserved
  <1>3. CASE records[calls[c].key] # Null
    <2>1. PICK t : t = [calls[c] EXCEPT !.pc = "get"]
      OBVIOUS
    <2>2. t \in Call /\ InHand(t) /\ t.pc = "get" /\ t.key = calls[c].key
      BY <1>1, <2>1 DEF Call, InHand
    <2>3. calls' = [calls EXCEPT ![c] = t] /\ records' = records
      BY <1>3, <2>1 DEF Reserve, Goto
    <2>4. CallOK(t) /\ ~Working(t)
      BY <1>3, <2>2 DEF CallOK, Working
    <2> QED BY <1>1, <2>2, <2>3, <2>4, CallMoves
  <1> QED BY <1>2, <1>3

\* The calls that neither write the table nor add to what clients were given.
LEMMA GetStep ==
    ASSUME IInv, NEW c \in Calls, Get(c)
    PROVE  IInv'
  <1>1. /\ calls[c].key \in Keys /\ calls[c].request \in Requests
        /\ records[calls[c].key] # Null
        /\ Return(c) /\ UNCHANGED <<records, performed, begun, faults>>
    BY DEF Get, IInv, TypeInv, InHand, OnceInv, CallOK
  <1>2. PICK k \in Keys, r \in Requests : calls[c].key = k /\ calls[c].request = r
    BY <1>1
  <1>3. CASE ~(records[k].request = r /\ records[k].answer # Null)
    <2>1. given' = given
      BY <1>2, <1>3 DEF Get
    <2> QED BY <1>1, <2>1, CallReturns DEF IInv, TypeInv, TypeOK
  <1>4. CASE records[k].request = r /\ records[k].answer # Null
    <2>1. PICK a \in Answers : records[k] = [request |-> r, answer |-> a] /\ a # Null
      BY <1>1, <1>2, <1>4 DEF IInv, TypeInv, TypeOK, Record
    <2>2. given' = [given EXCEPT ![k] = given[k] \cup {<<r, a>>}]
      BY <1>2, <1>4, <2>1 DEF Get
    <2>3. /\ given[k] \subseteq {<<r, a>>} /\ performed[k] # <<>>
          /\ performed[k] \in {<<>>, <<r>>}
      BY <1>1, <1>2, <2>1 DEF IInv, OnceInv, KeyOK
    <2>4. calls' = [calls EXCEPT ![c] = NoCall]
      BY <1>1 DEF Return
    <2>5. TypeOK'
      BY <1>1, <2>2, <2>4, NoCallType DEF IInv, TypeInv, TypeOK
    <2>6. /\ given'[k] \subseteq {<<r, a>>}
          /\ \A j \in Keys \ {k} : given'[j] = given[j]
      BY <2>2, <2>3 DEF IInv, TypeInv, TypeOK
    <2>7. KeyOK(k)'
      BY <1>1, <1>2, <2>1, <2>3, <2>6 DEF KeyOK
    <2>8. CallOK(NoCall)'
      BY DEF CallOK, NoCall, Working
    <2>9. \A d \in Calls : Working(calls[d]) => calls[d].key # k
      BY <2>1, NobodyWorks
    <2>10. /\ records'[k] # Null
           /\ \A j \in Keys \ {k} : /\ records'[j] = records[j]
                                   /\ performed'[j] = performed[j]
      BY <1>1, <1>2
    <2> QED BY <2>4, <2>5, <2>6, <2>7, <2>8, <2>9, <2>10, NoCallType, KeyChanges
  <1> QED BY <1>3, <1>4

\* What a call at work finds.
LEMMA AtWork ==
    ASSUME IInv, NEW c \in Calls, Working(calls[c])
    PROVE  /\ calls[c] \in Call /\ InHand(calls[c]) /\ CallOK(calls[c])
           /\ calls[c].key \in Keys /\ calls[c].request \in Requests
           /\ records[calls[c].key] = [request |-> calls[c].request, answer |-> Null]
           /\ records[calls[c].key] # Null
           /\ KeyOK(calls[c].key)
           /\ \A d \in Calls \ {c} : Working(calls[d]) => calls[d].key # calls[c].key
  <1>1. /\ calls[c] \in Call /\ InHand(calls[c]) /\ CallOK(calls[c])
        /\ calls[c].key \in Keys /\ calls[c].request \in Requests
    BY DEF IInv, TypeInv, TypeOK, OnceInv, InHand, Working
  <1>2. records[calls[c].key] = [request |-> calls[c].request, answer |-> Null]
    BY <1>1 DEF CallOK
  <1> QED BY <1>1, <1>2, NoRecordAssumption DEF Record, IInv, OnceInv, OneWorks

LEMMA RunStep ==
    ASSUME IInv, NEW c \in Calls, Run(c)
    PROVE  IInv'
  <1>1. Working(calls[c]) /\ calls[c].pc = "run"
    BY DEF Run, Working
  <1>2. PICK k \in Keys, r \in Requests : calls[c].key = k /\ calls[c].request = r
    BY <1>1, AtWork
  <1>3. PICK t : t = [calls[c] EXCEPT !.pc = "answer"]
    OBVIOUS
  <1>4. /\ t \in Call /\ InHand(t)
        /\ t.pc = "answer" /\ t.key = k /\ t.request = r
    BY <1>1, <1>2, <1>3, AtWork DEF Call, InHand
  <1>5. /\ performed[k] = <<>> /\ given[k] = {}
        /\ records[k] = [request |-> r, answer |-> Null] /\ records[k] # Null
    BY <1>1, <1>2, AtWork DEF CallOK, KeyOK
  <1>6. /\ performed' = [performed EXCEPT ![k] = <<r>>]
        /\ calls' = [calls EXCEPT ![c] = t]
        /\ UNCHANGED <<records, given, begun, faults>>
    BY <1>2, <1>3, <1>5 DEF Run, Goto, IInv, TypeInv, TypeOK
  <1>7. TypeOK'
    BY <1>4, <1>6 DEF IInv, TypeInv, TypeOK
  <1>8. performed'[k] = <<r>> /\ \A j \in Keys \ {k} : performed'[j] = performed[j]
    BY <1>6 DEF IInv, TypeInv, TypeOK
  <1>9. KeyOK(k)' /\ CallOK(t)'
    BY <1>4, <1>5, <1>6, <1>8 DEF KeyOK, CallOK, Working
  <1>10. \A d \in Calls \ {c} : Working(calls[d]) => calls[d].key # k
    BY <1>1, <1>2, AtWork
  <1> QED BY <1>4, <1>5, <1>6, <1>7, <1>8, <1>9, <1>10, KeyChanges

LEMMA AnswerStep ==
    ASSUME IInv, NEW c \in Calls, Answer(c)
    PROVE  IInv'
  <1>1. Working(calls[c]) /\ calls[c].pc = "answer"
    BY DEF Answer, Working
  <1>2. PICK k \in Keys, r \in Requests : calls[c].key = k /\ calls[c].request = r
    BY <1>1, AtWork
  <1>3. PICK a \in Answers :
          /\ calls' = [calls EXCEPT ![c].pc = "complete", ![c].answer = a]
          /\ given' = IF calls[c].connected
                      THEN [given EXCEPT ![k] = @ \cup {<<r, a>>}]
                      ELSE given
    BY <1>2 DEF Answer
  <1>4. PICK t : t = [calls[c] EXCEPT !.pc = "complete", !.answer = a]
    OBVIOUS
  <1>5. /\ t \in Call /\ InHand(t)
        /\ t.pc = "complete" /\ t.key = k /\ t.request = r /\ t.answer = a
    BY <1>1, <1>2, <1>4, AtWork DEF Call, InHand
  <1>6. calls' = [calls EXCEPT ![c] = t]
    BY <1>3, <1>4 DEF IInv, TypeInv, TypeOK
  <1>7. /\ performed[k] = <<r>> /\ given[k] = {}
        /\ records[k] = [request |-> r, answer |-> Null] /\ records[k] # Null
    BY <1>1, <1>2, AtWork DEF CallOK
  <1>8. UNCHANGED <<records, performed, begun, faults>>
    BY DEF Answer
  <1>9. TypeOK'
    <2>1. given' \in [Keys -> SUBSET (Requests \X Answers)]
      BY <1>3 DEF IInv, TypeInv, TypeOK
    <2> QED BY <1>5, <1>6, <1>8, <2>1 DEF IInv, TypeInv, TypeOK
  <1>10. /\ given'[k] \subseteq {<<r, a>>}
         /\ \A j \in Keys \ {k} : given'[j] = given[j]
    BY <1>3, <1>7 DEF IInv, TypeInv, TypeOK
  <1>11. KeyOK(k)'
    <2>1. /\ performed'[k] = <<r>>
          /\ records'[k] = [request |-> r, answer |-> Null] /\ records'[k] # Null
      BY <1>7, <1>8
    <2>2. <<r>> # <<>>
      OBVIOUS
    <2> QED BY <2>1, <2>2 DEF KeyOK
  <1>12. CallOK(t)'
    BY <1>5, <1>7, <1>8, <1>10 DEF CallOK
  <1>13. \A d \in Calls \ {c} : Working(calls[d]) => calls[d].key # k
    BY <1>1, <1>2, AtWork
  <1> QED BY <1>5, <1>6, <1>7, <1>8, <1>9, <1>10, <1>11, <1>12, <1>13, KeyChanges

\* The row gets the answer, whether the call learns of it or not.
LEMMA Completed ==
    ASSUME IInv, NEW c \in Calls, calls[c].pc = "complete", Return(c),
           records[calls[c].key].answer = Null =>
               records' = [records EXCEPT ![calls[c].key].answer = calls[c].answer],
           UNCHANGED <<performed, given>>, begun' \in Nat, faults' \in Nat
    PROVE  IInv'
  <1>1. Working(calls[c]) /\ calls[c].pc = "complete"
    BY DEF Working
  <1>2. PICK k \in Keys, r \in Requests, a \in Answers :
          calls[c].key = k /\ calls[c].request = r /\ calls[c].answer = a
    BY <1>1, AtWork DEF InHand
  <1>3. /\ performed[k] = <<r>> /\ given[k] \subseteq {<<r, a>>}
        /\ records[k] = [request |-> r, answer |-> Null] /\ records[k] # Null
    BY <1>1, <1>2, AtWork DEF CallOK
  <1>4. /\ records' = [records EXCEPT ![k].answer = a]
        /\ calls' = [calls EXCEPT ![c] = NoCall]
        /\ UNCHANGED <<performed, given>>
    BY <1>2, <1>3 DEF Return
  <1>5. records'[k] = [request |-> r, answer |-> a] /\ records'[k] \in Record
    BY <1>3, <1>4 DEF IInv, TypeInv, TypeOK, Record
  <1>6. \A j \in Keys \ {k} : records'[j] = records[j]
    BY <1>4 DEF IInv, TypeInv, TypeOK
  <1>7. TypeOK'
    BY <1>4, <1>5, <1>6, NoCallType DEF IInv, TypeInv, TypeOK
  <1>8. records'[k] # Null
    BY <1>5, NoRecordAssumption
  <1>9. KeyOK(k)'
    <2>1. performed'[k] = <<r>> /\ given'[k] \subseteq {<<r, a>>}
      BY <1>3, <1>4
    <2>2. <<r>> # <<>>
      OBVIOUS
    <2> QED BY <1>5, <1>8, <2>1, <2>2 DEF KeyOK
  <1>10. CallOK(NoCall)'
    BY DEF CallOK, NoCall, Working
  <1>11. \A d \in Calls \ {c} : Working(calls[d]) => calls[d].key # k
    BY <1>1, <1>2, AtWork
  <1> QED BY <1>4, <1>6, <1>7, <1>8, <1>9, <1>10, <1>11, NoCallType, KeyChanges

LEMMA CompleteStep ==
    ASSUME IInv, NEW c \in Calls, Complete(c)
    PROVE  IInv'
  BY Completed DEF Complete, IInv, TypeInv, TypeOK

LEMMA DisconnectStep ==
    ASSUME IInv, NEW c \in Calls, Disconnect(c)
    PROVE  IInv'
  <1>1. PICK t : t = [calls[c] EXCEPT !.connected = FALSE]
    OBVIOUS
  <1>2. /\ calls[c] \in Call /\ InHand(calls[c]) /\ CallOK(calls[c])
    BY DEF IInv, TypeInv, TypeOK, OnceInv
  <1>3. /\ t \in Call /\ t.pc = calls[c].pc /\ t.key = calls[c].key
        /\ t.request = calls[c].request /\ t.answer = calls[c].answer
    BY <1>1, <1>2 DEF Call
  <1>4. InHand(t) /\ CallOK(t) /\ (Working(t) => Working(calls[c]))
    BY <1>2, <1>3 DEF InHand, CallOK, Working
  <1>5. calls' = [calls EXCEPT ![c] = t]
    BY <1>1 DEF Disconnect, IInv, TypeInv, TypeOK
  <1>6. /\ UNCHANGED <<records, performed, given>>
        /\ begun' \in Nat /\ faults' \in Nat
    BY DEF Disconnect, IInv, TypeInv, TypeOK
  <1> QED BY <1>3, <1>4, <1>5, <1>6, CallMoves

LEMMA StatementFailsStep ==
    ASSUME IInv, NEW c \in Calls, StatementFails(c)
    PROVE  IInv'
  <1>1. /\ UNCHANGED <<performed, given>> /\ begun' \in Nat /\ faults' \in Nat
        /\ Return(c)
    BY DEF StatementFails, IInv, TypeInv, TypeOK
  <1>2. CASE records' = records
    BY <1>1, <1>2, CallReturns
  <1>3. CASE /\ calls[c].pc = "reserve"
             /\ records[calls[c].key] = Null
             /\ records' = [records EXCEPT ![calls[c].key] =
                               [request |-> calls[c].request, answer |-> Null]]
    BY <1>1, <1>3, NoCallType, Reserved DEF Return
  <1>4. CASE /\ calls[c].pc = "complete"
             /\ records' = [records EXCEPT ![calls[c].key].answer = calls[c].answer]
    BY <1>1, <1>4, Completed
  <1> QED BY <1>2, <1>3, <1>4 DEF StatementFails

LEMMA CrashStep ==
    ASSUME IInv, Crash
    PROVE  IInv'
  <1>1. TypeInv'
    BY NoCallType DEF Crash, IInv, TypeInv, TypeOK
  <1>2. \A k \in Keys : KeyOK(k)'
    BY DEF Crash, IInv, OnceInv, KeyOK
  <1>3. (\A c \in Calls : CallOK(calls[c])') /\ OneWorks'
    BY DEF Crash, NoCall, CallOK, OneWorks, Working
  <1> QED BY <1>1, <1>2, <1>3 DEF IInv, OnceInv

LEMMA InitOK == Init => IInv
  <1> SUFFICES ASSUME Init PROVE IInv
    OBVIOUS
  <1>1. TypeInv
    BY NoCallType DEF Init, TypeInv, TypeOK
  <1>2. OnceInv
    BY DEF Init, OnceInv, KeyOK, CallOK, OneWorks, NoCall, Working
  <1> QED BY <1>1, <1>2 DEF IInv

LEMMA NextStep == IInv /\ [Next]_vars => IInv'
  <1> SUFFICES ASSUME IInv, [Next]_vars PROVE IInv'
    OBVIOUS
  <1>1. CASE \E c \in Calls, k \in Keys, r \in Requests : Arrive(c, k, r)
    BY <1>1, ArriveStep
  <1>2. CASE \E c \in Calls : Handle(c)
    BY <1>2, ReserveStep, GetStep, RunStep, AnswerStep, CompleteStep DEF Handle
  <1>3. CASE \E c \in Calls : Disconnect(c) \/ StatementFails(c)
    BY <1>3, DisconnectStep, StatementFailsStep
  <1>4. CASE Crash
    BY <1>4, CrashStep
  <1>5. CASE UNCHANGED vars
    BY <1>5 DEF vars, IInv, TypeInv, TypeOK, OnceInv, KeyOK, CallOK, OneWorks, Working
  <1> QED BY <1>1, <1>2, <1>3, <1>4, <1>5 DEF Next

-------------------------------------------------------------------------------
(***************************************************************************)
(* The theorems.                                                           *)
(***************************************************************************)
\* A reservation is worth what it says: whoever works under a key is the only
\* one to do so, and a row and its history never disagree.
THEOREM IdempotencyCorrect == Spec => []IInv
  BY InitOK, NextStep, PTL DEF Spec

\* The table, the calls and the histories keep their types.
THEOREM IdempotencyTypeCorrect == Spec => []TypeOK
  <1>1. IInv => TypeOK
    BY DEF IInv, TypeInv
  <1> QED BY <1>1, IdempotencyCorrect, PTL

\* A row never says anything else than what clients were answered, for any
\* number of calls, keys and faults.
THEOREM StoredIsGivenCorrect == Spec => []StoredIsGiven
  <1>1. IInv => StoredIsGiven
    <2> SUFFICES ASSUME IInv, NEW k \in Keys, NEW x \in given[k]
                 PROVE  records[k] # Null /\ records[k].answer \in {Null, x[2]}
      BY DEF StoredIsGiven
    <2>1. KeyOK(k)
      BY DEF IInv, OnceInv
    <2>2. records[k] # Null
      BY <2>1 DEF KeyOK
    <2>3. CASE records[k].answer # Null
      <3>1. x = <<records[k].request, records[k].answer>>
        BY <2>1, <2>2, <2>3 DEF KeyOK
      <3> QED BY <2>2, <3>1
    <2> QED BY <2>2, <2>3
  <1> QED BY <1>1, IdempotencyCorrect, PTL

\* Each step is one that AtMostOnce allows, or none: starting the handler is
\* Perform, its answer and a replay are Give.
LEMMA RunPerforms ==
    ASSUME IInv, NEW c \in Calls, Run(c)
    PROVE  \E k \in Keys, r \in Requests : Once!Perform(k, r)
  <1>1. Working(calls[c]) /\ calls[c].pc = "run"
    BY DEF Run, Working
  <1>2. PICK k \in Keys, r \in Requests : calls[c].key = k /\ calls[c].request = r
    BY <1>1, AtWork
  <1>3. performed[k] = <<>>
    BY <1>1, <1>2, AtWork DEF CallOK
  <1>4. performed' = [performed EXCEPT ![k] = <<r>>] /\ UNCHANGED given
    BY <1>2, <1>3 DEF Run, IInv, TypeInv, TypeOK
  <1> QED BY <1>3, <1>4 DEF Once!Perform

LEMMA GivenOnce ==
    ASSUME IInv, NEW k \in Keys, NEW r \in Requests, NEW a \in Answers,
           performed[k] = <<r>>, given[k] \subseteq {<<r, a>>},
           given' = [given EXCEPT ![k] = given[k] \cup {<<r, a>>}],
           UNCHANGED performed
    PROVE  Once!Give(k, r, a)
  <1>1. given[k] \cup {<<r, a>>} = {<<r, a>>}
    OBVIOUS
  <1> QED BY <1>1 DEF Once!Give

LEMMA AnswerGives ==
    ASSUME IInv, NEW c \in Calls, Answer(c)
    PROVE  \/ \E k \in Keys, r \in Requests, a \in Answers : Once!Give(k, r, a)
           \/ UNCHANGED <<performed, given>>
  <1>1. Working(calls[c]) /\ calls[c].pc = "answer"
    BY DEF Answer, Working
  <1>2. PICK k \in Keys, r \in Requests : calls[c].key = k /\ calls[c].request = r
    BY <1>1, AtWork
  <1>3. performed[k] = <<r>> /\ given[k] = {}
    BY <1>1, <1>2, AtWork DEF CallOK
  <1>4. UNCHANGED performed
    BY DEF Answer
  <1>5. PICK a \in Answers :
          given' = IF calls[c].connected
                   THEN [given EXCEPT ![k] = given[k] \cup {<<r, a>>}]
                   ELSE given
    BY <1>2 DEF Answer
  <1> QED BY <1>3, <1>4, <1>5, GivenOnce

LEMMA GetGives ==
    ASSUME IInv, NEW c \in Calls, Get(c)
    PROVE  \/ \E k \in Keys, r \in Requests, a \in Answers : Once!Give(k, r, a)
           \/ UNCHANGED <<performed, given>>
  <1>1. /\ calls[c].key \in Keys /\ calls[c].request \in Requests
        /\ records[calls[c].key] # Null
        /\ UNCHANGED performed
    BY DEF Get, IInv, TypeInv, InHand, OnceInv, CallOK
  <1>2. PICK k \in Keys, r \in Requests : calls[c].key = k /\ calls[c].request = r
    BY <1>1
  <1>3. CASE ~(records[k].request = r /\ records[k].answer # Null)
    BY <1>1, <1>2, <1>3 DEF Get
  <1>4. CASE records[k].request = r /\ records[k].answer # Null
    <2>1. PICK a \in Answers : records[k] = [request |-> r, answer |-> a] /\ a # Null
      BY <1>1, <1>2, <1>4 DEF IInv, TypeInv, TypeOK, Record
    <2>2. given' = [given EXCEPT ![k] = given[k] \cup {<<r, a>>}]
      BY <1>2, <1>4, <2>1 DEF Get
    <2>3. given[k] \subseteq {<<r, a>>} /\ performed[k] = <<r>>
      BY <1>1, <1>2, <2>1 DEF IInv, OnceInv, KeyOK
    <2> QED BY <1>1, <2>2, <2>3, GivenOnce
  <1> QED BY <1>3, <1>4

\* Under a key one request is carried out, once, and one answer is given: for
\* any number of keys, requests, overlapping calls and faults.
THEOREM IdempotencyImplementsAtMostOnce == Spec => ImplementsAtMostOnce
  <1>1. Init => Once!Init
    BY DEF Init, Once!Init
  <1>2. IInv /\ [Next]_vars => [Once!Next]_<<performed, given>>
    <2> SUFFICES ASSUME IInv, [Next]_vars,
                        ~ UNCHANGED <<performed, given>>
                 PROVE  Once!Next
      OBVIOUS
    <2>1. CASE \E c \in Calls : Run(c)
      BY <2>1, RunPerforms DEF Once!Next
    <2>2. CASE \E c \in Calls : Answer(c) \/ Get(c)
      BY <2>2, AnswerGives, GetGives DEF Once!Next
    <2>3. CASE \E c \in Calls :
                 \/ \E k \in Keys, r \in Requests : Arrive(c, k, r)
                 \/ Reserve(c) \/ Complete(c) \/ Disconnect(c) \/ StatementFails(c)
      BY <2>3 DEF Arrive, Reserve, Complete, Disconnect, StatementFails
    <2>4. CASE Crash \/ UNCHANGED vars
      BY <2>4 DEF Crash, vars
    <2> QED BY <2>1, <2>2, <2>3, <2>4 DEF Next, Handle
  <1> QED BY <1>1, <1>2, IdempotencyCorrect, PTL
          DEF Spec, ImplementsAtMostOnce, Once!Spec

-------------------------------------------------------------------------------
(***************************************************************************)
(* When "already in progress" is true.                                     *)
(***************************************************************************)
\* A reservation without an answer, carried out or not, has a call at work.
ReservedIsAtWork ==
    \A k \in Keys :
        records[k] # Null /\ records[k].answer = Null =>
            \E c \in Calls : /\ calls[c].key = k
                             /\ calls[c].pc \in {"run", "answer", "complete"}

\* Every client has waited for its answer so far, and nothing has failed.
Smooth == faults = 0 /\ \A c \in Calls : calls[c].connected

\* A call at work goes on working or stores its answer.
LEMMA SmoothStep ==
    ASSUME IInv, IInv', ReservedIsAtWork, Smooth, Smooth', [Next]_vars
    PROVE  ReservedIsAtWork'
  <1>0. calls \in [Calls -> Call] /\ records \in [Keys -> Record \cup {Null}]
    BY DEF IInv, TypeInv, TypeOK
  <1> SUFFICES ASSUME NEW k \in Keys, records'[k] # Null, records'[k].answer = Null
               PROVE  \E c \in Calls : calls'[c].key = k /\ Working(calls'[c])
    BY DEF ReservedIsAtWork, Working
  \* The call that holds the key stays at work.
  <1>1. ASSUME records[k] # Null, records[k].answer = Null,
               \A c \in Calls : Working(calls[c]) /\ calls[c].key = k =>
                   Working(calls'[c]) /\ calls'[c].key = k
        PROVE  \E c \in Calls : calls'[c].key = k /\ Working(calls'[c])
    BY <1>1 DEF ReservedIsAtWork, Working
  <1>2. ASSUME NEW c \in Calls, Reserve(c)
        PROVE  \E d \in Calls : calls'[d].key = k /\ Working(calls'[d])
    <2>1. CASE records[calls[c].key] = Null /\ calls[c].key = k
      <3>1. calls' = [calls EXCEPT ![c].pc = "run"]
        BY <1>2, <2>1 DEF Reserve, Goto
      <3>2. calls'[c].key = k /\ calls'[c].pc = "run"
        BY <1>0, <2>1, <3>1 DEF Call
      <3> QED BY <3>2 DEF Working
    <2>2. CASE ~(records[calls[c].key] = Null /\ calls[c].key = k)
      <3>1. records'[k] = records[k] /\ calls[c].pc = "reserve"
        BY <1>0, <1>2, <2>2 DEF Reserve
      <3>2. \A d \in Calls \ {c} : calls'[d] = calls[d]
        BY <1>0, <1>2 DEF Reserve, Goto
      <3> QED BY <1>1, <3>1, <3>2 DEF Working
    <2> QED BY <2>1, <2>2
  <1>3. ASSUME NEW c \in Calls, Complete(c)
        PROVE  \E d \in Calls : calls'[d].key = k /\ Working(calls'[d])
    <2>1. calls[c].pc = "complete" /\ \A d \in Calls \ {c} : calls'[d] = calls[d]
      BY <1>0, <1>3 DEF Complete, Return
    <2>2. calls[c].key # k
      <3> SUFFICES ASSUME calls[c].key = k PROVE FALSE
        OBVIOUS
      <3>1. /\ records[k] = [request |-> calls[c].request, answer |-> Null]
            /\ calls[c].answer \in Answers
        BY <2>1 DEF IInv, OnceInv, CallOK, Working, TypeInv, InHand
      <3>2. records'[k].answer = calls[c].answer
        BY <1>0, <1>3, <3>1 DEF Complete, Record
      <3> QED BY <3>1, <3>2, NullAssumption
    <2>3. records'[k] = records[k]
      BY <1>0, <1>3, <2>2 DEF Complete
    <2> QED BY <1>1, <2>1, <2>2, <2>3
  <1>4. ASSUME NEW c \in Calls, Run(c) \/ Answer(c)
        PROVE  \E d \in Calls : calls'[d].key = k /\ Working(calls'[d])
    <2>1. records' = records /\ \A d \in Calls \ {c} : calls'[d] = calls[d]
      BY <1>0, <1>4 DEF Run, Answer, Goto
    <2>2. calls'[c].pc \in {"answer", "complete"} /\ calls'[c].key = calls[c].key
      BY <1>0, <1>4 DEF Run, Answer, Goto, Call
    <2> QED BY <1>1, <2>1, <2>2 DEF Working
  <1>5. ASSUME NEW c \in Calls,
               Get(c) \/ \E j \in Keys, r \in Requests : Arrive(c, j, r)
        PROVE  \E d \in Calls : calls'[d].key = k /\ Working(calls'[d])
    <2>1. records' = records /\ \A d \in Calls \ {c} : calls'[d] = calls[d]
      BY <1>0, <1>5 DEF Get, Arrive, Return
    <2>2. ~Working(calls[c])
      BY <1>5 DEF Get, Arrive, Working
    <2> QED BY <1>1, <2>1, <2>2
  <1>6. ASSUME NEW c \in Calls, Disconnect(c) PROVE FALSE
    <2>1. calls'[c].connected = FALSE
      BY <1>0, <1>6 DEF Disconnect, Call
    <2> QED BY <2>1 DEF Smooth
  <1>7. ASSUME NEW c \in Calls, StatementFails(c) PROVE FALSE
    BY <1>7 DEF StatementFails, Smooth
  <1>8. CASE Crash
    BY <1>8 DEF Crash, Smooth
  <1>9. CASE UNCHANGED vars
    BY <1>1, <1>9 DEF vars
  <1> QED BY <1>2, <1>3, <1>4, <1>5, <1>6, <1>7, <1>8, <1>9 DEF Next, Handle

\* Only clients that go away and failures leave keys reserved: without them a
\* key without an answer belongs to a call that is at work.
THEOREM StuckNeedsFailure == Spec /\ []Smooth => []InProgressIsTrue
  <1>1. Init => ReservedIsAtWork
    BY DEF Init, ReservedIsAtWork
  <1>2. IInv /\ IInv' /\ ReservedIsAtWork /\ Smooth /\ Smooth' /\ [Next]_vars
           => ReservedIsAtWork'
    BY SmoothStep
  <1>3. ReservedIsAtWork => InProgressIsTrue
    BY DEF ReservedIsAtWork, InProgressIsTrue
  <1> QED BY <1>1, <1>2, <1>3, IdempotencyCorrect, PTL DEF Spec
===============================================================================
