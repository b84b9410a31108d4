------------------------------- MODULE Idempotency ------------------------------
(***************************************************************************)
(* WithAPIIdempotency (internal/handlers/idempotency.go) around a mutating *)
(* API handler, and the table api_idempotency (internal/db/idempotency.go) *)
(* that remembers what was answered under a key.  Calls without a key skip *)
(* all of this and are left out; so are the columns that hold times.       *)
(***************************************************************************)
EXTENDS Naturals, Sequences

CONSTANTS
    Null,
    Keys,      \* an auth scope with an Idempotency-Key
    Requests,  \* what has to match: method, path and the hash of the body
    Answers,   \* a status code with a body of at most 512 KiB: the rest of a
               \* longer one is not stored, and missing from replays
    Calls,     \* HTTP calls that can be in progress at the same time
    MaxCalls,  \* bound: calls begun
    MaxFaults  \* bound: crashes of the server and failing statements

ASSUME NullAssumption == Null \notin Answers \cup Requests \cup Keys
ASSUME CallBounds == MaxCalls \in Nat /\ MaxFaults \in Nat

VARIABLES
    records,    \* table api_idempotency: a row, or Null
    calls,      \* the local variables of each call
    performed,  \* history: the requests the handler behind was started for
    given,      \* history: the answers clients may have seen, replays included
    begun,
    faults

vars == <<records, calls, performed, given, begun, faults>>

\* status_code = 0 is the answer Null: reserved, not completed.
Record == [request : Requests, answer : Answers \cup {Null}]

ASSUME NoRecordAssumption == Null \notin Record

Call ==
    [pc : {"idle", "reserve", "get", "run", "answer", "complete"},
     key : Keys \cup {Null}, request : Requests \cup {Null},
     answer : Answers \cup {Null},
     connected : BOOLEAN]     \* r.Context() is not cancelled

NoCall ==
    [pc |-> "idle", key |-> Null, request |-> Null, answer |-> Null,
     connected |-> TRUE]

TypeOK ==
    /\ records \in [Keys -> Record \cup {Null}]
    /\ calls \in [Calls -> Call]
    /\ performed \in [Keys -> Seq(Requests)]
    /\ given \in [Keys -> SUBSET (Requests \X Answers)]
    /\ begun \in Nat
    /\ faults \in Nat

Init ==
    /\ records = [k \in Keys |-> Null]
    /\ calls = [c \in Calls |-> NoCall]
    /\ performed = [k \in Keys |-> <<>>]
    /\ given = [k \in Keys |-> {}]
    /\ begun = 0
    /\ faults = 0

-------------------------------------------------------------------------------
Goto(c, pc) == calls' = [calls EXCEPT ![c].pc = pc]
Return(c) == calls' = [calls EXCEPT ![c] = NoCall]

Arrive(c, k, r) ==
    /\ calls[c].pc = "idle"
    /\ begun < MaxCalls
    /\ begun' = begun + 1
    /\ calls' = [calls EXCEPT ![c] = [NoCall EXCEPT
                    !.pc = "reserve", !.key = k, !.request = r]]
    /\ UNCHANGED <<records, performed, given, faults>>

\* Mutant: the row is written without the request.
ReserveKeyOnly(c) ==
    LET k == calls[c].key
    IN /\ calls[c].pc = "reserve"
       /\ calls[c].connected
       /\ IF records[k] = Null
          THEN /\ records' = [records EXCEPT ![k] = [request |-> Null, answer |-> Null]]
               /\ Goto(c, "run")
          ELSE Goto(c, "get") /\ UNCHANGED records
       /\ UNCHANGED <<performed, given, begun, faults>>

\* Mutant: a reservation without an answer is taken over by the next call.
ReserveUnanswered(c) ==
    LET k == calls[c].key
        isFree == IF records[k] = Null THEN TRUE ELSE records[k].answer = Null
    IN /\ calls[c].pc = "reserve"
       /\ calls[c].connected
       /\ IF isFree
          THEN /\ records' = [records EXCEPT
                                ![k] = [request |-> calls[c].request, answer |-> Null]]
               /\ Goto(c, "run")
          ELSE Goto(c, "get") /\ UNCHANGED records
       /\ UNCHANGED <<performed, given, begun, faults>>

\* The INSERT of ReserveAPIIdempotency: the unique index lets one call through.
Reserve(c) ==
    LET k == calls[c].key
    IN /\ calls[c].pc = "reserve"
       /\ calls[c].connected
       /\ IF records[k] = Null
          THEN /\ records' = [records EXCEPT
                                ![k] = [request |-> calls[c].request, answer |-> Null]]
               /\ Goto(c, "run")
          ELSE Goto(c, "get") /\ UNCHANGED records
       /\ UNCHANGED <<performed, given, begun, faults>>

\* GetAPIIdempotency and what is made of the row: a replay for the same request
\* when there is an answer, a conflict, which tells the client nothing, if not.
Get(c) ==
    LET k == calls[c].key
        r == calls[c].request
    IN /\ calls[c].pc = "get"
       /\ calls[c].connected
       /\ given' = IF records[k].request = r /\ records[k].answer # Null
                   THEN [given EXCEPT ![k] = @ \cup {<<r, records[k].answer>>}]
                   ELSE given
       /\ Return(c)
       /\ UNCHANGED <<records, performed, begun, faults>>

\* The handler behind starts, and has whatever effects it has ...
Run(c) ==
    LET k == calls[c].key
    IN /\ calls[c].pc = "run"
       /\ performed' = [performed EXCEPT ![k] = Append(@, calls[c].request)]
       /\ Goto(c, "answer")
       /\ UNCHANGED <<records, given, begun, faults>>

\* ... and writes its answer, which is copied on its way to the client.
Answer(c) ==
    LET k == calls[c].key
    IN /\ calls[c].pc = "answer"
       /\ \E a \in Answers :
             /\ calls' = [calls EXCEPT ![c].pc = "complete", ![c].answer = a]
             /\ given' = IF calls[c].connected
                         THEN [given EXCEPT ![k] = @ \cup {<<calls[c].request, a>>}]
                         ELSE given
       /\ UNCHANGED <<records, performed, begun, faults>>

\* Mutant: the status the capturing writer starts with is stored.
CompleteUnwritten(c) ==
    LET k == calls[c].key
    IN /\ calls[c].pc = "complete"
       /\ calls[c].connected
       /\ records' = IF records[k].answer = Null
                     THEN [records EXCEPT ![k].answer = CHOOSE a \in Answers : TRUE]
                     ELSE records
       /\ Return(c)
       /\ UNCHANGED <<performed, given, begun, faults>>

\* CompleteAPIIdempotency: only a row without an answer gets one.
Complete(c) ==
    LET k == calls[c].key
    IN /\ calls[c].pc = "complete"
       /\ calls[c].connected
       /\ records' = IF records[k].answer = Null
                     THEN [records EXCEPT ![k].answer = calls[c].answer]
                     ELSE records
       /\ Return(c)
       /\ UNCHANGED <<performed, given, begun, faults>>

\* The client goes away, which cancels the context but not the handler.
Disconnect(c) ==
    /\ calls[c].pc # "idle"
    /\ calls[c].connected
    /\ calls' = [calls EXCEPT ![c].connected = FALSE]
    /\ UNCHANGED <<records, performed, given, begun, faults>>

\* The INSERT, the SELECT or the UPDATE returns an error, as it does when the
\* context is cancelled.  One that was under way may have been done all the same.
StatementFails(c) ==
    LET k == calls[c].key
    IN /\ calls[c].pc \in {"reserve", "get", "complete"}
       /\ IF calls[c].connected
          THEN faults < MaxFaults /\ faults' = faults + 1
          ELSE UNCHANGED faults
       /\ \/ UNCHANGED records
          \/ /\ calls[c].pc = "reserve"
             /\ records[k] = Null
             /\ records' = [records EXCEPT
                              ![k] = [request |-> calls[c].request, answer |-> Null]]
          \/ /\ calls[c].pc = "complete"
             /\ records[k].answer = Null
             /\ records' = [records EXCEPT ![k].answer = calls[c].answer]
       /\ Return(c)
       /\ UNCHANGED <<performed, given, begun>>

\* The server stops; it starts again with nothing in progress.
Crash ==
    /\ faults < MaxFaults
    /\ faults' = faults + 1
    /\ calls' = [c \in Calls |-> NoCall]
    /\ UNCHANGED <<records, performed, given, begun>>

Handle(c) == Reserve(c) \/ Get(c) \/ Run(c) \/ Answer(c) \/ Complete(c)

Next ==
    \/ \E c \in Calls :
          \/ \E k \in Keys, r \in Requests : Arrive(c, k, r)
          \/ Handle(c)
          \/ Disconnect(c)
          \/ StatementFails(c)
    \/ Crash

Spec == Init /\ [][Next]_vars

-------------------------------------------------------------------------------
(***************************************************************************)
(* Properties.                                                             *)
(***************************************************************************)
Once == INSTANCE AtMostOnce

\* However calls under one key overlap, fail, are cut off and are repeated, one
\* request is carried out, once, and one answer is given, in replays too.
ImplementsAtMostOnce == Once!Spec

\* A replay is what the client of the first call was answered: the row of a key
\* never says anything else than what was given, before or after.
StoredIsGiven ==
    \A k \in Keys : \A x \in given[k] :
        records[k] # Null /\ records[k].answer \in {Null, x[2]}

\* A request that was carried out and has no stored answer belongs to a call that
\* is still at work, as "already in progress" says.  Broken by a client that goes
\* away: the answer of the handler, which goes on, is never stored under the key,
\* and the same request never gets the stored response.
InProgressIsTrue ==
    \A k \in Keys :
        records[k] # Null /\ records[k].answer = Null /\ performed[k] # <<>> =>
            \E c \in Calls : /\ calls[c].key = k
                             /\ calls[c].pc \in {"run", "answer", "complete"}
================================================================================
