------------------------------- MODULE AtMostOnce -------------------------------
(***************************************************************************)
(* What an Idempotency-Key promises to a client (docs/agents-usage.md):    *)
(* whatever is sent under a key, one request is carried out, once, and all *)
(* that clients are ever given is the one answer to that request.          *)
(***************************************************************************)
EXTENDS Sequences

CONSTANTS Keys, Requests, Answers

VARIABLES
    performed,  \* the requests carried out under a key, in order
    given       \* the answers clients were given under a key, with the request

Init ==
    /\ performed = [k \in Keys |-> <<>>]
    /\ given = [k \in Keys |-> {}]

Perform(k, r) ==
    /\ performed[k] = <<>>
    /\ performed' = [performed EXCEPT ![k] = <<r>>]
    /\ UNCHANGED given

Give(k, r, a) ==
    /\ performed[k] = <<r>>
    /\ given[k] \subseteq {<<r, a>>}
    /\ given' = [given EXCEPT ![k] = {<<r, a>>}]
    /\ UNCHANGED performed

Next ==
    \E k \in Keys, r \in Requests :
        Perform(k, r) \/ \E a \in Answers : Give(k, r, a)

Spec == Init /\ [][Next]_<<performed, given>>
================================================================================
