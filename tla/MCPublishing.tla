------------------------------ MODULE MCPublishing ------------------------------
(***************************************************************************)
(* A small instance of Publishing for TLC.                                 *)
(***************************************************************************)
EXTENDS Publishing

OnePost == {1}
OneChannel == {1}
Backoff == <<1, 1, 1>>

OneRetry ==
    [c \in ChannelIds |->
        [maxRetries |-> 1, backoff |-> <<1, 1, 1>>, rateLimitBackoff |-> 1,
         maxPostsPerDay |-> Null]]
================================================================================
