------------------------------- MODULE MCWebhooks -------------------------------
(***************************************************************************)
(* Small instances of Webhooks for TLC.                                    *)
(***************************************************************************)
EXTENDS Webhooks, TLC

OneEvent == {1}
OneUrl == <<"u1">>
TwoUrls == <<"u1", "u2">>

Alike == Permutations(Replayers)
================================================================================
