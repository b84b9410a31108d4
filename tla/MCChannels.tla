------------------------------- MODULE MCChannels -------------------------------
(***************************************************************************)
(* A small instance of Channels for TLC.  Handlers and tokens are          *)
(* interchangeable, and no property of the runs is a liveness property.    *)
(***************************************************************************)
EXTENDS Channels, TLC

TwoChannels == {1, 2}

ShortTexts == [length : {1, 3}, hashtags : {1}, phrases : SUBSET {"ad"}]

NoRule == [maxTextLength |-> Null, maxHashtags |-> Null, requiredPhrase |-> Blank]
OneRule == {NoRule, [NoRule EXCEPT !.maxTextLength = 2, !.requiredPhrase = "ad"]}

Alike == Permutations(Handlers) \cup Permutations(Tokens)
================================================================================
